----------------------------- MODULE GpuDecode -----------------------------
(***************************************************************************)
(* One token after another decoded on the GPU: UnlockedBrowserTransformer- *)
(* Backend.decode, the kernels of the WebGPU backend it calls, and the     *)
(* command batch that holds a token's commands back until one submit.      *)
(*                                                                         *)
(* A tensor is named after its token, its layer and what it is.  It stands *)
(* for its buffer and for the parameters and uncached weights the kernel   *)
(* made it retain, which live and die with it.  What is computed is left   *)
(* out; what matters is when a value is there to be read: a cell <<b, i>>, *)
(* row i of buffer b, is written once a submitted command computed it from *)
(* cells that were written.                                                *)
(*                                                                         *)
(* Models with more than one attention head.  Weights cached in the        *)
(* backend are never destroyed while it decodes.                           *)
(***************************************************************************)
EXTENDS Naturals, Sequences, SequencesExt

CONSTANTS
    Setups,     \* [mode, gpu, candidates, layers, finalNorm, maxFaults]
    Prompt,     \* rows a prefill leaves
    Slack,      \* spare rows of a new row cache (64)
    MaxTokens   \* tokens of the request

ASSUME SetupsAreKnown ==
    \A s \in Setups :
        /\ s.mode \in {"required", "preferred", "auto"}
        /\ s.gpu \in BOOLEAN /\ s.candidates \in BOOLEAN /\ s.finalNorm \in BOOLEAN
        /\ s.maxFaults \in Nat
ASSUME LayersAreShapes ==
    \A s \in Setups :
        /\ s.layers \in Seq([norm : BOOLEAN, post : BOOLEAN, mlp : BOOLEAN, qwen : BOOLEAN])
        /\ s.layers # <<>>
ASSUME PromptIsNotEmpty == Prompt \in Nat \ {0} /\ Slack \in Nat /\ MaxTokens \in Nat

VARIABLES
    setup,        \* weights and options of the backend
    pc, layer, token,
    done,         \* kernels run of the current stage
    live,         \* buffers that exist
    written,      \* cells that hold what was asked for
    batching,     \* the token has a command batch
    cmds,         \* what it recorded
    deferred,     \* tensors it destroys after its submit
    cleaning,     \* submitted batches' tensors, until onSubmittedWorkDone
    hidden,       \* currentHiddenResident
    attention,    \* the resident output of the attention
    scope,        \* residentTensors of the helper that runs
    remembered,   \* decodeResidentTensors
    rows,         \* the row caches of each layer: residentCompactK and V
    hasLogits,
    reading,      \* cells on their way to the CPU
    faults

vars == <<setup, pc, layer, token, done, live, written, batching, cmds, deferred,
          cleaning, hidden, attention, scope, remembered, rows, hasLogits, reading, faults>>

gpu == <<live, written, cmds, deferred, cleaning>>
run == <<setup, token, batching, rows, hasLogits>>

Required == setup.mode = "required"
Shape == setup.layers[layer]
Depth == Len(setup.layers)

\* The value is a vector in CPU memory.
Vector == <<0, 0, "vector">>
Buf(what) == <<token, layer, what>>
Value(b) == <<b, 1>>
RowBuffer(l, n, x) == <<n, l, x>>
RowCells(l, r, x) == {<<RowBuffer(l, r.version, x), i>> : i \in 1..r.count}
NoRows == [version |-> 0, count |-> 0, capacity |-> 0]

Init ==
    /\ setup \in Setups
    /\ pc = "idle" /\ layer = 0 /\ token = 0 /\ done = 0
    /\ live = {} /\ written = {}
    /\ batching = FALSE /\ cmds = <<>> /\ deferred = {} /\ cleaning = <<>>
    /\ hidden = Vector /\ attention = Vector
    /\ scope = {} /\ remembered = {}
    /\ rows = [l \in 1..Depth |-> NoRows]
    /\ hasLogits = FALSE /\ reading = {} /\ faults = 0

-----------------------------------------------------------------------------
(* Kernels: the cells a kernel reads and the tensors it makes.             *)

Kernel(reads, outs) == [reads |-> reads, outs |-> outs, uploads |-> FALSE]
Of(tensors) == {Value(b) : b \in tensors}

Upload(out) == [reads |-> {}, outs |-> {out}, uploads |-> TRUE]
EmbeddingLookup(out) == Kernel({}, {out})
RmsNorm(x, out) == Kernel(Of({x}), {out})
ResidualAdd(x, y, out) == Kernel(Of({x, y}), {out})
ResidualRmsNormPair(x, y, sum, out) == Kernel(Of({x, y}), {sum, out})
DenseMatMul(x, out) == Kernel(Of({x}), {out})
PackedQkv(x, q, k, v) == Kernel(Of({x}), {q, k, v})
QkvPostProjection(x, out) == Kernel(Of({x}), {out})
NormRopePair(q, k, qOut, kOut) == Kernel(Of({q, k}), {qOut, kOut})
MlpBatch(x, out) == Kernel(Of({x}), {out})

\* Reads at most all rows of the layer's caches.
SparseAttention(q, keys, values, out) == Kernel(Of(q) \cup keys \cup values, {out})

\* The commands of a submit run in order, or not at all when one of them uses
\* a buffer that was destroyed.
Buffers(c) == {x[1] : x \in c.reads \cup c.writes}
AreValid(cs) == \A i \in 1..Len(cs) : Buffers(cs[i]) \subseteq live
Compute(w, c) == IF c.reads \subseteq w THEN w \cup c.writes ELSE w
Submitted(cs, w) == IF AreValid(cs) THEN FoldLeft(Compute, w, cs) ELSE w

\* submitOrRecordComputePass, submitOrRecordCopy
SubmitOrRecord(cs, w) ==
    IF batching THEN cmds' = cmds \o cs /\ written' = w
    ELSE written' = FoldLeft(Compute, w, cs) /\ UNCHANGED cmds

Destroy(tensors) ==
    /\ live' = live \ tensors
    /\ written' = {x \in written : x[1] \notin tensors}

\* Mutant: the tensors go before the commands that use them are submitted.
CloseNow(tensors) == Destroy(tensors) /\ UNCHANGED deferred

\* The finally of the two helpers.
Close(tensors) ==
    IF batching THEN deferred' = deferred \cup tensors /\ UNCHANGED <<live, written>>
    ELSE Destroy(tensors) /\ UNCHANGED deferred

-----------------------------------------------------------------------------
(* The kernels of each stage of a token.                                   *)

AttentionInput == IF hidden # Vector /\ Shape.norm THEN Buf("normed") ELSE hidden

ProjectKernels ==
    LET x == IF hidden = Vector THEN Buf("input") ELSE AttentionInput
    IN (IF hidden = Vector THEN <<Upload(x)>> ELSE <<>>) \o
       IF Required
       THEN <<PackedQkv(x, Buf("qProj"), Buf("kProj"), Buf("v")),
              NormRopePair(Buf("qProj"), Buf("kProj"), Buf("q"), Buf("k"))>>
       ELSE <<DenseMatMul(x, Buf("qProj")), DenseMatMul(x, Buf("kProj")),
              DenseMatMul(x, Buf("v")), QkvPostProjection(Buf("qProj"), Buf("q")),
              QkvPostProjection(Buf("kProj"), Buf("k"))>>

\* Without kernels required the inputs are the CPU's, and retained by the output.
AttendKernels ==
    IF Required
    THEN <<SparseAttention({Buf("q")}, RowCells(layer, rows[layer], "K"),
                           RowCells(layer, rows[layer], "V"), Buf("attention"))>>
    ELSE <<SparseAttention({}, {}, {}, Buf("attention"))>>

MlpResult ==
    CASE ~Shape.qwen /\ ~Shape.mlp -> Buf("o")
      [] ~Shape.qwen /\ Shape.mlp -> Buf("mlp")
      [] Shape.qwen /\ ~Shape.mlp -> Buf("summed")
      [] Shape.qwen /\ Shape.mlp -> Buf("final")

HiddenRow == IF hidden = Vector THEN Buf("hidden") ELSE hidden
AttentionRow == IF attention = Vector THEN Buf("attended") ELSE attention

OProjKernels ==
    (IF hidden = Vector THEN <<Upload(HiddenRow)>> ELSE <<>>) \o
    (IF attention = Vector THEN <<Upload(AttentionRow)>> ELSE <<>>) \o
    <<DenseMatMul(AttentionRow, Buf("o"))>>

Fused == Shape.mlp /\ Shape.post

ResidualKernels ==
    IF Fused THEN <<ResidualRmsNormPair(HiddenRow, Buf("o"), Buf("summed"), Buf("postNormed"))>>
    ELSE <<ResidualAdd(HiddenRow, Buf("o"), Buf("summed"))>>

QwenMlpKernels ==
    <<MlpBatch(IF Fused THEN Buf("postNormed") ELSE Buf("summed"), Buf("mlp")),
      ResidualAdd(Buf("summed"), Buf("mlp"), Buf("final"))>>

PlainMlpKernels == <<MlpBatch(Buf("o"), Buf("mlp"))>>

ApplyKernels ==
    OProjKernels \o (IF Shape.qwen THEN ResidualKernels ELSE <<>>) \o
    CASE Shape.mlp /\ Shape.qwen -> QwenMlpKernels
      [] Shape.mlp /\ ~Shape.qwen -> PlainMlpKernels
      [] ~Shape.mlp -> <<>>

\* projectDecodeLogitsFromResidentHidden, up to its projection
LogitKernels(h) == IF setup.finalNorm THEN <<RmsNorm(h, Buf("finalNorm"))>> ELSE <<>>
LogitInput(h) == IF setup.finalNorm THEN Buf("finalNorm") ELSE h

Kernels ==
    CASE pc = "embed" -> <<EmbeddingLookup(Buf("embedding"))>>
      [] pc = "norm" -> IF hidden # Vector /\ Shape.norm
                        THEN <<RmsNorm(hidden, Buf("normed"))>> ELSE <<>>
      [] pc = "project" -> ProjectKernels
      [] pc = "attend" -> AttendKernels
      [] pc = "apply" -> ApplyKernels
      [] pc = "final" -> LogitKernels(MlpResult)
      [] pc = "logits" -> LogitKernels(hidden)

Stages == {"embed", "norm", "project", "attend", "apply", "final", "logits"}
Scoped == {"project", "apply", "final"}
Kept == {"embed", "norm", "logits"}

RunKernel ==
    /\ setup.gpu
    /\ pc \in Stages
    /\ done < Len(Kernels)
    /\ LET k == Kernels[done + 1]
           outs == Of(k.outs)
       IN /\ live' = live \cup k.outs
          /\ IF k.uploads THEN written' = written \cup outs /\ UNCHANGED cmds
             ELSE SubmitOrRecord(<<[reads |-> k.reads, writes |-> outs]>>, written)
          /\ scope' = IF pc \in Scoped THEN scope \cup k.outs ELSE scope
          /\ remembered' = IF pc \in Kept THEN remembered \cup k.outs ELSE remembered
    /\ done' = done + 1
    /\ UNCHANGED <<run, pc, layer, deferred, cleaning, hidden, attention, reading, faults>>

StageDone(s) == pc = s /\ done = Len(Kernels)

Goto(s) == pc' = s /\ done' = 0

\* readWebGpuResidentTensors copies on a submit of its own.
Read(tensors) == reading' = Of(tensors) /\ UNCHANGED gpu

\* The winner, or the k best, of each tile of rows and then of all are computed
\* into temporaries on submits of their own, read and destroyed.
ProjectLogits(h) == Read({LogitInput(h)})

-----------------------------------------------------------------------------
(* decode().                                                               *)

\* Without a backend preference the embedding row stays on the CPU.
Decode ==
    /\ pc = "idle"
    /\ token < MaxTokens
    /\ token' = token + 1
    /\ hasLogits' = FALSE
    /\ IF setup.mode = "auto" THEN Goto("norm") /\ layer' = 1
       ELSE Goto("embed") /\ layer' = 0
    /\ UNCHANGED <<setup, gpu, batching, hidden, attention, scope, remembered, rows, reading, faults>>

Embedded ==
    /\ StageDone("embed")
    /\ hidden' = Buf("embedding")
    /\ batching' = TRUE
    /\ Goto("norm") /\ layer' = 1
    /\ UNCHANGED <<setup, token, gpu, attention, scope, remembered, rows, hasLogits, reading, faults>>

Normed ==
    /\ StageDone("norm")
    /\ Goto("project")
    /\ UNCHANGED <<run, layer, gpu, hidden, attention, scope, remembered, reading, faults>>

Projection == {Buf("q"), Buf("k"), Buf("v")}

\* tryProjectAttentionTensorsResident hands its tensors to decode ...
Projected ==
    /\ StageDone("project")
    /\ Required
    /\ remembered' = remembered \cup Projection
    /\ Close(scope \ Projection)
    /\ scope' = {}
    /\ Goto("append")
    /\ UNCHANGED <<run, layer, cmds, cleaning, hidden, attention, reading, faults>>

\* ... or reads them back at once.
ReadProjection ==
    /\ StageDone("project")
    /\ ~Required
    /\ Read(Projection)
    /\ Goto("projecting")
    /\ UNCHANGED <<run, layer, hidden, attention, scope, remembered, faults>>

ProjectionRead ==
    /\ pc = "projecting"
    /\ reading' = {}
    /\ Close(scope)
    /\ scope' = {}
    /\ Goto("attend")
    /\ UNCHANGED <<run, layer, cmds, cleaning, hidden, attention, remembered, faults>>

Larger(m, n) == IF m > n THEN m ELSE n

\* createWebGpuResidentRowCache, from the rows the CPU has
Seeded(n) == [version |-> 1, count |-> n, capacity |-> Larger(n + Slack, 2 * n)]

\* Mutant: a full cache doubles what it held instead of its capacity.
GrownShort(r) == [version |-> r.version + 1, count |-> r.count + 1, capacity |-> r.count]

Grown(r) == [version |-> r.version + 1, count |-> r.count + 1,
             capacity |-> Larger(r.count + 1, 2 * r.capacity)]

Copy(from, to) == [reads |-> from, writes |-> to]

Version(r) == IF r.count < r.capacity THEN r.version ELSE r.version + 1

CopyRow(r, x) == Copy({Value(Buf(IF x = "K" THEN "k" ELSE "v"))},
                      {<<RowBuffer(layer, Version(r), x), r.count + 1>>})

\* Mutant: a cache that grows starts empty.
OnlyTheRow(r, x) == <<CopyRow(r, x)>>

\* The new row, after the old ones when they move.
AppendCopies(r, x) ==
    IF Version(r) = r.version THEN <<CopyRow(r, x)>>
    ELSE <<Copy(RowCells(layer, r, x), RowCells(layer, [r EXCEPT !.version = @ + 1], x)),
           CopyRow(r, x)>>

\* appendResidentDecodeKvCache; a buffer that was outgrown is retained.
AppendRows ==
    /\ pc = "append"
    /\ LET new == rows[layer].version = 0
           r == IF new THEN Seeded(Prompt + token - 1) ELSE rows[layer]
           seed == IF new THEN RowCells(layer, r, "K") \cup RowCells(layer, r, "V") ELSE {}
           next == IF r.count < r.capacity THEN [r EXCEPT !.count = @ + 1] ELSE Grown(r)
       IN /\ rows' = [rows EXCEPT ![layer] = next]
          /\ live' = live \cup {RowBuffer(layer, n, x) : n \in {r.version, next.version}, x \in {"K", "V"}}
          /\ SubmitOrRecord(AppendCopies(r, "K") \o AppendCopies(r, "V"), written \cup seed)
    /\ Goto("attend")
    /\ UNCHANGED <<setup, token, batching, hasLogits, layer, deferred, cleaning, hidden,
                   attention, scope, remembered, reading, faults>>

Attended ==
    /\ StageDone("attend")
    /\ attention' = Buf("attention")
    /\ Goto("apply")
    /\ UNCHANGED <<run, layer, gpu, hidden, scope, remembered, reading, faults>>

\* Mutant: the attention belongs to nobody.
ScopeOnly == scope

\* tryApplyAttentionOutputForDecodeResident takes the attention over once the
\* hidden row is there.
ApplyScope ==
    scope \cup IF attention # Vector /\ (hidden # Vector \/ pc # "apply" \/ done > 0)
               THEN {attention} ELSE {}

FinalLogits == ~batching /\ ~setup.candidates /\ layer = Depth
KeepHidden == hidden # Vector /\ ~setup.candidates

NextLayer ==
    /\ IF layer < Depth THEN Goto("norm") /\ layer' = layer + 1
       ELSE Goto("submit") /\ UNCHANGED layer
    /\ attention' = Vector

\* materializeHidden is false: the result stays on the GPU.
Applied ==
    /\ \/ StageDone("apply") /\ KeepHidden /\ ~FinalLogits /\ UNCHANGED <<hasLogits, reading>>
       \/ pc = "finalReading" /\ hasLogits' = TRUE /\ reading' = {}
    /\ hidden' = MlpResult
    /\ remembered' = remembered \cup {MlpResult}
    /\ Close(ApplyScope \ {MlpResult})
    /\ scope' = {}
    /\ NextLayer
    /\ UNCHANGED <<setup, token, batching, rows, cmds, cleaning, faults>>

\* The last layer projects the logits before its tensors go.
ProjectInScope ==
    /\ StageDone("apply")
    /\ FinalLogits
    /\ Goto("final")
    /\ UNCHANGED <<run, layer, gpu, hidden, attention, scope, remembered, reading, faults>>

ReadFinal ==
    /\ StageDone("final")
    /\ ProjectLogits(MlpResult)
    /\ Goto("finalReading")
    /\ UNCHANGED <<run, layer, hidden, attention, scope, remembered, faults>>

ReadHidden ==
    /\ StageDone("apply")
    /\ ~KeepHidden /\ ~FinalLogits
    /\ Read({MlpResult})
    /\ Goto("applyReading")
    /\ UNCHANGED <<run, layer, hidden, attention, scope, remembered, faults>>

HiddenRead ==
    /\ pc = "applyReading"
    /\ reading' = {}
    /\ hidden' = Vector
    /\ Close(ApplyScope)
    /\ scope' = {}
    /\ NextLayer
    /\ UNCHANGED <<run, cmds, cleaning, remembered, faults>>

\* submitOnce, and the logits unless the last layer had them.
Submit ==
    /\ pc = "submit"
    /\ IF batching THEN /\ written' = Submitted(cmds, written)
                        /\ cmds' = <<>>
                        /\ deferred' = {}
                        /\ cleaning' = Append(cleaning, deferred)
       ELSE UNCHANGED <<written, cmds, deferred, cleaning>>
    /\ batching' = FALSE
    /\ Goto(IF KeepHidden /\ ~hasLogits THEN "logits" ELSE "end")
    /\ UNCHANGED <<setup, token, rows, hasLogits, layer, live, hidden, attention, scope,
                   remembered, reading, faults>>

ReadLogits ==
    /\ StageDone("logits")
    /\ ProjectLogits(hidden)
    /\ Goto("logitsReading")
    /\ UNCHANGED <<run, layer, hidden, attention, scope, remembered, faults>>

LogitsRead ==
    /\ pc = "logitsReading"
    /\ reading' = {}
    /\ hasLogits' = TRUE
    /\ Goto("end")
    /\ UNCHANGED <<setup, token, batching, rows, layer, gpu, hidden, attention, scope, remembered, faults>>

End ==
    /\ pc = "end"
    /\ Destroy(remembered)
    /\ remembered' = {}
    /\ hidden' = Vector
    /\ Goto("idle")
    /\ UNCHANGED <<run, layer, cmds, deferred, cleaning, attention, scope, reading, faults>>

\* onSubmittedWorkDone settles while decode waits for something, or later.
CleanUp ==
    /\ cleaning # <<>>
    /\ Destroy(Head(cleaning))
    /\ cleaning' = Tail(cleaning)
    /\ UNCHANGED <<run, pc, layer, done, cmds, deferred, hidden, attention, scope, remembered,
                   reading, faults>>

-----------------------------------------------------------------------------
(* A kernel or a readback throws: now and then, or always without a GPU.   *)

Fault ==
    /\ IF setup.gpu THEN faults < setup.maxFaults /\ faults' = faults + 1
       ELSE UNCHANGED faults

\* The token is lost, and with it the request.  decode has no finally: what it
\* remembered is not destroyed and its batch is never submitted.
Fails == pc' = "failed" /\ done' = 0 /\ reading' = {}

Throws ==
    /\ Fault
    /\ \/ pc \in {"norm", "attend", "logits"} /\ done < Len(Kernels) /\ (Required \/ setup.gpu)
       \/ pc \in {"append", "logitsReading", "reprojecting", "reapplying"}
       \/ pc = "embed" /\ Required
    /\ Fails
    /\ UNCHANGED <<run, layer, gpu, hidden, attention, scope, remembered>>

\* Preferred only: the token goes on from the CPU's embedding, without a batch.
EmbeddingFails ==
    /\ pc = "embed" /\ done = 0 /\ ~Required
    /\ Fault
    /\ Goto("norm") /\ layer' = 1
    /\ UNCHANGED <<run, gpu, hidden, attention, scope, remembered, reading>>

\* "WebGPU is not available": the CPU attends.
AttentionUnavailable ==
    /\ pc = "attend" /\ ~setup.gpu /\ ~Required
    /\ Fault
    /\ attention' = Vector
    /\ Goto("apply")
    /\ UNCHANGED <<run, layer, gpu, hidden, scope, remembered, reading>>

\* projectAttentionTensors falls back to matmuls of their own.
ProjectionFails ==
    /\ pc \in {"project", "projecting"}
    /\ Fault
    /\ Close(scope)
    /\ scope' = {}
    /\ IF Required THEN Fails
       ELSE /\ reading' = Of({AttentionInput} \ {Vector})
            /\ Goto("reprojecting")
    /\ UNCHANGED <<run, layer, cmds, cleaning, hidden, attention, remembered>>

Reprojected ==
    /\ pc = "reprojecting"
    /\ reading' = {}
    /\ Goto("attend")
    /\ UNCHANGED <<run, layer, gpu, hidden, attention, scope, remembered, faults>>

\* applyAttentionOutputForDecode falls back to the rows it was given.
ApplyFails ==
    /\ pc \in {"apply", "applyReading", "final", "finalReading"}
    /\ Fault
    /\ Close(ApplyScope)
    /\ scope' = {}
    /\ IF Required THEN Fails
       ELSE /\ reading' = Of({hidden, attention} \ {Vector})
            /\ Goto("reapplying")
    /\ UNCHANGED <<run, layer, cmds, cleaning, hidden, attention, remembered>>

Reapplied ==
    /\ pc = "reapplying"
    /\ reading' = {}
    /\ Destroy({attention})
    /\ hidden' = Vector
    /\ NextLayer
    /\ UNCHANGED <<run, cmds, deferred, cleaning, scope, remembered, faults>>

-----------------------------------------------------------------------------

Next ==
    \/ Decode \/ RunKernel \/ Embedded \/ Normed \/ Projected \/ ReadProjection \/ ProjectionRead
    \/ AppendRows \/ Attended \/ Applied \/ ProjectInScope \/ ReadFinal \/ ReadHidden \/ HiddenRead
    \/ Submit \/ ReadLogits \/ LogitsRead \/ End \/ CleanUp
    \/ Throws \/ EmbeddingFails \/ AttentionUnavailable \/ ProjectionFails \/ Reprojected
    \/ ApplyFails \/ Reapplied

Spec == Init /\ [][Next]_vars

-----------------------------------------------------------------------------
(* Properties.                                                             *)

RowBuffers ==
    {RowBuffer(l, n, x) : l \in 1..Depth, n \in 1..(Prompt + MaxTokens), x \in {"K", "V"}}
Versions(l) == {RowBuffer(l, n, x) : n \in 1..rows[l].version, x \in {"K", "V"}}

\* A batch exists only while a token is decoded; a layer's row caches never
\* hold more rows than they have room for, nor rows of tokens to come.
TypeOK ==
    /\ setup \in Setups
    /\ layer \in 0..Depth /\ token \in 0..MaxTokens /\ faults \in 0..setup.maxFaults
    /\ written \subseteq live \X (1..(Prompt + MaxTokens))
    /\ remembered \subseteq live /\ scope \subseteq live
    /\ {x \in {hidden, attention} : x # Vector} \subseteq live
    /\ pc \in {"idle", "end", "logits", "logitsReading"} => ~batching
    /\ ~batching => cmds = <<>> /\ deferred = {}
    /\ \A l \in 1..Depth : rows[l].count <= rows[l].capacity
                          /\ (rows[l].version > 0 => rows[l].count \in (Prompt - 1 + token)..(Prompt + token))

\* What the CPU reads back was computed: the buffers still exist when the copy
\* is submitted, and every command their content goes back to ran before, over
\* the rows of all earlier tokens (decode, readWebGpuResidentTensors).
ReadsAreSound == [][reading' # {} /\ reading' # reading => reading' \subseteq written]_vars

\* No buffer that a recorded command uses is destroyed before the batch is
\* submitted, which would void the whole submit (the deferred cleanups of
\* tryProject... and tryApply..., the retained buffers of the row caches).
RecordedAreLive == AreValid(cmds)

\* Between two tokens, once the cleanups ran, only the row caches are left:
\* every tensor of a token had one owner that destroyed it.
NothingIsLeft ==
    pc = "idle" /\ cleaning = <<>> => live \subseteq UNION {Versions(l) : l \in 1..Depth}
=============================================================================
