--------------------------- MODULE GpuDecode_proof ---------------------------
(***************************************************************************)
(* Theorems about GpuDecode, for any layers, prompt, number of tokens and  *)
(* of faults, most of them where kernels are required (the chat).          *)
(*                                                                         *)
(* The argument.  Each stage runs a list of kernels of which every one     *)
(* reads what was there before the stage or what an earlier one made       *)
(* (Stage).  So the cells a batch promises, the written ones and those its *)
(* commands write, only grow, and each command reads promised cells that a *)
(* command before it writes (Memory).  Every buffer has an owner that will *)
(* destroy it: the token, the helper that runs, the batch, a cleanup that  *)
(* is pending, or the layer's row cache (Owned).  A batch's owner holds    *)
(* only tensors the token does not remember (IsKept), so a cleanup never   *)
(* takes what a later command, or decode, still uses (Cleanups).           *)
(***************************************************************************)
EXTENDS GpuDecode, SequenceTheorems, WellFoundedInduction, TLAPS

\* The chat on a machine with a GPU: its kernels are required.
KernelsRequired == setup.gpu /\ Required

-----------------------------------------------------------------------------
(* Names of tensors.                                                       *)

Bound == Prompt + MaxTokens
Names == {"embedding", "normed", "input", "qProj", "kProj", "q", "k", "v", "attention",
          "hidden", "attended", "o", "summed", "postNormed", "mlp", "final", "finalNorm"}

\* The tensors of token n, and the buffers of the row caches.
Made(n) == {<<n, l, w>> : l \in 0..Depth, w \in Names}
RowsOf == {RowBuffer(l, n, x) : l \in 1..Depth, n \in 1..Bound, x \in {"K", "V"}}

\* The name of MlpResult in layer l.
ResultOf(l) ==
    LET s == setup.layers[l]
    IN CASE ~s.qwen /\ ~s.mlp -> "o"
      [] ~s.qwen /\ s.mlp -> "mlp"
      [] s.qwen /\ ~s.mlp -> "summed"
      [] s.qwen /\ s.mlp -> "final"

\* The tensors that the token remembers; a helper's others are deferred.
IsKept(b) ==
    \/ b[3] \in {"embedding", "normed", "q", "k", "v", "finalNorm"}
    \/ ~setup.candidates /\ b[2] \in 1..Depth /\ b[3] = ResultOf(b[2])

\* What the stages that close a scope make.
ProjectOuts ==
    {Buf("qProj"), Buf("kProj"), Buf("v"), Buf("q"), Buf("k")}
       \cup (IF hidden = Vector THEN {Buf("input")} ELSE {})

ApplyOuts ==
    (IF hidden = Vector THEN {Buf("hidden")} ELSE {}) \cup {Buf("o")}
       \cup (IF Shape.qwen THEN {Buf("summed")} \cup (IF Fused THEN {Buf("postNormed")} ELSE {}) ELSE {})
       \cup (IF Shape.mlp THEN {Buf("mlp")} ELSE {})
       \cup (IF Shape.mlp /\ Shape.qwen THEN {Buf("final")} ELSE {})

-----------------------------------------------------------------------------
(* The inductive invariant where kernels are required.                     *)

Held == {"norm", "project", "append", "attend", "apply", "applyReading", "submit"}
After == {"logits", "logitsReading", "end", "idle"}

\* Where a token is, and what it has there.
Phases ==
    /\ setup \in Setups /\ layer \in 0..Depth /\ token \in 0..MaxTokens /\ done \in Nat
    /\ faults \in 0..setup.maxFaults /\ batching \in BOOLEAN /\ hasLogits \in BOOLEAN
    /\ pc \in Held \cup After \cup {"embed", "failed"}
    /\ pc \in Held => batching /\ layer \in 1..Depth
    /\ pc \in Held /\ ~setup.candidates => hidden # Vector
    /\ pc = "applyReading" => setup.candidates
    /\ pc \in After \cup {"embed"} => ~batching
    /\ ~batching => cmds = <<>> /\ deferred = {}
    /\ token = 0 => pc = "idle" /\ cleaning = <<>>
    /\ pc \in {"idle", "embed"} => hidden = Vector
    /\ pc = "idle" => remembered = {}
    /\ pc = "embed" => layer = 0
    /\ pc \in {"apply", "applyReading"} => attention = Buf("attention")
    /\ pc \notin {"apply", "applyReading"} => attention = Vector \/ (pc = "failed" /\ batching)
    /\ pc \in {"logits", "logitsReading"} => hidden # Vector

\* Who destroys which tensors.
Named ==
    /\ hidden \in {Vector} \cup remembered
    /\ attention \in {Vector, Buf("attention")}
    /\ remembered \subseteq Made(token)
    /\ \A b \in remembered : IsKept(b)
    /\ deferred \subseteq Made(token)
    /\ pc # "failed" => \A b \in deferred : ~IsKept(b)
    /\ scope \subseteq IF pc = "project" THEN ProjectOuts
                       ELSE IF pc \in {"apply", "applyReading"} THEN ApplyOuts ELSE {}

Cleanups ==
    /\ \E S : cleaning \in Seq(S)
    /\ \A i \in 1..Len(cleaning) : \A b \in cleaning[i] :
          /\ \E n \in 0..token : b \in Made(n)
          /\ b \in Made(token) => ~IsKept(b) /\ ~batching /\ pc \in After \cup {"failed"}

\* Each command's inputs are there, or are written by a command before it.
IsFlow(w, cs) ==
    \A i \in 1..Len(cs) : \A x \in cs[i].reads :
        x \in w \/ \E j \in 1..Len(cs) : j < i /\ x \in cs[j].writes

Cells == (Made(token) \cup RowsOf) \X (1..Bound)
Command == [reads : SUBSET Cells, writes : SUBSET Cells]

Memory ==
    /\ written \subseteq live \X (1..Bound)
    /\ cmds \in Seq(Command)
    /\ \A i \in 1..Len(cmds) : cmds[i].reads \cup cmds[i].writes \subseteq live \X (1..Bound)
    /\ IsFlow(written, cmds)

\* The cells that will be written once the batch is submitted.
Promised == written \cup UNION {cmds[i].writes : i \in 1..Len(cmds)}

Present(tensors) == tensors \subseteq live /\ Of(tensors) \subseteq Promised

\* What the kernels of the stage have made.
Ran == UNION {Kernels[i].outs : i \in 1..done}

Tensors ==
    /\ remembered \cup scope \subseteq live
    /\ hidden # Vector => Present({hidden})
    /\ attention # Vector => Present({attention})
    /\ pc \in Stages => done <= Len(Kernels) /\ Present(Ran)
    /\ pc \in {"project", "apply"} => scope = Ran
    /\ pc \in Kept => Ran \subseteq remembered
    /\ pc = "project" /\ hidden # Vector => Present({AttentionInput}) /\ AttentionInput \in remembered
    /\ pc \in {"append", "attend"} => Projection \subseteq remembered /\ Present(Projection)

\* The rows of every row cache are there.
RowsKept ==
    \A l \in 1..Depth : \A x \in {"K", "V"} :
        rows[l].version > 0 => /\ RowBuffer(l, rows[l].version, x) \in live
                               /\ RowCells(l, rows[l], x) \subseteq Promised

\* The layer has appended the token's row.
Appended(l) ==
    \/ pc \in After \cup {"submit"} \/ l < layer
    \/ l = layer /\ pc \in {"attend", "apply", "applyReading"}

RowCache == [version : Nat, count : Nat, capacity : Nat]

Counted ==
    /\ rows \in [1..Depth -> RowCache]
    /\ \A l \in 1..Depth :
       /\ rows[l].version <= rows[l].count /\ rows[l].count <= rows[l].capacity
       /\ rows[l].version > 0 => rows[l].count \in (Prompt - 1 + token)..(Prompt + token)
       /\ pc # "failed" =>
            IF Appended(l) /\ token > 0 THEN rows[l].version > 0 /\ rows[l].count = Prompt + token
            ELSE IF token > 1 THEN rows[l].version > 0 /\ rows[l].count = Prompt + token - 1
            ELSE rows[l].version = 0

\* Every buffer has somebody who destroys it.
Owned ==
    pc # "failed" =>
       \A b \in live :
          \/ b \in remembered \cup scope \cup deferred \cup ({attention} \ {Vector})
          \/ pc = "attend" /\ b = Buf("attention")
          \/ \E i \in 1..Len(cleaning) : b \in cleaning[i]
          \/ \E l \in 1..Depth : b \in Versions(l)

ReqInv ==
    /\ Phases /\ Named /\ Cleanups /\ Memory /\ Tensors /\ RowsKept /\ Counted /\ Owned

-----------------------------------------------------------------------------
(* Numbers.                                                                *)

LEMMA MinOfOrder ==
    ASSUME NEW R, IsWellFoundedOn(R, Nat), \A x, y \in Nat : <<y, x>> \in R <=> y < x,
           NEW S, S \subseteq Nat, S # {}
    PROVE  \E n \in S : \A m \in S : n <= m
<1>1. PICK x \in S : \A y \in S : ~(<<y, x>> \in R)
  BY WFMin
<1>2. \A y \in S : y \in Nat /\ x \in Nat /\ ~(y < x)
  BY <1>1
<1> QED
  BY <1>2

LEMMA NatMin ==
    ASSUME NEW S, S \subseteq Nat, S # {}
    PROVE  \E n \in S : \A m \in S : n <= m
<1>1. \A x, y \in Nat : <<y, x>> \in OpToRel(<, Nat) <=> y < x
  BY DEF OpToRel
<1> QED
  BY <1>1, NatLessThanWellFounded, MinOfOrder, Zenon

\* Induction, over the set of the numbers of which something holds.
LEMMA AllNumbers ==
    ASSUME NEW S, 0 \in S, \A k \in Nat : k \in S => k + 1 \in S
    PROVE  Nat \subseteq S
<1> SUFFICES ASSUME Nat \ S # {} PROVE FALSE
  OBVIOUS
<1>1. PICK m \in Nat \ S : \A k \in Nat \ S : m <= k
  <2> DEFINE rest == Nat \ S
  <2>1. rest \subseteq Nat /\ rest # {}
    OBVIOUS
  <2> HIDE DEF rest
  <2>2. \E n \in rest : \A k \in rest : n <= k
    BY <2>1, NatMin
  <2> QED
    BY <2>2 DEF rest
<1>2. m # 0 /\ m \in Nat
  BY <1>1
<1>3. m - 1 \in Nat /\ (m - 1) + 1 = m /\ ~(m <= m - 1)
  BY <1>2
<1>4. m - 1 \in S
  BY <1>1, <1>3
<1> QED
  BY <1>1, <1>3, <1>4

\* A set of numbers up to n that is not empty has its greatest member.
LEMMA MaxIsMember ==
    ASSUME NEW n \in Nat, NEW S \in SUBSET (0..n), S # {}
    PROVE  Max(S) \in S
<1> DEFINE rest == {k \in Nat : n - k \in S}
<1>1. rest # {}
  <2>1. PICK x \in S : TRUE
    OBVIOUS
  <2>2. n - x \in Nat /\ n - (n - x) = x
    OBVIOUS
  <2> QED
    BY <2>1, <2>2
<1>2. rest \subseteq Nat
  OBVIOUS
<1>3. PICK m \in rest : \A k \in rest : m <= k
  <2> HIDE DEF rest
  <2> QED
    BY <1>1, <1>2, NatMin
<1>4. n - m \in S
  OBVIOUS
<1>5. \A y \in S : n - m >= y
  <2> SUFFICES ASSUME NEW y \in S PROVE n - m >= y
    OBVIOUS
  <2>1. n - y \in Nat /\ n - (n - y) = y /\ y \in Nat
    OBVIOUS
  <2>2. n - y \in rest
    BY <2>1
  <2>3. m <= n - y /\ m \in Nat
    BY <1>3, <2>2
  <2> QED
    BY <2>1, <2>3
<1> QED
  BY <1>4, <1>5 DEF Max

-----------------------------------------------------------------------------
(* What a submit computes.  The fold is a function g on the sets of indices *)
(* of commands; Folded says that it is one on those up to n.                *)

Folded(g, w, cs, n) ==
    g = [T \in SUBSET (1..n) |->
            IF T = {} THEN w ELSE Compute(g[T \ {Max(T)}], cs[Max(T)])]

LEMMA MaxOfLast ==
    ASSUME NEW k \in Nat, NEW T \in SUBSET (1..(k + 1))
    PROVE  /\ k + 1 \in T => Max(T) = k + 1 /\ T \ {k + 1} \in SUBSET (1..k)
           /\ k + 1 \notin T => T \in SUBSET (1..k)
           /\ k + 1 \notin T /\ T # {} => Max(T) \in T /\ T \ {Max(T)} \in SUBSET (1..k)
<1>1. \A y \in T : k + 1 >= y /\ y \in Nat
  OBVIOUS
<1>2. k + 1 \in T => Max(T) = k + 1
  <2> SUFFICES ASSUME k + 1 \in T PROVE Max(T) = k + 1
    OBVIOUS
  <2>1. Max(T) \in T /\ \A y \in T : Max(T) >= y
    BY <1>1 DEF Max
  <2>2. Max(T) >= k + 1 /\ k + 1 >= Max(T) /\ Max(T) \in Nat
    BY <1>1, <2>1
  <2> QED
    BY <2>2
<1>3. \A y \in T : y # k + 1 => y \in 1..k
  BY <1>1
<1>4. k + 1 \notin T /\ T # {} => Max(T) \in T
  <2>1. k + 1 \in Nat /\ T \in SUBSET (0..(k + 1))
    OBVIOUS
  <2> DEFINE n == k + 1
  <2> HIDE DEF n
  <2>2. T # {} => Max(T) \in T
    <3>1. n \in Nat /\ T \in SUBSET (0..n)
      BY <2>1 DEF n
    <3> QED
      BY <3>1, MaxIsMember
  <2> QED
    BY <2>2
<1> QED
  BY <1>2, <1>3, <1>4

LEMMA FoldExists ==
    ASSUME NEW w, NEW cs, NEW n \in Nat
    PROVE  \E g : Folded(g, w, cs, n)
<1> DEFINE S == {k \in Nat : \E g : Folded(g, w, cs, k)}
<1>1. 0 \in S
  <2> DEFINE g == [T \in SUBSET (1..0) |-> w]
  <2>1. \A T \in SUBSET (1..0) : T = {}
    OBVIOUS
  <2>2. Folded(g, w, cs, 0)
    BY <2>1 DEF Folded
  <2> QED
    BY <2>2
<1>2. \A k \in Nat : k \in S => k + 1 \in S
  <2> SUFFICES ASSUME NEW k \in Nat, NEW g, Folded(g, w, cs, k)
               PROVE  \E h : Folded(h, w, cs, k + 1)
    OBVIOUS
  <2> DEFINE old(T) == T \in SUBSET (1..k)
  <2> DEFINE h == [T \in SUBSET (1..(k + 1)) |->
                     IF T \in SUBSET (1..k) THEN g[T] ELSE Compute(g[T \ {k + 1}], cs[k + 1])]
  <2>1. ASSUME NEW T \in SUBSET (1..(k + 1))
        PROVE  h[T] = IF T = {} THEN w ELSE Compute(h[T \ {Max(T)}], cs[Max(T)])
    <3>0. h[T] = IF T \in SUBSET (1..k) THEN g[T] ELSE Compute(g[T \ {k + 1}], cs[k + 1])
      OBVIOUS
    <3>1. CASE T = {}
      <4>1. T \in SUBSET (1..k)
        BY <3>1
      <4>2. g[T] = w
        BY <3>1, <4>1 DEF Folded
      <4> QED
        BY <3>0, <3>1, <4>1, <4>2
    <3>2. CASE k + 1 \in T
      <4>1. Max(T) = k + 1 /\ T \ {k + 1} \in SUBSET (1..k) /\ T \notin SUBSET (1..k)
        BY <3>2, MaxOfLast
      <4>2. T \ {k + 1} \in SUBSET (1..(k + 1))
        OBVIOUS
      <4>3. h[T \ {k + 1}] = g[T \ {k + 1}]
        BY <4>1, <4>2
      <4> QED
        BY <3>0, <3>2, <4>1, <4>3
    <3>3. CASE k + 1 \notin T /\ T # {}
      <4>1. Max(T) \in T /\ T \ {Max(T)} \in SUBSET (1..k) /\ T \in SUBSET (1..k)
        BY <3>3, MaxOfLast
      <4>2. T \ {Max(T)} \in SUBSET (1..(k + 1))
        OBVIOUS
      <4>3. h[T \ {Max(T)}] = g[T \ {Max(T)}]
        BY <4>1, <4>2
      <4>4. g[T] = Compute(g[T \ {Max(T)}], cs[Max(T)])
        BY <3>3, <4>1 DEF Folded
      <4> QED
        BY <3>0, <3>3, <4>1, <4>3, <4>4
    <3> QED
      BY <3>1, <3>2, <3>3
  <2>2. h = [T \in SUBSET (1..(k + 1)) |-> h[T]]
    OBVIOUS
  <2> HIDE DEF h
  <2>3. Folded(h, w, cs, k + 1)
    BY <2>1, <2>2 DEF Folded
  <2> QED
    BY <2>3
<1> HIDE DEF S
<1>3. n \in S
  BY <1>1, <1>2, AllNumbers
<1> QED
  BY <1>3 DEF S

\* Commands whose inputs are there write all that they say.
LEMMA FoldIsUnion ==
    ASSUME NEW w, NEW cs, NEW n \in Nat, DOMAIN cs = 1..n, Len(cs) = n, IsFlow(w, cs)
    PROVE  FoldLeft(Compute, w, cs) = w \cup UNION {cs[i].writes : i \in 1..n}
<1>1. FoldLeft(Compute, w, cs) = (CHOOSE g : Folded(g, w, cs, n))[1..n]
  BY DEF FoldLeft, MapThenFoldSet, Folded
<1> DEFINE g == CHOOSE h : Folded(h, w, cs, n)
<1>2. Folded(g, w, cs, n)
  BY FoldExists
<1> HIDE DEF g
<1> DEFINE upto(k) == w \cup UNION {cs[i].writes : i \in 1..k}
<1> DEFINE S == {k \in Nat : k <= n => g[1..k] = upto(k)}
<1>3. 0 \in S
  <2>1. 1..0 = {} /\ upto(0) = w /\ {} \in SUBSET (1..n)
    OBVIOUS
  <2>2. g[{}] = w
    BY <1>2, <2>1 DEF Folded
  <2> QED
    BY <2>1, <2>2
<1>4. \A k \in Nat : k \in S => k + 1 \in S
  <2> SUFFICES ASSUME NEW k \in Nat, k <= n => g[1..k] = upto(k), k + 1 <= n
               PROVE  g[1..(k + 1)] = upto(k + 1)
    <3> HIDE DEF upto
    <3> QED
      OBVIOUS
  <2>0. g[1..k] = upto(k)
    <3>1. k <= n
      OBVIOUS
    <3> QED
      BY <3>1
  <2> DEFINE T == 1..(k + 1)
  <2>1. T \in SUBSET (1..n) /\ T # {} /\ k + 1 \in T /\ T \in SUBSET (1..(k + 1))
    OBVIOUS
  <2>2. Max(T) = k + 1 /\ T \ {k + 1} = 1..k
    <3>1. Max(T) = k + 1
      BY <2>1, MaxOfLast
    <3> QED
      BY <3>1
  <2>3. g[T] = Compute(g[1..k], cs[k + 1])
    <3>1. g[T] = Compute(g[T \ {Max(T)}], cs[Max(T)])
      BY <1>2, <2>1 DEF Folded
    <3> QED
      BY <2>2, <3>1
  <2>4. cs[k + 1].reads \subseteq upto(k)
    <3>1. k + 1 \in 1..n /\ \A j \in 1..n : j < k + 1 => j \in 1..k
      OBVIOUS
    <3> QED
      BY <3>1 DEF IsFlow
  <2>5. upto(k + 1) = upto(k) \cup cs[k + 1].writes
    <3>1. 1..(k + 1) = (1..k) \cup {k + 1}
      OBVIOUS
    <3> QED
      BY <3>1
  <2> HIDE DEF upto
  <2> QED
    BY <2>0, <2>3, <2>4, <2>5 DEF Compute
<1> HIDE DEF S
<1>5. n \in S
  BY <1>3, <1>4, AllNumbers
<1>6. n <= n
  OBVIOUS
<1>7. g[1..n] = upto(n)
  BY <1>5, <1>6 DEF S
<1> QED
  BY <1>1, <1>7 DEF g
-----------------------------------------------------------------------------
(* The kernels of a stage.                                                 *)

\* Run in order on what I holds, the kernels ks read what is there, and make O.
Stage(S, I, ks, O) ==
    /\ ks \in Seq(S)
    /\ \A i \in 1..Len(ks) : \A x \in ks[i].reads :
          x \in I \/ \E j \in 1..Len(ks) : j < i /\ x \in Of(ks[j].outs)
    /\ \A i \in 1..Len(ks) : ks[i].outs \subseteq O
    /\ \A b \in O : \E i \in 1..Len(ks) : b \in ks[i].outs

LEMMA StageNone == ASSUME NEW S, NEW I PROVE Stage(S, I, <<>>, {})
<1>1. <<>> \in Seq(S) /\ Len(<<>>) = 0 /\ \A i \in 1..0 : FALSE
  OBVIOUS
<1> QED
  BY <1>1 DEF Stage

LEMMA StageOne ==
    ASSUME NEW S, NEW I, NEW k \in S, k.reads \subseteq I
    PROVE  Stage(S, I, <<k>>, k.outs)
<1>1. <<k>> \in Seq(S) /\ Len(<<k>>) = 1 /\ <<k>>[1] = k /\ \A i \in 1..1 : i = 1
  OBVIOUS
<1> QED
  BY <1>1 DEF Stage

LEMMA StageJoin ==
    ASSUME NEW S, NEW I, NEW s, NEW t, NEW O, NEW P,
           Stage(S, I, s, O), Stage(S, I \cup Of(O), t, P)
    PROVE  Stage(S, I, s \o t, O \cup P)
<1>1. s \in Seq(S) /\ t \in Seq(S)
  BY DEF Stage
<1> DEFINE m == Len(s)
<1> DEFINE n == Len(t)
<1> DEFINE u == s \o t
<1>2. /\ u \in Seq(S) /\ Len(u) = m + n /\ m \in Nat /\ n \in Nat
      /\ \A i \in 1..(m + n) : u[i] = IF i <= m THEN s[i] ELSE t[i - m]
  BY <1>1, ConcatProperties
<1> HIDE DEF m, n, u
<1>3. \A i \in 1..m : u[i] = s[i] /\ i \in 1..(m + n)
  BY <1>2
<1>4. \A i \in 1..n : u[m + i] = t[i] /\ m + i \in 1..(m + n)
  BY <1>2
<1>5. \A i \in 1..(m + n) : i \in 1..m \/ (i - m \in 1..n /\ i = m + (i - m))
  BY <1>2
<1>6. /\ \A i \in 1..m : s[i].outs \subseteq O
      /\ \A b \in O : \E i \in 1..m : b \in s[i].outs
      /\ \A i \in 1..n : t[i].outs \subseteq P
      /\ \A b \in P : \E i \in 1..n : b \in t[i].outs
  BY DEF Stage, m, n
<1>7. \A b \in O \cup P : \E i \in 1..(m + n) : b \in u[i].outs
  BY <1>3, <1>4, <1>6
<1>8. ASSUME NEW i \in 1..m
      PROVE  /\ u[i].outs \subseteq O \cup P
             /\ \A x \in u[i].reads :
                   x \in I \/ \E j \in 1..(m + n) : j < i /\ x \in Of(u[j].outs)
  <2>1. \A x \in s[i].reads : x \in I \/ \E j \in 1..m : j < i /\ x \in Of(s[j].outs)
    BY DEF Stage, m
  <2> QED
    BY <1>3, <1>6, <2>1
<1>9. ASSUME NEW k \in 1..n
      PROVE  /\ u[m + k].outs \subseteq O \cup P
             /\ \A x \in u[m + k].reads :
                   x \in I \/ \E j \in 1..(m + n) : j < m + k /\ x \in Of(u[j].outs)
  <2>1. \A x \in t[k].reads :
           x \in I \cup Of(O) \/ \E j \in 1..n : j < k /\ x \in Of(t[j].outs)
    BY DEF Stage, n
  <2>2. \A x \in Of(O) : \E j \in 1..m : x \in Of(s[j].outs)
    BY <1>6 DEF Of
  <2>3. \A j \in 1..m : j < m + k
    BY <1>2
  <2>4. \A j \in 1..n : j < k => m + j < m + k
    BY <1>2
  <2> QED
    BY <1>3, <1>4, <1>6, <2>1, <2>2, <2>3, <2>4
<1>10. ASSUME NEW i \in 1..(m + n)
       PROVE  /\ u[i].outs \subseteq O \cup P
              /\ \A x \in u[i].reads :
                    x \in I \/ \E j \in 1..(m + n) : j < i /\ x \in Of(u[j].outs)
  <2>1. CASE i \in 1..m
    BY <1>8, <2>1
  <2>2. CASE i - m \in 1..n /\ i = m + (i - m)
    <3> DEFINE k == i - m
    <3>1. k \in 1..n /\ i = m + k
      BY <2>2
    <3> HIDE DEF k
    <3> QED
      BY <1>9, <3>1
  <2> QED
    BY <1>5, <2>1, <2>2
<1> QED
  BY <1>2, <1>7, <1>10 DEF Stage, u

LEMMA StageTwo ==
    ASSUME NEW S, NEW I, NEW k \in S, NEW h \in S,
           k.reads \subseteq I, h.reads \subseteq I \cup Of(k.outs)
    PROVE  Stage(S, I, <<k, h>>, k.outs \cup h.outs)
<1>1. /\ <<k, h>> \in Seq(S) /\ Len(<<k, h>>) = 2 /\ <<k, h>>[1] = k /\ <<k, h>>[2] = h
      /\ \A i \in 1..2 : i = 1 \/ i = 2
  OBVIOUS
<1>2. 1 \in 1..2 /\ 2 \in 1..2 /\ 1 < 2
  OBVIOUS
<1> QED
  BY <1>1, <1>2 DEF Stage

-----------------------------------------------------------------------------
(* What the kernels of each stage read and make.                           *)

LEMMA ShapeType ==
    ASSUME setup \in Setups, NEW l \in 1..Depth
    PROVE  setup.layers[l] \in [norm : BOOLEAN, post : BOOLEAN, mlp : BOOLEAN, qwen : BOOLEAN]
<1> DEFINE s == setup.layers
<1> DEFINE R == [norm : BOOLEAN, post : BOOLEAN, mlp : BOOLEAN, qwen : BOOLEAN]
<1>1. s \in Seq(R) /\ l \in 1..Len(s)
  BY LayersAreShapes DEF Depth
<1> HIDE DEF s, R
<1>2. s[l] \in R
  BY <1>1
<1> QED
  BY <1>2 DEF s, R

LEMMA SetupType ==
    ASSUME setup \in Setups
    PROVE  /\ Depth \in Nat /\ Depth > 0
           /\ setup.mode \in {"required", "preferred", "auto"}
           /\ setup.gpu \in BOOLEAN /\ setup.candidates \in BOOLEAN
           /\ setup.finalNorm \in BOOLEAN /\ setup.maxFaults \in Nat
<1>1. Depth \in Nat /\ Depth > 0
  <2>1. setup.layers \in Seq([norm : BOOLEAN, post : BOOLEAN, mlp : BOOLEAN, qwen : BOOLEAN])
        /\ setup.layers # <<>>
    BY LayersAreShapes
  <2> DEFINE s == setup.layers
  <2> HIDE DEF s
  <2>2. Len(s) \in Nat /\ Len(s) > 0
    BY <2>1, EmptySeq, LenProperties DEF s
  <2> QED
    BY <2>2 DEF Depth, s
<1> QED
  BY <1>1, SetupsAreKnown

LEMMA EmbedStage ==
    ASSUME pc = "embed", NEW I
    PROVE  \E S : Stage(S, I, Kernels, {Buf("embedding")})
<1> DEFINE k == EmbeddingLookup(Buf("embedding"))
<1>1. Kernels = <<k>>
  BY DEF Kernels
<1>2. k.reads = {} /\ k.outs = {Buf("embedding")}
  BY DEF EmbeddingLookup, Kernel
<1> HIDE DEF k
<1>3. Stage({k}, I, <<k>>, k.outs)
  BY <1>2, StageOne
<1> QED
  BY <1>1, <1>2, <1>3

LEMMA NormStage ==
    ASSUME pc = "norm", NEW I, hidden # Vector => Value(hidden) \in I
    PROVE  \E S : Stage(S, I, Kernels,
                        IF hidden # Vector /\ Shape.norm THEN {Buf("normed")} ELSE {})
<1>1. CASE hidden # Vector /\ Shape.norm
  <2> DEFINE k == RmsNorm(hidden, Buf("normed"))
  <2>1. Kernels = <<k>>
    BY <1>1 DEF Kernels
  <2>2. k.reads = {Value(hidden)} /\ k.outs = {Buf("normed")}
    BY DEF RmsNorm, Kernel, Of
  <2> HIDE DEF k
  <2>3. Stage({k}, I, <<k>>, k.outs)
    BY <1>1, <2>2, StageOne
  <2> QED
    BY <1>1, <2>1, <2>2, <2>3
<1>2. CASE ~(hidden # Vector /\ Shape.norm)
  <2>1. Kernels = <<>>
    BY <1>2 DEF Kernels
  <2> QED
    BY <1>2, <2>1, StageNone
<1> QED
  BY <1>1, <1>2

LEMMA AttendStage ==
    ASSUME pc = "attend", NEW I,
           Required => Value(Buf("q")) \in I /\ RowCells(layer, rows[layer], "K") \subseteq I
                       /\ RowCells(layer, rows[layer], "V") \subseteq I
    PROVE  \E S : Stage(S, I, Kernels, {Buf("attention")})
<1> DEFINE k == SparseAttention({Buf("q")}, RowCells(layer, rows[layer], "K"),
                                RowCells(layer, rows[layer], "V"), Buf("attention"))
<1> DEFINE h == SparseAttention({}, {}, {}, Buf("attention"))
<1>1. Kernels = IF Required THEN <<k>> ELSE <<h>>
  BY DEF Kernels, AttendKernels
<1>2. /\ k.reads = {Value(Buf("q"))} \cup RowCells(layer, rows[layer], "K")
                     \cup RowCells(layer, rows[layer], "V")
      /\ k.outs = {Buf("attention")} /\ h.reads = {} /\ h.outs = {Buf("attention")}
  BY DEF SparseAttention, Kernel, Of
<1> HIDE DEF k, h
<1>3. Required => Stage({k}, I, <<k>>, k.outs)
  BY <1>2, StageOne
<1>4. Stage({h}, I, <<h>>, h.outs)
  BY <1>2, StageOne
<1> QED
  BY <1>1, <1>2, <1>3, <1>4

LEMMA LogitStage ==
    ASSUME NEW h, NEW I, Value(h) \in I,
           \/ pc = "final" /\ h = MlpResult
           \/ pc = "logits" /\ h = hidden
    PROVE  \E S : Stage(S, I, Kernels, IF setup.finalNorm THEN {Buf("finalNorm")} ELSE {})
<1>1. Kernels = LogitKernels(h)
  BY DEF Kernels
<1>2. CASE setup.finalNorm
  <2> DEFINE k == RmsNorm(h, Buf("finalNorm"))
  <2>1. Kernels = <<k>>
    BY <1>1, <1>2 DEF LogitKernels
  <2>2. k.reads = {Value(h)} /\ k.outs = {Buf("finalNorm")}
    BY DEF RmsNorm, Kernel, Of
  <2> HIDE DEF k
  <2>3. Stage({k}, I, <<k>>, k.outs)
    BY <2>2, StageOne
  <2> QED
    BY <1>2, <2>1, <2>2, <2>3
<1>3. CASE ~setup.finalNorm
  <2>1. Kernels = <<>>
    BY <1>1, <1>3 DEF LogitKernels
  <2> QED
    BY <1>3, <2>1, StageNone
<1> QED
  BY <1>2, <1>3

\* x is what the projections read.
LEMMA RequiredProjectStage ==
    ASSUME pc = "project", Required, NEW I, hidden # Vector => Value(AttentionInput) \in I
    PROVE  \E S : Stage(S, I, Kernels, ProjectOuts)
<1> DEFINE x == IF hidden = Vector THEN Buf("input") ELSE AttentionInput
<1> DEFINE u == Upload(Buf("input"))
<1> DEFINE a == PackedQkv(x, Buf("qProj"), Buf("kProj"), Buf("v"))
<1> DEFINE b == NormRopePair(Buf("qProj"), Buf("kProj"), Buf("q"), Buf("k"))
<1> DEFINE pre == IF hidden = Vector THEN <<u>> ELSE <<>>
<1> DEFINE O == IF hidden = Vector THEN {Buf("input")} ELSE {}
<1> DEFINE S == {u, a, b}
<1>1. Kernels = pre \o <<a, b>>
  BY DEF Kernels, ProjectKernels
<1>2. /\ u.reads = {} /\ u.outs = {Buf("input")}
      /\ a.reads = {Value(x)} /\ a.outs = {Buf("qProj"), Buf("kProj"), Buf("v")}
      /\ b.reads = {Value(Buf("qProj")), Value(Buf("kProj"))} /\ b.outs = {Buf("q"), Buf("k")}
  BY DEF Upload, PackedQkv, NormRopePair, Kernel, Of
<1>3. O \cup (a.outs \cup b.outs) = ProjectOuts
  BY <1>2 DEF ProjectOuts
<1>4. Value(x) \in I \cup Of(O)
  BY DEF Of
<1>5. b.reads \subseteq (I \cup Of(O)) \cup Of(a.outs)
  BY <1>2 DEF Of
<1>6. a.reads \subseteq I \cup Of(O)
  BY <1>2, <1>4
<1>7. a \in S /\ b \in S /\ u \in S
  OBVIOUS
<1> HIDE DEF u, a, b, S
<1>8. Stage(S, I, pre, O)
  <2>1. CASE hidden = Vector
    <3>1. Stage(S, I, <<u>>, u.outs)
      BY <1>2, <1>7, StageOne
    <3> QED
      BY <1>2, <2>1, <3>1
  <2>2. CASE hidden # Vector
    <3>1. Stage(S, I, <<>>, {})
      BY StageNone
    <3> QED
      BY <2>2, <3>1
  <2> QED
    BY <2>1, <2>2
<1> HIDE DEF pre, O
<1> DEFINE J == I \cup Of(O)
<1>9. Stage(S, J, <<a, b>>, a.outs \cup b.outs)
  <2>1. a.reads \subseteq J /\ b.reads \subseteq J \cup Of(a.outs)
    BY <1>5, <1>6
  <2> HIDE DEF J
  <2> QED
    BY <1>7, <2>1, StageTwo
<1>10. Stage(S, I, pre \o <<a, b>>, O \cup (a.outs \cup b.outs))
  BY <1>8, <1>9, StageJoin
<1> QED
  BY <1>1, <1>3, <1>10

LEMMA ApplyStage ==
    ASSUME setup \in Setups, layer \in 1..Depth, pc = "apply", attention # Vector, NEW I,
           hidden # Vector => Value(hidden) \in I, Value(attention) \in I
    PROVE  (\E S : Stage(S, I, Kernels, ApplyOuts)) /\ MlpResult \in ApplyOuts
<1> DEFINE u == Upload(HiddenRow)
<1> DEFINE o == DenseMatMul(AttentionRow, Buf("o"))
<1> DEFINE r == IF Fused THEN ResidualRmsNormPair(HiddenRow, Buf("o"), Buf("summed"), Buf("postNormed"))
                ELSE ResidualAdd(HiddenRow, Buf("o"), Buf("summed"))
<1> DEFINE a == MlpBatch(IF Fused THEN Buf("postNormed") ELSE Buf("summed"), Buf("mlp"))
<1> DEFINE b == ResidualAdd(Buf("summed"), Buf("mlp"), Buf("final"))
<1> DEFINE p == MlpBatch(Buf("o"), Buf("mlp"))
<1> DEFINE first == IF hidden = Vector THEN <<u>> ELSE <<>>
<1> DEFINE second == IF Shape.qwen THEN <<r>> ELSE <<>>
<1> DEFINE third == IF Shape.mlp THEN IF Shape.qwen THEN <<a, b>> ELSE <<p>> ELSE <<>>
<1> DEFINE S == {u, o, r, a, b, p}
<1>1. Shape.norm \in BOOLEAN /\ Shape.post \in BOOLEAN /\ Shape.mlp \in BOOLEAN /\ Shape.qwen \in BOOLEAN
  <2>1. Shape \in [norm : BOOLEAN, post : BOOLEAN, mlp : BOOLEAN, qwen : BOOLEAN]
    BY ShapeType DEF Shape
  <2> QED
    BY <2>1
<1>2. Kernels = first \o <<>> \o <<o>> \o second \o third
  BY <1>1 DEF Kernels, ApplyKernels, OProjKernels, ResidualKernels, QwenMlpKernels, PlainMlpKernels
<1>3. /\ u.reads = {} /\ u.outs = {HiddenRow}
      /\ o.reads = {Value(AttentionRow)} /\ o.outs = {Buf("o")}
      /\ r.reads = {Value(HiddenRow), Value(Buf("o"))}
      /\ r.outs = {Buf("summed")} \cup (IF Fused THEN {Buf("postNormed")} ELSE {})
      /\ a.reads = {Value(IF Fused THEN Buf("postNormed") ELSE Buf("summed"))} /\ a.outs = {Buf("mlp")}
      /\ b.reads = {Value(Buf("summed")), Value(Buf("mlp"))} /\ b.outs = {Buf("final")}
      /\ p.reads = {Value(Buf("o"))} /\ p.outs = {Buf("mlp")}
  BY DEF Upload, DenseMatMul, ResidualRmsNormPair, ResidualAdd, MlpBatch, Kernel, Of
<1> DEFINE O1 == IF hidden = Vector THEN {Buf("hidden")} ELSE {}
<1> DEFINE O2 == IF Shape.qwen THEN {Buf("summed")} \cup (IF Fused THEN {Buf("postNormed")} ELSE {}) ELSE {}
<1> DEFINE O3 == IF Shape.mlp THEN IF Shape.qwen THEN {Buf("mlp"), Buf("final")} ELSE {Buf("mlp")} ELSE {}
<1>4. AttentionRow = attention /\ HiddenRow = IF hidden = Vector THEN Buf("hidden") ELSE hidden
  BY DEF AttentionRow, HiddenRow
<1>5. ((((O1 \cup {}) \cup {Buf("o")}) \cup O2) \cup O3) = ApplyOuts /\ MlpResult \in ApplyOuts
  <2>1. ((((O1 \cup {}) \cup {Buf("o")}) \cup O2) \cup O3) = ApplyOuts
    BY DEF ApplyOuts
  <2>2. MlpResult \in ApplyOuts
    BY <1>1 DEF ApplyOuts, MlpResult
  <2> QED
    BY <2>1, <2>2
<1>6. {u, o, r, a, b, p} \subseteq S
  OBVIOUS
<1> HIDE DEF S, u, o, r, a, b, p
<1>7. Stage(S, I, first, O1)
  <2>1. Stage(S, I, <<u>>, u.outs) /\ Stage(S, I, <<>>, {})
    BY <1>3, <1>6, StageOne, StageNone
  <2> QED
    BY <1>3, <1>4, <2>1
<1> DEFINE I1 == I \cup Of(O1)
<1>8. Value(HiddenRow) \in I1 /\ Value(AttentionRow) \in I1
  BY <1>4 DEF Of
<1> DEFINE f2 == first \o <<>>
<1> DEFINE P2 == O1 \cup {}
<1>9. Stage(S, I, f2, P2)
  <2>1. Stage(S, I1, <<>>, {})
    BY StageNone
  <2> HIDE DEF first, O1
  <2> QED
    BY <1>7, <2>1, StageJoin
<1> DEFINE I2 == I \cup Of(P2)
<1>10. Value(HiddenRow) \in I2 /\ Value(AttentionRow) \in I2
  BY <1>8
<1> DEFINE f3 == f2 \o <<o>>
<1> DEFINE P3 == P2 \cup {Buf("o")}
<1>11. Stage(S, I, f3, P3)
  <2>1. Stage(S, I2, <<o>>, o.outs)
    BY <1>3, <1>6, <1>10, StageOne
  <2> HIDE DEF f2, P2
  <2>2. Stage(S, I, f2 \o <<o>>, P2 \cup o.outs)
    BY <1>9, <2>1, StageJoin
  <2> QED
    BY <1>3, <2>2
<1> DEFINE I3 == I \cup Of(P3)
<1>12. Value(HiddenRow) \in I3 /\ Value(Buf("o")) \in I3
  BY <1>10 DEF Of
<1> DEFINE f4 == f3 \o second
<1> DEFINE P4 == P3 \cup O2
<1>13. Stage(S, I, f4, P4)
  <2>1. Stage(S, I3, second, O2)
    <3>1. Stage(S, I3, <<r>>, r.outs) /\ Stage(S, I3, <<>>, {})
      <4>1. r.reads \subseteq I3
        BY <1>3, <1>12
      <4> HIDE DEF I3
      <4> QED
        BY <1>6, <4>1, StageOne, StageNone
    <3> QED
      BY <1>3, <3>1
  <2> HIDE DEF f3, P3, second, O2
  <2> QED
    BY <1>11, <2>1, StageJoin
<1> DEFINE I4 == I \cup Of(P4)
<1>14. /\ Value(Buf("o")) \in I4
       /\ Shape.qwen => /\ Value(Buf("summed")) \in I4
                        /\ Fused => Value(Buf("postNormed")) \in I4
  BY DEF Of
<1>15. Stage(S, I4, third, O3)
  <2>1. Shape.qwen => Stage(S, I4, <<a, b>>, a.outs \cup b.outs)
    <3> SUFFICES ASSUME Shape.qwen PROVE Stage(S, I4, <<a, b>>, a.outs \cup b.outs)
      OBVIOUS
    <3>1. a.reads \subseteq I4
      BY <1>3, <1>14
    <3>2. b.reads \subseteq I4 \cup Of(a.outs)
      BY <1>3, <1>14 DEF Of
    <3> HIDE DEF I4
    <3> QED
      BY <1>6, <3>1, <3>2, StageTwo
  <2>2. Stage(S, I4, <<p>>, p.outs) /\ Stage(S, I4, <<>>, {})
    <3>1. p.reads \subseteq I4
      BY <1>3, <1>14
    <3> HIDE DEF I4
    <3> QED
      BY <1>6, <3>1, StageOne, StageNone
  <2> HIDE DEF I4
  <2>3. a.outs \cup b.outs = {Buf("mlp"), Buf("final")}
    BY <1>3
  <2> QED
    BY <1>1, <1>3, <2>1, <2>2, <2>3
<1>16. Stage(S, I, f4 \o third, P4 \cup O3)
  <2> HIDE DEF f4, P4, third, O3
  <2> QED
    BY <1>13, <1>15, StageJoin
<1> QED
  BY <1>2, <1>5, <1>16

-----------------------------------------------------------------------------
(* Names.                                                                  *)

LEMMA BufIsMade ==
    ASSUME setup \in Setups, layer \in 0..Depth, NEW w \in Names
    PROVE  Buf(w) \in Made(token)
  BY DEF Buf, Made

LEMMA ResultIsName ==
    ASSUME setup \in Setups, layer \in 1..Depth
    PROVE  /\ MlpResult = Buf(ResultOf(layer))
           /\ ResultOf(layer) \in {"o", "mlp", "summed", "final"}
<1>1. Shape.mlp \in BOOLEAN /\ Shape.qwen \in BOOLEAN /\ Shape = setup.layers[layer]
  BY ShapeType DEF Shape
<1> QED
  BY <1>1 DEF MlpResult, ResultOf

LEMMA KeptAre ==
    ASSUME setup \in Setups, layer \in 1..Depth, NEW w \in Names
    PROVE  IsKept(Buf(w)) <=> \/ w \in {"embedding", "normed", "q", "k", "v", "finalNorm"}
                              \/ ~setup.candidates /\ w = ResultOf(layer)
  BY DEF IsKept, Buf

\* The tensors of two tokens differ, and none is a row cache's.
LEMMA MadeApart ==
    /\ \A n, m : \A b \in Made(n) : b \in Made(m) => n = m
    /\ \A n : \A b \in Made(n) : b \notin RowsOf
    /\ \A n : \A b \in Made(n) : \A l, v : b # RowBuffer(l, v, "K") /\ b # RowBuffer(l, v, "V")
  BY DEF Made, RowsOf, RowBuffer, Names

LEMMA VectorIsNot ==
    ASSUME setup \in Setups, NEW n
    PROVE  Vector \notin Made(n)
  BY DEF Made, Vector, Names

LEMMA NamesStay ==
    ASSUME setup' = setup
    PROVE  /\ Depth' = Depth /\ Bound' = Bound /\ RowsOf' = RowsOf
           /\ \A n : Made(n)' = Made(n)
           /\ \A l : ResultOf(l)' = ResultOf(l)
           /\ \A b : IsKept(b)' <=> IsKept(b)
<1>1. Depth' = Depth
  BY DEF Depth
<1>2. \A l : ResultOf(l)' = ResultOf(l)
  BY DEF ResultOf
<1> QED
  BY <1>1, <1>2 DEF Bound, RowsOf, Made, RowBuffer, IsKept

\* What a batch promises.
LEMMA PromisedAre ==
    \A x : x \in Promised <=> x \in written \/ \E i \in 1..Len(cmds) : x \in cmds[i].writes
  BY DEF Promised

LEMMA PromisedStay ==
    ASSUME UNCHANGED <<live, written, cmds>>
    PROVE  Promised' = Promised /\ \A T : Present(T)' <=> Present(T)
  BY DEF Promised, Present, Of, Value

LEMMA KernelsStay ==
    ASSUME UNCHANGED <<setup, pc, layer, token, hidden, attention, rows>>
    PROVE  Kernels' = Kernels
<1>1. Shape' = Shape /\ Required' = Required /\ (\A w : Buf(w)' = Buf(w))
  BY DEF Shape, Required, Buf
<1>2. HiddenRow' = HiddenRow /\ AttentionRow' = AttentionRow /\ AttentionInput' = AttentionInput
      /\ MlpResult' = MlpResult /\ (Fused' <=> Fused)
  BY <1>1 DEF HiddenRow, AttentionRow, AttentionInput, MlpResult, Fused
<1>3. ProjectKernels' = ProjectKernels
  BY <1>1, <1>2 DEF ProjectKernels, Upload, PackedQkv, NormRopePair, DenseMatMul, QkvPostProjection, Kernel, Of, Value
<1>4. AttendKernels' = AttendKernels
  BY <1>1 DEF AttendKernels, SparseAttention, Kernel, Of, Value, RowCells, RowBuffer
<1>5. OProjKernels' = OProjKernels /\ ResidualKernels' = ResidualKernels
      /\ QwenMlpKernels' = QwenMlpKernels /\ PlainMlpKernels' = PlainMlpKernels
  BY <1>1, <1>2 DEF OProjKernels, ResidualKernels, QwenMlpKernels, PlainMlpKernels,
     Upload, DenseMatMul, ResidualRmsNormPair, ResidualAdd, MlpBatch, Kernel, Of, Value
<1>6. ApplyKernels' = ApplyKernels
  BY <1>1, <1>5 DEF ApplyKernels
<1>7. LogitKernels(MlpResult)' = LogitKernels(MlpResult) /\ LogitKernels(hidden)' = LogitKernels(hidden)
  BY <1>1, <1>2 DEF LogitKernels, RmsNorm, Kernel, Of, Value
<1> QED
  BY <1>1, <1>3, <1>4, <1>6, <1>7 DEF Kernels, EmbeddingLookup, RmsNorm, Kernel, Of, Value

-----------------------------------------------------------------------------
(* Commands.                                                               *)

LEMMA CellsStay == ASSUME UNCHANGED <<setup, token>> PROVE Cells' = Cells /\ Command' = Command
<1>1. Cells' = Cells
  BY NamesStay DEF Cells, Made
<1> QED
  BY <1>1 DEF Command

LEMMA MemoryStays == ASSUME Memory, UNCHANGED <<setup, token, live, written, cmds>> PROVE Memory'
<1>1. Command' = Command /\ Bound' = Bound
  BY CellsStay, NamesStay
<1> QED
  BY <1>1 DEF Memory, IsFlow

\* Commands that are recorded behind the others.
LEMMA MemoryGrows ==
    ASSUME Memory, UNCHANGED <<setup, token>>,
           NEW cs \in Seq(Command), cmds' = cmds \o cs, live \subseteq live',
           written \subseteq written', written' \subseteq live' \X (1..Bound),
           \A i \in 1..Len(cs) : cs[i].reads \cup cs[i].writes \subseteq live' \X (1..Bound),
           \A i \in 1..Len(cs) : \A x \in cs[i].reads :
              x \in Promised \cup written' \/ \E j \in 1..Len(cs) : j < i /\ x \in cs[j].writes
    PROVE  /\ Memory'
           /\ \A x : x \in Promised' <=>
                 x \in written' \/ x \in Promised \/ \E i \in 1..Len(cs) : x \in cs[i].writes
<1> DEFINE all == cmds \o cs
<1> DEFINE m == Len(cmds)
<1> DEFINE n == Len(cs)
<1>0. cmds \in Seq(Command)
  BY DEF Memory
<1>1. /\ all \in Seq(Command) /\ Len(all) = m + n /\ m \in Nat /\ n \in Nat
      /\ \A i \in 1..(m + n) : all[i] = IF i <= m THEN cmds[i] ELSE cs[i - m]
  BY <1>0, ConcatProperties, LenProperties
<1> HIDE DEF all, m, n
<1>2. \A i \in 1..m : all[i] = cmds[i] /\ i \in 1..(m + n)
  BY <1>1
<1>3. \A i \in 1..n : all[m + i] = cs[i] /\ m + i \in 1..(m + n)
  BY <1>1
<1>4. \A i \in 1..(m + n) : i \in 1..m \/ (i - m \in 1..n /\ i = m + (i - m))
  BY <1>1
<1>5. \A x : (\E i \in 1..(m + n) : x \in all[i].writes) <=>
             (\E i \in 1..m : x \in cmds[i].writes) \/ (\E i \in 1..n : x \in cs[i].writes)
  <2> SUFFICES ASSUME NEW x
               PROVE  (\E i \in 1..(m + n) : x \in all[i].writes) <=>
                      (\E i \in 1..m : x \in cmds[i].writes) \/ (\E i \in 1..n : x \in cs[i].writes)
    OBVIOUS
  <2>1. ASSUME NEW i \in 1..(m + n), x \in all[i].writes
        PROVE  (\E j \in 1..m : x \in cmds[j].writes) \/ (\E j \in 1..n : x \in cs[j].writes)
    BY <1>2, <1>3, <1>4, <2>1, SMTT(30)
  <2>2. ASSUME NEW i \in 1..m, x \in cmds[i].writes
        PROVE  \E j \in 1..(m + n) : x \in all[j].writes
    BY <1>2, <2>2
  <2>3. ASSUME NEW i \in 1..n, x \in cs[i].writes
        PROVE  \E j \in 1..(m + n) : x \in all[j].writes
    BY <1>3, <2>3
  <2> QED
    BY <2>1, <2>2, <2>3
<1>6. cmds' = all /\ Len(all) = m + n
  BY <1>1 DEF all
<1>7. \A x : x \in Promised' <=> x \in written' \/ \E i \in 1..(m + n) : x \in all[i].writes
  BY <1>6 DEF Promised
<1>8. \A x : x \in Promised <=> x \in written \/ \E i \in 1..m : x \in cmds[i].writes
  BY PromisedAre DEF m
<1>9. \A i \in 1..m : /\ cmds[i].reads \cup cmds[i].writes \subseteq live \X (1..Bound)
                      /\ \A x \in cmds[i].reads :
                            x \in written \/ \E j \in 1..m : j < i /\ x \in cmds[j].writes
  BY DEF Memory, IsFlow, m
<1>10. \A i \in 1..n : /\ cs[i].reads \cup cs[i].writes \subseteq live' \X (1..Bound)
                       /\ \A x \in cs[i].reads :
                            x \in Promised \cup written' \/ \E j \in 1..n : j < i /\ x \in cs[j].writes
  BY DEF n
<1>11. ASSUME NEW i \in 1..m
       PROVE  /\ all[i].reads \cup all[i].writes \subseteq live' \X (1..Bound)
              /\ \A x \in all[i].reads :
                    x \in written' \/ \E j \in 1..(m + n) : j < i /\ x \in all[j].writes
  <2>1. all[i].reads \cup all[i].writes \subseteq live' \X (1..Bound)
    BY <1>2, <1>9
  <2>2. ASSUME NEW x \in all[i].reads
        PROVE  x \in written' \/ \E j \in 1..(m + n) : j < i /\ x \in all[j].writes
    <3>1. x \in written \/ \E j \in 1..m : j < i /\ x \in cmds[j].writes
      BY <1>2, <1>9
    <3> QED
      BY <1>2, <3>1
  <2> QED
    BY <2>1, <2>2
<1>12. ASSUME NEW k \in 1..n
       PROVE  /\ all[m + k].reads \cup all[m + k].writes \subseteq live' \X (1..Bound)
              /\ \A x \in all[m + k].reads :
                    x \in written' \/ \E j \in 1..(m + n) : j < m + k /\ x \in all[j].writes
  <2>1. \A j \in 1..m : j < m + k
    BY <1>1
  <2>2. \A j \in 1..n : j < k => m + j < m + k
    BY <1>1
  <2>3. all[m + k].reads \cup all[m + k].writes \subseteq live' \X (1..Bound)
    BY <1>3, <1>10
  <2>4. ASSUME NEW x \in all[m + k].reads
        PROVE  x \in written' \/ \E j \in 1..(m + n) : j < m + k /\ x \in all[j].writes
    <3>1. x \in Promised \cup written' \/ \E j \in 1..n : j < k /\ x \in cs[j].writes
      BY <1>3, <1>10
    <3>2. CASE x \in Promised \cup written'
      <4>1. x \in written' \/ \E i \in 1..m : x \in cmds[i].writes
        BY <1>8, <3>2
      <4> QED
        BY <1>2, <2>1, <4>1
    <3>3. CASE \E j \in 1..n : j < k /\ x \in cs[j].writes
      BY <1>3, <2>2, <3>3
    <3> QED
      BY <3>1, <3>2, <3>3
  <2> QED
    BY <2>3, <2>4
<1>13. ASSUME NEW i \in 1..(m + n)
       PROVE  /\ all[i].reads \cup all[i].writes \subseteq live' \X (1..Bound)
              /\ \A x \in all[i].reads :
                    x \in written' \/ \E j \in 1..(m + n) : j < i /\ x \in all[j].writes
  <2>1. CASE i \in 1..m
    BY <1>11, <2>1
  <2>2. CASE i - m \in 1..n /\ i = m + (i - m)
    <3> DEFINE k == i - m
    <3>1. k \in 1..n /\ i = m + k
      BY <2>2
    <3> HIDE DEF k
    <3> QED
      BY <1>12, <3>1
  <2> QED
    BY <1>4, <2>1, <2>2
<1>14. Command' = Command /\ Bound' = Bound
  BY CellsStay, NamesStay
<1>15. IsFlow(written, cmds)'
  BY <1>6, <1>13 DEF IsFlow
<1>16. Memory'
  <2>1. cmds' \in Seq(Command') /\ written' \subseteq live' \X (1..Bound')
    BY <1>1, <1>6, <1>14
  <2>2. \A i \in 1..Len(cmds') : cmds'[i].reads \cup cmds'[i].writes \subseteq live' \X (1..Bound')
    BY <1>6, <1>13, <1>14
  <2> QED
    BY <1>15, <2>1, <2>2 DEF Memory
<1>17. ASSUME NEW x
       PROVE  x \in Promised' <=> x \in written' \/ x \in Promised \/ \E i \in 1..n : x \in cs[i].writes
  <2> DEFINE old == \E i \in 1..m : x \in cmds[i].writes
  <2> DEFINE more == \E i \in 1..n : x \in cs[i].writes
  <2>1. x \in Promised' <=> x \in written' \/ old \/ more
    BY <1>5, <1>7
  <2>2. x \in Promised <=> x \in written \/ old
    BY <1>8
  <2>3. x \in written => x \in written'
    OBVIOUS
  <2> HIDE DEF old, more
  <2>4. x \in Promised' <=> x \in written' \/ x \in Promised \/ more
    BY <2>1, <2>2, <2>3
  <2> QED
    BY <2>4 DEF more
<1> QED
  BY <1>16, <1>17 DEF n

\* One command, recorded or submitted at once.
LEMMA Records ==
    ASSUME Memory, ~batching => cmds = <<>>, UNCHANGED <<setup, token>>,
           NEW c \in Command, c.reads \subseteq Promised,
           c.reads \cup c.writes \subseteq live' \X (1..Bound), live \subseteq live',
           SubmitOrRecord(<<c>>, written)
    PROVE  Memory' /\ Promised' = Promised \cup c.writes
<1> DEFINE cs == <<c>>
<1>1. cs \in Seq(Command) /\ Len(cs) = 1 /\ cs[1] = c /\ \A i \in 1..1 : i = 1
  OBVIOUS
<1>2. DOMAIN cs = 1..1
  OBVIOUS
<1>3. written \subseteq live \X (1..Bound)
  BY DEF Memory
<1> HIDE DEF cs
<1>4. CASE batching
  <2>1. cmds' = cmds \o cs /\ written' = written
    BY <1>4 DEF SubmitOrRecord, cs
  <2>2. \A i \in 1..Len(cs) : cs[i].reads \cup cs[i].writes \subseteq live' \X (1..Bound)
    BY <1>1
  <2>3. \A i \in 1..Len(cs) : \A x \in cs[i].reads :
           x \in Promised \cup written' \/ \E j \in 1..Len(cs) : j < i /\ x \in cs[j].writes
    BY <1>1
  <2>4. written \subseteq written' /\ written' \subseteq live' \X (1..Bound)
    BY <1>3, <2>1
  <2>5. /\ Memory'
        /\ \A x : x \in Promised' <=>
              x \in written' \/ x \in Promised \/ \E i \in 1..Len(cs) : x \in cs[i].writes
    BY <1>1, <2>1, <2>2, <2>3, <2>4, MemoryGrows
  <2>6. \A x : x \in Promised' <=> x \in Promised \/ x \in c.writes
    BY <1>1, <2>1, <2>5, PromisedAre
  <2> QED
    BY <2>5, <2>6
<1>5. CASE ~batching
  <2>1. cmds = <<>> /\ cmds' = <<>> /\ written' = FoldLeft(Compute, written, cs)
    BY <1>5 DEF SubmitOrRecord, cs
  <2>2. Promised = written /\ Promised' = written'
    BY <2>1 DEF Promised
  <2>3. IsFlow(written, cs)
    BY <1>1, <2>2 DEF IsFlow
  <2>4. written' = written \cup UNION {cs[i].writes : i \in 1..1}
    BY <1>1, <1>2, <2>1, <2>3, FoldIsUnion
  <2>5. written' = written \cup c.writes
    BY <1>1, <2>4
  <2>6. Memory'
    <3>1. written' \subseteq live' \X (1..Bound) /\ Bound' = Bound
      BY <1>3, <2>5, NamesStay
    <3>2. cmds' \in Seq(Command') /\ Len(cmds') = 0 /\ \A i \in 1..Len(cmds') : FALSE
      BY <2>1
    <3>3. IsFlow(written, cmds)'
      BY <3>2 DEF IsFlow
    <3> QED
      BY <3>1, <3>2, <3>3 DEF Memory
  <2> QED
    BY <2>2, <2>5, <2>6
<1> QED
  BY <1>4, <1>5

\* Cells that are written at once.
LEMMA Uploaded ==
    ASSUME Memory, UNCHANGED <<setup, token, cmds>>, NEW O, written' = written \cup O,
           O \subseteq live' \X (1..Bound), live \subseteq live'
    PROVE  Memory' /\ Promised' = Promised \cup O
<1> DEFINE cs == <<>>
<1>0. cmds \in Seq(Command) /\ written \subseteq live \X (1..Bound)
  BY DEF Memory
<1>1. cs \in Seq(Command) /\ Len(cs) = 0 /\ \A i \in 1..Len(cs) : FALSE
  OBVIOUS
<1>2. cmds' = cmds \o cs
  BY <1>0
<1> HIDE DEF cs
<1>3. written \subseteq written' /\ written' \subseteq live' \X (1..Bound)
  BY <1>0
<1>4. \A i \in 1..Len(cs) : cs[i].reads \cup cs[i].writes \subseteq live' \X (1..Bound)
  BY <1>1
<1>5. \A i \in 1..Len(cs) : \A x \in cs[i].reads :
           x \in Promised \cup written' \/ \E j \in 1..Len(cs) : j < i /\ x \in cs[j].writes
  BY <1>1
<1>6. /\ Memory'
      /\ \A x : x \in Promised' <=>
            x \in written' \/ x \in Promised \/ \E i \in 1..Len(cs) : x \in cs[i].writes
  BY <1>1, <1>2, <1>3, <1>4, <1>5, MemoryGrows
<1>7. \A x : x \in Promised' <=> x \in Promised \/ x \in O
  BY <1>1, <1>6, PromisedAre
<1> QED
  BY <1>6, <1>7

-----------------------------------------------------------------------------
(* A kernel.                                                               *)

StageOut ==
    CASE pc = "embed" -> {Buf("embedding")}
      [] pc = "norm" -> IF hidden # Vector /\ Shape.norm THEN {Buf("normed")} ELSE {}
      [] pc = "project" -> ProjectOuts
      [] pc = "attend" -> {Buf("attention")}
      [] pc = "apply" -> ApplyOuts
      [] pc = "logits" -> IF setup.finalNorm THEN {Buf("finalNorm")} ELSE {}

LEMMA ValuesAreCells ==
    ASSUME token \in 0..MaxTokens
    PROVE  /\ 1 \in 1..Bound /\ Bound \in Nat /\ Prompt + token <= Bound
           /\ \A b \in Made(token) : Value(b) \in Cells
<1>1. Prompt \in Nat /\ Prompt > 0 /\ MaxTokens \in Nat
  BY PromptIsNotEmpty
<1>2. 1 \in 1..Bound /\ Bound \in Nat /\ Prompt + token <= Bound
  BY <1>1 DEF Bound
<1> QED
  BY <1>2 DEF Cells, Value

LEMMA RowsAreCells ==
    ASSUME token \in 0..MaxTokens, NEW l \in 1..Depth, NEW r \in RowCache, NEW x \in {"K", "V"},
           r.version > 0, r.version <= r.count, r.count <= Prompt + token
    PROVE  RowCells(l, r, x) \subseteq Cells /\ RowBuffer(l, r.version, x) \in RowsOf
<1>1. r.version \in Nat /\ r.count \in Nat
  BY DEF RowCache
<1>2. Bound \in Nat /\ Prompt + token <= Bound /\ Prompt + token \in Nat
  BY ValuesAreCells, PromptIsNotEmpty
<1>3. r.version \in 1..Bound /\ \A i \in 1..r.count : i \in 1..Bound
  BY <1>1, <1>2
<1>4. RowBuffer(l, r.version, x) \in RowsOf
  BY <1>3 DEF RowsOf
<1> QED
  BY <1>3, <1>4 DEF RowCells, Cells

LEMMA ReqStage ==
    ASSUME Required, Phases, Named, Tensors, RowsKept, Counted, pc \in Stages
    PROVE  \E S, I : Stage(S, I, Kernels, StageOut) /\ I \subseteq Promised \cap Cells
<1>0. /\ setup \in Setups /\ token \in 0..MaxTokens
      /\ pc \in {"embed", "norm", "project", "attend", "apply", "logits"}
  BY DEF Phases, Held, After, Stages
<1>1. \A b \in Made(token) : Value(b) \in Cells
  BY <1>0, ValuesAreCells
<1>2. ASSUME hidden # Vector PROVE Value(hidden) \in Promised \cap Cells
  <2>1. hidden \in Made(token) /\ Of({hidden}) \subseteq Promised
    BY <1>2 DEF Named, Tensors, Present
  <2> QED
    BY <1>1, <2>1 DEF Of
<1>3. CASE pc = "embed"
  <2>1. StageOut = {Buf("embedding")}
    BY <1>3 DEF StageOut
  <2>2. \E S : Stage(S, {}, Kernels, {Buf("embedding")})
    BY <1>3, EmbedStage
  <2> QED
    BY <2>1, <2>2
<1>4. CASE pc = "norm"
  <2> DEFINE I == IF hidden # Vector THEN {Value(hidden)} ELSE {}
  <2>1. StageOut = IF hidden # Vector /\ Shape.norm THEN {Buf("normed")} ELSE {}
    BY <1>4 DEF StageOut
  <2>2. I \subseteq Promised \cap Cells /\ (hidden # Vector => Value(hidden) \in I)
    BY <1>2
  <2> HIDE DEF I
  <2>3. \E S : Stage(S, I, Kernels, IF hidden # Vector /\ Shape.norm THEN {Buf("normed")} ELSE {})
    BY <1>4, <2>2, NormStage
  <2> QED
    BY <2>1, <2>2, <2>3
<1>5. CASE pc = "project"
  <2> DEFINE I == IF hidden # Vector THEN {Value(AttentionInput)} ELSE {}
  <2>1. StageOut = ProjectOuts
    BY <1>5 DEF StageOut
  <2>2. I \subseteq Promised \cap Cells /\ (hidden # Vector => Value(AttentionInput) \in I)
    <3>1. hidden # Vector => AttentionInput \in Made(token) /\ Of({AttentionInput}) \subseteq Promised
      BY <1>5 DEF Named, Tensors, Present
    <3> QED
      BY <1>1, <3>1 DEF Of
  <2> HIDE DEF I
  <2>3. \E S : Stage(S, I, Kernels, ProjectOuts)
    BY <1>5, <2>2, RequiredProjectStage
  <2> QED
    BY <2>1, <2>2, <2>3
<1>6. CASE pc = "attend"
  <2> DEFINE r == rows[layer]
  <2> DEFINE I == {Value(Buf("q"))} \cup RowCells(layer, r, "K") \cup RowCells(layer, r, "V")
  <2>1. StageOut = {Buf("attention")}
    BY <1>6 DEF StageOut
  <2>2. layer \in 1..Depth /\ token > 0 /\ Appended(layer)
    BY <1>6 DEF Phases, Held, Appended
  <2>3. r \in RowCache /\ r.version > 0 /\ r.version <= r.count /\ r.count <= Prompt + token
    <3>1. r \in RowCache /\ r.version <= r.count
      BY <2>2 DEF Counted
    <3>2. r.version > 0 /\ r.count = Prompt + token
      BY <1>6, <2>2 DEF Counted
    <3>3. Prompt + token \in Nat
      BY <1>0, PromptIsNotEmpty
    <3> QED
      BY <3>1, <3>2, <3>3
  <2>4. RowCells(layer, r, "K") \subseteq Promised /\ RowCells(layer, r, "V") \subseteq Promised
    BY <2>2, <2>3 DEF RowsKept
  <2>5. Value(Buf("q")) \in Promised \cap Cells
    <3>1. Buf("q") \in Projection
      BY DEF Projection
    <3>2. Buf("q") \in Made(token) /\ Of({Buf("q")}) \subseteq Promised
      BY <1>6, <3>1 DEF Tensors, Named, Present, Of
    <3> QED
      BY <1>1, <3>2 DEF Of
  <2>6. RowCells(layer, r, "K") \subseteq Cells /\ RowCells(layer, r, "V") \subseteq Cells
    <3> HIDE DEF r
    <3> QED
      BY <1>0, <2>2, <2>3, RowsAreCells
  <2>7. I \subseteq Promised \cap Cells
    BY <2>4, <2>5, <2>6
  <2>8. Value(Buf("q")) \in I /\ RowCells(layer, rows[layer], "K") \subseteq I
        /\ RowCells(layer, rows[layer], "V") \subseteq I
    OBVIOUS
  <2> HIDE DEF I
  <2>9. \E S : Stage(S, I, Kernels, {Buf("attention")})
    BY <1>6, <2>8, AttendStage
  <2> QED
    BY <2>1, <2>7, <2>9
<1>7. CASE pc = "apply"
  <2> DEFINE I == {Value(attention)} \cup (IF hidden # Vector THEN {Value(hidden)} ELSE {})
  <2>1. StageOut = ApplyOuts /\ layer \in 1..Depth
    BY <1>7 DEF StageOut, Phases, Held
  <2>2. attention = Buf("attention") /\ attention \in Made(token) /\ attention # Vector
    <3>1. "attention" \in Names /\ layer \in 0..Depth
      BY <2>1 DEF Names, Phases
    <3>2. attention = Buf("attention") /\ attention \in Made(token)
      BY <1>0, <1>7, <3>1, BufIsMade DEF Phases
    <3> QED
      BY <1>0, <3>2, VectorIsNot
  <2>3. Value(attention) \in Promised \cap Cells
    <3>1. Of({attention}) \subseteq Promised
      BY <2>2 DEF Tensors, Present
    <3> QED
      BY <1>1, <2>2, <3>1 DEF Of
  <2>4. I \subseteq Promised \cap Cells /\ Value(attention) \in I
        /\ (hidden # Vector => Value(hidden) \in I)
    BY <1>2, <2>3
  <2> HIDE DEF I
  <2>5. \E S : Stage(S, I, Kernels, ApplyOuts)
    BY <1>0, <1>7, <2>1, <2>2, <2>4, ApplyStage
  <2> QED
    BY <2>1, <2>4, <2>5
<1>8. CASE pc = "logits"
  <2> DEFINE I == {Value(hidden)}
  <2>1. StageOut = IF setup.finalNorm THEN {Buf("finalNorm")} ELSE {}
    BY <1>8 DEF StageOut
  <2>2. I \subseteq Promised \cap Cells /\ Value(hidden) \in I
    BY <1>2, <1>8 DEF Phases
  <2> HIDE DEF I
  <2>3. \E S : Stage(S, I, Kernels, IF setup.finalNorm THEN {Buf("finalNorm")} ELSE {})
    BY <1>8, <2>2, LogitStage
  <2> QED
    BY <2>1, <2>2, <2>3
<1> QED
  BY <1>0, <1>3, <1>4, <1>5, <1>6, <1>7, <1>8

\* What a stage makes are tensors of the token, and each of them has an owner.
LEMMA OutsAreMade ==
    ASSUME Phases, pc \in Stages
    PROVE  /\ StageOut \subseteq Made(token)
           /\ pc \in Kept => \A b \in StageOut : IsKept(b)
           /\ pc = "project" => StageOut = ProjectOuts
           /\ pc = "apply" => StageOut = ApplyOuts
           /\ pc = "attend" => StageOut = {Buf("attention")}
<1>0. /\ setup \in Setups /\ layer \in 0..Depth
      /\ pc \in {"embed", "norm", "project", "attend", "apply", "logits"}
  BY DEF Phases, Held, After, Stages
<1>1. \A w \in Names : Buf(w) \in Made(token)
  BY <1>0, BufIsMade
<1>2. StageOut \subseteq {Buf(w) : w \in Names}
  BY <1>0 DEF StageOut, ProjectOuts, ApplyOuts, Names
<1>3. pc \in Kept => \A b \in StageOut : IsKept(b)
  BY <1>0 DEF StageOut, Kept, IsKept, Buf
<1> QED
  BY <1>1, <1>2, <1>3 DEF StageOut

LEMMA PromisedAreLive ==
    ASSUME Memory
    PROVE  Promised \subseteq live \X (1..Bound)
  BY DEF Memory, Promised

\* Who keeps the rows, when buffers and promises only grow.
LEMMA RowsStay ==
    ASSUME RowsKept, UNCHANGED <<setup, rows>>, live \subseteq live', Promised \subseteq Promised'
    PROVE  RowsKept'
<1>1. Depth' = Depth /\ rows' = rows
  BY NamesStay
<1>2. ASSUME NEW l \in 1..Depth, NEW x \in {"K", "V"}, rows[l].version > 0
      PROVE  /\ RowBuffer(l, rows[l].version, x) \in live'
             /\ RowCells(l, rows[l], x) \subseteq Promised'
  BY <1>2 DEF RowsKept
<1>3. \A l \in 1..Depth : \A x \in {"K", "V"} : rows'[l].version > 0 =>
         /\ RowBuffer(l, rows'[l].version, x) \in live'
         /\ RowCells(l, rows'[l], x) \subseteq Promised'
  BY <1>1, <1>2
<1> QED
  BY <1>1, <1>3 DEF RowsKept, RowCells, RowBuffer

LEMMA CountsStay ==
    ASSUME Counted, UNCHANGED <<setup, rows, token>>,
           pc' # "failed" => pc # "failed" /\ \A l \in 1..Depth : Appended(l)' <=> Appended(l)
    PROVE  Counted'
<1>1. Depth' = Depth
  BY NamesStay
<1> QED
  BY <1>1 DEF Counted

LEMMA CleanupsStay ==
    ASSUME Cleanups, UNCHANGED <<setup, token, cleaning>>,
           token = 0 => cleaning = <<>>,
           batching => batching' \/ pc' \in After \cup {"failed"},
           ~batching /\ pc \in After \cup {"failed"} => ~batching' /\ pc' \in After \cup {"failed"}
    PROVE  Cleanups'
  BY NamesStay DEF Cleanups
LEMMA KernelKeeps == ASSUME Required, ReqInv, RunKernel PROVE ReqInv'
<1> DEFINE k == Kernels[done + 1]
<1> DEFINE outs == k.outs
<1> DEFINE O == Of(outs)
<1>0. Phases /\ Named /\ Cleanups /\ Memory /\ Tensors /\ RowsKept /\ Counted /\ Owned
  BY DEF ReqInv
<1>1. /\ UNCHANGED <<setup, token, batching, rows, hasLogits, pc, layer, deferred, cleaning,
                     hidden, attention, reading, faults>>
      /\ pc \in Stages /\ done \in Nat /\ done < Len(Kernels) /\ done' = done + 1
      /\ live' = live \cup outs
      /\ IF k.uploads THEN written' = written \cup O /\ UNCHANGED cmds
         ELSE SubmitOrRecord(<<[reads |-> k.reads, writes |-> O]>>, written)
      /\ scope' = IF pc \in Scoped THEN scope \cup outs ELSE scope
      /\ remembered' = IF pc \in Kept THEN remembered \cup outs ELSE remembered
  BY <1>0 DEF RunKernel, run, Phases
<1>2. setup \in Setups /\ token \in 0..MaxTokens /\ (~batching => cmds = <<>>)
      /\ pc \in {"embed", "norm", "project", "attend", "apply", "logits"}
  BY <1>0, <1>1 DEF Phases, Held, After, Stages
<1>3. PICK S, I : Stage(S, I, Kernels, StageOut) /\ I \subseteq Promised \cap Cells
  BY <1>0, <1>1, ReqStage
<1>4. /\ StageOut \subseteq Made(token)
      /\ pc \in Kept => \A b \in StageOut : IsKept(b)
      /\ pc = "project" => StageOut = ProjectOuts
      /\ pc = "apply" => StageOut = ApplyOuts
      /\ pc = "attend" => StageOut = {Buf("attention")}
  BY <1>0, <1>1, OutsAreMade
<1>5. /\ Len(Kernels) \in Nat /\ done + 1 \in 1..Len(Kernels)
      /\ \A j \in 1..Len(Kernels) : j < done + 1 => j \in 1..done
      /\ \A j \in 1..done : j \in 1..Len(Kernels)
  <2>1. Len(Kernels) \in Nat
    BY <1>3, LenProperties DEF Stage
  <2> QED
    BY <1>1, <2>1
<1>6. outs \subseteq StageOut /\ outs \subseteq Made(token) /\ Ran \subseteq StageOut
  <2>1. \A i \in 1..Len(Kernels) : Kernels[i].outs \subseteq StageOut
    BY <1>3 DEF Stage
  <2>2. outs \subseteq StageOut
    <3> DEFINE n == done + 1
    <3>1. n \in 1..Len(Kernels)
      BY <1>5
    <3>2. outs = Kernels[n].outs
      OBVIOUS
    <3> HIDE DEF n, outs, k
    <3> QED
      BY <2>1, <3>1, <3>2
  <2>3. Ran \subseteq StageOut
    <3>1. ASSUME NEW j \in 1..done PROVE Kernels[j].outs \subseteq StageOut
      <4>1. done \in Nat /\ j \in Nat /\ 1 <= j /\ j <= done
        BY <1>1
      <4>2. j \in 1..Len(Kernels)
        BY <1>1, <1>5, <4>1
      <4> QED
        BY <2>1, <4>2
    <3> QED
      BY <3>1 DEF Ran
  <2> QED
    BY <1>4, <2>2, <2>3
<1>7. k.reads \subseteq Promised \cap Cells
  <2> SUFFICES ASSUME NEW x \in k.reads PROVE x \in Promised \cap Cells
    OBVIOUS
  <2>1. x \in I \/ \E j \in 1..Len(Kernels) : j < done + 1 /\ x \in Of(Kernels[j].outs)
    BY <1>3, <1>5 DEF Stage
  <2>2. Of(Ran) \subseteq Promised
    BY <1>0, <1>1 DEF Tensors, Present
  <2>3. Of(Ran) \subseteq Cells
    BY <1>2, <1>4, <1>6, ValuesAreCells DEF Of
  <2>4. \A j \in 1..done : Of(Kernels[j].outs) \subseteq Of(Ran)
    BY DEF Of, Ran
  <2> QED
    BY <1>3, <1>5, <2>1, <2>2, <2>3, <2>4
<1>8. O \subseteq Cells /\ O \subseteq live' \X (1..Bound) /\ k.reads \subseteq live' \X (1..Bound)
  <2>1. O \subseteq Cells
    BY <1>2, <1>6, ValuesAreCells DEF Of
  <2>2. O \subseteq live' \X (1..Bound)
    BY <1>1, <1>2, ValuesAreCells DEF Of, Value
  <2>3. Promised \subseteq live \X (1..Bound)
    BY <1>0, PromisedAreLive
  <2> QED
    BY <1>1, <1>7, <2>1, <2>2, <2>3
<1> HIDE DEF outs, O
<1>9. Memory' /\ Promised' = Promised \cup O
  <2> DEFINE c == [reads |-> k.reads, writes |-> O]
  <2>1. c \in Command /\ c.reads = k.reads /\ c.writes = O
    BY <1>7, <1>8 DEF Command
  <2>2. CASE k.uploads
    BY <1>0, <1>1, <1>8, <2>2, Uploaded
  <2>3. CASE ~k.uploads
    <3>1. SubmitOrRecord(<<c>>, written)
      BY <1>1, <2>3
    <3>2. c.reads \subseteq Promised /\ c.reads \cup c.writes \subseteq live' \X (1..Bound)
      BY <1>7, <1>8, <2>1
    <3>3. Memory /\ (~batching => cmds = <<>>) /\ UNCHANGED <<setup, token>> /\ live \subseteq live'
      BY <1>0, <1>1, <1>2
    <3> HIDE DEF c, k
    <3>4. Memory' /\ Promised' = Promised \cup c.writes
      BY <2>1, <3>1, <3>2, <3>3, Records
    <3> QED
      BY <2>1, <3>4
  <2> QED
    BY <2>2, <2>3
<1>10. Ran' = Ran \cup outs
  <2>1. Kernels' = Kernels
    BY <1>1, KernelsStay
  <2>2. 1..(done + 1) = (1..done) \cup {done + 1}
    BY <1>1
  <2> QED
    BY <1>1, <2>1, <2>2 DEF Ran, outs
<1>11. \A T : Present(T) => Present(T)'
  BY <1>1, <1>9 DEF Present, Of, Value
<1>12. outs \subseteq live' /\ Of(outs) \subseteq Promised'
  BY <1>1, <1>9 DEF O
<1> HIDE DEF k
<1>13. Phases'
  <2>1. Depth' = Depth /\ Buf("attention")' = Buf("attention")
    BY <1>1, NamesStay DEF Buf
  <2>2. ~batching => cmds' = <<>> /\ deferred' = {}
    <3> SUFFICES ASSUME ~batching PROVE cmds' = <<>>
      BY <1>0, <1>1 DEF Phases
    <3> QED
      BY <1>1, <1>2 DEF SubmitOrRecord
  <2> QED
    BY <1>0, <1>1, <1>2, <2>1, <2>2 DEF Phases
<1>14. Named'
  <2>1. remembered' \subseteq Made(token) /\ \A b \in remembered' : IsKept(b)
    BY <1>0, <1>1, <1>4, <1>6 DEF Named
  <2>2. scope' \subseteq IF pc = "project" THEN ProjectOuts
                         ELSE IF pc \in {"apply", "applyReading"} THEN ApplyOuts ELSE {}
    BY <1>0, <1>1, <1>2, <1>4, <1>6 DEF Named, Scoped
  <2>3. ProjectOuts' = ProjectOuts /\ ApplyOuts' = ApplyOuts /\ Buf("attention")' = Buf("attention")
    BY <1>1 DEF ProjectOuts, ApplyOuts, Buf, Shape, Fused
  <2>4. hidden' \in {Vector} \cup remembered'
    BY <1>0, <1>1 DEF Named
  <2>5. Made(token)' = Made(token) /\ \A b : IsKept(b)' <=> IsKept(b)
    BY <1>1, NamesStay DEF Made
  <2> QED
    BY <1>0, <1>1, <2>1, <2>2, <2>3, <2>4, <2>5 DEF Named
<1>15. Cleanups'
  BY <1>0, <1>1, CleanupsStay DEF Phases
<1>16. Tensors'
  <2>1. remembered' \cup scope' \subseteq live'
    BY <1>0, <1>1 DEF Tensors
  <2>2. Present(Ran)'
    <3>1. Ran \subseteq live /\ Of(Ran) \subseteq Promised
      BY <1>0, <1>1 DEF Tensors, Present
    <3>2. \A b \in Ran' : b \in live' /\ Value(b) \in Promised'
      BY <1>1, <1>9, <1>10, <1>12, <3>1 DEF Of
    <3> QED
      BY <3>2 DEF Present, Of, Value
  <2>3. hidden' # Vector => Present({hidden})'
    BY <1>0, <1>1, <1>11 DEF Tensors, Present, Of, Value
  <2>4. attention' # Vector => Present({attention})'
    BY <1>0, <1>1, <1>11 DEF Tensors
  <2>5. pc' \in {"project", "apply"} => scope' = Ran'
    BY <1>0, <1>1, <1>10 DEF Tensors, Scoped
  <2>6. pc' \in Kept => Ran' \subseteq remembered'
    BY <1>0, <1>1, <1>10 DEF Tensors
  <2>7. pc' = "project" /\ hidden' # Vector =>
           Present({AttentionInput})' /\ AttentionInput' \in remembered'
    <3>1. AttentionInput' = AttentionInput
      BY <1>1 DEF AttentionInput, Shape, Buf
    <3> QED
      BY <1>0, <1>1, <1>9, <3>1 DEF Tensors, Present, Of, Value
  <2>8. pc' \in {"append", "attend"} => Projection' \subseteq remembered' /\ Present(Projection)'
    <3>1. Projection' = Projection
      BY <1>1 DEF Projection, Buf
    <3> QED
      BY <1>0, <1>1, <1>9, <3>1 DEF Tensors, Present, Of, Value
  <2>9. done' <= Len(Kernels')
    <3>1. Kernels' = Kernels
      BY <1>1, KernelsStay
    <3>2. done + 1 <= Len(Kernels)
      BY <1>1, <1>5
    <3> QED
      BY <1>1, <3>1, <3>2
  <2> QED
    BY <2>1, <2>2, <2>3, <2>4, <2>5, <2>6, <2>7, <2>8, <2>9 DEF Tensors
<1>17. RowsKept' /\ Counted'
  <2>1. pc' # "failed" => pc # "failed" /\ \A l \in 1..Depth : Appended(l)' <=> Appended(l)
    BY <1>1 DEF Appended
  <2> QED
    BY <1>0, <1>1, <1>9, <2>1, RowsStay, CountsStay
<1>18. Owned'
  <2>1. \A b \in outs : b \in remembered' \cup scope' \/ (pc = "attend" /\ b = Buf("attention"))
    BY <1>1, <1>2, <1>4, <1>6 DEF Scoped, Kept
  <2> QED
    BY <1>0, <1>1, <1>2, <2>1, NamesStay DEF Owned, Buf, Versions, RowBuffer
<1> QED
  BY <1>9, <1>13, <1>14, <1>15, <1>16, <1>17, <1>18 DEF ReqInv

-----------------------------------------------------------------------------
(* The steps of a token that leave the buffers alone.                      *)

LEMMA StageIsDone ==
    ASSUME Required, ReqInv, pc \in Stages, done = Len(Kernels)
    PROVE  Ran = StageOut
<1>1. PICK S, I : Stage(S, I, Kernels, StageOut)
  BY ReqStage DEF ReqInv
<1>2. Ran = UNION {Kernels[i].outs : i \in 1..Len(Kernels)}
  BY DEF Ran
<1>3. \A i \in 1..Len(Kernels) : Kernels[i].outs \subseteq StageOut
  BY <1>1 DEF Stage
<1>4. \A b \in StageOut : \E i \in 1..Len(Kernels) : b \in Kernels[i].outs
  BY <1>1 DEF Stage
<1> QED
  BY <1>2, <1>3, <1>4

\* Every stage makes what it may, kernel by kernel.
LEMMA RanIsMade ==
    ASSUME Phases, pc \in Stages, NEW S, NEW I, Stage(S, I, Kernels, StageOut), done <= Len(Kernels)
    PROVE  Ran \subseteq StageOut
<1>1. Len(Kernels) \in Nat /\ done \in Nat
  BY LenProperties DEF Stage, Phases
<1>2. ASSUME NEW j \in 1..done PROVE Kernels[j].outs \subseteq StageOut
  <2>1. j \in 1..Len(Kernels)
    BY <1>1
  <2> QED
    BY <2>1 DEF Stage
<1> QED
  BY <1>2 DEF Ran

LEMMA NoneRan == ASSUME done' = 0 PROVE Ran' = {}
<1>1. 1..0 = {}
  OBVIOUS
<1> QED
  BY <1>1 DEF Ran

LEMMA ScopeNames ==
    ASSUME UNCHANGED <<setup, token, layer, hidden>>
    PROVE  /\ ProjectOuts' = ProjectOuts /\ ApplyOuts' = ApplyOuts
           /\ Buf("attention")' = Buf("attention") /\ Buf("normed")' = Buf("normed")
           /\ Projection' = Projection /\ Made(token)' = Made(token)
           /\ AttentionInput' = AttentionInput /\ MlpResult' = MlpResult
  BY DEF ProjectOuts, ApplyOuts, Buf, Shape, Fused, Projection, Made, Depth, AttentionInput, MlpResult

LEMMA GpuStays ==
    ASSUME ReqInv, UNCHANGED <<setup, token, live, written, cmds, rows>>
    PROVE  /\ Memory' /\ RowsKept' /\ Promised' = Promised
           /\ \A l : Versions(l)' = Versions(l)
<1>1. Memory' /\ Promised' = Promised
  BY MemoryStays, PromisedStay DEF ReqInv
<1> QED
  BY <1>1, RowsStay DEF ReqInv, Versions, RowBuffer

LEMMA DecodeKeeps == ASSUME Required, ReqInv, Decode PROVE ReqInv'
<1>0. Phases /\ Named /\ Cleanups /\ Memory /\ Tensors /\ RowsKept /\ Counted /\ Owned
  BY DEF ReqInv
<1>1. /\ pc = "idle" /\ token < MaxTokens /\ token' = token + 1 /\ hasLogits' = FALSE
      /\ pc' = "embed" /\ done' = 0 /\ layer' = 0
      /\ UNCHANGED <<setup, live, written, cmds, deferred, cleaning, batching, hidden,
                     attention, scope, remembered, rows, reading, faults>>
  BY DEF Decode, Goto, gpu, Required
<1>2. /\ setup \in Setups /\ token \in 0..MaxTokens /\ MaxTokens \in Nat /\ Depth \in Nat /\ Prompt \in Nat
      /\ ~batching /\ cmds = <<>> /\ deferred = {} /\ hidden = Vector /\ attention = Vector
      /\ remembered = {} /\ scope = {}
  BY <1>0, <1>1, SetupType, PromptIsNotEmpty DEF Phases, Named, After
<1>3. Depth' = Depth /\ Bound' = Bound /\ \A n : Made(n)' = Made(n)
  BY <1>1, NamesStay
<1>4. Phases'
  <2>1. layer' \in 0..Depth' /\ token' \in 0..MaxTokens /\ token' # 0
    BY <1>1, <1>2, <1>3
  <2>2. pc' \notin Held /\ pc' \notin After
    BY <1>1 DEF Held, After
  <2>3. setup' \in Setups /\ faults' \in 0..setup'.maxFaults /\ hasLogits' \in BOOLEAN
        /\ batching' \in BOOLEAN /\ done' \in Nat
    BY <1>0, <1>1 DEF Phases
  <2> QED
    BY <1>1, <1>2, <2>1, <2>2, <2>3 DEF Phases
<1>5. Named'
  BY <1>1, <1>2 DEF Named
<1>6. Cleanups'
  <2>1. \A i \in 1..Len(cleaning) : \A b \in cleaning[i] : \E n \in 0..token : b \in Made(n)
    BY <1>0 DEF Cleanups
  <2>2. \A n \in 0..token : n \in 0..(token + 1) /\ n # token + 1
    BY <1>2
  <2>3. Made(token)' = Made(token')
    BY <1>3 DEF Made
  <2>4. \A i \in 1..Len(cleaning) : \A b \in cleaning[i] :
           (\E n \in 0..(token + 1) : b \in Made(n)) /\ b \notin Made(token + 1)
    BY <2>1, <2>2, MadeApart
  <2> QED
    BY <1>0, <1>1, <1>3, <2>3, <2>4 DEF Cleanups
<1>7. Memory'
  <2>1. Len(cmds') = 0 /\ cmds' \in Seq(Command') /\ (\A i \in 1..Len(cmds') : FALSE)
    BY <1>1, <1>2
  <2> QED
    BY <1>0, <1>1, <1>3, <2>1 DEF Memory, IsFlow
<1>8. Tensors'
  <2>1. Ran' = {}
    BY <1>1, NoneRan
  <2> QED
    BY <1>1, <1>2, <2>1 DEF Tensors, Present, Of
<1>9. RowsKept'
  <2>1. Promised' = Promised
    BY <1>1, PromisedStay
  <2> QED
    BY <1>0, <1>1, <2>1, RowsStay
<1>10. Counted'
  <2> SUFFICES ASSUME NEW l \in 1..Depth
               PROVE  /\ rows[l].version <= rows[l].count /\ rows[l].count <= rows[l].capacity
                      /\ rows[l].version > 0 => rows[l].count \in (Prompt - 1 + token')..(Prompt + token')
                      /\ IF token > 0 THEN rows[l].version > 0 /\ rows[l].count = Prompt + token
                         ELSE rows[l].version = 0
    <3>1. \A l \in 1..Depth : ~Appended(l)'
      BY <1>1, <1>2 DEF Appended, After
    <3>2. (token > 0 <=> token' > 1) /\ Prompt + token' - 1 = Prompt + token
      BY <1>1, <1>2
    <3> QED
      BY <1>0, <1>1, <1>2, <1>3, <3>1, <3>2 DEF Counted, Appended, After
  <2>1. Appended(l)
    BY <1>1 DEF Appended, After
  <2>2. rows[l].version > 0 => rows[l].count = Prompt + token
    BY <1>0, <1>1, <1>2, <2>1 DEF Counted
  <2>3. Prompt + token \in (Prompt - 1 + token')..(Prompt + token')
    BY <1>1, <1>2
  <2> QED
    BY <1>0, <1>1, <1>2, <2>1, <2>2, <2>3 DEF Counted
<1>11. Owned'
  BY <1>0, <1>1, <1>2, <1>3 DEF Owned, Versions, RowBuffer
<1> QED
  BY <1>4, <1>5, <1>6, <1>7, <1>8, <1>9, <1>10, <1>11 DEF ReqInv

LEMMA OwnersStay ==
    ASSUME Owned, UNCHANGED <<setup, live, deferred, cleaning, rows>>,
           pc' # "failed" => pc # "failed",
           \A b \in live :
              b \in remembered \cup scope \cup ({attention} \ {Vector}) \/ (pc = "attend" /\ b = Buf("attention"))
              => b \in remembered' \cup scope' \cup ({attention'} \ {Vector})
                 \/ (pc' = "attend" /\ b = Buf("attention")')
    PROVE  Owned'
<1>1. Depth' = Depth /\ \A l : Versions(l)' = Versions(l)
  BY NamesStay DEF Versions, RowBuffer
<1>2. Vector' = Vector
  BY DEF Vector
<1> QED
  BY <1>1, <1>2 DEF Owned

LEMMA EmbeddedKeeps == ASSUME Required, ReqInv, Embedded PROVE ReqInv'
<1>0. Phases /\ Named /\ Cleanups /\ Memory /\ Tensors /\ RowsKept /\ Counted /\ Owned
  BY DEF ReqInv
<1>1. /\ pc = "embed" /\ done = Len(Kernels) /\ hidden' = Buf("embedding") /\ batching' = TRUE
      /\ pc' = "norm" /\ done' = 0 /\ layer' = 1
      /\ UNCHANGED <<setup, token, live, written, cmds, deferred, cleaning, attention, scope,
                     remembered, rows, hasLogits, reading, faults>>
  BY DEF Embedded, StageDone, Goto, gpu
<1>2. /\ setup \in Setups /\ token \in 0..MaxTokens /\ token # 0 /\ Depth \in Nat /\ Depth > 0
      /\ ~batching /\ layer = 0 /\ attention = Vector /\ scope = {}
  BY <1>0, <1>1, SetupType DEF Phases, Named
<1>3. Ran = {Buf("embedding")}
  <2>1. Ran = StageOut
    BY <1>1, StageIsDone DEF Stages
  <2> QED
    BY <1>1, <2>1 DEF StageOut
<1>4. /\ hidden' \in remembered /\ hidden' \in live /\ Value(hidden') \in Promised
      /\ hidden' # Vector
  <2>1. Ran \subseteq remembered /\ Present(Ran)
    BY <1>0, <1>1 DEF Tensors, Kept, Stages
  <2>2. hidden' \in Made(token)
    BY <1>1, <1>3, <2>1, <1>0 DEF Named
  <2> QED
    BY <1>1, <1>2, <1>3, <2>1, <2>2, VectorIsNot DEF Present, Of
<1>5. Memory' /\ RowsKept' /\ Promised' = Promised
  BY <1>1, GpuStays
<1>6. Depth' = Depth /\ (\A b : IsKept(b)' <=> IsKept(b)) /\ Made(token)' = Made(token)
  BY <1>1, NamesStay DEF Made
<1>7. Phases'
  <2>1. layer' \in 0..Depth' /\ layer' \in 1..Depth' /\ pc' \in Held /\ pc' \notin After
    BY <1>1, <1>2, <1>6 DEF Held, After
  <2>2. setup' \in Setups /\ faults' \in 0..setup'.maxFaults /\ hasLogits' \in BOOLEAN
        /\ batching' \in BOOLEAN /\ done' \in Nat
    BY <1>0, <1>1 DEF Phases
  <2> QED
    BY <1>1, <1>2, <1>4, <2>1, <2>2 DEF Phases
<1>8. Named'
  BY <1>0, <1>1, <1>2, <1>4, <1>6 DEF Named
<1>9. Cleanups'
  BY <1>0, <1>1, <1>2, CleanupsStay DEF Phases, After
<1>10. Tensors'
  <2>1. Ran' = {}
    BY <1>1, NoneRan
  <2> QED
    BY <1>0, <1>1, <1>2, <1>4, <1>5, <2>1 DEF Tensors, Present, Of, Value
<1>11. Counted'
  <2>1. \A l \in 1..Depth : Appended(l)' <=> Appended(l)
    BY <1>1, <1>2 DEF Appended, After
  <2> QED
    BY <1>0, <1>1, <2>1, CountsStay
<1>12. Owned'
  BY <1>0, <1>1, <1>2, OwnersStay
<1> QED
  BY <1>5, <1>7, <1>8, <1>9, <1>10, <1>11, <1>12 DEF ReqInv

LEMMA NormedKeeps == ASSUME Required, ReqInv, Normed PROVE ReqInv'
<1>0. Phases /\ Named /\ Cleanups /\ Memory /\ Tensors /\ RowsKept /\ Counted /\ Owned
  BY DEF ReqInv
<1>1. /\ pc = "norm" /\ done = Len(Kernels) /\ pc' = "project" /\ done' = 0
      /\ UNCHANGED <<setup, token, batching, layer, live, written, cmds, deferred, cleaning,
                     hidden, attention, scope, remembered, rows, hasLogits, reading, faults>>
  BY DEF Normed, StageDone, Goto, gpu, run
<1>2. setup \in Setups /\ batching /\ layer \in 1..Depth /\ attention = Vector /\ scope = {}
  BY <1>0, <1>1 DEF Phases, Named, Held
<1>3. Ran = IF hidden # Vector /\ Shape.norm THEN {Buf("normed")} ELSE {}
  <2>1. Ran = StageOut
    BY <1>1, StageIsDone DEF Stages
  <2> QED
    BY <1>1, <2>1 DEF StageOut
<1>4. hidden # Vector => AttentionInput \in remembered /\ Present({AttentionInput})
  <2>1. Ran \subseteq remembered /\ Present(Ran)
    BY <1>0, <1>1 DEF Tensors, Kept, Stages
  <2> QED
    BY <1>0, <1>3, <2>1 DEF AttentionInput, Tensors, Named
<1>5. Memory' /\ RowsKept' /\ Promised' = Promised
  BY <1>1, GpuStays
<1>6. Depth' = Depth /\ (\A b : IsKept(b)' <=> IsKept(b)) /\ Made(token)' = Made(token)
      /\ AttentionInput' = AttentionInput /\ Buf("attention")' = Buf("attention")
  BY <1>1, NamesStay, ScopeNames
<1>7. Phases'
  <2>1. pc' \in Held /\ pc' \notin After
    BY <1>1 DEF Held, After
  <2> QED
    BY <1>0, <1>1, <1>2, <1>6, <2>1 DEF Phases, Held
<1>8. Named'
  BY <1>0, <1>1, <1>2, <1>6 DEF Named
<1>9. Cleanups'
  BY <1>0, <1>1, <1>2, CleanupsStay DEF Phases, After
<1>10. Tensors'
  <2>1. Ran' = {}
    BY <1>1, NoneRan
  <2>2. Kept' = Kept /\ pc' \notin Kept /\ pc' \notin {"append", "attend"}
    BY <1>1 DEF Kept
  <2>3. hidden' # Vector => Present({hidden})'
    BY <1>0, <1>1, <1>5 DEF Tensors, Present, Of, Value
  <2>4. hidden' # Vector => Present({AttentionInput})' /\ AttentionInput' \in remembered'
    BY <1>1, <1>4, <1>5, <1>6 DEF Present, Of, Value
  <2>5. Present(Ran)' /\ scope' = Ran'
    BY <1>1, <1>2, <2>1 DEF Present, Of
  <2> QED
    BY <1>0, <1>1, <1>2, <2>2, <2>3, <2>4, <2>5 DEF Tensors
<1>11. Counted'
  <2>1. \A l \in 1..Depth : Appended(l)' <=> Appended(l)
    BY <1>1, <1>2 DEF Appended, After
  <2> QED
    BY <1>0, <1>1, <2>1, CountsStay
<1>12. Owned'
  BY <1>0, <1>1, <1>2, OwnersStay
<1> QED
  BY <1>5, <1>7, <1>8, <1>9, <1>10, <1>11, <1>12 DEF ReqInv

LEMMA AttendedKeeps == ASSUME Required, ReqInv, Attended PROVE ReqInv'
<1>0. Phases /\ Named /\ Cleanups /\ Memory /\ Tensors /\ RowsKept /\ Counted /\ Owned
  BY DEF ReqInv
<1>1. /\ pc = "attend" /\ done = Len(Kernels) /\ pc' = "apply" /\ done' = 0
      /\ attention' = Buf("attention")
      /\ UNCHANGED <<setup, token, batching, layer, live, written, cmds, deferred, cleaning,
                     hidden, scope, remembered, rows, hasLogits, reading, faults>>
  BY DEF Attended, StageDone, Goto, gpu, run
<1>2. setup \in Setups /\ batching /\ layer \in 1..Depth /\ attention = Vector /\ scope = {}
  BY <1>0, <1>1 DEF Phases, Named, Held
<1>3. Ran = {Buf("attention")}
  <2>1. Ran = StageOut
    BY <1>1, StageIsDone DEF Stages
  <2> QED
    BY <1>1, <2>1 DEF StageOut
<1>4. Present({Buf("attention")})
  BY <1>0, <1>1, <1>3 DEF Tensors, Stages
<1>5. Memory' /\ RowsKept' /\ Promised' = Promised
  BY <1>1, GpuStays
<1>6. Depth' = Depth /\ (\A b : IsKept(b)' <=> IsKept(b)) /\ Made(token)' = Made(token)
      /\ Buf("attention")' = Buf("attention")
  BY <1>1, NamesStay, ScopeNames
<1>7. Phases'
  <2>1. pc' \in Held /\ pc' \notin After
    BY <1>1 DEF Held, After
  <2> QED
    BY <1>0, <1>1, <1>2, <1>6, <2>1 DEF Phases, Held
<1>8. Named'
  BY <1>0, <1>1, <1>2, <1>6 DEF Named
<1>9. Cleanups'
  BY <1>0, <1>1, <1>2, CleanupsStay DEF Phases, After
<1>10. Tensors'
  <2>1. Ran' = {}
    BY <1>1, NoneRan
  <2>2. pc' \notin Kept /\ pc' \notin {"append", "attend"}
    BY <1>1 DEF Kept
  <2>3. hidden' # Vector => Present({hidden})'
    BY <1>0, <1>1, <1>5 DEF Tensors, Present, Of, Value
  <2>4. Present({attention})'
    BY <1>1, <1>4, <1>5 DEF Present, Of, Value
  <2>5. Present(Ran)' /\ scope' = Ran'
    BY <1>1, <1>2, <2>1 DEF Present, Of
  <2> QED
    BY <1>0, <1>1, <1>2, <2>2, <2>3, <2>4, <2>5 DEF Tensors
<1>11. Counted'
  <2>1. \A l \in 1..Depth : Appended(l)' <=> Appended(l)
    BY <1>1, <1>2 DEF Appended, After
  <2> QED
    BY <1>0, <1>1, <2>1, CountsStay
<1>12. Owned'
  <2>1. Buf("attention") # Vector
    <3>1. "attention" \in Names /\ layer \in 0..Depth
      BY <1>0 DEF Names, Phases
    <3> QED
      BY <1>2, <3>1, BufIsMade, VectorIsNot
  <2> QED
    BY <1>0, <1>1, <1>2, <1>6, <2>1, OwnersStay
<1> QED
  BY <1>5, <1>7, <1>8, <1>9, <1>10, <1>11, <1>12 DEF ReqInv

LEMMA ReadHiddenKeeps == ASSUME Required, ReqInv, ReadHidden PROVE ReqInv'
<1>0. Phases /\ Named /\ Cleanups /\ Memory /\ Tensors /\ RowsKept /\ Counted /\ Owned
  BY DEF ReqInv
<1>1. /\ pc = "apply" /\ done = Len(Kernels) /\ pc' = "applyReading" /\ done' = 0 /\ ~KeepHidden
      /\ UNCHANGED <<setup, token, batching, layer, live, written, cmds, deferred, cleaning,
                     hidden, attention, scope, remembered, rows, hasLogits, faults>>
  BY DEF ReadHidden, StageDone, Goto, Read, gpu, run
<1>2. /\ setup \in Setups /\ batching /\ layer \in 1..Depth /\ attention = Buf("attention")
      /\ setup.candidates
  BY <1>0, <1>1 DEF Phases, Held, KeepHidden
<1>5. Memory' /\ RowsKept' /\ Promised' = Promised
  BY <1>1, GpuStays
<1>6. /\ Depth' = Depth /\ (\A b : IsKept(b)' <=> IsKept(b)) /\ Made(token)' = Made(token)
      /\ Buf("attention")' = Buf("attention") /\ ApplyOuts' = ApplyOuts
  BY <1>1, NamesStay, ScopeNames
<1>7. Phases'
  <2>1. pc' \in Held /\ pc' \notin After
    BY <1>1 DEF Held, After
  <2> QED
    BY <1>0, <1>1, <1>2, <1>6, <2>1 DEF Phases
<1>8. Named'
  BY <1>0, <1>1, <1>2, <1>6 DEF Named
<1>9. Cleanups'
  BY <1>0, <1>1, <1>2, CleanupsStay DEF Phases, After
<1>10. Tensors'
  <2>1. pc' \notin Kept /\ pc' \notin Stages /\ pc' \notin {"append", "attend"}
    BY <1>1 DEF Kept, Stages
  <2> QED
    BY <1>0, <1>1, <1>5, <2>1 DEF Tensors, Present, Of, Value
<1>11. Counted'
  <2>1. \A l \in 1..Depth : Appended(l)' <=> Appended(l)
    BY <1>1, <1>2 DEF Appended, After
  <2> QED
    BY <1>0, <1>1, <2>1, CountsStay
<1>12. Owned'
  BY <1>0, <1>1, <1>2, OwnersStay
<1> QED
  BY <1>5, <1>7, <1>8, <1>9, <1>10, <1>11, <1>12 DEF ReqInv

\* The readback of the logits, and its end.
LEMMA LogitsKeep == ASSUME Required, ReqInv, ReadLogits \/ LogitsRead PROVE ReqInv'
<1>0. Phases /\ Named /\ Cleanups /\ Memory /\ Tensors /\ RowsKept /\ Counted /\ Owned
  BY DEF ReqInv
<1>1. /\ pc \in {"logits", "logitsReading"} /\ pc' \in {"logitsReading", "end"} /\ done' = 0
      /\ hasLogits' \in {hasLogits, TRUE}
      /\ UNCHANGED <<setup, token, batching, layer, live, written, cmds, deferred, cleaning,
                     hidden, attention, scope, remembered, rows, faults>>
  BY DEF ReadLogits, LogitsRead, StageDone, Goto, ProjectLogits, Read, gpu, run
<1>2. /\ setup \in Setups /\ ~batching /\ attention = Vector /\ scope = {}
  BY <1>0, <1>1 DEF Phases, Named, After
<1>5. Memory' /\ RowsKept' /\ Promised' = Promised
  BY <1>1, GpuStays
<1>6. /\ Depth' = Depth /\ (\A b : IsKept(b)' <=> IsKept(b)) /\ Made(token)' = Made(token)
      /\ Buf("attention")' = Buf("attention")
  BY <1>1, NamesStay, ScopeNames
<1>7. Phases'
  <2>1. pc' \notin Held /\ pc' \in After
    BY <1>1 DEF Held, After
  <2> QED
    BY <1>0, <1>1, <1>2, <1>6, <2>1 DEF Phases
<1>8. Named'
  BY <1>0, <1>1, <1>2, <1>6 DEF Named
<1>9. Cleanups'
  BY <1>0, <1>1, <1>2, CleanupsStay DEF Phases, After
<1>10. Tensors'
  <2>1. pc' \notin Kept /\ pc' \notin Stages /\ pc' \notin {"append", "attend"}
    BY <1>1 DEF Kept, Stages
  <2> QED
    BY <1>0, <1>1, <1>5, <2>1 DEF Tensors, Present, Of, Value
<1>11. Counted'
  <2>1. \A l \in 1..Depth : Appended(l)' <=> Appended(l)
    BY <1>1, <1>2 DEF Appended, After
  <2> QED
    BY <1>0, <1>1, <2>1, CountsStay
<1>12. Owned'
  BY <1>0, <1>1, <1>2, OwnersStay
<1> QED
  BY <1>5, <1>7, <1>8, <1>9, <1>10, <1>11, <1>12 DEF ReqInv

-----------------------------------------------------------------------------
(* The ends of the two helpers.                                            *)

\* What a helper gives up is destroyed after the submit.
LEMMA DeferredOwn ==
    ASSUME Owned, UNCHANGED <<setup, live, cleaning, rows>>, deferred \subseteq deferred',
           pc # "failed", pc # "attend",
           \A b \in remembered \cup scope \cup ({attention} \ {Vector}) : b \in remembered' \cup deferred'
    PROVE  Owned'
<1>1. Depth' = Depth /\ \A l : Versions(l)' = Versions(l)
  BY NamesStay DEF Versions, RowBuffer
<1>2. \A b \in live :
          \/ b \in remembered' \cup deferred'
          \/ \E i \in 1..Len(cleaning) : b \in cleaning[i]
          \/ \E l \in 1..Depth : b \in Versions(l)
  BY DEF Owned
<1> QED
  BY <1>1, <1>2 DEF Owned

LEMMA ProjectedKeeps == ASSUME Required, ReqInv, Projected PROVE ReqInv'
<1>0. Phases /\ Named /\ Cleanups /\ Memory /\ Tensors /\ RowsKept /\ Counted /\ Owned
  BY DEF ReqInv
<1>1. /\ pc = "project" /\ done = Len(Kernels) /\ pc' = "append" /\ done' = 0
      /\ remembered' = remembered \cup Projection /\ Close(scope \ Projection) /\ scope' = {}
      /\ UNCHANGED <<setup, token, batching, layer, cmds, cleaning,
                     hidden, attention, rows, hasLogits, reading, faults>>
  BY DEF Projected, StageDone, Goto, run
<1>2. setup \in Setups /\ batching /\ layer \in 1..Depth /\ layer \in 0..Depth /\ attention = Vector
  BY <1>0, <1>1 DEF Phases, Held
<1>3. deferred' = deferred \cup (scope \ Projection) /\ UNCHANGED <<live, written>>
  BY <1>1, <1>2 DEF Close
<1>4. scope = ProjectOuts /\ Present(scope)
  <2>1. Ran = StageOut /\ scope = Ran /\ Present(Ran)
    BY <1>0, <1>1, StageIsDone DEF Stages, Tensors
  <2> QED
    BY <1>1, <2>1 DEF StageOut
<1>5. /\ Projection \subseteq scope /\ Present(Projection)
      /\ scope \subseteq Made(token)
      /\ \A b \in Projection : IsKept(b)
      /\ \A b \in scope \ Projection : ~IsKept(b)
  <2>1. Projection \subseteq scope
    BY <1>4 DEF Projection, ProjectOuts
  <2>2. \A b \in Projection : IsKept(b)
    BY DEF Projection, IsKept, Buf
  <2>3. scope \subseteq Made(token)
    <3>1. scope \subseteq {Buf(w) : w \in Names}
      BY <1>4 DEF ProjectOuts, Names
    <3> QED
      BY <1>2, <3>1, BufIsMade
  <2>4. ResultOf(layer) \in {"o", "mlp", "summed", "final"}
    BY <1>2, ResultIsName
  <2>5. \A w \in {"qProj", "kProj", "input"} : ~IsKept(Buf(w))
    BY <1>2, <2>4, KeptAre DEF Names
  <2>6. \A b \in scope \ Projection : \E w \in {"qProj", "kProj", "input"} : b = Buf(w)
    BY <1>4 DEF ProjectOuts, Projection
  <2> QED
    BY <1>4, <2>1, <2>2, <2>3, <2>5, <2>6 DEF Present, Of
<1>6. Memory' /\ RowsKept' /\ Promised' = Promised
  BY <1>1, <1>3, GpuStays
<1>7. /\ Depth' = Depth /\ (\A b : IsKept(b)' <=> IsKept(b)) /\ Made(token)' = Made(token)
      /\ Buf("attention")' = Buf("attention") /\ Projection' = Projection
  BY <1>1, NamesStay, ScopeNames
<1>8. Phases'
  <2>1. pc' \in Held /\ pc' \notin After
    BY <1>1 DEF Held, After
  <2> QED
    BY <1>0, <1>1, <1>2, <1>7, <2>1 DEF Phases, Held
<1>9. Named'
  BY <1>0, <1>1, <1>2, <1>3, <1>5, <1>7 DEF Named
<1>10. Cleanups'
  BY <1>0, <1>1, <1>2, CleanupsStay DEF Phases, After
<1>11. Tensors'
  <2>1. pc' \notin Kept /\ pc' \notin Stages
    BY <1>1 DEF Kept, Stages
  <2>2. Present(Projection)'
    BY <1>3, <1>5, <1>6, <1>7 DEF Present, Of, Value
  <2>3. remembered' \subseteq live'
    BY <1>0, <1>1, <1>3, <1>5 DEF Tensors, Present
  <2>4. hidden' # Vector => Present({hidden})'
    BY <1>0, <1>1, <1>3, <1>6 DEF Tensors, Present, Of, Value
  <2> QED
    BY <1>1, <1>2, <1>7, <2>1, <2>2, <2>3, <2>4 DEF Tensors
<1>12. Counted'
  <2>1. \A l \in 1..Depth : Appended(l)' <=> Appended(l)
    BY <1>1, <1>2 DEF Appended, After
  <2> QED
    BY <1>0, <1>1, <2>1, CountsStay
<1>13. Owned'
  BY <1>0, <1>1, <1>2, <1>3, DeferredOwn
<1> QED
  BY <1>6, <1>8, <1>9, <1>10, <1>11, <1>12, <1>13 DEF ReqInv

LEMMA ResultIsMade ==
    ASSUME setup \in Setups, layer \in 1..Depth
    PROVE  MlpResult \in ApplyOuts
<1>1. Shape.mlp \in BOOLEAN /\ Shape.qwen \in BOOLEAN
  BY ShapeType DEF Shape
<1> QED
  BY <1>1 DEF ApplyOuts, MlpResult

\* Of what the kernels made, a token may remember the result only.
LEMMA ApplyNames ==
    ASSUME setup \in Setups, layer \in 1..Depth
    PROVE  /\ ApplyOuts \subseteq Made(token) /\ Buf("attention") \in Made(token)
           /\ ~IsKept(Buf("attention"))
           /\ \A b \in ApplyOuts : IsKept(b) => ~setup.candidates /\ b = MlpResult
           /\ ~setup.candidates => IsKept(MlpResult)
<1> DEFINE W == {"hidden", "o", "summed", "postNormed", "mlp", "final"}
<1>1. /\ MlpResult = Buf(ResultOf(layer))
      /\ ResultOf(layer) \in {"o", "mlp", "summed", "final"}
  BY ResultIsName
<1>2. layer \in 0..Depth /\ "attention" \in Names /\ W \subseteq Names
      /\ ResultOf(layer) \in Names
  <2>1. Depth \in Nat
    BY SetupType
  <2> QED
    BY <1>1, <2>1 DEF Names
<1>3. \A b \in ApplyOuts : \E w \in W : b = Buf(w)
  BY DEF ApplyOuts
<1>4. ASSUME NEW w \in W
      PROVE  Buf(w) \in Made(token) /\ (IsKept(Buf(w)) => ~setup.candidates /\ w = ResultOf(layer))
  <2>1. w \in Names /\ w \notin {"embedding", "normed", "q", "k", "v", "finalNorm"}
    BY DEF Names
  <2> QED
    BY <1>2, <2>1, KeptAre, BufIsMade
<1>5. Buf("attention") \in Made(token) /\ ~IsKept(Buf("attention"))
  <2>1. "attention" # ResultOf(layer)
    BY <1>1
  <2>2. IsKept(Buf("attention")) <=> \/ "attention" \in {"embedding", "normed", "q", "k", "v", "finalNorm"}
                                     \/ ~setup.candidates /\ "attention" = ResultOf(layer)
    BY <1>2, KeptAre
  <2> QED
    BY <1>2, <2>1, <2>2, BufIsMade
<1>6. ~setup.candidates => IsKept(MlpResult)
  BY <1>1, <1>2, KeptAre
<1> HIDE DEF W
<1> QED
  BY <1>1, <1>3, <1>4, <1>5, <1>6

LEMMA NextLayerFacts ==
    ASSUME setup \in Setups, layer \in 1..Depth, pc \in {"apply", "applyReading"}, NextLayer, setup' = setup
    PROVE  /\ pc' \in {"norm", "submit"} /\ done' = 0 /\ attention' = Vector
           /\ layer' \in 1..Depth /\ layer' \in 0..Depth
           /\ \A l \in 1..Depth : Appended(l)' <=> Appended(l)
<1>1. Depth \in Nat
  BY SetupType
<1>2. CASE layer < Depth
  <2>1. pc' = "norm" /\ done' = 0 /\ attention' = Vector /\ layer' = layer + 1
    BY <1>2 DEF NextLayer, Goto
  <2>2. \A l \in 1..Depth : l < layer + 1 <=> l < layer \/ l = layer
    OBVIOUS
  <2> QED
    BY <1>1, <1>2, <2>1, <2>2 DEF Appended, After
<1>3. CASE ~(layer < Depth)
  <2>1. pc' = "submit" /\ done' = 0 /\ attention' = Vector /\ layer' = layer
    BY <1>3 DEF NextLayer, Goto
  <2>2. \A l \in 1..Depth : l < layer \/ l = layer
    BY <1>1, <1>3
  <2> QED
    BY <1>1, <2>1, <2>2 DEF Appended, After
<1> QED
  BY <1>2, <1>3

LEMMA AppliedKeeps == ASSUME Required, ReqInv, Applied PROVE ReqInv'
<1>0. Phases /\ Named /\ Cleanups /\ Memory /\ Tensors /\ RowsKept /\ Counted /\ Owned
  BY DEF ReqInv
<1>1. /\ pc = "apply" /\ done = Len(Kernels) /\ KeepHidden
      /\ hidden' = MlpResult /\ remembered' = remembered \cup {MlpResult}
      /\ Close(ApplyScope \ {MlpResult}) /\ scope' = {} /\ NextLayer
      /\ UNCHANGED <<setup, token, batching, rows, cmds, cleaning, hasLogits, faults>>
  <2>1. pc # "finalReading"
    BY <1>0 DEF Phases, Held, After
  <2> QED
    BY <2>1 DEF Applied, StageDone
<1>2. /\ setup \in Setups /\ batching /\ layer \in 1..Depth /\ attention = Buf("attention")
      /\ hidden # Vector /\ ~setup.candidates
  BY <1>0, <1>1 DEF Phases, Held, KeepHidden
<1>3. deferred' = deferred \cup (ApplyScope \ {MlpResult}) /\ UNCHANGED <<live, written>>
  BY <1>1, <1>2 DEF Close
<1>4. /\ ApplyOuts \subseteq Made(token) /\ Buf("attention") \in Made(token)
      /\ ~IsKept(Buf("attention"))
      /\ \A b \in ApplyOuts : IsKept(b) => b = MlpResult
      /\ IsKept(MlpResult) /\ MlpResult \in ApplyOuts
      /\ MlpResult # Vector /\ Buf("attention") # Vector
  <2>1. MlpResult \in ApplyOuts
    BY <1>2, ResultIsMade
  <2>2. /\ ApplyOuts \subseteq Made(token) /\ Buf("attention") \in Made(token)
        /\ ~IsKept(Buf("attention"))
        /\ \A b \in ApplyOuts : IsKept(b) => b = MlpResult
        /\ IsKept(MlpResult)
    BY <1>2, ApplyNames
  <2>3. Vector \notin Made(token)
    BY <1>2, VectorIsNot
  <2> QED
    BY <2>1, <2>2, <2>3
<1>5. ApplyScope = ApplyOuts \cup {Buf("attention")} /\ scope = ApplyOuts /\ Present(scope)
  <2>1. Ran = StageOut /\ scope = Ran /\ Present(Ran)
    BY <1>0, <1>1, StageIsDone DEF Stages, Tensors
  <2>2. scope = ApplyOuts
    BY <1>1, <2>1 DEF StageOut
  <2> QED
    BY <1>2, <1>4, <2>1, <2>2 DEF ApplyScope
<1>6. Memory' /\ RowsKept' /\ Promised' = Promised
  BY <1>1, <1>3, GpuStays
<1>7. Depth' = Depth /\ (\A b : IsKept(b)' <=> IsKept(b)) /\ Made(token)' = Made(token)
  BY <1>1, NamesStay DEF Made
<1>8. /\ pc' \in {"norm", "submit"} /\ done' = 0 /\ attention' = Vector
      /\ layer' \in 1..Depth /\ layer' \in 0..Depth
      /\ \A l \in 1..Depth : Appended(l)' <=> Appended(l)
  BY <1>1, <1>2, NextLayerFacts
<1>9. Phases'
  <2>1. pc' \in Held /\ pc' \notin After
    BY <1>8 DEF Held, After
  <2> QED
    BY <1>0, <1>1, <1>2, <1>4, <1>7, <1>8, <2>1 DEF Phases
<1>10. Named'
  <2>1. remembered' \subseteq Made(token) /\ \A b \in remembered' : IsKept(b)
    BY <1>0, <1>1, <1>4 DEF Named
  <2>2. deferred' \subseteq Made(token) /\ \A b \in deferred' : ~IsKept(b)
    BY <1>0, <1>1, <1>3, <1>4, <1>5 DEF Named
  <2> QED
    BY <1>1, <1>7, <1>8, <2>1, <2>2 DEF Named
<1>11. Cleanups'
  BY <1>0, <1>1, <1>2, CleanupsStay DEF Phases, After
<1>12. Tensors'
  <2>1. Ran' = {}
    BY <1>8, NoneRan
  <2>2. MlpResult \in live /\ Value(MlpResult) \in Promised
    BY <1>4, <1>5 DEF Present, Of
  <2>3. Present({hidden})'
    BY <1>1, <1>3, <1>6, <2>2 DEF Present, Of, Value
  <2>4. remembered' \cup scope' \subseteq live'
    BY <1>0, <1>1, <1>3, <2>2 DEF Tensors
  <2>5. Present(Ran)'
    BY <2>1 DEF Present, Of
  <2> QED
    BY <1>8, <2>1, <2>3, <2>4, <2>5 DEF Tensors
<1>13. Counted'
  BY <1>0, <1>1, <1>8, CountsStay
<1>14. Owned'
  <2>1. \A b \in remembered \cup scope \cup ({attention} \ {Vector}) : b \in remembered' \cup deferred'
    BY <1>1, <1>2, <1>3, <1>5
  <2> QED
    BY <1>0, <1>1, <1>3, <2>1, DeferredOwn
<1> QED
  BY <1>6, <1>9, <1>10, <1>11, <1>12, <1>13, <1>14 DEF ReqInv

LEMMA HiddenReadKeeps == ASSUME Required, ReqInv, HiddenRead PROVE ReqInv'
<1>0. Phases /\ Named /\ Cleanups /\ Memory /\ Tensors /\ RowsKept /\ Counted /\ Owned
  BY DEF ReqInv
<1>1. /\ pc = "applyReading" /\ hidden' = Vector
      /\ Close(ApplyScope) /\ scope' = {} /\ NextLayer
      /\ UNCHANGED <<setup, token, batching, rows, cmds, cleaning, hasLogits, remembered, faults>>
  BY DEF HiddenRead, run
<1>2. /\ setup \in Setups /\ batching /\ layer \in 1..Depth /\ attention = Buf("attention")
      /\ setup.candidates
  BY <1>0, <1>1 DEF Phases, Held
<1>3. deferred' = deferred \cup ApplyScope /\ UNCHANGED <<live, written>>
  BY <1>1, <1>2 DEF Close
<1>4. /\ ApplyOuts \subseteq Made(token) /\ Buf("attention") \in Made(token)
      /\ ~IsKept(Buf("attention")) /\ Buf("attention") # Vector
      /\ \A b \in ApplyOuts : ~IsKept(b)
  <2>1. Vector \notin Made(token)
    BY <1>2, VectorIsNot
  <2> QED
    BY <1>2, <2>1, ApplyNames
<1>5. ApplyScope = scope \cup {Buf("attention")} /\ scope \subseteq ApplyOuts
  BY <1>0, <1>1, <1>2, <1>4 DEF ApplyScope, Named
<1>6. Memory' /\ RowsKept' /\ Promised' = Promised
  BY <1>1, <1>3, GpuStays
<1>7. Depth' = Depth /\ (\A b : IsKept(b)' <=> IsKept(b)) /\ Made(token)' = Made(token)
  BY <1>1, NamesStay DEF Made
<1>8. /\ pc' \in {"norm", "submit"} /\ done' = 0 /\ attention' = Vector
      /\ layer' \in 1..Depth /\ layer' \in 0..Depth
      /\ \A l \in 1..Depth : Appended(l)' <=> Appended(l)
  BY <1>1, <1>2, NextLayerFacts
<1>9. Phases'
  <2>1. pc' \in Held /\ pc' \notin After
    BY <1>8 DEF Held, After
  <2> QED
    BY <1>0, <1>1, <1>2, <1>4, <1>7, <1>8, <2>1 DEF Phases
<1>10. Named'
  <2>1. deferred' \subseteq Made(token) /\ \A b \in deferred' : ~IsKept(b)
    BY <1>0, <1>1, <1>3, <1>4, <1>5 DEF Named
  <2> QED
    BY <1>0, <1>1, <1>7, <1>8, <2>1 DEF Named
<1>11. Cleanups'
  BY <1>0, <1>1, <1>2, CleanupsStay DEF Phases, After
<1>12. Tensors'
  <2>1. Ran' = {}
    BY <1>8, NoneRan
  <2>2. Present(Ran)'
    BY <2>1 DEF Present, Of
  <2>3. remembered' \cup scope' \subseteq live'
    BY <1>0, <1>1, <1>3 DEF Tensors
  <2> QED
    BY <1>1, <1>8, <2>1, <2>2, <2>3 DEF Tensors
<1>13. Counted'
  BY <1>0, <1>1, <1>8, CountsStay
<1>14. Owned'
  <2>1. \A b \in remembered \cup scope \cup ({attention} \ {Vector}) : b \in remembered' \cup deferred'
    BY <1>1, <1>2, <1>3, <1>5
  <2> QED
    BY <1>0, <1>1, <1>3, <2>1, DeferredOwn
<1> QED
  BY <1>6, <1>9, <1>10, <1>11, <1>12, <1>13, <1>14 DEF ReqInv

-----------------------------------------------------------------------------
(* A token that fails.                                                     *)

LEMMA FailKeeps ==
    ASSUME ReqInv, Fails, pc # "idle", scope' = {}, faults' \in 0..setup.maxFaults,
           attention = Vector \/ batching, deferred' \subseteq Made(token), ~batching => deferred' = {},
           UNCHANGED <<setup, token, batching, rows, hasLogits, layer, live, written, cmds,
                       cleaning, hidden, attention, remembered>>
    PROVE  ReqInv'
<1>0. Phases /\ Named /\ Cleanups /\ Memory /\ Tensors /\ RowsKept /\ Counted /\ Owned
  BY DEF ReqInv
<1>1. pc' = "failed" /\ done' = 0
  BY DEF Fails
<1>2. Memory' /\ RowsKept' /\ Promised' = Promised
  BY GpuStays
<1>3. /\ Depth' = Depth /\ (\A b : IsKept(b)' <=> IsKept(b)) /\ Made(token)' = Made(token)
      /\ Buf("attention")' = Buf("attention")
  BY NamesStay, ScopeNames DEF Made, Buf
<1>4. Phases'
  <2>1. pc' \notin Held /\ pc' \notin After
    BY <1>1 DEF Held, After
  <2> QED
    BY <1>0, <1>1, <1>3, <2>1 DEF Phases
<1>5. Named'
  BY <1>0, <1>1, <1>3 DEF Named
<1>6. Cleanups'
  BY <1>0, <1>1, CleanupsStay DEF Phases
<1>7. Tensors'
  <2>1. pc' \notin Kept /\ pc' \notin Stages
    BY <1>1 DEF Kept, Stages
  <2> QED
    BY <1>0, <1>1, <1>2, <2>1 DEF Tensors, Present, Of, Value
<1>8. Counted' /\ Owned'
  BY <1>0, <1>1, CountsStay DEF Owned
<1> QED
  BY <1>2, <1>4, <1>5, <1>6, <1>7, <1>8 DEF ReqInv

LEMMA FaultIsCounted ==
    ASSUME Phases, setup.gpu, Fault
    PROVE  faults' \in 0..setup.maxFaults
<1>1. setup.maxFaults \in Nat /\ faults \in 0..setup.maxFaults
  BY SetupType DEF Phases
<1> QED
  BY <1>1 DEF Fault

LEMMA FailuresKeep ==
    ASSUME Required, setup.gpu, ReqInv, Throws \/ ProjectionFails \/ ApplyFails
    PROVE  ReqInv'
<1>0. Phases /\ Named
  BY DEF ReqInv
<1>1. setup \in Setups /\ faults' \in 0..setup.maxFaults
  BY <1>0, FaultIsCounted DEF Throws, ProjectionFails, ApplyFails, Phases
<1>2. CASE Throws
  <2>1. /\ pc \in {"norm", "attend", "logits", "append", "logitsReading", "embed"} /\ Fails
        /\ UNCHANGED <<setup, token, batching, rows, hasLogits, layer, live, written, cmds,
                       deferred, cleaning, hidden, attention, scope, remembered>>
    BY <1>0, <1>2 DEF Throws, Phases, Held, After, run, gpu
  <2>2. scope = {} /\ attention = Vector /\ deferred \subseteq Made(token) /\ (~batching => deferred = {})
    BY <1>0, <2>1 DEF Phases, Named
  <2> QED
    BY <1>1, <2>1, <2>2, FailKeeps
<1>3. CASE ProjectionFails
  <2>1. /\ pc = "project" /\ Fails /\ Close(scope) /\ scope' = {}
        /\ UNCHANGED <<setup, token, batching, rows, hasLogits, layer, cmds,
                       cleaning, hidden, attention, remembered>>
    BY <1>0, <1>3 DEF ProjectionFails, Phases, Held, After, run
  <2>2. batching /\ layer \in 0..Depth
    BY <1>0, <2>1 DEF Phases, Held
  <2>3. deferred' = deferred \cup scope /\ UNCHANGED <<live, written>>
    BY <2>1, <2>2 DEF Close
  <2>4. scope \subseteq Made(token)
    <3>1. \A b \in ProjectOuts : \E w \in Names : b = Buf(w)
      BY DEF ProjectOuts, Names
    <3> QED
      BY <1>0, <1>1, <2>1, <2>2, <3>1, BufIsMade DEF Named
  <2>5. deferred' \subseteq Made(token)
    BY <1>0, <2>3, <2>4 DEF Named
  <2> QED
    BY <1>1, <2>1, <2>2, <2>3, <2>5, FailKeeps
<1>4. CASE ApplyFails
  <2>1. /\ pc \in {"apply", "applyReading"} /\ Fails /\ Close(ApplyScope) /\ scope' = {}
        /\ UNCHANGED <<setup, token, batching, rows, hasLogits, layer, cmds,
                       cleaning, hidden, attention, remembered>>
    BY <1>0, <1>4 DEF ApplyFails, Phases, Held, After, run
  <2>2. batching /\ layer \in 1..Depth /\ attention = Buf("attention")
    BY <1>0, <2>1 DEF Phases, Held
  <2>3. deferred' = deferred \cup ApplyScope /\ UNCHANGED <<live, written>>
    BY <2>1, <2>2 DEF Close
  <2>4. ApplyScope \subseteq Made(token)
    <3>1. ApplyOuts \subseteq Made(token) /\ Buf("attention") \in Made(token)
      BY <1>1, <2>2, ApplyNames
    <3> QED
      BY <1>0, <2>1, <2>2, <3>1 DEF Named, ApplyScope
  <2>5. deferred' \subseteq Made(token)
    BY <1>0, <2>3, <2>4 DEF Named
  <2> QED
    BY <1>1, <2>1, <2>2, <2>3, <2>5, FailKeeps
<1> QED
  BY <1>2, <1>3, <1>4

-----------------------------------------------------------------------------
(* The steps that destroy.                                                 *)

LEMMA Destroyed ==
    ASSUME Memory, RowsKept, NEW T, Destroy(T), UNCHANGED <<setup, token, cmds, rows>>,
           \A b \in T : \E n : b \in Made(n), cmds # <<>> => T \cap Made(token) = {}
    PROVE  /\ Memory' /\ RowsKept'
           /\ \A b \in live \ T : b \in live'
           /\ \A x \in Promised : x[1] \notin T => x \in Promised'
<1>1. live' = live \ T /\ written' = {x \in written : x[1] \notin T}
  BY DEF Destroy
<1>2. \A x \in Promised : x[1] \notin T => x \in Promised'
  BY <1>1, PromisedAre DEF Promised
<1>3. \A b \in T : b \notin RowsOf
  BY MadeApart
<1>4. Command' = Command /\ Bound' = Bound /\ Depth' = Depth
  BY CellsStay, NamesStay
<1>5. Memory'
  <2>1. written' \subseteq live' \X (1..Bound)
    <3>1. \A x \in written : x[1] \notin T => x \in live' \X (1..Bound)
      BY <1>1 DEF Memory
    <3> QED
      BY <1>1, <3>1
  <2>2. CASE cmds = <<>>
    <3>1. cmds' \in Seq(Command') /\ (\A i \in 1..Len(cmds') : FALSE)
      BY <2>2
    <3> QED
      BY <1>4, <2>1, <3>1 DEF Memory, IsFlow
  <2>3. CASE cmds # <<>>
    <3>1. \A x \in Cells : x[1] \notin T
      <4>1. \A x \in Cells : x[1] \in Made(token) \/ x[1] \in RowsOf
        BY DEF Cells
      <4> QED
        BY <1>3, <2>3, <4>1
    <3>2. \A i \in 1..Len(cmds) : cmds[i].reads \subseteq Cells /\ cmds[i].writes \subseteq Cells
      <4>1. cmds \in Seq(Command)
        BY DEF Memory
      <4>2. \A i \in 1..Len(cmds) : cmds[i] \in Command
        BY <4>1
      <4> QED
        BY <4>2 DEF Command
    <3>3. \A i \in 1..Len(cmds) : cmds[i].reads \cup cmds[i].writes \subseteq live' \X (1..Bound)
      <4> SUFFICES ASSUME NEW i \in 1..Len(cmds), NEW x \in cmds[i].reads \cup cmds[i].writes
                   PROVE  x \in live' \X (1..Bound)
        OBVIOUS
      <4>1. x \in live \X (1..Bound) /\ x[1] \notin T
        BY <3>1, <3>2 DEF Memory
      <4> QED
        BY <1>1, <4>1
    <3>4. IsFlow(written, cmds)'
      <4>1. ASSUME NEW i \in 1..Len(cmds), NEW x \in cmds[i].reads
            PROVE  x \in written' \/ \E j \in 1..Len(cmds) : j < i /\ x \in cmds[j].writes
        <5>1. x \in written \/ \E j \in 1..Len(cmds) : j < i /\ x \in cmds[j].writes
          BY DEF Memory, IsFlow
        <5>2. x[1] \notin T
          BY <3>1, <3>2
        <5> QED
          BY <1>1, <5>1, <5>2
      <4> QED
        BY <4>1 DEF IsFlow
    <3> QED
      BY <1>4, <2>1, <3>3, <3>4 DEF Memory
  <2> QED
    BY <2>2, <2>3
<1>6. RowsKept'
  <2>1. \A l, v : RowBuffer(l, v, "K") \notin T /\ RowBuffer(l, v, "V") \notin T
    BY MadeApart
  <2>2. ASSUME NEW l \in 1..Depth, NEW x \in {"K", "V"}, rows[l].version > 0
        PROVE  /\ RowBuffer(l, rows[l].version, x) \in live'
               /\ RowCells(l, rows[l], x) \subseteq Promised'
    <3>1. RowBuffer(l, rows[l].version, x) \notin T
      BY <2>1
    <3>2. \A y \in RowCells(l, rows[l], x) : y[1] = RowBuffer(l, rows[l].version, x)
      BY DEF RowCells
    <3> QED
      BY <1>1, <1>2, <2>2, <3>1, <3>2 DEF RowsKept
  <2>3. Depth' = Depth /\ rows' = rows
    BY <1>4
  <2>4. \A l \in 1..Depth : \A x \in {"K", "V"} : rows'[l].version > 0 =>
           /\ RowBuffer(l, rows'[l].version, x) \in live'
           /\ RowCells(l, rows'[l], x) \subseteq Promised'
    BY <2>2, <2>3
  <2> QED
    BY <2>3, <2>4 DEF RowsKept, RowCells, RowBuffer
<1> QED
  BY <1>1, <1>2, <1>5, <1>6

LEMMA EndKeeps == ASSUME Required, ReqInv, End PROVE ReqInv'
<1>0. Phases /\ Named /\ Cleanups /\ Memory /\ Tensors /\ RowsKept /\ Counted /\ Owned
  BY DEF ReqInv
<1>1. /\ pc = "end" /\ pc' = "idle" /\ done' = 0
      /\ Destroy(remembered) /\ remembered' = {} /\ hidden' = Vector
      /\ UNCHANGED <<setup, token, batching, rows, hasLogits, layer, cmds, deferred, cleaning,
                     attention, scope, reading, faults>>
  BY DEF End, Goto, run
<1>2. /\ setup \in Setups /\ ~batching /\ attention = Vector /\ scope = {} /\ cmds = <<>> /\ deferred = {}
      /\ token # 0
  BY <1>0, <1>1 DEF Phases, Named, After
<1>3. /\ Memory' /\ RowsKept'
      /\ \A b \in live \ remembered : b \in live'
      /\ live' = live \ remembered
  BY <1>0, <1>1, <1>2, Destroyed DEF Named, Destroy
<1>4. Depth' = Depth /\ (\A b : IsKept(b)' <=> IsKept(b)) /\ Made(token)' = Made(token)
      /\ \A l : Versions(l)' = Versions(l)
  BY <1>1, NamesStay DEF Made, Versions, RowBuffer
<1>5. Phases'
  <2>1. pc' \notin Held /\ pc' \in After
    BY <1>1 DEF Held, After
  <2> QED
    BY <1>0, <1>1, <1>2, <1>4, <2>1 DEF Phases
<1>6. Named'
  BY <1>1, <1>2 DEF Named
<1>7. Cleanups'
  BY <1>0, <1>1, <1>2, CleanupsStay DEF Phases, After
<1>8. Tensors'
  <2>1. pc' \notin Kept /\ pc' \notin Stages
    BY <1>1 DEF Kept, Stages
  <2> QED
    BY <1>1, <1>2, <2>1 DEF Tensors
<1>9. Counted'
  <2>1. \A l \in 1..Depth : Appended(l)' <=> Appended(l)
    BY <1>1 DEF Appended, After
  <2> QED
    BY <1>0, <1>1, <2>1, CountsStay
<1>10. Owned'
  BY <1>0, <1>1, <1>2, <1>3, <1>4 DEF Owned
<1> QED
  BY <1>3, <1>5, <1>6, <1>7, <1>8, <1>9, <1>10 DEF ReqInv

\* The cleanup of a submitted batch.
LEMMA CleanUpKeeps == ASSUME Required, ReqInv, CleanUp PROVE ReqInv'
<1> DEFINE T == Head(cleaning)
<1>0. Phases /\ Named /\ Cleanups /\ Memory /\ Tensors /\ RowsKept /\ Counted /\ Owned
  BY DEF ReqInv
<1>1. /\ cleaning # <<>> /\ cleaning' = Tail(cleaning) /\ Destroy(T)
      /\ UNCHANGED <<setup, token, batching, rows, hasLogits, pc, layer, done, cmds, deferred,
                     hidden, attention, scope, remembered, faults>>
  BY DEF CleanUp, run
<1>2. /\ setup \in Setups /\ (~batching => cmds = <<>> /\ deferred = {})
      /\ (token = 0 => cleaning = <<>>)
  BY <1>0 DEF Phases
<1>3. /\ Len(cleaning') = Len(cleaning) - 1 /\ Len(cleaning) \in Nat /\ Len(cleaning) > 0
      /\ T = cleaning[1]
      /\ \A i \in 1..Len(cleaning') : cleaning'[i] = cleaning[i + 1] /\ i + 1 \in 1..Len(cleaning)
      /\ \A i \in 1..Len(cleaning) : i = 1 \/ (i - 1 \in 1..Len(cleaning') /\ cleaning'[i - 1] = cleaning[i])
      /\ \E S : cleaning' \in Seq(S)
  <2>1. PICK S : cleaning \in Seq(S)
    BY <1>0 DEF Cleanups
  <2> DEFINE t == Tail(cleaning)
  <2> DEFINE n == Len(cleaning)
  <2>2. /\ t \in Seq(S) /\ Len(t) = n - 1 /\ n \in Nat /\ n > 0
        /\ \A i \in 1..(n - 1) : t[i] = cleaning[i + 1]
        /\ Head(cleaning) = cleaning[1]
    BY <1>1, <2>1, HeadTailProperties, LenProperties, EmptySeq
  <2>3. cleaning' = t
    BY <1>1
  <2> HIDE DEF t, n
  <2>4. \A i \in 1..n : i = 1 \/ (i - 1 \in 1..(n - 1) /\ (i - 1) + 1 = i)
    BY <2>2
  <2>5. \A i \in 1..(n - 1) : i + 1 \in 1..n
    BY <2>2
  <2>6. \A i \in 1..n : i = 1 \/ (i - 1 \in 1..(n - 1) /\ t[i - 1] = cleaning[i])
    BY <2>2, <2>4
  <2> QED
    BY <2>2, <2>3, <2>5, <2>6 DEF n
<1>4. \A b \in T : /\ \E n \in 0..token : b \in Made(n)
                   /\ b \in Made(token) => ~IsKept(b) /\ ~batching /\ pc \in After \cup {"failed"}
  <2>1. 1 \in 1..Len(cleaning)
    BY <1>3
  <2> QED
    BY <1>0, <1>3, <2>1 DEF Cleanups
<1> HIDE DEF T
<1>5. /\ Memory' /\ RowsKept'
      /\ \A b \in live \ T : b \in live'
      /\ \A x \in Promised : x[1] \notin T => x \in Promised'
  <2>1. cmds # <<>> => T \cap Made(token) = {}
    BY <1>2, <1>4
  <2> QED
    BY <1>0, <1>1, <1>4, <2>1, Destroyed
<1>6. live' = live \ T
  BY <1>1 DEF Destroy
<1>7. /\ Depth' = Depth /\ (\A b : IsKept(b)' <=> IsKept(b)) /\ (\A n : Made(n)' = Made(n))
      /\ (\A l : Versions(l)' = Versions(l)) /\ Made(token)' = Made(token)
      /\ ProjectOuts' = ProjectOuts /\ ApplyOuts' = ApplyOuts
      /\ Buf("attention")' = Buf("attention")
      /\ Projection' = Projection /\ AttentionInput' = AttentionInput
  BY <1>1, NamesStay, ScopeNames DEF Versions, RowBuffer
<1>8. \A b \in Made(token) \ T : (b \in live => b \in live') /\ (Value(b) \in Promised => Value(b) \in Promised')
  BY <1>5 DEF Value
<1>9. /\ \A b \in remembered : b \notin T /\ b \in Made(token)
      /\ pc \notin After \cup {"failed"} => \A b \in Made(token) : b \notin T
  BY <1>0, <1>4 DEF Named
<1>10. Phases'
  BY <1>0, <1>1, <1>3, <1>7 DEF Phases
<1>11. Named'
  BY <1>0, <1>1, <1>7 DEF Named
<1>12. Cleanups'
  BY <1>0, <1>1, <1>3, <1>7 DEF Cleanups
<1>13. Tensors'
  <2>1. hidden # Vector => hidden \in remembered
    BY <1>0 DEF Named
  <2>2. attention # Vector => attention \in Made(token) \ T
    <3>1. attention # Vector => pc \notin After /\ (pc = "failed" => batching)
      BY <1>0 DEF Phases, After
    <3>2. attention # Vector => attention = Buf("attention")
      BY <1>0 DEF Named
    <3>3. "attention" \in Names /\ layer \in 0..Depth
      BY <1>0 DEF Names, Phases
    <3>4. Buf("attention") \in Made(token)
      BY <1>2, <3>3, BufIsMade
    <3> QED
      BY <1>4, <3>1, <3>2, <3>4
  <2>3. scope \subseteq Made(token) \ T
    <3>1. pc \notin {"project", "apply", "applyReading"} => scope = {}
      BY <1>0 DEF Named
    <3>2. pc \in {"project", "apply", "applyReading"} => pc \notin After \cup {"failed"} /\ layer \in 1..Depth /\ layer \in 0..Depth
      BY <1>0 DEF After, Phases, Held
    <3>3. \A b \in ProjectOuts : \E w \in Names : b = Buf(w)
      BY DEF ProjectOuts, Names
    <3>4. pc \in {"project", "apply", "applyReading"} => ProjectOuts \subseteq Made(token) /\ ApplyOuts \subseteq Made(token)
      BY <1>2, <3>2, <3>3, ApplyNames, BufIsMade
    <3>5. scope \subseteq ProjectOuts \/ scope \subseteq ApplyOuts
      BY <1>0 DEF Named
    <3> QED
      BY <1>9, <3>1, <3>2, <3>4, <3>5
  <2>4. pc \in Stages => Ran \subseteq Made(token) \ T
    <3> SUFFICES ASSUME pc \in Stages PROVE Ran \subseteq Made(token) \ T
      OBVIOUS
    <3>1. pc \in {"embed", "norm", "project", "attend", "apply", "logits"}
      BY <1>0 DEF Phases, Held, After, Stages
    <3>2. CASE pc \in Kept
      BY <1>0, <1>9, <3>2 DEF Tensors
    <3>3. CASE pc \in {"project", "apply"}
      BY <1>0, <2>3, <3>3 DEF Tensors
    <3>4. CASE pc = "attend"
      <4>1. Ran \subseteq Made(token)
        <5>1. PICK S, I : Stage(S, I, Kernels, StageOut)
          BY <1>0, ReqStage
        <5>2. StageOut \subseteq Made(token)
          BY <1>0, OutsAreMade
        <5> QED
          BY <1>0, <5>1, <5>2, RanIsMade DEF Tensors
      <4> QED
        BY <1>9, <3>4, <4>1 DEF After
    <3> QED
      BY <3>1, <3>2, <3>3, <3>4 DEF Kept
  <2>5. Ran' = Ran
    <3>1. Kernels' = Kernels
      BY <1>1, KernelsStay
    <3> QED
      BY <1>1, <3>1 DEF Ran
  <2>6. remembered' \cup scope' \subseteq live'
    BY <1>0, <1>1, <1>8, <1>9, <2>3 DEF Tensors
  <2>7. hidden' # Vector => Present({hidden})'
    BY <1>0, <1>1, <1>8, <1>9, <2>1 DEF Tensors, Present, Of, Value
  <2>8. attention' # Vector => Present({attention})'
    BY <1>0, <1>1, <1>8, <2>2 DEF Tensors, Present, Of, Value
  <2>9. pc' \in Stages => Present(Ran)'
    <3> SUFFICES ASSUME pc \in Stages PROVE Present(Ran)'
      BY <1>1
    <3>1. \A b \in Ran : b \in live /\ Value(b) \in Promised
      BY <1>0 DEF Tensors, Present, Of
    <3>2. \A b \in Ran : b \in live' /\ Value(b) \in Promised'
      BY <1>8, <2>4, <3>1
    <3> QED
      BY <2>5, <3>2 DEF Present, Of, Value
  <2>10. pc' = "project" /\ hidden' # Vector =>
            Present({AttentionInput})' /\ AttentionInput' \in remembered'
    BY <1>0, <1>1, <1>7, <1>8, <1>9 DEF Tensors, Present, Of, Value
  <2>11. pc' \in {"append", "attend"} => Projection' \subseteq remembered' /\ Present(Projection)'
    <3> SUFFICES ASSUME pc \in {"append", "attend"}
                 PROVE  Projection \subseteq remembered /\ Present(Projection)'
      BY <1>1, <1>7
    <3>1. Projection \subseteq remembered /\ \A b \in Projection : b \in live /\ Value(b) \in Promised
      BY <1>0 DEF Tensors, Present, Of
    <3>2. \A b \in Projection : b \in live' /\ Value(b) \in Promised'
      BY <1>8, <1>9, <3>1
    <3> QED
      BY <1>7, <3>1, <3>2 DEF Present, Of, Value
  <2>12. pc' \in Stages => done' <= Len(Kernels')
    <3>1. Kernels' = Kernels
      BY <1>1, KernelsStay
    <3>2. pc \in Stages => done <= Len(Kernels)
      BY <1>0 DEF Tensors
    <3> QED
      BY <1>1, <3>1, <3>2
  <2>13. /\ pc' \in {"project", "apply"} => scope' = Ran'
         /\ pc' \in Kept => Ran' \subseteq remembered'
    BY <1>0, <1>1, <2>5 DEF Tensors
  <2> QED
    BY <2>6, <2>7, <2>8, <2>9, <2>10, <2>11, <2>12, <2>13 DEF Tensors
<1>14. Counted'
  <2>1. \A l \in 1..Depth : Appended(l)' <=> Appended(l)
    BY <1>1 DEF Appended
  <2> QED
    BY <1>0, <1>1, <2>1, CountsStay
<1>15. Owned'
  <2> SUFFICES ASSUME pc # "failed", NEW b \in live'
               PROVE  \/ b \in remembered \cup scope \cup deferred \cup ({attention} \ {Vector})
                      \/ pc = "attend" /\ b = Buf("attention")
                      \/ \E i \in 1..Len(cleaning') : b \in cleaning'[i]
                      \/ \E l \in 1..Depth : b \in Versions(l)
    BY <1>1, <1>7 DEF Owned
  <2>1. b \in live /\ b \notin T
    BY <1>6
  <2>2. (\E i \in 1..Len(cleaning) : b \in cleaning[i]) => \E i \in 1..Len(cleaning') : b \in cleaning'[i]
    BY <1>3, <2>1
  <2> QED
    BY <1>0, <2>1, <2>2 DEF Owned
<1> QED
  BY <1>5, <1>10, <1>11, <1>12, <1>13, <1>14, <1>15 DEF ReqInv


-----------------------------------------------------------------------------
(* The submit.                                                             *)

\* Everything that was recorded can run, in the order it was recorded.
LEMMA SubmitWrites ==
    ASSUME Memory
    PROVE  AreValid(cmds) /\ Submitted(cmds, written) = Promised
<1>1. cmds \in Seq(Command) /\ Len(cmds) \in Nat /\ DOMAIN cmds = 1..Len(cmds)
  BY LenProperties DEF Memory
<1>2. AreValid(cmds)
  <2> SUFFICES ASSUME NEW i \in 1..Len(cmds), NEW x \in cmds[i].reads \cup cmds[i].writes
               PROVE  x[1] \in live
    BY DEF AreValid, Buffers
  <2>1. x \in live \X (1..Bound)
    BY DEF Memory
  <2> QED
    BY <2>1
<1>3. IsFlow(written, cmds)
  BY DEF Memory
<1> DEFINE n == Len(cmds)
<1>4. n \in Nat /\ DOMAIN cmds = 1..n /\ Len(cmds) = n
  BY <1>1
<1> HIDE DEF n
<1>5. FoldLeft(Compute, written, cmds) = written \cup UNION {cmds[i].writes : i \in 1..n}
  BY <1>3, <1>4, FoldIsUnion
<1> QED
  BY <1>2, <1>4, <1>5 DEF Submitted, Promised

LEMMA SubmitKeeps == ASSUME Required, ReqInv, Submit PROVE ReqInv'
<1>0. Phases /\ Named /\ Cleanups /\ Memory /\ Tensors /\ RowsKept /\ Counted /\ Owned
  BY DEF ReqInv
<1>1. /\ pc = "submit" /\ batching' = FALSE /\ done' = 0 /\ pc' \in {"logits", "end"}
      /\ pc' = "logits" => hidden # Vector
      /\ batching => /\ written' = Submitted(cmds, written) /\ cmds' = <<>> /\ deferred' = {}
                     /\ cleaning' = Append(cleaning, deferred)
      /\ UNCHANGED <<setup, token, rows, hasLogits, layer, live, hidden, attention, scope,
                     remembered, reading, faults>>
  BY DEF Submit, Goto, KeepHidden
<1>2. /\ setup \in Setups /\ token \in 0..MaxTokens /\ token # 0 /\ batching /\ layer \in 1..Depth
      /\ attention = Vector /\ scope = {}
  BY <1>0, <1>1 DEF Phases, Held, Named
<1>3. written' = Promised /\ cmds' = <<>> /\ deferred' = {} /\ cleaning' = Append(cleaning, deferred)
  BY <1>0, <1>1, <1>2, SubmitWrites
<1>4. Promised' = Promised
  BY <1>3 DEF Promised
<1>5. Depth' = Depth /\ Bound' = Bound /\ (\A b : IsKept(b)' <=> IsKept(b)) /\ \A n : Made(n)' = Made(n)
  BY <1>1, NamesStay
<1>6. /\ \E S : cleaning' \in Seq(S)
      /\ \A b \in deferred : \E i \in 1..Len(cleaning') : b \in cleaning'[i]
      /\ \A i \in 1..Len(cleaning) : \A b \in cleaning[i] :
            \E j \in 1..Len(cleaning') : b \in cleaning'[j]
      /\ \A i \in 1..Len(cleaning') : \A b \in cleaning'[i] :
            b \in deferred \/ \E j \in 1..Len(cleaning) : b \in cleaning[j]
  <2>1. PICK S0 : cleaning \in Seq(S0)
    BY <1>0 DEF Cleanups
  <2> DEFINE S == S0 \cup {deferred}
  <2>2. cleaning \in Seq(S) /\ deferred \in S
    BY <2>1
  <2> HIDE DEF S
  <2> DEFINE n == Len(cleaning)
  <2>3. /\ cleaning' \in Seq(S) /\ Len(cleaning') = n + 1 /\ n \in Nat
        /\ cleaning'[n + 1] = deferred
        /\ \A i \in 1..n : cleaning'[i] = cleaning[i]
    BY <1>3, <2>2, AppendProperties, LenProperties
  <2>4. \A i \in 1..(n + 1) : i \in 1..n \/ i = n + 1
    BY <2>3
  <2>5. n + 1 \in 1..(n + 1) /\ \A i \in 1..n : i \in 1..(n + 1)
    BY <2>3
  <2> HIDE DEF n
  <2>6. \A b \in deferred : \E i \in 1..Len(cleaning') : b \in cleaning'[i]
    BY <2>3, <2>5
  <2>7. \A i \in 1..n : \A b \in cleaning[i] : \E j \in 1..Len(cleaning') : b \in cleaning'[j]
    BY <2>3, <2>5
  <2>8. \A i \in 1..Len(cleaning') : \A b \in cleaning'[i] :
            b \in deferred \/ \E j \in 1..n : b \in cleaning[j]
    BY <2>3, <2>4
  <2> QED
    BY <2>3, <2>6, <2>7, <2>8 DEF n
<1>7. Phases'
  <2>1. pc' \in After /\ pc' \notin Held
    BY <1>1 DEF After, Held
  <2> QED
    BY <1>0, <1>1, <1>2, <1>3, <1>5, <2>1 DEF Phases
<1>8. Named'
  <2>1. Made(token)' = Made(token)
    BY <1>1, <1>5 DEF Made
  <2> QED
    BY <1>0, <1>1, <1>2, <1>3, <1>5, <2>1 DEF Named
<1>9. Cleanups'
  <2> SUFFICES ASSUME NEW i \in 1..Len(cleaning'), NEW b \in cleaning'[i]
               PROVE  /\ \E n \in 0..token : b \in Made(n)
                      /\ b \in Made(token) => ~IsKept(b)
    <3>1. ~batching' /\ pc' \in After \cup {"failed"}
      BY <1>1 DEF After
    <3>2. Made(token)' = Made(token)
      BY <1>1, <1>5 DEF Made
    <3> QED
      BY <1>1, <1>5, <1>6, <3>1, <3>2 DEF Cleanups
  <2>1. CASE b \in deferred
    <3>1. token \in 0..token
      BY <1>2
    <3> QED
      BY <1>0, <1>1, <2>1, <3>1 DEF Named
  <2>2. CASE \E j \in 1..Len(cleaning) : b \in cleaning[j]
    BY <1>0, <1>2, <2>2 DEF Cleanups
  <2> QED
    BY <1>6, <2>1, <2>2
<1>10. Memory'
  <2>1. Promised \subseteq live \X (1..Bound)
    BY <1>0, PromisedAreLive
  <2>2. Len(cmds') = 0 /\ cmds' \in Seq(Command') /\ (\A i \in 1..Len(cmds') : FALSE)
    BY <1>3
  <2> QED
    BY <1>1, <1>3, <1>5, <2>1, <2>2 DEF Memory, IsFlow
<1>11. Tensors'
  <2>1. Ran' = {}
    BY <1>1, NoneRan
  <2>2. hidden' # Vector => Present({hidden})'
    BY <1>0, <1>1, <1>4 DEF Tensors, Present, Of, Value
  <2> QED
    BY <1>0, <1>1, <1>2, <2>1, <2>2 DEF Tensors, Present, Of
<1>12. RowsKept'
  BY <1>0, <1>1, <1>4, RowsStay
<1>13. Counted'
  <2>1. \A l \in 1..Depth : Appended(l)' <=> Appended(l)
    BY <1>1 DEF Appended, After
  <2> QED
    BY <1>0, <1>1, <2>1, CountsStay
<1>14. Owned'
  <2>1. \A l : Versions(l)' = Versions(l)
    BY <1>1 DEF Versions, RowBuffer
  <2> QED
    BY <1>0, <1>1, <1>2, <1>3, <1>5, <1>6, <2>1 DEF Owned
<1> QED
  BY <1>7, <1>8, <1>9, <1>10, <1>11, <1>12, <1>13, <1>14 DEF ReqInv


-----------------------------------------------------------------------------
(* A row is appended.                                                      *)

IsIn(c, s) == \E i \in 1..Len(s) : s[i] = c

LEMMA Joined ==
    ASSUME NEW C, NEW s \in Seq(C), NEW t \in Seq(C)
    PROVE  s \o t \in Seq(C) /\ \A c : IsIn(c, s \o t) <=> IsIn(c, s) \/ IsIn(c, t)
<1> DEFINE all == s \o t
<1> DEFINE m == Len(s)
<1> DEFINE n == Len(t)
<1>1. /\ all \in Seq(C) /\ Len(all) = m + n /\ m \in Nat /\ n \in Nat
      /\ \A i \in 1..(m + n) : all[i] = IF i <= m THEN s[i] ELSE t[i - m]
  BY ConcatProperties, LenProperties
<1> HIDE DEF all, m, n
<1>2. \A i \in 1..m : all[i] = s[i] /\ i \in 1..(m + n)
  BY <1>1
<1>3. \A i \in 1..n : all[m + i] = t[i] /\ m + i \in 1..(m + n)
  BY <1>1
<1>4. \A i \in 1..(m + n) : i \in 1..m \/ (i - m \in 1..n /\ i = m + (i - m))
  BY <1>1
<1>5. ASSUME NEW c PROVE IsIn(c, all) => IsIn(c, s) \/ IsIn(c, t)
  BY <1>1, <1>2, <1>3, <1>4 DEF IsIn, m, n
<1>6. ASSUME NEW c PROVE IsIn(c, s) \/ IsIn(c, t) => IsIn(c, all)
  BY <1>1, <1>2, <1>3 DEF IsIn, m, n
<1> QED
  BY <1>1, <1>5, <1>6 DEF all

\* The copy of the old rows when they move.
Move(r, x) == Copy(RowCells(layer, r, x), RowCells(layer, [r EXCEPT !.version = @ + 1], x))

LEMMA CopiesAre ==
    ASSUME NEW r, NEW x, CopyRow(r, x) \in Command, Version(r) # r.version => Move(r, x) \in Command
    PROVE  /\ AppendCopies(r, x) \in Seq(Command)
           /\ \A c : IsIn(c, AppendCopies(r, x)) <=>
                        c = CopyRow(r, x) \/ (Version(r) # r.version /\ c = Move(r, x))
<1> DEFINE a == CopyRow(r, x)
<1> DEFINE b == Move(r, x)
<1>1. CASE Version(r) = r.version
  <2>1. AppendCopies(r, x) = <<a>> /\ a \in Command
    BY <1>1 DEF AppendCopies
  <2> HIDE DEF a
  <2>2. <<a>> \in Seq(Command) /\ Len(<<a>>) = 1 /\ <<a>>[1] = a /\ 1 \in 1..1 /\ \A i \in 1..1 : i = 1
    BY <2>1
  <2> QED
    BY <1>1, <2>1, <2>2 DEF a, IsIn
<1>2. CASE Version(r) # r.version
  <2>1. AppendCopies(r, x) = <<b, a>> /\ a \in Command /\ b \in Command
    BY <1>2 DEF AppendCopies, Move
  <2> HIDE DEF a, b
  <2>2. /\ <<b, a>> \in Seq(Command) /\ Len(<<b, a>>) = 2 /\ <<b, a>>[1] = b /\ <<b, a>>[2] = a
        /\ 1 \in 1..2 /\ 2 \in 1..2 /\ \A i \in 1..2 : i = 1 \/ i = 2
    BY <2>1
  <2> QED
    BY <1>2, <2>1, <2>2 DEF a, b, IsIn
<1> QED
  BY <1>1, <1>2

\* The row caches of a layer before and after the row.
OldRows == IF rows[layer].version = 0 THEN Seeded(Prompt + token - 1) ELSE rows[layer]
NewRows(r) == IF r.count < r.capacity THEN [r EXCEPT !.count = @ + 1] ELSE Grown(r)

LEMMA OldRowsAre ==
    ASSUME Phases, Counted, pc = "append"
    PROVE  /\ OldRows \in RowCache /\ OldRows.version > 0 /\ OldRows.version <= OldRows.count
           /\ OldRows.count = Prompt + token - 1 /\ OldRows.count <= OldRows.capacity
           /\ rows[layer].version <= OldRows.version
           /\ rows[layer].version > 0 => OldRows = rows[layer]
           /\ token \in 1..MaxTokens /\ layer \in 1..Depth /\ Prompt \in Nat /\ Prompt > 0
<1>1. layer \in 1..Depth /\ token \in 0..MaxTokens /\ token # 0 /\ pc # "failed"
  BY DEF Phases, Held
<1>2. Prompt \in Nat /\ Prompt > 0 /\ Slack \in Nat /\ MaxTokens \in Nat
  BY PromptIsNotEmpty
<1>3. token \in 1..MaxTokens
  BY <1>1, <1>2
<1>4. ~Appended(layer)
  <2>1. pc \notin After \cup {"submit", "attend", "apply", "applyReading"} /\ ~(layer < layer)
    BY <1>1 DEF After
  <2> QED
    BY <2>1 DEF Appended
<1>5. rows[layer] \in RowCache
  BY <1>1 DEF Counted
<1>6. CASE token > 1
  <2>1. rows[layer].version > 0 /\ rows[layer].count = Prompt + token - 1
        /\ rows[layer].version <= rows[layer].count /\ rows[layer].count <= rows[layer].capacity
    BY <1>1, <1>4, <1>6 DEF Counted
  <2>2. OldRows = rows[layer]
    BY <1>5, <2>1 DEF OldRows, RowCache
  <2> QED
    BY <1>1, <1>2, <1>3, <1>5, <2>1, <2>2 DEF RowCache
<1>7. CASE token = 1
  <2>1. rows[layer].version = 0
    BY <1>1, <1>4, <1>7 DEF Counted
  <2>2. Prompt + token - 1 = Prompt
    BY <1>2, <1>7
  <2>3. OldRows = Seeded(Prompt)
    BY <2>1, <2>2 DEF OldRows
  <2> DEFINE c == Larger(Prompt + Slack, 2 * Prompt)
  <2>4. c \in Nat /\ Prompt <= c
    BY <1>2 DEF Larger
  <2> HIDE DEF c
  <2>5. OldRows = [version |-> 1, count |-> Prompt, capacity |-> c]
    BY <2>3 DEF Seeded, c
  <2> QED
    BY <1>1, <1>2, <1>3, <2>1, <2>2, <2>4, <2>5 DEF RowCache
<1> QED
  BY <1>3, <1>6, <1>7

LEMMA NewRowsAre ==
    ASSUME NEW r \in RowCache, r.count <= r.capacity
    PROVE  /\ NewRows(r) \in RowCache /\ NewRows(r).count = r.count + 1
           /\ NewRows(r).version = Version(r) /\ Version(r) \in {r.version, r.version + 1}
           /\ NewRows(r).count <= NewRows(r).capacity
<1>1. r.version \in Nat /\ r.count \in Nat /\ r.capacity \in Nat
      /\ r = [version |-> r.version, count |-> r.count, capacity |-> r.capacity]
  BY DEF RowCache
<1>2. CASE r.count < r.capacity
  <2>1. NewRows(r) = [version |-> r.version, count |-> r.count + 1, capacity |-> r.capacity]
    BY <1>1, <1>2 DEF NewRows
  <2>2. Version(r) = r.version
    BY <1>2 DEF Version
  <2> QED
    BY <1>1, <1>2, <2>1, <2>2 DEF RowCache
<1>3. CASE ~(r.count < r.capacity)
  <2> DEFINE c == Larger(r.count + 1, 2 * r.capacity)
  <2>1. c \in Nat /\ r.count + 1 <= c
    BY <1>1 DEF Larger
  <2> HIDE DEF c
  <2>2. NewRows(r) = [version |-> r.version + 1, count |-> r.count + 1, capacity |-> c]
    BY <1>3 DEF NewRows, Grown, c
  <2>3. Version(r) = r.version + 1
    BY <1>3 DEF Version
  <2> QED
    BY <1>1, <2>1, <2>2, <2>3 DEF RowCache
<1> QED
  BY <1>2, <1>3


LEMMA AppendRowsKeeps == ASSUME Required, ReqInv, AppendRows PROVE ReqInv'
<1> DEFINE r == OldRows
<1> DEFINE next == NewRows(r)
<1> DEFINE seed == IF rows[layer].version = 0 THEN RowCells(layer, r, "K") \cup RowCells(layer, r, "V") ELSE {}
<1> DEFINE K == AppendCopies(r, "K")
<1> DEFINE V == AppendCopies(r, "V")
<1>0. Phases /\ Named /\ Cleanups /\ Memory /\ Tensors /\ RowsKept /\ Counted /\ Owned
  BY DEF ReqInv
<1>1. /\ pc = "append" /\ pc' = "attend" /\ done' = 0
      /\ rows' = [rows EXCEPT ![layer] = next]
      /\ live' = live \cup {RowBuffer(layer, n, x) : n \in {r.version, next.version}, x \in {"K", "V"}}
      /\ SubmitOrRecord(K \o V, written \cup seed)
      /\ UNCHANGED <<setup, token, batching, hasLogits, layer, deferred, cleaning, hidden,
                     attention, scope, remembered, reading, faults>>
  BY DEF AppendRows, Goto, OldRows, NewRows
<1>2. /\ setup \in Setups /\ batching /\ token \in 0..MaxTokens /\ attention = Vector /\ scope = {}
  BY <1>0, <1>1 DEF Phases, Held, Named
<1>3. /\ r \in RowCache /\ r.version > 0 /\ r.version <= r.count
      /\ r.count = Prompt + token - 1 /\ r.count <= r.capacity
      /\ rows[layer].version <= r.version /\ (rows[layer].version > 0 => r = rows[layer])
      /\ token \in 1..MaxTokens /\ layer \in 1..Depth /\ Prompt \in Nat /\ Prompt > 0
  BY <1>0, <1>1, OldRowsAre
<1>4. /\ next \in RowCache /\ next.count = r.count + 1 /\ next.version = Version(r)
      /\ Version(r) \in {r.version, r.version + 1} /\ next.count <= next.capacity
  BY <1>3, NewRowsAre
<1>5. /\ r.version \in Nat /\ r.count \in Nat /\ next.version \in Nat /\ next.count \in Nat
      /\ next.count = Prompt + token /\ r.count <= Prompt + token /\ next.version > 0
      /\ next.version <= next.count /\ r.version <= next.version
  BY <1>3, <1>4 DEF RowCache
<1>6. cmds' = cmds \o (K \o V) /\ written' = written \cup seed
  BY <1>1, <1>2 DEF SubmitOrRecord
<1> HIDE DEF r, next, seed
<1>7. Bound \in Nat /\ Prompt + token <= Bound /\ 1 \in 1..Bound /\ \A b \in Made(token) : Value(b) \in Cells
  BY <1>2, ValuesAreCells
<1>8. \A x \in {"K", "V"} : /\ RowCells(layer, r, x) \subseteq Cells /\ RowBuffer(layer, r.version, x) \in live'
                            /\ RowCells(layer, next, x) \subseteq Cells /\ RowBuffer(layer, next.version, x) \in live'
  BY <1>1, <1>2, <1>3, <1>4, <1>5, RowsAreCells
<1>9. \A x \in {"K", "V"} : RowCells(layer, r, x) \cup RowCells(layer, next, x) \subseteq live' \X (1..Bound)
  <2>1. \A i \in 1..r.count : i \in 1..Bound
    BY <1>5, <1>7
  <2>2. \A i \in 1..next.count : i \in 1..Bound
    BY <1>5, <1>7
  <2> QED
    BY <1>8, <2>1, <2>2 DEF RowCells
<1>10. \A x \in {"K", "V"} : RowCells(layer, r, x) \subseteq Promised \cup written'
  <2>1. CASE rows[layer].version = 0
    BY <1>6, <2>1 DEF seed
  <2>2. CASE rows[layer].version > 0
    BY <1>0, <1>3, <2>2 DEF RowsKept
  <2>3. rows[layer].version \in Nat
    BY <1>0, <1>3 DEF Counted, RowCache
  <2> QED
    BY <2>1, <2>2, <2>3
<1>11. written \subseteq written' /\ written' \subseteq live' \X (1..Bound) /\ live \subseteq live'
  <2>1. seed \subseteq live' \X (1..Bound)
    BY <1>9 DEF seed
  <2> QED
    BY <1>0, <1>1, <1>6, <2>1 DEF Memory
<1>12. ASSUME NEW x \in {"K", "V"}
       PROVE  /\ CopyRow(r, x) \in Command
              /\ CopyRow(r, x).reads \subseteq Promised
              /\ CopyRow(r, x).reads \cup CopyRow(r, x).writes \subseteq live' \X (1..Bound)
              /\ CopyRow(r, x).writes = {<<RowBuffer(layer, next.version, x), next.count>>}
  <2> DEFINE b == Buf(IF x = "K" THEN "k" ELSE "v")
  <2> DEFINE W == {<<RowBuffer(layer, next.version, x), next.count>>}
  <2>1. CopyRow(r, x) = [reads |-> {Value(b)}, writes |-> W]
    BY <1>4 DEF CopyRow, Copy
  <2>2. b \in Projection
    BY DEF Projection
  <2>3. b \in remembered /\ b \in live /\ Value(b) \in Promised
    BY <1>0, <1>1, <2>2 DEF Tensors, Present, Of
  <2>4. b \in Made(token)
    BY <1>0, <2>3 DEF Named
  <2>5. Value(b) \in Cells
    BY <1>7, <2>4
  <2>6. Value(b) \in live' \X (1..Bound)
    BY <1>7, <1>11, <2>3 DEF Value
  <2>7. next.count \in 1..next.count
    BY <1>5
  <2>8. W \subseteq RowCells(layer, next, x)
    BY <2>7 DEF RowCells
  <2> HIDE DEF b, W
  <2>9. W \subseteq Cells /\ W \subseteq live' \X (1..Bound)
    BY <1>8, <1>9, <2>8
  <2> QED
    BY <2>1, <2>3, <2>5, <2>6, <2>9 DEF Command, W
<1>13. ASSUME NEW x \in {"K", "V"}, Version(r) # r.version
       PROVE  /\ Move(r, x) \in Command
              /\ Move(r, x).reads = RowCells(layer, r, x)
              /\ Move(r, x).reads \cup Move(r, x).writes \subseteq live' \X (1..Bound)
              /\ Move(r, x).writes = {<<RowBuffer(layer, next.version, x), i>> : i \in 1..r.count}
  <2> DEFINE W == {<<RowBuffer(layer, next.version, x), i>> : i \in 1..r.count}
  <2> DEFINE R == RowCells(layer, r, x)
  <2>1. RowCells(layer, [r EXCEPT !.version = @ + 1], x) = W
    <3>1. next.version = r.version + 1
      BY <1>4, <1>13
    <3>2. [r EXCEPT !.version = @ + 1].version = next.version /\ [r EXCEPT !.version = @ + 1].count = r.count
      BY <1>3, <3>1 DEF RowCache
    <3> QED
      BY <3>2 DEF RowCells
  <2>2. Move(r, x) = [reads |-> R, writes |-> W]
    BY <2>1 DEF Move, Copy
  <2>3. \A i \in 1..r.count : i \in 1..next.count
    BY <1>4, <1>5
  <2>4. W \subseteq RowCells(layer, next, x)
    BY <2>3 DEF RowCells
  <2> HIDE DEF W, R
  <2>5. W \subseteq Cells /\ W \subseteq live' \X (1..Bound) /\ R \subseteq Cells /\ R \subseteq live' \X (1..Bound)
    BY <1>8, <1>9, <2>4 DEF R
  <2> QED
    BY <2>2, <2>5 DEF Command, W, R
<1>14. /\ K \in Seq(Command) /\ V \in Seq(Command)
       /\ \A c : IsIn(c, K) <=> c = CopyRow(r, "K") \/ (Version(r) # r.version /\ c = Move(r, "K"))
       /\ \A c : IsIn(c, V) <=> c = CopyRow(r, "V") \/ (Version(r) # r.version /\ c = Move(r, "V"))
  BY <1>12, <1>13, CopiesAre
<1> DEFINE cs == K \o V
<1> HIDE DEF K, V
<1>15. cs \in Seq(Command) /\ \A c : IsIn(c, cs) <=> IsIn(c, K) \/ IsIn(c, V)
  <2>1. K \in Seq(Command) /\ V \in Seq(Command)
    BY <1>14
  <2> QED
    BY <2>1, Joined
<1> HIDE DEF cs
<1>16. \A c : IsIn(c, cs) <=> \E x \in {"K", "V"} :
                  c = CopyRow(r, x) \/ (Version(r) # r.version /\ c = Move(r, x))
  BY <1>14, <1>15
<1>17. \A x \in {"K", "V"} :
          /\ \E i \in 1..Len(cs) : cs[i] = CopyRow(r, x)
          /\ Version(r) # r.version => \E i \in 1..Len(cs) : cs[i] = Move(r, x)
  BY <1>16 DEF IsIn
<1>18. /\ \A i \in 1..Len(cs) : cs[i].reads \cup cs[i].writes \subseteq live' \X (1..Bound)
       /\ \A i \in 1..Len(cs) : \A y \in cs[i].reads : y \in Promised \cup written'
  <2> SUFFICES ASSUME NEW i \in 1..Len(cs)
               PROVE  /\ cs[i].reads \cup cs[i].writes \subseteq live' \X (1..Bound)
                      /\ \A y \in cs[i].reads : y \in Promised \cup written'
    OBVIOUS
  <2>1. PICK x \in {"K", "V"} : cs[i] = CopyRow(r, x) \/ (Version(r) # r.version /\ cs[i] = Move(r, x))
    BY <1>16 DEF IsIn
  <2>2. CASE cs[i] = CopyRow(r, x)
    BY <1>12, <2>2
  <2>3. CASE Version(r) # r.version /\ cs[i] = Move(r, x)
    BY <1>10, <1>13, <2>3
  <2> QED
    BY <2>1, <2>2, <2>3
<1>19. /\ Memory'
       /\ \A y : y \in Promised' <=>
             y \in written' \/ y \in Promised \/ \E i \in 1..Len(cs) : y \in cs[i].writes
  <2>1. cmds' = cmds \o cs
    BY <1>6 DEF cs
  <2>2. Memory /\ UNCHANGED <<setup, token>>
    BY <1>0, <1>1
  <2>3. \A i \in 1..Len(cs) : \A y \in cs[i].reads :
           y \in Promised \cup written' \/ \E j \in 1..Len(cs) : j < i /\ y \in cs[j].writes
    BY <1>18
  <2>4. cs \in Seq(Command) /\ \A i \in 1..Len(cs) : cs[i].reads \cup cs[i].writes \subseteq live' \X (1..Bound)
    BY <1>15, <1>18
  <2> QED
    BY <1>11, <2>1, <2>2, <2>3, <2>4, MemoryGrows
<1>20. Promised \subseteq Promised' /\ written' \subseteq Promised'
  BY <1>19
<1>21. \A x \in {"K", "V"} : RowCells(layer, next, x) \subseteq Promised'
  <2> SUFFICES ASSUME NEW x \in {"K", "V"}, NEW i \in 1..next.count
               PROVE  <<RowBuffer(layer, next.version, x), i>> \in Promised'
    BY DEF RowCells
  <2>1. CASE i = next.count
    <3>1. <<RowBuffer(layer, next.version, x), i>> \in CopyRow(r, x).writes
      BY <1>12, <2>1
    <3>2. PICK j \in 1..Len(cs) : cs[j] = CopyRow(r, x)
      BY <1>17
    <3> QED
      BY <1>19, <3>1, <3>2
  <2>2. CASE i # next.count
    <3>1. i \in 1..r.count
      BY <1>4, <1>5, <2>2
    <3>2. CASE Version(r) = r.version
      <4>1. <<RowBuffer(layer, next.version, x), i>> \in RowCells(layer, r, x)
        BY <1>4, <3>1, <3>2 DEF RowCells
      <4> QED
        BY <1>10, <1>20, <4>1
    <3>3. CASE Version(r) # r.version
      <4>1. <<RowBuffer(layer, next.version, x), i>> \in Move(r, x).writes
        BY <1>13, <3>1, <3>3
      <4>2. PICK j \in 1..Len(cs) : cs[j] = Move(r, x)
        BY <1>17, <3>3
      <4> QED
        BY <1>19, <4>1, <4>2
    <3> QED
      BY <3>2, <3>3
  <2> QED
    BY <2>1, <2>2
<1>22. Depth' = Depth /\ Bound' = Bound /\ (\A b : IsKept(b)' <=> IsKept(b)) /\ Made(token)' = Made(token)
  BY <1>1, NamesStay DEF Made
<1>23. \A T : Present(T) => Present(T)'
  BY <1>11, <1>20 DEF Present, Of, Value
<1>24. Phases'
  <2>1. pc' \in Held /\ pc' \notin After
    BY <1>1 DEF Held, After
  <2> QED
    BY <1>0, <1>1, <1>2, <1>3, <1>22, <2>1 DEF Phases
<1>25. Named'
  BY <1>0, <1>1, <1>2, <1>22, ScopeNames DEF Named
<1>26. Cleanups'
  BY <1>0, <1>1, <1>2, CleanupsStay DEF Phases
<1>27. Tensors'
  <2>1. Ran' = {}
    BY <1>1, NoneRan
  <2>2. Present(Ran)'
    BY <2>1 DEF Present, Of
  <2>3. remembered' \cup scope' \subseteq live'
    BY <1>0, <1>1, <1>11 DEF Tensors
  <2>4. hidden' # Vector => Present({hidden})'
    BY <1>0, <1>1, <1>11, <1>20 DEF Tensors, Present, Of, Value
  <2>5. Projection' \subseteq remembered' /\ Present(Projection)'
    <3>1. Projection' = Projection
      BY <1>1, ScopeNames
    <3> QED
      BY <1>0, <1>1, <1>11, <1>20, <3>1 DEF Tensors, Present, Of, Value
  <2>6. done' <= Len(Kernels')
    BY <1>1
  <2> QED
    BY <1>1, <1>2, <2>1, <2>2, <2>3, <2>4, <2>5, <2>6 DEF Tensors, Kept
<1>28. RowsKept'
  <2> SUFFICES ASSUME NEW l \in 1..Depth, NEW x \in {"K", "V"}, rows'[l].version > 0
               PROVE  /\ RowBuffer(l, rows'[l].version, x) \in live'
                      /\ RowCells(l, rows'[l], x) \subseteq Promised'
    BY <1>22 DEF RowsKept, RowCells, RowBuffer
  <2>1. CASE l = layer
    <3>1. rows'[l] = next
      BY <1>0, <1>1, <2>1 DEF Counted
    <3> QED
      BY <1>8, <1>21, <2>1, <3>1
  <2>2. CASE l # layer
    <3>1. rows'[l] = rows[l]
      BY <1>0, <1>1, <2>2 DEF Counted
    <3> QED
      BY <1>0, <1>11, <1>20, <3>1 DEF RowsKept
  <2> QED
    BY <2>1, <2>2
<1>29. Counted'
  <2>1. rows' \in [1..Depth -> RowCache]
    BY <1>0, <1>1, <1>4 DEF Counted
  <2>2. \A l \in 1..Depth : rows'[l] = IF l = layer THEN next ELSE rows[l]
    BY <1>0, <1>1 DEF Counted
  <2>3. /\ Appended(layer)' /\ pc # "failed"
        /\ \A l \in 1..Depth : l # layer => (Appended(l)' <=> Appended(l))
    BY <1>1 DEF Appended, After
  <2>4. token > 0 /\ Prompt + token \in (Prompt - 1 + token)..(Prompt + token)
    BY <1>3
  <2> SUFFICES ASSUME NEW l \in 1..Depth
               PROVE  /\ rows'[l].version <= rows'[l].count /\ rows'[l].count <= rows'[l].capacity
                      /\ rows'[l].version > 0 => rows'[l].count \in (Prompt - 1 + token)..(Prompt + token)
                      /\ IF Appended(l)' /\ token > 0 THEN rows'[l].version > 0 /\ rows'[l].count = Prompt + token
                         ELSE IF token > 1 THEN rows'[l].version > 0 /\ rows'[l].count = Prompt + token - 1
                         ELSE rows'[l].version = 0
    BY <1>1, <1>22, <2>1 DEF Counted
  <2>5. CASE l = layer
    <3>1. rows'[l] = next
      BY <2>2, <2>5
    <3>3. Appended(l)'
      BY <1>1, <2>5 DEF Appended
    <3>2. next.count = Prompt + token /\ next.version > 0 /\ next.version <= next.count
          /\ next.count <= next.capacity
      BY <1>4, <1>5
    <3> QED
      BY <2>4, <3>1, <3>2, <3>3
  <2>6. CASE l # layer
    BY <1>0, <2>2, <2>3, <2>6 DEF Counted
  <2> QED
    BY <2>5, <2>6
<1>30. Owned'
  <2> SUFFICES ASSUME NEW b \in live'
               PROVE  \/ b \in remembered \cup scope \cup deferred \cup ({attention} \ {Vector})
                      \/ \E i \in 1..Len(cleaning) : b \in cleaning[i]
                      \/ \E l \in 1..Depth : b \in Versions(l)'
    BY <1>1, <1>22 DEF Owned
  <2>1. \A l \in 1..Depth : rows'[l] = IF l = layer THEN next ELSE rows[l]
    BY <1>0, <1>1 DEF Counted
  <2>2. rows[layer].version \in Nat /\ \A n \in 1..rows[layer].version : n \in 1..next.version
    BY <1>0, <1>3, <1>5 DEF Counted, RowCache
  <2>3. \A l \in 1..Depth : Versions(l) \subseteq Versions(l)'
    BY <2>1, <2>2 DEF Versions, RowBuffer
  <2>4. r.version \in 1..next.version /\ next.version \in 1..next.version
    BY <1>3, <1>5
  <2>5. {RowBuffer(layer, n, x) : n \in {r.version, next.version}, x \in {"K", "V"}} \subseteq Versions(layer)'
    <3>1. rows'[layer].version = next.version
      BY <1>3, <2>1
    <3> QED
      BY <1>1, <2>4, <3>1 DEF Versions, RowBuffer
  <2>6. CASE b \in live
    BY <1>0, <1>1, <2>3, <2>6 DEF Owned
  <2>7. CASE b \notin live
    BY <1>1, <1>3, <2>5, <2>7
  <2> QED
    BY <2>6, <2>7
<1> QED
  BY <1>19, <1>24, <1>25, <1>26, <1>27, <1>28, <1>29, <1>30 DEF ReqInv


-----------------------------------------------------------------------------
(* The invariant holds.                                                    *)

LEMMA InitReq == Init => ReqInv
<1> SUFFICES ASSUME Init PROVE ReqInv
  OBVIOUS
<1>1. /\ setup \in Setups /\ pc = "idle" /\ layer = 0 /\ token = 0 /\ done = 0 /\ live = {} /\ written = {}
      /\ batching = FALSE /\ cmds = <<>> /\ deferred = {} /\ cleaning = <<>>
      /\ hidden = Vector /\ attention = Vector /\ scope = {} /\ remembered = {}
      /\ rows = [l \in 1..Depth |-> NoRows] /\ hasLogits = FALSE /\ faults = 0
  BY DEF Init
<1>2. Depth \in Nat /\ setup.maxFaults \in Nat /\ MaxTokens \in Nat
  BY <1>1, SetupType, PromptIsNotEmpty
<1>3. Len(cmds) = 0 /\ Len(cleaning) = 0 /\ cmds \in Seq(Command) /\ cleaning \in Seq({})
      /\ \A i \in 1..0 : FALSE
  BY <1>1
<1>4. Phases
  <2>1. pc \notin Held /\ pc \in After
    BY <1>1 DEF Held, After
  <2>2. /\ layer \in 0..Depth /\ token \in 0..MaxTokens /\ done \in Nat
        /\ faults \in 0..setup.maxFaults /\ batching \in BOOLEAN /\ hasLogits \in BOOLEAN
    <3>1. 0 \in 0..Depth /\ 0 \in 0..MaxTokens /\ 0 \in Nat /\ 0 \in 0..setup.maxFaults
      BY <1>2
    <3>2. FALSE \in BOOLEAN
      OBVIOUS
    <3> QED
      BY <1>1, <3>1, <3>2, Zenon
  <2> QED
    BY <1>1, <2>1, <2>2 DEF Phases
<1>5. Named
  BY <1>1 DEF Named
<1>6. Cleanups
  BY <1>3 DEF Cleanups
<1>7. Memory
  BY <1>1, <1>3 DEF Memory, IsFlow
<1>8. Tensors
  <2>1. pc \notin Kept /\ pc \notin Stages
    BY <1>1 DEF Kept, Stages
  <2> QED
    BY <1>1, <2>1 DEF Tensors
<1>9. \A l \in 1..Depth : rows[l] = [version |-> 0, count |-> 0, capacity |-> 0]
  BY <1>1 DEF NoRows
<1>10. RowsKept
  BY <1>9 DEF RowsKept
<1>11. Counted
  <2>1. rows \in [1..Depth -> RowCache]
    BY <1>1 DEF NoRows, RowCache
  <2>2. ~(token > 0) /\ ~(token > 1)
    BY <1>1
  <2>3. \A l \in 1..Depth :
           /\ rows[l].version = 0 /\ rows[l].version <= rows[l].count /\ rows[l].count <= rows[l].capacity
           /\ ~(rows[l].version > 0)
    BY <1>9
  <2> QED
    BY <2>1, <2>2, <2>3 DEF Counted
<1>12. Owned
  BY <1>1 DEF Owned
<1> QED
  BY <1>4, <1>5, <1>6, <1>7, <1>8, <1>10, <1>11, <1>12 DEF ReqInv

LEMMA SetupStays == [Next]_vars => setup' = setup
<1> SUFFICES ASSUME [Next]_vars PROVE setup' = setup
  OBVIOUS
<1>1. CASE UNCHANGED vars
  BY <1>1 DEF vars
<1>2. CASE Decode \/ RunKernel \/ Embedded \/ Normed \/ Projected \/ ReadProjection \/ ProjectionRead
  BY <1>2 DEF Decode, RunKernel, Embedded, Normed, Projected, ReadProjection, ProjectionRead, run
<1>3. CASE AppendRows \/ Attended \/ Applied \/ ProjectInScope \/ ReadFinal \/ ReadHidden \/ HiddenRead
  BY <1>3 DEF AppendRows, Attended, Applied, ProjectInScope, ReadFinal, ReadHidden, HiddenRead, run
<1>4. CASE Submit \/ ReadLogits \/ LogitsRead \/ End \/ CleanUp
  BY <1>4 DEF Submit, ReadLogits, LogitsRead, End, CleanUp, run
<1>5. CASE Throws \/ EmbeddingFails \/ AttentionUnavailable \/ ProjectionFails \/ Reprojected
           \/ ApplyFails \/ Reapplied
  BY <1>5 DEF Throws, EmbeddingFails, AttentionUnavailable, ProjectionFails, Reprojected,
     ApplyFails, Reapplied, run
<1> QED
  BY <1>1, <1>2, <1>3, <1>4, <1>5 DEF Next

LEMMA StutterKeeps == ASSUME ReqInv, UNCHANGED vars PROVE ReqInv'
<1>0. Phases /\ Named /\ Cleanups /\ Memory /\ Tensors /\ RowsKept /\ Counted /\ Owned
  BY DEF ReqInv
<1>1. UNCHANGED <<setup, pc, layer, token, done, live, written, batching, cmds, deferred,
          cleaning, hidden, attention, scope, remembered, rows, hasLogits, reading, faults>>
  BY DEF vars
<1>2. Memory' /\ RowsKept' /\ Promised' = Promised
  BY <1>1, GpuStays
<1>3. /\ Depth' = Depth /\ (\A b : IsKept(b)' <=> IsKept(b)) /\ Made(token)' = Made(token)
      /\ Buf("attention")' = Buf("attention") /\ ApplyOuts' = ApplyOuts /\ ProjectOuts' = ProjectOuts
      /\ Projection' = Projection /\ AttentionInput' = AttentionInput
  BY <1>1, NamesStay, ScopeNames
<1>4. Phases'
  BY <1>0, <1>1, <1>3 DEF Phases
<1>5. Named'
  BY <1>0, <1>1, <1>3 DEF Named
<1>6. Cleanups'
  BY <1>0, <1>1, <1>3, NamesStay DEF Cleanups
<1>7. Tensors'
  <2>1. Kernels' = Kernels
    BY <1>1, KernelsStay
  <2>2. Ran' = Ran
    BY <1>1, <2>1 DEF Ran
  <2> QED
    BY <1>0, <1>1, <1>2, <1>3, <2>1, <2>2 DEF Tensors, Present, Of, Value
<1>8. Counted'
  <2>1. \A l \in 1..Depth : Appended(l)' <=> Appended(l)
    BY <1>1 DEF Appended
  <2> QED
    BY <1>0, <1>1, <2>1, CountsStay
<1>9. Owned'
  BY <1>0, <1>1, <1>3, OwnersStay
<1> QED
  BY <1>2, <1>4, <1>5, <1>6, <1>7, <1>8, <1>9 DEF ReqInv

\* The steps that only other configurations take.
LEMMA OthersAreOff ==
    ASSUME KernelsRequired, ReqInv
    PROVE  /\ ~ReadProjection /\ ~ProjectionRead /\ ~ProjectInScope /\ ~ReadFinal
           /\ ~EmbeddingFails /\ ~AttentionUnavailable /\ ~Reprojected /\ ~Reapplied
<1>1. Phases /\ setup.gpu /\ Required
  BY DEF ReqInv, KernelsRequired
<1>2. pc \notin {"projecting", "final", "reprojecting", "reapplying"} /\ (pc = "apply" => batching)
  BY <1>1 DEF Phases, Held, After
<1>3. ~ReadProjection /\ ~EmbeddingFails /\ ~AttentionUnavailable
  BY <1>1 DEF ReadProjection, EmbeddingFails, AttentionUnavailable
<1>4. ~ProjectionRead /\ ~ReadFinal /\ ~Reprojected /\ ~Reapplied
  BY <1>2 DEF ProjectionRead, ReadFinal, Reprojected, Reapplied, StageDone
<1>5. ~ProjectInScope
  BY <1>2 DEF ProjectInScope, FinalLogits, StageDone
<1> QED
  BY <1>3, <1>4, <1>5

LEMMA StepKeeps == ASSUME KernelsRequired, ReqInv, [Next]_vars PROVE ReqInv'
<1>1. setup.gpu /\ Required
  BY DEF KernelsRequired
<1>2. CASE UNCHANGED vars
  BY <1>2, StutterKeeps
<1>3. CASE Decode
  BY <1>1, <1>3, DecodeKeeps
<1>4. CASE RunKernel
  BY <1>1, <1>4, KernelKeeps
<1>5. CASE Embedded
  BY <1>1, <1>5, EmbeddedKeeps
<1>6. CASE Normed
  BY <1>1, <1>6, NormedKeeps
<1>7. CASE Projected
  BY <1>1, <1>7, ProjectedKeeps
<1>8. CASE AppendRows
  BY <1>1, <1>8, AppendRowsKeeps
<1>9. CASE Attended
  BY <1>1, <1>9, AttendedKeeps
<1>10. CASE Applied
  BY <1>1, <1>10, AppliedKeeps
<1>11. CASE ReadHidden
  BY <1>1, <1>11, ReadHiddenKeeps
<1>12. CASE HiddenRead
  BY <1>1, <1>12, HiddenReadKeeps
<1>13. CASE Submit
  BY <1>1, <1>13, SubmitKeeps
<1>14. CASE ReadLogits \/ LogitsRead
  BY <1>1, <1>14, LogitsKeep
<1>15. CASE End
  BY <1>1, <1>15, EndKeeps
<1>16. CASE CleanUp
  BY <1>1, <1>16, CleanUpKeeps
<1>17. CASE Throws \/ ProjectionFails \/ ApplyFails
  BY <1>1, <1>17, FailuresKeep
<1> QED
  BY <1>2, <1>3, <1>4, <1>5, <1>6, <1>7, <1>8, <1>9, <1>10, <1>11, <1>12, <1>13, <1>14, <1>15,
     <1>16, <1>17, OthersAreOff DEF Next

LEMMA ReqHolds == Spec => [](KernelsRequired => ReqInv)
<1>1. Init => (KernelsRequired => ReqInv)
  BY InitReq
<1>2. (KernelsRequired => ReqInv) /\ [Next]_vars => (KernelsRequired => ReqInv)'
  <2> SUFFICES ASSUME KernelsRequired => ReqInv, [Next]_vars, KernelsRequired' PROVE ReqInv'
    OBVIOUS
  <2>1. KernelsRequired
    BY SetupStays DEF KernelsRequired, Required
  <2> QED
    BY <2>1, StepKeeps
<1> QED
  BY <1>1, <1>2, PTL DEF Spec


-----------------------------------------------------------------------------
(* What the invariant shows.                                               *)

LEMMA SetupHolds == Spec => [](setup \in Setups)
<1>1. Init => setup \in Setups
  BY DEF Init
<1>2. setup \in Setups /\ [Next]_vars => (setup \in Setups)'
  BY SetupStays
<1> QED
  BY <1>1, <1>2, PTL DEF Spec

\* Without a preference, and without a GPU, nothing is ever recorded.
Unbatched ==
    setup.mode = "auto" \/ ~setup.gpu =>
        ~batching /\ cmds = <<>> /\ (pc = "embed" => setup.mode # "auto" /\ done = 0)

LEMMA UnbatchedHolds == Spec => []Unbatched
<1>1. Init => Unbatched
  BY DEF Init, Unbatched
<1>2. Unbatched /\ [Next]_vars => Unbatched'
  <2> SUFFICES ASSUME Unbatched, [Next]_vars, setup.mode = "auto" \/ ~setup.gpu
               PROVE  ~batching' /\ cmds' = <<>> /\ (pc' = "embed" => setup.mode # "auto" /\ done' = 0)
    BY SetupStays DEF Unbatched
  <2>1. ~batching /\ cmds = <<>> /\ (pc = "embed" => setup.mode # "auto" /\ done = 0)
    BY DEF Unbatched
  <2>2. CASE UNCHANGED vars
    BY <2>1, <2>2 DEF vars
  <2>3. CASE Decode
    BY <2>1, <2>3 DEF Decode, Goto, gpu
  <2>4. CASE RunKernel
    <3>1. setup.gpu /\ setup.mode = "auto" /\ pc # "embed"
      BY <2>1, <2>4 DEF RunKernel
    <3> DEFINE k == Kernels[done + 1]
    <3>2. IF k.uploads THEN UNCHANGED cmds
          ELSE SubmitOrRecord(<<[reads |-> k.reads, writes |-> Of(k.outs)]>>, written)
      BY <2>4 DEF RunKernel
    <3> HIDE DEF k
    <3>3. UNCHANGED cmds
      BY <2>1, <3>2 DEF SubmitOrRecord
    <3> QED
      BY <2>1, <2>4, <3>1, <3>3 DEF RunKernel, run
  <2>5. CASE Embedded
    <3>1. pc = "embed" /\ done = Len(Kernels) /\ setup.mode # "auto"
      BY <2>1, <2>5 DEF Embedded, StageDone
    <3>2. Kernels = <<EmbeddingLookup(Buf("embedding"))>>
      BY <3>1 DEF Kernels
    <3>3. Len(Kernels) = 1
      BY <3>2
    <3> QED
      BY <2>1, <3>1, <3>3
  <2>6. CASE Normed \/ Projected \/ ReadProjection \/ ProjectionRead
    BY <2>1, <2>6 DEF Normed, Projected, ReadProjection, ProjectionRead, Read, Goto, run, gpu
  <2>7. CASE AppendRows
    <3>1. UNCHANGED cmds
      BY <2>1, <2>7 DEF AppendRows, SubmitOrRecord
    <3> QED
      BY <2>1, <2>7, <3>1 DEF AppendRows, Goto
  <2>8. CASE Attended \/ Applied \/ ProjectInScope
    BY <2>1, <2>8 DEF Attended, Applied, ProjectInScope, NextLayer, Goto, run, gpu
  <2>9. CASE ReadFinal \/ ReadHidden \/ HiddenRead
    BY <2>1, <2>9 DEF ReadFinal, ReadHidden, HiddenRead, ProjectLogits, Read, NextLayer, Goto, run, gpu
  <2>10. CASE Submit \/ ReadLogits \/ LogitsRead \/ End \/ CleanUp
    BY <2>1, <2>10 DEF Submit, ReadLogits, LogitsRead, End, CleanUp, ProjectLogits, Read, Goto, run, gpu
  <2>11. CASE Throws \/ EmbeddingFails \/ AttentionUnavailable
    BY <2>1, <2>11 DEF Throws, EmbeddingFails, AttentionUnavailable, Fails, Goto, run, gpu
  <2>12. CASE ProjectionFails \/ Reprojected \/ ApplyFails \/ Reapplied
    BY <2>1, <2>12 DEF ProjectionFails, Reprojected, ApplyFails, Reapplied, Fails, NextLayer, Goto, run, gpu
  <2> QED
    BY <2>2, <2>3, <2>4, <2>5, <2>6, <2>7, <2>8, <2>9, <2>10, <2>11, <2>12 DEF Next
<1> QED
  BY <1>1, <1>2, PTL DEF Spec

\* Unless kernels are preferred but not required, no buffer that a recorded
\* command uses is destroyed before the submit: what a helper must not destroy
\* yet is deferred or remembered, and a row cache that is outgrown is retained.
THEOREM BatchesAreValid == Spec => [](~(setup.mode = "preferred" /\ setup.gpu) => RecordedAreLive)
<1>1. (KernelsRequired => ReqInv) /\ Unbatched /\ setup \in Setups
      => (~(setup.mode = "preferred" /\ setup.gpu) => RecordedAreLive)
  <2>1. ASSUME KernelsRequired, ReqInv PROVE RecordedAreLive
    BY <2>1, SubmitWrites DEF ReqInv, RecordedAreLive
  <2>2. ASSUME ~KernelsRequired, Unbatched, setup \in Setups, ~(setup.mode = "preferred" /\ setup.gpu)
        PROVE  RecordedAreLive
    <3>1. setup.mode = "auto" \/ ~setup.gpu
      BY <2>2, SetupsAreKnown DEF KernelsRequired, Required
    <3>2. cmds = <<>> /\ Len(<<>>) = 0 /\ \A i \in 1..0 : FALSE
      BY <2>2, <3>1 DEF Unbatched
    <3> QED
      BY <3>2 DEF RecordedAreLive, AreValid
  <2> QED
    BY <2>1, <2>2
<1> QED
  BY <1>1, ReqHolds, UnbatchedHolds, SetupHolds, PTL

\* With kernels required every tensor of a token has one owner that destroys
\* it: decode what it remembers, the batch's cleanup what was deferred.
THEOREM TensorsAreOwned == Spec => [](KernelsRequired => NothingIsLeft)
<1>1. ReqInv => NothingIsLeft
  <2> SUFFICES ASSUME ReqInv, pc = "idle", cleaning = <<>>, NEW b \in live
               PROVE  b \in UNION {Versions(l) : l \in 1..Depth}
    BY DEF NothingIsLeft
  <2>1. remembered = {} /\ scope = {} /\ deferred = {} /\ attention = Vector
    BY DEF ReqInv, Phases, Named, After
  <2>2. Len(cleaning) = 0 /\ \A i \in 1..0 : FALSE
    OBVIOUS
  <2>3. \E l \in 1..Depth : b \in Versions(l)
    BY <2>1, <2>2 DEF ReqInv, Owned
  <2> QED
    BY <2>3
<1> QED
  BY <1>1, ReqHolds, PTL

\* With kernels required a token's variables are of their types: its tensors
\* exist, a batch is open only while it is decoded, and a layer's row caches
\* hold the rows of the tokens so far and have room for them.
THEOREM DecodeTypes == Spec => [](KernelsRequired => TypeOK)
<1>1. ReqInv => TypeOK
  <2> SUFFICES ASSUME ReqInv PROVE TypeOK
    OBVIOUS
  <2>0. Phases /\ Memory /\ Tensors /\ Counted
    BY DEF ReqInv
  <2>1. /\ setup \in Setups /\ layer \in 0..Depth /\ token \in 0..MaxTokens /\ faults \in 0..setup.maxFaults
        /\ pc \in {"idle", "end", "logits", "logitsReading"} => ~batching
        /\ ~batching => cmds = <<>> /\ deferred = {}
    BY <2>0 DEF Phases, After
  <2>2. written \subseteq live \X (1..(Prompt + MaxTokens))
    BY <2>0 DEF Memory, Bound
  <2>3. remembered \subseteq live /\ scope \subseteq live
        /\ {x \in {hidden, attention} : x # Vector} \subseteq live
    BY <2>0 DEF Tensors, Present
  <2>4. \A l \in 1..Depth : rows[l].count <= rows[l].capacity
             /\ (rows[l].version > 0 => rows[l].count \in (Prompt - 1 + token)..(Prompt + token))
    BY <2>0 DEF Counted
  <2> QED
    BY <2>1, <2>2, <2>3, <2>4 DEF TypeOK
<1> QED
  BY <1>1, ReqHolds, PTL

\* With kernels required, and no candidates asked for, the logits are read
\* after the submit, from a tensor whose commands all ran.
THEOREM LogitsAreWritten == Spec => (KernelsRequired /\ ~setup.candidates => ReadsAreSound)
<1> DEFINE A == reading' # {} /\ reading' # reading => reading' \subseteq written
<1> DEFINE Q == KernelsRequired /\ ~setup.candidates
<1>1. Q /\ ReqInv /\ [Next]_vars => [A]_vars
  <2> SUFFICES ASSUME Q, ReqInv, Next PROVE A
    OBVIOUS
  <2>1. setup.gpu /\ Required /\ ~setup.candidates /\ Phases
    BY DEF KernelsRequired, ReqInv
  <2>2. CASE reading' = {} \/ reading' = reading
    BY <2>2
  <2>3. CASE ReadHidden
    <3>1. pc = "apply" /\ ~KeepHidden
      BY <2>3 DEF ReadHidden, StageDone
    <3> QED
      BY <2>1, <3>1 DEF Phases, Held, KeepHidden
  <2>4. CASE ReadLogits
    <3>1. pc = "logits" /\ done = Len(Kernels) /\ reading' = Of({LogitInput(hidden)})
      BY <2>4 DEF ReadLogits, StageDone, ProjectLogits, Read
    <3>2. ~batching /\ cmds = <<>> /\ hidden # Vector
      BY <2>1, <3>1 DEF Phases, After
    <3>3. Promised = written
      <4>1. Len(cmds) = 0 /\ \A i \in 1..0 : FALSE
        BY <3>2
      <4> QED
        BY <4>1, PromisedAre
    <3>4. Ran = StageOut
      BY <2>1, <3>1, StageIsDone DEF Stages
    <3>5. Present({hidden}) /\ Present(StageOut)
      BY <3>1, <3>2, <3>4 DEF ReqInv, Tensors, Stages
    <3>6. LogitInput(hidden) \in {hidden} \cup StageOut
      BY <3>1 DEF LogitInput, StageOut
    <3> QED
      BY <3>1, <3>3, <3>5, <3>6 DEF Present, Of
  <2>5. ASSUME ~ReadHidden, ~ReadLogits PROVE reading' = {} \/ reading' = reading
    <3>1. CASE Decode \/ RunKernel \/ Embedded \/ Normed \/ Projected \/ AppendRows \/ Attended
      BY <3>1 DEF Decode, RunKernel, Embedded, Normed, Projected, AppendRows, Attended
    <3>2. CASE Applied \/ HiddenRead \/ Submit \/ LogitsRead \/ End \/ CleanUp
      BY <3>2 DEF Applied, HiddenRead, Submit, LogitsRead, End, CleanUp
    <3>3. CASE Throws \/ ProjectionFails \/ ApplyFails
      BY <2>1, <3>3 DEF Throws, ProjectionFails, ApplyFails, Fails
    <3> QED
      BY <2>5, <3>1, <3>2, <3>3, OthersAreOff DEF Next
  <2> QED
    BY <2>2, <2>3, <2>4, <2>5
<1>2. Q /\ [Next]_vars => Q'
  BY SetupStays DEF KernelsRequired, Required
<1>3. Q /\ (KernelsRequired => ReqInv) => ReqInv
  OBVIOUS
<1>4. ReadsAreSound <=> [][A]_vars
  BY DEF ReadsAreSound
<1> HIDE DEF A
<1>5. Q <=> KernelsRequired /\ ~setup.candidates
  OBVIOUS
<1> HIDE DEF Q
<1> QED
  BY <1>1, <1>2, <1>3, <1>4, <1>5, ReqHolds, PTL DEF Spec
=============================================================================
