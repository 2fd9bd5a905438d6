----------------------------- MODULE MemoryLoop -----------------------------
(***************************************************************************)
(* What the agent remembers and what it then puts before the model: jobs   *)
(* that ingest memories (rememberMessage and ingestDocuments of            *)
(* localAgent.ts) write a memory's chunk, raw text, pin and derived        *)
(* records one after another and plan a consolidation; turns search,       *)
(* read pins, audits, earlier traces and raw texts, plan the prompt        *)
(* (BlockPlan) and store its trace before the model is called; other       *)
(* clients audit, pin and delete memories.                                 *)
(*                                                                         *)
(* Every read and write is a request to the store that may fail, and the   *)
(* jobs, the turns and other clients of the store interleave between them. *)
(* The store is one tenant, cell and session.  The limits of the lists (32 *)
(* and 128 rows) are not reached.                                          *)
(***************************************************************************)
EXTENDS BlockPlan

CONSTANTS
    Jobs,       \* ingestion jobs
    Contents,   \* per job: the memories it makes
    Stored,     \* hits of chunks that other clients stored
    Earlier,    \* traces of earlier turns
    Tagged,     \* the chunks that each tag is on
    Limit,      \* how many a search returns: topK
    Scores,     \* scores a search may give, in thousandths
    Messages,   \* bound: lengths of user messages
    Recents,    \* bound: conversations, as lengths of their messages
    MaxTurns,   \* bound: turns
    MaxOthers   \* bound: requests of other clients

ASSUME LoopBounds ==
    /\ Contents \in [Jobs -> SUBSET Memories]
    /\ \A set \in {Stored, Earlier} \cup {Contents[j] : j \in Jobs} : IsFiniteSet(set)
    /\ Scores \subseteq 0..1000 /\ Messages \subseteq Nat /\ Recents \subseteq Seq(Nat)
    /\ {Limit, MaxTurns, MaxOthers} \subseteq Nat
ASSUME StoredAreHits == \A h \in Stored : IsHit(h)
\* The id of a chunk, and so of its raw memory, is a fresh UUID.
ASSUME FreshIds == \A i, k \in Jobs : i # k => Contents[i] \cap Contents[k] = {}

VARIABLES
    \* The store.
    chunks,     \* ids of searchable chunks
    raw,        \* raw memories
    pinned,     \* raw memories with an identity pin
    audits,     \* [raw, kept]: retrieval audits
    derived,    \* jobs whose clusters, representatives and so on are written
    runs,       \* candidates of the consolidation runs
    traces,     \* context-pack traces
    \* The jobs and the turn.
    job,        \* where each job stands
    seenBy,     \* what each job's three lists returned
    turns,      \* turns begun
    phase,      \* where the turn stands
    in,         \* what it has read
    unread,     \* lists and raw memories it still waits for
    plan,       \* the generation plan
    \* Bound and history.
    others,     \* requests of other clients so far
    everRaw,    \* raw memories ever written
    guarded,    \* what was protected when each job began to plan a consolidation
    gone,       \* memories deleted after their raw texts were written
    out         \* those deleted before the turn began

store == <<chunks, raw, pinned, audits, derived, runs, traces>>
jobVars == <<job, seenBy, guarded>>
turnVars == <<turns, phase, in, unread, plan, out>>
vars == <<store, jobVars, turnVars, others, everRaw, gone>>

NothingSeen == [l \in {} |-> {}]
Lists == {"raw", "pins", "audits"}
Empty == [user |-> 0, recent |-> <<>>, hits |-> <<>>, pins |-> {}, failed |-> {},
          kept |-> {}, traces |-> {}, got |-> {}]
NoPlan == [packed |-> Packed(Empty), blocks |-> <<>>, scores |-> {}, alike |-> {}, trace |-> {}]

Failed(set) == {a.raw : a \in {b \in set : ~b.kept}}
Kept(set)   == {a.raw : a \in {b \in set : b.kept}}
OwnPins(j)  == {m \in Contents[j] : PolicyPins(m)}

Init ==
    /\ chunks = {h.id : h \in Stored} /\ raw = {} /\ pinned = {} /\ audits = {}
    /\ derived = {} /\ runs = {} /\ traces = Earlier
    /\ job = [j \in Jobs |-> "idle"]
    /\ seenBy = [j \in Jobs |-> NothingSeen]
    /\ guarded = [j \in Jobs |-> {}]
    /\ turns = 0 /\ phase = "idle" /\ in = Empty /\ unread = {} /\ plan = NoPlan
    /\ others = 0 /\ everRaw = {} /\ gone = {} /\ out = {}

-----------------------------------------------------------------------------
(* Ingestion.  A job that fails stops where it stands and nothing is       *)
(* undone: as one that never takes its next step.                          *)

Step(j, from, to) ==
    /\ job[j] = from
    /\ job' = [job EXCEPT ![j] = to]

WriteChunks(j) ==
    /\ Step(j, "idle", "raw")
    /\ chunks' = chunks \cup Contents[j]
    /\ UNCHANGED <<raw, pinned, audits, derived, runs, traces, seenBy, guarded, everRaw>>

\* Mutant: pins are written before the raw memories they name.
PinsFirst(j) ==
    \/ /\ Step(j, "raw", "pins")
       /\ pinned' = pinned \cup OwnPins(j)
       /\ UNCHANGED <<raw, everRaw>>
    \/ /\ Step(j, "pins", "derive")
       /\ raw' = raw \cup Contents[j] /\ everRaw' = everRaw \cup Contents[j]
       /\ UNCHANGED pinned

\* writeImmediateGacIngestionPlan writes raw memories, then their pins.
WriteExact(j) ==
    \/ /\ Step(j, "raw", "pins")
       /\ raw' = raw \cup Contents[j] /\ everRaw' = everRaw \cup Contents[j]
       /\ UNCHANGED pinned
    \/ /\ Step(j, "pins", "derive")
       /\ pinned' = pinned \cup OwnPins(j)
       /\ UNCHANGED <<raw, everRaw>>

\* Then clusters, metrics, representatives with their lineage, the run,
\* contradictions and training examples, which nothing here reads.
WriteDerived(j) ==
    /\ Step(j, "derive", "schedule")
    /\ derived' = derived \cup {j}
    /\ guarded' = [guarded EXCEPT ![j] = pinned \cup Failed(audits)]
    /\ UNCHANGED <<chunks, raw, pinned, audits, runs, traces, seenBy, everRaw>>

\* scheduleAdaptiveConsolidationJob asks for three lists at once.
ReadList(j, l) ==
    /\ job[j] = "schedule"
    /\ l \notin DOMAIN seenBy[j]
    /\ LET rows == CASE l = "raw" -> raw [] l = "pins" -> pinned [] OTHER -> Failed(audits)
       IN seenBy' = [seenBy EXCEPT ![j] = [k \in DOMAIN @ \cup {l} |-> IF k = l THEN rows ELSE @[k]]]
    /\ UNCHANGED <<store, job, guarded, everRaw>>

Consolidate(j) ==
    /\ Step(j, "schedule", "done")
    /\ DOMAIN seenBy[j] = Lists
    /\ LET seen == seenBy[j]
       IN runs' = IF WorthConsolidating(seen["raw"], seen["pins"], seen["audits"])
                  THEN runs \cup {[job |-> j, candidates |-> Candidates(seen["raw"], seen["pins"], seen["audits"])]}
                  ELSE runs
    /\ seenBy' = [seenBy EXCEPT ![j] = NothingSeen]
    /\ UNCHANGED <<chunks, raw, pinned, audits, derived, traces, guarded, everRaw>>

Ingest ==
    /\ \E j \in Jobs :
        \/ WriteChunks(j)
        \/ WriteExact(j) /\ UNCHANGED <<chunks, audits, derived, runs, traces, seenBy, guarded>>
        \/ WriteDerived(j) \/ Consolidate(j)
        \/ \E l \in Lists : ReadList(j, l)
    /\ UNCHANGED <<turnVars, others, gone>>

-----------------------------------------------------------------------------
(* A turn.                                                                 *)

\* The hit that a search makes of a chunk.
Hit(id, score) ==
    [(IF id \in Memories THEN Ingested(id) ELSE CHOOSE h \in Stored : h.id = id) EXCEPT !.score = score]

\* Up to Limit chunks may come back in any order, better scores first.
Searches ==
    LET Results(found) ==
            {r \in [1..Cardinality(found) -> found \X Scores] :
                /\ {r[i][1] : i \in DOMAIN r} = found
                /\ \A i, k \in DOMAIN r : i < k => r[i][2] >= r[k][2]}
    IN UNION {Results(found) : found \in {c \in SUBSET chunks : Cardinality(c) <= Limit}}

Search ==
    /\ phase = "idle"
    /\ turns < MaxTurns
    /\ turns' = turns + 1
    /\ phase' = "reading"
    /\ \E r \in Searches, user \in Messages, recent \in Recents :
        in' = [Empty EXCEPT !.hits = [i \in DOMAIN r |-> Hit(r[i][1], r[i][2])],
                            !.user = user, !.recent = recent]
    /\ unread' = {"traces", "pins", "audits"}
    /\ out' = gone
    /\ UNCHANGED <<store, plan>>

\* The three lists of readContextRebuildSignals, asked for at once.
ReadSignal(l) ==
    /\ phase = "reading"
    /\ l \in unread
    /\ in' = CASE l = "traces" -> [in EXCEPT !.traces = traces]
               [] l = "pins" -> [in EXCEPT !.pins = pinned]
               [] OTHER -> [in EXCEPT !.failed = Failed(audits), !.kept = Kept(audits)]
    /\ unread' = unread \ {l}
    /\ UNCHANGED <<store, turns, phase, plan, out>>

AskRaw ==
    /\ phase = "reading"
    /\ unread = {}
    /\ phase' = "recovering"
    /\ unread' = Requested(in.pins, in.failed)
    /\ UNCHANGED <<store, turns, in, plan, out>>

\* One listRawMemory for every requested id; it may be gone.
ReadRaw(m) ==
    /\ phase = "recovering"
    /\ m \in unread
    /\ in' = [in EXCEPT !.got = @ \cup ({m} \cap raw)]
    /\ unread' = unread \ {m}
    /\ UNCHANGED <<store, turns, phase, plan, out>>

\* From here to the write of the trace nothing waits.
MakePlan ==
    /\ phase = "recovering"
    /\ unread = {}
    /\ LET packed == Packed(in)
           blocks == Blocks(in, packed.memories)
           shown  == {h \in Range(Visible(in)) : h.id \in packed.memories}
       IN \E alike \in {{}, DOMAIN blocks} :
            plan' = [packed |-> packed, blocks |-> blocks, alike |-> alike,
                     scores |-> {FinalScore(in, h) : h \in Range(Visible(in))},
                     trace |-> {[included |-> packed.memories,
                                 raws |-> UNION {IF h.direct = {} THEN {h.id} ELSE h.direct : h \in shown}]}]
    /\ phase' = "tracing"
    /\ UNCHANGED <<store, turns, in, unread, out>>

WriteTrace ==
    /\ phase = "tracing"
    /\ phase' = "model"
    /\ traces' = traces \cup plan.trace
    /\ UNCHANGED <<turns, in, unread, plan, out>>

TurnFails ==
    /\ phase \in {"reading", "recovering", "tracing"}
    /\ phase' = "idle"
    /\ in' = Empty /\ unread' = {} /\ plan' = NoPlan
    /\ UNCHANGED <<store, turns, out>>

Answered ==
    /\ phase = "model"
    /\ phase' = "idle"
    /\ in' = Empty /\ unread' = {} /\ plan' = NoPlan
    /\ UNCHANGED <<store, turns, out>>

Turn ==
    /\ \/ Search \/ AskRaw \/ MakePlan \/ TurnFails \/ Answered
       \/ WriteTrace /\ UNCHANGED <<chunks, raw, pinned, audits, derived, runs>>
       \/ \E l \in {"traces", "pins", "audits"} : ReadSignal(l)
       \/ \E m \in Memories : ReadRaw(m)
    /\ UNCHANGED <<jobVars, others, everRaw, gone>>

-----------------------------------------------------------------------------
(* Other clients of the memory server.  A deletion is the step in which it *)
(* lists its rows; what other writers add while it works through the       *)
(* tables is the subject of LanceMemoryStore.                              *)

Names(t, set) ==
    \/ (t.included \cup t.raws) \cap set # {}
    \/ \E h \in Stored : h.broad /\ h.lineage \cap set # {} /\ h.id \in t.included

\* Mutant: a deletion stops at the chunks.
ChunksOnly(set) == UNCHANGED <<raw, pinned, audits, traces>>

\* The rows that name a deleted memory, or a representative made of it.
DeleteRows(set) ==
    /\ raw' = raw \ set
    /\ pinned' = pinned \ set
    /\ audits' = {a \in audits : a.raw \notin set}
    /\ traces' = {t \in traces : ~Names(t, set)}

\* Where a session is given every row of it goes, whatever tags say of chunks.
DeleteScope ==
    /\ raw' = {} /\ pinned' = {} /\ audits' = {} /\ traces' = {}
    /\ derived' = {} /\ runs' = {}

Unwritten == UNION {Contents[j] : j \in {k \in Jobs : job[k] \in {"idle", "raw"}}}

Delete ==
    \E set \in {chunks} \cup {chunks \cap tagged : tagged \in Tagged} :
        /\ chunks' = chunks \ set
        /\ gone' = gone \cup (set \ Unwritten)
        /\ \/ set # {} /\ DeleteRows(set) /\ UNCHANGED <<derived, runs>>
           \/ (chunks # {} => set # {}) /\ DeleteScope

Audit ==
    /\ \E m \in raw, kept \in BOOLEAN : audits' = audits \cup {[raw |-> m, kept |-> kept]}
    /\ UNCHANGED <<chunks, raw, pinned, derived, runs, traces, gone>>

Pin ==
    /\ \E m \in raw : pinned' = pinned \cup {m}
    /\ UNCHANGED <<chunks, raw, audits, derived, runs, traces, gone>>

Others ==
    /\ others < MaxOthers
    /\ others' = others + 1
    /\ Audit \/ Pin \/ Delete
    /\ UNCHANGED <<jobVars, turnVars, everRaw>>

Next == Ingest \/ Turn \/ Others

Spec == Init /\ [][Next]_vars

-----------------------------------------------------------------------------
(* Properties.                                                             *)

Planned == phase \in {"tracing", "model"}
Hits    == Range(Visible(in))

\* Every reading stays what the code takes it for; no score leaves 0..1.
TypeOK ==
    /\ chunks \subseteq Memories \cup {h.id : h \in Stored}
    /\ {raw, pinned, everRaw, in.pins, in.got} \subseteq SUBSET Memories
    /\ derived \subseteq Jobs
    /\ job \in [Jobs -> {"idle", "raw", "pins", "derive", "schedule", "done"}]
    /\ phase \in {"idle", "reading", "recovering", "tracing", "model"}
    /\ plan.scores \subseteq 0..1000
    /\ \A r \in runs : r.candidates \subseteq Memories

\* The prompt fits the window whatever was retrieved, the user's message is
\* never squeezed out of it, and a memory that is said to be included is
\* shown whole.
PromptFits ==
    Planned =>
        /\ plan.packed.estimate <= MaxPrompt
        /\ in.user > 0 => plan.packed.user > 0
        /\ plan.packed.memories # {} => plan.packed.whole

\* A pin that was seen, and whose raw memory was read, is in the prompt, itself
\* or a memory that names it, unless other memories scored 1 left no room - be
\* it that the search missed it or that other clients changed the store meanwhile.
PinsReachThePrompt ==
    Planned => \A m \in in.pins \cap in.got :
        \E h \in Hits :
            /\ m \in h.direct \cup {h.id}
            /\ \/ h.id \in plan.packed.memories
               \/ ~Fits(in, Select(ByScore(in, Visible(in)),
                                LAMBDA g : g.id \in plan.packed.memories /\ FinalScore(in, g) = 1000), h)

\* What must be attended is seen by every query block, the other blocks of a
\* route are selected ones, within the budget; what is selected is in video
\* memory or on its way; the shards are the tokens.
PlanKeepsPins ==
    phase = "tracing" =>
        LET blocks   == plan.blocks
            pins     == Pinned(blocks)
            selected == Selected(blocks)
        IN /\ \A q \in QueryBlocks(blocks) :
                LET route == Route(blocks, q)
                IN /\ {i \in DOMAIN blocks : blocks[i].must \/ blocks[i].id = Message} \subseteq route
                   /\ route \subseteq selected
                   /\ Cardinality(route \ pins) <= AtLeast(2 * Window + 1, TopK)
           /\ selected \subseteq InVram(blocks) \cup Prefetched(blocks, plan.alike)
           /\ UNION {Shard(plan.packed.estimate, s) : s \in 1..Shards(plan.packed.estimate)}
                = 1..plan.packed.estimate

\* A pin never names a raw memory that was not written, wherever a job stopped.
PinsHaveRaw == pinned \subseteq everRaw

\* A consolidation never takes a memory that was pinned or failed an audit
\* before it was planned, although the three lists are read at three moments.
ConsolidationSpares ==
    \A r \in runs : r.candidates \cap guarded[r.job] \cap raw = {}

\* A memory that was deleted before the turn began is not shown, although an
\* ingestion may write its pin behind the deletion, so that the turn asks for
\* it.  One deleted before its raw text was written does come back that way.
DeletedStaysOut == Planned => plan.packed.memories \cap out = {}

\* docs/31: pins are not dropped for representatives nor replaced by them.
PinsBeforeRepresentatives ==
    Planned /\ (\E h \in Hits : h.broad /\ h.id \in plan.packed.memories)
        => in.pins \cap in.got \subseteq plan.packed.memories
=============================================================================
