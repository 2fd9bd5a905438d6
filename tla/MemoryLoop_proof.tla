-------------------------- MODULE MemoryLoop_proof --------------------------
(***************************************************************************)
(* Theorems about MemoryLoop, for any jobs, memories, turns and other      *)
(* clients: pins name raw memories that were written, a consolidation      *)
(* spares what was protected, and the prompt that a turn plans fits its    *)
(* window, shows the pins that were read but no memory deleted before the  *)
(* turn, and has every query block attend to what must be attended.        *)
(*                                                                         *)
(* The first part is about the store.  The second is about the functions   *)
(* of GacPolicy, PromptPlan and BlockPlan - numbers, orders, folds, scores,*)
(* packing, blocks - and ends in PackedFits, PinsReach, RouteFacts and     *)
(* ShardsCover; the last shows that a turn applies them to a reading.      *)
(***************************************************************************)
EXTENDS MemoryLoop, FiniteSetTheorems, TLAPS

JobStages == {"idle", "raw", "pins", "derive", "schedule", "done"}

\* Raw memories are written once, by the one job that made them, and pins
\* and audits name raw memories that were written.
WrittenOnce ==
    /\ raw \subseteq everRaw
    /\ pinned \subseteq everRaw
    /\ \A a \in audits : a.raw \in everRaw
    /\ \A j \in Jobs : job[j] \in {"idle", "raw"} => Contents[j] \cap everRaw = {}
    /\ \A j \in Jobs : job[j] \notin {"idle", "raw"} => Contents[j] \subseteq everRaw

\* What was protected when a job began to plan, and is still there, is still
\* protected, for the reason it was, and has been seen to be so if the list
\* of that reason was read.
Spared(j, m) ==
    \/ m \in pinned /\ ("pins" \in DOMAIN seenBy[j] => m \in seenBy[j]["pins"])
    \/ m \in Failed(audits) /\ ("audits" \in DOMAIN seenBy[j] => m \in seenBy[j]["audits"])

GuardedIsSpared ==
    /\ \A j \in Jobs : guarded[j] \subseteq everRaw
    /\ \A j \in Jobs : job[j] # "schedule" => DOMAIN seenBy[j] = {}
    /\ \A j \in Jobs : job[j] = "schedule" => \A m \in guarded[j] \cap raw : Spared(j, m)

\* A consolidation run is the last thing a job makes.
RunsAreLast == \A r \in runs : r.job \in Jobs /\ job[r.job] = "done"

JobTypes ==
    /\ job \in [Jobs -> JobStages]
    /\ DOMAIN seenBy = Jobs
    /\ guarded \in [Jobs -> SUBSET everRaw]

\* The inductive invariant behind PinsHaveRaw and ConsolidationSpares.
LoopInv ==
    /\ JobTypes
    /\ WrittenOnce
    /\ GuardedIsSpared
    /\ RunsAreLast
    /\ ConsolidationSpares

-----------------------------------------------------------------------------
(* What each kind of step does to the jobs and to what they protect.       *)

\* Steps of turns touch neither.
LEMMA TurnLeaves == Turn => UNCHANGED <<chunks, raw, pinned, audits, derived, runs, jobVars, everRaw>>
  BY DEF Turn, Search, AskRaw, MakePlan, TurnFails, Answered, WriteTrace, ReadSignal, ReadRaw,
         store, jobVars

LEMMA FailedFacts ==
    ASSUME NEW set
    PROVE  \A m : m \in Failed(set) <=> \E a \in set : ~a.kept /\ a.raw = m
  BY DEF Failed

LEMMA StepFacts ==
    ASSUME JobTypes, NEW j \in Jobs, NEW from \in JobStages, NEW to \in JobStages,
           Step(j, from, to)
    PROVE  /\ job[j] = from /\ job'[j] = to
           /\ \A k \in Jobs : k # j => job'[k] = job[k]
           /\ job' \in [Jobs -> JobStages]
  BY DEF JobTypes, Step

LEMMA InitLoop == Init => LoopInv
  <1> SUFFICES ASSUME Init PROVE LoopInv
    OBVIOUS
  <1>1. /\ raw = {} /\ pinned = {} /\ audits = {} /\ runs = {} /\ everRaw = {}
        /\ \A j \in Jobs : job[j] = "idle" /\ guarded[j] = {} /\ DOMAIN seenBy[j] = {}
    BY DEF Init, NothingSeen
  <1>2. JobTypes
    BY DEF Init, JobTypes, JobStages
  <1>3. WrittenOnce
    BY <1>1 DEF WrittenOnce
  <1>4. GuardedIsSpared /\ RunsAreLast /\ ConsolidationSpares
    BY <1>1 DEF GuardedIsSpared, RunsAreLast, ConsolidationSpares
  <1> QED
    BY <1>2, <1>3, <1>4 DEF LoopInv

LEMMA ChunksKeep ==
    ASSUME LoopInv, NEW j \in Jobs, WriteChunks(j)
    PROVE  LoopInv'
  <1>1. /\ job[j] = "idle" /\ job'[j] = "raw" /\ job' \in [Jobs -> JobStages]
        /\ \A k \in Jobs : k # j => job'[k] = job[k]
    BY StepFacts DEF LoopInv, WriteChunks, JobStages
  <1>2. UNCHANGED <<raw, pinned, audits, runs, seenBy, guarded, everRaw>>
    BY DEF WriteChunks
  <1>3. JobTypes' /\ WrittenOnce'
    BY <1>1, <1>2 DEF LoopInv, JobTypes, WrittenOnce
  <1>4. GuardedIsSpared'
    BY <1>1, <1>2 DEF LoopInv, GuardedIsSpared, Spared
  <1>5. RunsAreLast' /\ ConsolidationSpares'
    BY <1>1, <1>2 DEF LoopInv, RunsAreLast, ConsolidationSpares
  <1> QED
    BY <1>3, <1>4, <1>5 DEF LoopInv

LEMMA RawKeeps ==
    ASSUME LoopInv, NEW j \in Jobs, Step(j, "raw", "pins"),
           raw' = raw \cup Contents[j], everRaw' = everRaw \cup Contents[j],
           UNCHANGED <<pinned, audits, runs, seenBy, guarded>>
    PROVE  LoopInv'
  <1>1. /\ job[j] = "raw" /\ job'[j] = "pins" /\ job' \in [Jobs -> JobStages]
        /\ \A k \in Jobs : k # j => job'[k] = job[k]
    BY StepFacts DEF LoopInv, JobStages
  <1>2. Contents[j] \cap everRaw = {}
    BY <1>1 DEF LoopInv, WrittenOnce
  <1>3. JobTypes' /\ WrittenOnce'
    BY <1>1, FreshIds DEF LoopInv, JobTypes, WrittenOnce
  <1>4. \A k \in Jobs : guarded[k] \cap raw' = guarded[k] \cap raw
    BY <1>2 DEF LoopInv, GuardedIsSpared
  <1>5. GuardedIsSpared'
    BY <1>1, <1>4 DEF LoopInv, GuardedIsSpared, Spared
  <1>6. RunsAreLast' /\ ConsolidationSpares'
    BY <1>1, <1>4 DEF LoopInv, RunsAreLast, ConsolidationSpares
  <1> QED
    BY <1>3, <1>5, <1>6 DEF LoopInv

LEMMA PinsKeep ==
    ASSUME LoopInv, NEW j \in Jobs, Step(j, "pins", "derive"),
           pinned' = pinned \cup OwnPins(j),
           UNCHANGED <<raw, everRaw, audits, runs, seenBy, guarded>>
    PROVE  LoopInv'
  <1>1. /\ job[j] = "pins" /\ job'[j] = "derive" /\ job' \in [Jobs -> JobStages]
        /\ \A k \in Jobs : k # j => job'[k] = job[k]
    BY StepFacts DEF LoopInv, JobStages
  <1>2. OwnPins(j) \subseteq everRaw
    BY <1>1 DEF LoopInv, WrittenOnce, OwnPins
  <1>3. JobTypes' /\ WrittenOnce'
    BY <1>1, <1>2 DEF LoopInv, JobTypes, WrittenOnce
  <1>4. GuardedIsSpared'
    BY <1>1 DEF LoopInv, GuardedIsSpared, Spared
  <1>5. RunsAreLast' /\ ConsolidationSpares'
    BY <1>1 DEF LoopInv, RunsAreLast, ConsolidationSpares
  <1> QED
    BY <1>3, <1>4, <1>5 DEF LoopInv

LEMMA DerivedKeeps ==
    ASSUME LoopInv, NEW j \in Jobs, WriteDerived(j)
    PROVE  LoopInv'
  <1>1. /\ job[j] = "derive" /\ job'[j] = "schedule" /\ job' \in [Jobs -> JobStages]
        /\ \A k \in Jobs : k # j => job'[k] = job[k]
    BY StepFacts DEF LoopInv, WriteDerived, JobStages
  <1>2. UNCHANGED <<raw, pinned, audits, runs, seenBy, everRaw>>
    BY DEF WriteDerived
  <1>3. /\ guarded'[j] = pinned \cup Failed(audits)
        /\ \A k \in Jobs : k # j => guarded'[k] = guarded[k]
    BY DEF LoopInv, JobTypes, WriteDerived
  <1>4. guarded'[j] \subseteq everRaw
    BY <1>3, FailedFacts DEF LoopInv, WrittenOnce
  <1>5. JobTypes'
    BY <1>1, <1>2, <1>4 DEF LoopInv, JobTypes, WriteDerived
  <1>6. WrittenOnce'
    BY <1>1, <1>2 DEF LoopInv, WrittenOnce
  <1>7. GuardedIsSpared'
    <2>1. \A k \in Jobs : job'[k] = "schedule" => \A m \in guarded'[k] \cap raw : Spared(k, m)
      <3> SUFFICES ASSUME NEW k \in Jobs, job'[k] = "schedule", NEW m \in guarded'[k] \cap raw
                   PROVE  Spared(k, m)
        OBVIOUS
      <3>1. CASE k = j
        BY <1>1, <1>3, <3>1 DEF LoopInv, GuardedIsSpared, Spared
      <3>2. CASE k # j
        BY <1>1, <1>3, <3>2 DEF LoopInv, GuardedIsSpared
      <3> QED
        BY <3>1, <3>2
    <2>2. \A k \in Jobs : guarded'[k] \subseteq everRaw
      BY <1>3, <1>4 DEF LoopInv, GuardedIsSpared
    <2>3. \A k \in Jobs : job'[k] # "schedule" => DOMAIN seenBy[k] = {}
      BY <1>1 DEF LoopInv, GuardedIsSpared
    <2> QED
      BY <1>2, <2>1, <2>2, <2>3 DEF GuardedIsSpared, Spared
  <1>8. RunsAreLast' /\ ConsolidationSpares'
    BY <1>1, <1>2, <1>3 DEF LoopInv, RunsAreLast, ConsolidationSpares
  <1> QED
    BY <1>5, <1>6, <1>7, <1>8 DEF LoopInv

LEMMA ReadKeeps ==
    ASSUME LoopInv, NEW j \in Jobs, NEW l \in Lists, ReadList(j, l)
    PROVE  LoopInv'
  <1> DEFINE rows == CASE l = "raw" -> raw [] l = "pins" -> pinned [] OTHER -> Failed(audits)
  <1>1. /\ job[j] = "schedule" /\ l \notin DOMAIN seenBy[j]
        /\ UNCHANGED <<raw, pinned, audits, runs, job, guarded, everRaw>>
        /\ seenBy' = [seenBy EXCEPT ![j] =
                [k \in DOMAIN seenBy[j] \cup {l} |-> IF k = l THEN rows ELSE seenBy[j][k]]]
    BY DEF ReadList, store
  <1>2. /\ DOMAIN seenBy' = Jobs
        /\ seenBy'[j] = [k \in DOMAIN seenBy[j] \cup {l} |-> IF k = l THEN rows ELSE seenBy[j][k]]
        /\ \A k \in Jobs : k # j => seenBy'[k] = seenBy[k]
    BY <1>1 DEF LoopInv, JobTypes
  <1>3. JobTypes' /\ WrittenOnce'
    BY <1>1, <1>2 DEF LoopInv, JobTypes, WrittenOnce
  <1>4. /\ l = "pins" => rows = pinned
        /\ l = "audits" => rows = Failed(audits)
    OBVIOUS
  <1> HIDE DEF rows
  <1>5. \A m \in guarded[j] \cap raw : Spared(j, m)'
    <2> SUFFICES ASSUME NEW m \in guarded[j] \cap raw PROVE Spared(j, m)'
      BY DEF Spared
    <2>1. Spared(j, m)
      BY <1>1 DEF LoopInv, GuardedIsSpared
    <2> QED
      BY <1>1, <1>2, <1>4, <2>1 DEF Spared
  <1>6. GuardedIsSpared'
    <2>1. \A k \in Jobs : k # j => \A m : Spared(k, m)' <=> Spared(k, m)
      BY <1>1, <1>2 DEF Spared
    <2>2. \A k \in Jobs : job[k] = "schedule" => \A m \in guarded[k] \cap raw : Spared(k, m)'
      BY <1>5, <2>1 DEF LoopInv, GuardedIsSpared
    <2>3. \A k \in Jobs : job[k] # "schedule" => DOMAIN seenBy'[k] = {}
      BY <1>1, <1>2 DEF LoopInv, GuardedIsSpared
    <2> QED
      BY <1>1, <2>2, <2>3 DEF LoopInv, GuardedIsSpared, Spared
  <1>7. RunsAreLast' /\ ConsolidationSpares'
    BY <1>1 DEF LoopInv, RunsAreLast, ConsolidationSpares
  <1> QED
    BY <1>3, <1>6, <1>7 DEF LoopInv

\* The heart of the matter: with all three lists read, nothing that is still
\* there and was protected is a candidate.
LEMMA CandidatesSpare ==
    ASSUME LoopInv, NEW j \in Jobs, job[j] = "schedule", DOMAIN seenBy[j] = Lists
    PROVE  Candidates(seenBy[j]["raw"], seenBy[j]["pins"], seenBy[j]["audits"])
                \cap guarded[j] \cap raw = {}
  <1> SUFFICES ASSUME NEW m \in guarded[j] \cap raw,
                      m \in Candidates(seenBy[j]["raw"], seenBy[j]["pins"], seenBy[j]["audits"])
               PROVE  FALSE
    OBVIOUS
  <1>1. m \in seenBy[j]["pins"] \cup seenBy[j]["audits"]
    BY DEF LoopInv, GuardedIsSpared, Spared, Lists
  <1> QED
    BY <1>1 DEF Candidates, Protected

LEMMA ConsolidateKeeps ==
    ASSUME LoopInv, NEW j \in Jobs, Consolidate(j)
    PROVE  LoopInv'
  <1>1. /\ job[j] = "schedule" /\ job'[j] = "done" /\ job' \in [Jobs -> JobStages]
        /\ \A k \in Jobs : k # j => job'[k] = job[k]
    BY StepFacts DEF LoopInv, Consolidate, JobStages
  <1>2. /\ UNCHANGED <<raw, pinned, audits, guarded, everRaw>>
        /\ DOMAIN seenBy' = Jobs /\ DOMAIN seenBy'[j] = {}
        /\ \A k \in Jobs : k # j => seenBy'[k] = seenBy[k]
    BY DEF Consolidate, NothingSeen, LoopInv, JobTypes
  <1> DEFINE taken == Candidates(seenBy[j]["raw"], seenBy[j]["pins"], seenBy[j]["audits"])
  <1>3. taken \cap guarded[j] \cap raw = {}
    BY <1>1, CandidatesSpare DEF Consolidate
  <1>4. \A r \in runs' : r \in runs \/ r = [job |-> j, candidates |-> taken]
    BY DEF Consolidate
  <1> HIDE DEF taken
  <1>5. JobTypes' /\ WrittenOnce'
    BY <1>1, <1>2 DEF LoopInv, JobTypes, WrittenOnce
  <1>6. GuardedIsSpared'
    BY <1>1, <1>2 DEF LoopInv, GuardedIsSpared, Spared
  <1>7. RunsAreLast'
    BY <1>1, <1>4 DEF LoopInv, RunsAreLast
  <1>8. ConsolidationSpares'
    BY <1>2, <1>3, <1>4 DEF LoopInv, ConsolidationSpares
  <1> QED
    BY <1>5, <1>6, <1>7, <1>8 DEF LoopInv

LEMMA OthersKeep ==
    ASSUME LoopInv, Others
    PROVE  LoopInv'
  <1>0. UNCHANGED <<job, seenBy, guarded, everRaw>>
    BY DEF Others, jobVars
  <1>1. ASSUME NEW m \in raw, NEW kept \in BOOLEAN,
               audits' = audits \cup {[raw |-> m, kept |-> kept]}, UNCHANGED <<raw, pinned, runs>>
        PROVE  LoopInv'
    <2>1. JobTypes' /\ WrittenOnce'
      BY <1>0, <1>1 DEF LoopInv, JobTypes, WrittenOnce
    <2>2. Failed(audits) \subseteq Failed(audits')
      BY <1>1, FailedFacts
    <2>3. GuardedIsSpared'
      BY <1>0, <1>1, <2>2 DEF LoopInv, GuardedIsSpared, Spared
    <2> QED
      BY <1>0, <1>1, <2>1, <2>3 DEF LoopInv, RunsAreLast, ConsolidationSpares
  <1>2. ASSUME NEW m \in raw, pinned' = pinned \cup {m}, UNCHANGED <<raw, audits, runs>>
        PROVE  LoopInv'
    <2>1. JobTypes' /\ WrittenOnce'
      BY <1>0, <1>2 DEF LoopInv, JobTypes, WrittenOnce
    <2>2. GuardedIsSpared'
      BY <1>0, <1>2 DEF LoopInv, GuardedIsSpared, Spared
    <2> QED
      BY <1>0, <1>2, <2>1, <2>2 DEF LoopInv, RunsAreLast, ConsolidationSpares
  <1>3. ASSUME NEW set, DeleteRows(set), runs' = runs
        PROVE  LoopInv'
    <2>1. JobTypes' /\ WrittenOnce'
      BY <1>0, <1>3 DEF DeleteRows, LoopInv, JobTypes, WrittenOnce
    <2>2. \A n : n \notin set /\ n \in Failed(audits) => n \in Failed(audits')
      BY <1>3, FailedFacts DEF DeleteRows
    <2>3. GuardedIsSpared'
      BY <1>0, <1>3, <2>2 DEF DeleteRows, LoopInv, GuardedIsSpared, Spared
    <2>4. RunsAreLast' /\ ConsolidationSpares'
      BY <1>0, <1>3 DEF DeleteRows, LoopInv, RunsAreLast, ConsolidationSpares
    <2> QED
      BY <2>1, <2>3, <2>4 DEF LoopInv
  <1>4. ASSUME DeleteScope PROVE LoopInv'
    BY <1>0, <1>4 DEF DeleteScope, LoopInv, JobTypes, WrittenOnce, GuardedIsSpared, RunsAreLast,
                      ConsolidationSpares
  <1>5. CASE Audit
    BY <1>1, <1>5 DEF Audit
  <1>6. CASE Pin
    BY <1>2, <1>6 DEF Pin
  <1>7. CASE Delete
    BY <1>3, <1>4, <1>7 DEF Delete
  <1> QED
    BY <1>5, <1>6, <1>7 DEF Others

LEMMA StepKeeps == LoopInv /\ [Next]_vars => LoopInv'
  <1> SUFFICES ASSUME LoopInv, [Next]_vars PROVE LoopInv'
    OBVIOUS
  <1>1. ASSUME NEW j \in Jobs, WriteExact(j), UNCHANGED <<audits, runs, seenBy, guarded>>
        PROVE  LoopInv'
    BY <1>1, RawKeeps, PinsKeep DEF WriteExact
  <1>2. CASE Ingest
    BY <1>1, <1>2, ChunksKeep, DerivedKeeps, ConsolidateKeeps, ReadKeeps DEF Ingest
  <1>3. CASE UNCHANGED <<chunks, raw, pinned, audits, derived, runs, jobVars, everRaw>>
    BY <1>3 DEF LoopInv, JobTypes, WrittenOnce, GuardedIsSpared, Spared, RunsAreLast,
                ConsolidationSpares, jobVars
  <1>4. CASE UNCHANGED vars
    BY <1>3, <1>4 DEF vars, store, jobVars
  <1> QED
    BY <1>2, <1>3, <1>4, TurnLeaves, OthersKeep DEF Next

LEMMA LoopIsInvariant == Spec => []LoopInv
  BY InitLoop, StepKeeps, PTL DEF Spec

\* An identity pin never names a raw memory that was not written, wherever
\* an ingestion job stopped (writeImmediateGacIngestionPlan).
THEOREM PinsNameRaw == Spec => []PinsHaveRaw
  <1>1. LoopInv => PinsHaveRaw
    BY DEF LoopInv, WrittenOnce, PinsHaveRaw
  <1> QED
    BY <1>1, LoopIsInvariant, PTL

\* A consolidation takes no memory that was pinned or had failed an audit
\* when the job began to plan it and is still there, although
\* scheduleAdaptiveConsolidationJob reads its three lists at three moments.
THEOREM ProtectedIsSpared == Spec => []ConsolidationSpares
  <1>1. LoopInv => ConsolidationSpares
    BY DEF LoopInv
  <1> QED
    BY <1>1, LoopIsInvariant, PTL

-----------------------------------------------------------------------------
(* Numbers.                                                                *)

LEMMA LeastOfOrder ==
    ASSUME NEW R, IsWellFoundedOn(R, Nat), \A x, y \in Nat : <<y, x>> \in R <=> y < x,
           NEW S, S \subseteq Nat, S # {}
    PROVE  \E n \in S : \A m \in S : n <= m
  <1>1. PICK x \in S : \A y \in S : ~(<<y, x>> \in R)
    BY WFMin
  <1>2. \A y \in S : y \in Nat /\ x \in Nat /\ ~(y < x)
    BY <1>1
  <1> QED
    BY <1>2

LEMMA LeastNumber ==
    ASSUME NEW S, S \subseteq Nat, S # {}
    PROVE  \E n \in S : \A m \in S : n <= m
  <1>1. \A x, y \in Nat : <<y, x>> \in OpToRel(<, Nat) <=> y < x
    BY DEF OpToRel
  <1> QED
    BY <1>1, NatLessThanWellFounded, LeastOfOrder, Zenon

\* Induction, over the set of the numbers of which something holds.
LEMMA EveryNumber ==
    ASSUME NEW S, 0 \in S, \A k \in Nat : k \in S => k + 1 \in S
    PROVE  Nat \subseteq S
  <1> DEFINE rest == Nat \ S
  <1> SUFFICES ASSUME rest # {} PROVE FALSE
    OBVIOUS
  <1>1. PICK m \in rest : \A k \in rest : m <= k
    <2>1. rest \subseteq Nat
      OBVIOUS
    <2> HIDE DEF rest
    <2> QED
      BY <2>1, LeastNumber
  <1>2. m # 0 /\ m \in Nat /\ m \notin S
    OBVIOUS
  <1>3. m - 1 \in Nat /\ (m - 1) + 1 = m /\ ~(m <= m - 1)
    BY <1>2
  <1>4. m - 1 \in S
    BY <1>1, <1>3
  <1> QED
    BY <1>2, <1>3, <1>4

\* A set of numbers from 1 to n has its greatest member.
LEMMA MaxIsIn ==
    ASSUME NEW n \in Nat, NEW S \in SUBSET (1..n), S # {}
    PROVE  Max(S) \in S /\ \A y \in S : y <= Max(S)
  <1> DEFINE rest == {k \in Nat : n - k \in S}
  <1>1. rest # {} /\ rest \subseteq Nat
    <2>1. PICK x \in S : TRUE
      OBVIOUS
    <2>2. n - x \in Nat /\ n - (n - x) = x
      OBVIOUS
    <2> QED
      BY <2>1, <2>2
  <1>2. PICK m \in rest : \A k \in rest : m <= k
    <2> HIDE DEF rest
    <2> QED
      BY <1>1, LeastNumber
  <1>3. \A y \in S : n - m >= y
    <2> SUFFICES ASSUME NEW y \in S PROVE n - m >= y
      OBVIOUS
    <2>1. n - y \in Nat /\ n - (n - y) = y /\ y \in Nat
      OBVIOUS
    <2>2. n - y \in rest
      BY <2>1
    <2>3. m <= n - y /\ m \in Nat
      BY <1>2, <2>2
    <2> QED
      BY <2>1, <2>3
  <1>4. Max(S) \in S /\ \A y \in S : Max(S) >= y
    BY <1>3 DEF Max
  <1> QED
    BY <1>4

-----------------------------------------------------------------------------
(* Folds: c says which element of a set is taken from it last, and F what   *)
(* is made of that element and of the value of the rest.                    *)

MayFold(S, V, base, c, F) ==
    /\ IsFiniteSet(S) /\ base \in V
    /\ \A T \in SUBSET S : T # {} => c[T] \in T
    /\ \A x \in S, v \in V : F[<<x, v>>] \in V

IsFold(g, S, V, base, c, F) ==
    /\ g = [T \in SUBSET S |-> g[T]]
    /\ \A T \in SUBSET S : g[T] = IF T = {} THEN base ELSE F[<<c[T], g[T \ {c[T]}]>>]
    /\ \A T \in SUBSET S : g[T] \in V

LEMMA FoldExists ==
    ASSUME NEW S, NEW V, NEW base, NEW c, NEW F, MayFold(S, V, base, c, F)
    PROVE  \E g : IsFold(g, S, V, base, c, F)
  <1> DEFINE value(g, T) == IF T = {} THEN base ELSE F[<<c[T], g[T \ {c[T]}]>>]
  <1> DEFINE good(k, g) == \A T \in SUBSET S : Cardinality(T) <= k => g[T] = value(g, T) /\ g[T] \in V
  <1> DEFINE N == {k \in Nat : \E g : good(k, g)}
  <1>0. /\ IsFiniteSet(S) /\ base \in V
        /\ \A T \in SUBSET S : T # {} => c[T] \in T
        /\ \A x \in S, v \in V : F[<<x, v>>] \in V
    BY DEF MayFold
  <1>1. \A T \in SUBSET S : IsFiniteSet(T) /\ Cardinality(T) \in Nat /\ Cardinality(T) <= Cardinality(S)
    BY <1>0, FS_Subset, FS_CardinalityType
  <1>2. \A T \in SUBSET S : T # {} =>
           /\ c[T] \in T /\ c[T] \in S /\ T \ {c[T]} \in SUBSET S
           /\ Cardinality(T \ {c[T]}) = Cardinality(T) - 1
    BY <1>0, <1>1, FS_RemoveElement
  <1>3. 0 \in N
    <2> DEFINE g == [T \in SUBSET S |-> base]
    <2>1. ASSUME NEW T \in SUBSET S, Cardinality(T) <= 0 PROVE g[T] = value(g, T) /\ g[T] \in V
      <3>1. T = {}
        BY <1>1, <2>1, FS_EmptySet
      <3> QED
        BY <1>0, <3>1
    <2>2. good(0, g)
      BY <2>1
    <2> QED
      BY <2>2
  <1>4. ASSUME NEW k \in Nat, k \in N PROVE k + 1 \in N
    <2>1. PICK g : good(k, g)
      BY <1>4
    <2> DEFINE h == [T \in SUBSET S |-> IF Cardinality(T) <= k THEN g[T] ELSE value(g, T)]
    <2>2. ASSUME NEW T \in SUBSET S, Cardinality(T) <= k + 1
          PROVE  h[T] = value(h, T) /\ h[T] \in V
      <3> DEFINE rest == T \ {c[T]}
      <3>1. T # {} => rest \in SUBSET S /\ Cardinality(rest) <= k /\ c[T] \in S
        BY <1>1, <1>2, <2>2
      <3>2. T # {} => h[rest] = g[rest] /\ g[rest] \in V
        BY <2>1, <3>1
      <3>3. value(h, T) = value(g, T)
        <4>1. T # {} => h[T \ {c[T]}] = g[T \ {c[T]}]
          BY <3>2
        <4> HIDE DEF h
        <4> QED
          BY <4>1
      <3>4. value(g, T) \in V
        <4> HIDE DEF rest
        <4>1. T # {} => F[<<c[T], g[rest]>>] \in V
          BY <1>0, <3>1, <3>2
        <4> QED
          BY <1>0, <4>1 DEF rest
      <3>5. h[T] = value(g, T)
        BY <2>1
      <3> QED
        BY <3>3, <3>4, <3>5
    <2>3. good(k + 1, h)
      BY <2>2
    <2> HIDE DEF good, h
    <2> QED
      BY <2>3
  <1>5. Cardinality(S) \in N
    <2> HIDE DEF N
    <2> QED
      BY <1>1, <1>3, <1>4, EveryNumber
  <1>6. PICK g : good(Cardinality(S), g)
    BY <1>5
  <1>7. \A T \in SUBSET S : g[T] = value(g, T) /\ g[T] \in V
    BY <1>1, <1>6
  <1> DEFINE h == [T \in SUBSET S |-> g[T]]
  <1>8. \A T \in SUBSET S : h[T] = value(h, T) /\ h[T] \in V
    BY <1>2, <1>7
  <1>9. h = [T \in SUBSET S |-> h[T]]
    OBVIOUS
  <1> HIDE DEF h
  <1> QED
    BY <1>8, <1>9 DEF IsFold

-----------------------------------------------------------------------------
(* Orders: R is a strict total order of S, and the k-th member in it is the *)
(* one that k - 1 others precede.                                           *)

IsOrder(R, S) ==
    /\ \A i \in S : <<i, i>> \notin R
    /\ \A i, j, k \in S : <<i, j>> \in R /\ <<j, k>> \in R => <<i, k>> \in R
    /\ \A i, j \in S : i # j => <<i, j>> \in R \/ <<j, i>> \in R

Before(R, S, i) == {j \in S : <<j, i>> \in R}

LEMMA RanksRise ==
    ASSUME NEW S, IsFiniteSet(S), NEW R, IsOrder(R, S)
    PROVE  /\ \A i \in S : Cardinality(Before(R, S, i)) \in 0..Cardinality(S) - 1
           /\ \A i, j \in S : <<i, j>> \in R => Cardinality(Before(R, S, i)) < Cardinality(Before(R, S, j))
  <1> DEFINE rank(i) == Cardinality(Before(R, S, i))
  <1>1. \A T \in SUBSET S : IsFiniteSet(T) /\ Cardinality(T) \in Nat /\ Cardinality(T) <= Cardinality(S)
    BY FS_Subset, FS_CardinalityType
  <1>2. ASSUME NEW T \in SUBSET S, NEW U \in SUBSET T, NEW x \in T, x \notin U
        PROVE  Cardinality(U) < Cardinality(T)
    <2>1. IsFiniteSet(T) /\ Cardinality(T) \in Nat /\ Cardinality(U) \in Nat
      BY <1>1
    <2>2. Cardinality(U) <= Cardinality(T) /\ (Cardinality(U) = Cardinality(T) => U = T)
      BY <2>1, FS_Subset
    <2> QED
      BY <1>2, <2>1, <2>2
  <1>3. ASSUME NEW i \in S PROVE rank(i) \in 0..Cardinality(S) - 1
    <2>1. Before(R, S, i) \in SUBSET S /\ i \notin Before(R, S, i) /\ S \in SUBSET S
      BY DEF Before, IsOrder
    <2>2. rank(i) < Cardinality(S)
      BY <1>2, <2>1
    <2> QED
      BY <1>1, <2>1, <2>2
  <1>4. ASSUME NEW i \in S, NEW j \in S, <<i, j>> \in R PROVE rank(i) < rank(j)
    <2>1. Before(R, S, i) \in SUBSET Before(R, S, j)
      BY <1>4 DEF Before, IsOrder
    <2>2. i \in Before(R, S, j) /\ i \notin Before(R, S, i) /\ Before(R, S, j) \in SUBSET S
      BY <1>4 DEF Before, IsOrder
    <2> QED
      BY <1>2, <2>1, <2>2
  <1> QED
    BY <1>3, <1>4

\* Every rank from 0 is somebody's.
LEMMA RanksAreTaken ==
    ASSUME NEW S, IsFiniteSet(S), NEW R, IsOrder(R, S), NEW k \in 1..Cardinality(S)
    PROVE  \E i \in S : Cardinality(Before(R, S, i)) = k - 1
  <1> DEFINE n == Cardinality(S)
             rank == [i \in S |-> Cardinality(Before(R, S, i))]
             ranks == 0..n - 1
  <1>1. n \in Nat
    BY FS_CardinalityType
  <1>2. rank \in [S -> ranks]
    BY RanksRise
  <1>3. \A i, j \in S : rank[i] = rank[j] => i = j
    <2> SUFFICES ASSUME NEW i \in S, NEW j \in S, rank[i] = rank[j], i # j PROVE FALSE
      OBVIOUS
    <2>1. <<i, j>> \in R \/ <<j, i>> \in R
      BY DEF IsOrder
    <2>2. rank[i] < rank[j] \/ rank[j] < rank[i]
      BY <2>1, RanksRise
    <2>3. rank[i] \in ranks
      BY <1>2
    <2> QED
      BY <1>1, <2>2, <2>3
  <1>4. IsFiniteSet(ranks) /\ Cardinality(ranks) = n
    <2>1. 0 \in Int /\ n - 1 \in Int
      BY <1>1
    <2> QED
      BY <1>1, <2>1, FS_Interval
  <1>5. rank \in Injection(S, ranks)
    <2> HIDE DEF rank, ranks
    <2> QED
      BY <1>2, <1>3 DEF Injection, IsInjective
  <1>6. rank \in Surjection(S, ranks)
    <2> HIDE DEF rank, ranks, n
    <2>1. Cardinality(S) = Cardinality(ranks) <=> rank \in Surjection(S, ranks)
      BY <1>4, <1>5, FS_Injection
    <2> QED
      BY <1>4, <2>1 DEF n
  <1>7. k - 1 \in ranks
    BY <1>1
  <1>8. \E i \in S : rank[i] = k - 1
    <2> HIDE DEF rank, ranks
    <2> QED
      BY <1>6, <1>7 DEF Surjection
  <1> QED
    BY <1>8

\* p takes the members of S one by one, m of them.
Onto(p, m, S) == p \in [1..m -> S] /\ \A i \in S : \E k \in 1..m : p[k] = i

RanksOf(R, S) == [k \in 1..Cardinality(S) |-> CHOOSE i \in S : Cardinality(Before(R, S, i)) = k - 1]

\* What InOrder returns.
LEMMA OrderIsKept ==
    ASSUME NEW S, IsFiniteSet(S), NEW R, IsOrder(R, S), NEW p, p = RanksOf(R, S)
    PROVE  /\ Cardinality(S) \in Nat
           /\ Onto(p, Cardinality(S), S)
           /\ \A k, l \in 1..Cardinality(S) : k < l <=> <<p[k], p[l]>> \in R
  <1> DEFINE n == Cardinality(S)
             rank(i) == Cardinality(Before(R, S, i))
  <1>1. n \in Nat
    BY FS_CardinalityType
  <1>2. ASSUME NEW k \in 1..n PROVE p[k] \in S /\ rank(p[k]) = k - 1
    <2>1. \E i \in S : rank(i) = k - 1
      BY RanksAreTaken
    <2>2. p[k] = CHOOSE i \in S : rank(i) = k - 1
      BY DEF RanksOf
    <2> QED
      BY <2>1, <2>2
  <1>3. \A i, j \in S : i # j => rank(i) # rank(j)
    <2> SUFFICES ASSUME NEW i \in S, NEW j \in S, i # j PROVE rank(i) # rank(j)
      OBVIOUS
    <2>1. rank(i) < rank(j) \/ rank(j) < rank(i)
      BY RanksRise DEF IsOrder
    <2>2. rank(i) \in 0..n - 1 /\ rank(j) \in 0..n - 1
      BY RanksRise
    <2> HIDE DEF rank
    <2> QED
      BY <1>1, <2>1, <2>2
  <1>4. ASSUME NEW i \in S PROVE \E k \in 1..n : p[k] = i
    <2>1. rank(i) \in 0..n - 1
      BY RanksRise
    <2>2. rank(i) + 1 \in 1..n /\ (rank(i) + 1) - 1 = rank(i)
      BY <1>1, <2>1
    <2>3. p[rank(i) + 1] \in S /\ rank(p[rank(i) + 1]) = rank(i)
      BY <1>2, <2>2
    <2> QED
      BY <1>3, <2>2, <2>3
  <1>5. ASSUME NEW k \in 1..n, NEW l \in 1..n PROVE k < l <=> <<p[k], p[l]>> \in R
    <2>1. p[k] \in S /\ p[l] \in S /\ rank(p[k]) = k - 1 /\ rank(p[l]) = l - 1
      BY <1>2
    <2>2. CASE <<p[k], p[l]>> \in R
      <3>1. rank(p[k]) < rank(p[l])
        BY <2>1, <2>2, RanksRise
      <3> QED
        BY <1>1, <2>1, <2>2, <3>1
    <2>3. CASE <<p[l], p[k]>> \in R
      <3>1. rank(p[l]) < rank(p[k])
        BY <2>1, <2>3, RanksRise
      <3>2. <<p[k], p[l]>> \notin R
        BY <2>1, <2>3 DEF IsOrder
      <3> QED
        BY <1>1, <2>1, <3>1, <3>2
    <2>4. CASE p[k] = p[l]
      <3>1. k - 1 = l - 1
        BY <2>1, <2>4
      <3>2. k = l
        BY <1>1, <3>1
      <3>3. <<p[k], p[l]>> \notin R
        BY <2>1, <2>4 DEF IsOrder
      <3> QED
        BY <1>1, <3>2, <3>3
    <2> QED
      BY <2>1, <2>2, <2>3, <2>4 DEF IsOrder
  <1>6. p \in [1..n -> S]
    BY <1>2 DEF RanksOf
  <1> QED
    BY <1>1, <1>4, <1>5, <1>6 DEF Onto

\* Numbers in their own order.
Line(S) == [k \in 1..Cardinality(S) |-> CHOOSE i \in S : Cardinality({j \in S : j < i}) = k - 1]

LEMMA InLine ==
    ASSUME NEW n \in Nat, NEW S \in SUBSET (1..n), NEW p, p = Line(S)
    PROVE  /\ IsFiniteSet(S) /\ Cardinality(S) \in Nat
           /\ Onto(p, Cardinality(S), S)
           /\ \A k, l \in 1..Cardinality(S) : k < l <=> p[k] < p[l]
  <1> DEFINE R == {x \in (1..n) \X (1..n) : x[1] < x[2]}
  <1>1. IsFiniteSet(S)
    <2>1. 1 \in Int /\ n \in Int
      OBVIOUS
    <2> QED
      BY <2>1, FS_Interval, FS_Subset
  <1>2. \A i, j \in S : <<i, j>> \in R <=> i < j
    <2> SUFFICES ASSUME NEW i \in S, NEW j \in S PROVE <<i, j>> \in R <=> i < j
      OBVIOUS
    <2>1. <<i, j>> \in (1..n) \X (1..n) /\ <<i, j>>[1] = i /\ <<i, j>>[2] = j
      OBVIOUS
    <2> QED
      BY <2>1
  <1>3. IsOrder(R, S)
    <2> HIDE DEF R
    <2> QED
      BY <1>2 DEF IsOrder
  <1>4. \A i \in S : {j \in S : j < i} = Before(R, S, i)
    <2> HIDE DEF R
    <2> SUFFICES ASSUME NEW i \in S PROVE {j \in S : j < i} = {j \in S : <<j, i>> \in R}
      BY DEF Before
    <2>1. \A j \in S : j < i <=> <<j, i>> \in R
      BY <1>2
    <2> QED
      BY <2>1, Zenon
  <1>5. p = RanksOf(R, S)
    <2> HIDE DEF R
    <2>1. \A k \in 1..Cardinality(S) : (CHOOSE i \in S : Cardinality({j \in S : j < i}) = k - 1)
                                       = CHOOSE i \in S : Cardinality(Before(R, S, i)) = k - 1
      BY <1>4
    <2>2. p = [k \in 1..Cardinality(S) |-> p[k]]
      BY DEF Line
    <2>3. \A k \in 1..Cardinality(S) : p[k] = CHOOSE i \in S : Cardinality(Before(R, S, i)) = k - 1
      BY <2>1 DEF Line
    <2> QED
      BY <2>2, <2>3, Zenon DEF RanksOf
  <1> HIDE DEF R
  <1>6. /\ Cardinality(S) \in Nat
        /\ Onto(p, Cardinality(S), S)
        /\ \A k, l \in 1..Cardinality(S) : k < l <=> <<p[k], p[l]>> \in R
    BY <1>1, <1>3, <1>5, OrderIsKept
  <1>7. \A k \in 1..Cardinality(S) : p[k] \in S
    BY <1>6 DEF Onto
  <1> QED
    BY <1>1, <1>2, <1>6, <1>7

-----------------------------------------------------------------------------
(* The folds of the model, step by step.                                   *)

\* The first k places of n, and their greatest.
LEMMA FirstPlaces ==
    ASSUME NEW n \in Nat, NEW k \in 1..n
    PROVE  /\ 1..k \in SUBSET (1..n) /\ 1..k # {} /\ (1..k) \ {k} = 1..(k - 1) /\ 1..(k - 1) \in SUBSET (1..n)
           /\ Max(1..k) = k
  <1>1. 1..k \in SUBSET (1..n) /\ 1..k # {} /\ (1..k) \ {k} = 1..(k - 1) /\ 1..(k - 1) \in SUBSET (1..n)
    OBVIOUS
  <1>2. Max(1..k) \in 1..k /\ \A y \in 1..k : y <= Max(1..k)
    BY <1>1, MaxIsIn
  <1>3. k \in 1..k
    OBVIOUS
  <1>4. k <= Max(1..k) /\ Max(1..k) <= k /\ Max(1..k) \in Nat
    BY <1>2, <1>3
  <1>5. Max(1..k) = k
    BY <1>4
  <1> QED
    BY <1>1, <1>5

\* F makes a value of V of a place and of a value of V.
IsStep(F, n, V) == \A k \in 1..n, w \in V : F[<<k, w>>] \in V

Unfolds(g, n, V, base, F) ==
    /\ g[{}] = base
    /\ \A T \in SUBSET (1..n) : T # {} /\ g[T \ {Max(T)}] \in V => g[T] = F[<<Max(T), g[T \ {Max(T)}]>>]

Goes(v, g, n, V, base, F) ==
    v \in [0..n -> V] /\ v[0] = base /\ g[1..n] = v[n] /\ \A k \in 1..n : v[k] = F[<<k, v[k - 1]>>]

\* A fold over 1..n goes from the value of the first k - 1 places to that of
\* the first k.
LEMMA FoldSteps ==
    ASSUME NEW n \in Nat, NEW V, NEW base \in V, NEW F, NEW g,
           Unfolds(g, n, V, base, F), IsStep(F, n, V)
    PROVE  \E v : Goes(v, g, n, V, base, F)
  <1>0. /\ g[{}] = base
        /\ \A T \in SUBSET (1..n) : T # {} /\ g[T \ {Max(T)}] \in V => g[T] = F[<<Max(T), g[T \ {Max(T)}]>>]
        /\ \A k \in 1..n, w \in V : F[<<k, w>>] \in V
    BY DEF Unfolds, IsStep
  <1>1. ASSUME NEW k \in 1..n, g[1..(k - 1)] \in V PROVE g[1..k] = F[<<k, g[1..(k - 1)]>>]
    <2>1. 1..k \in SUBSET (1..n) /\ 1..k # {} /\ (1..k) \ {k} = 1..(k - 1) /\ Max(1..k) = k
      BY FirstPlaces
    <2>2. g[(1..k) \ {Max(1..k)}] \in V
      BY <1>1, <2>1
    <2>3. g[1..k] = F[<<Max(1..k), g[(1..k) \ {Max(1..k)}]>>]
      BY <1>0, <2>1, <2>2
    <2> QED
      BY <2>1, <2>3
  <1>2. g[1..0] = base
    <2>1. 1..0 = {}
      OBVIOUS
    <2> QED
      BY <1>0, <2>1
  <1> DEFINE v == [k \in 0..n |-> g[1..k]]
             N == {k \in Nat : k \in 0..n => v[k] \in V}
  <1>3. v[0] = base /\ \A k \in 1..n : v[k - 1] \in V => v[k] = F[<<k, v[k - 1]>>]
    BY <1>1, <1>2
  <1>4. v = [k \in 0..n |-> v[k]] /\ v[n] = g[1..n]
    OBVIOUS
  <1> HIDE DEF v
  <1>5. Nat \subseteq N
    <2>1. 0 \in N
      BY <1>3
    <2>2. ASSUME NEW k \in Nat, k \in N PROVE k + 1 \in N
      <3> SUFFICES ASSUME k + 1 \in 0..n PROVE v[k + 1] \in V
        OBVIOUS
      <3>1. k \in 0..n /\ k + 1 \in 1..n /\ (k + 1) - 1 = k
        OBVIOUS
      <3>2. v[k] \in V
        BY <2>2, <3>1
      <3>3. v[k + 1] = F[<<k + 1, v[k]>>]
        BY <1>3, <3>1, <3>2
      <3> QED
        BY <1>0, <3>1, <3>2, <3>3
    <2> HIDE DEF N
    <2> QED
      BY <2>1, <2>2, EveryNumber
  <1>6. \A k \in 0..n : v[k] \in V
    <2>1. \A k \in 0..n : k \in Nat
      OBVIOUS
    <2> QED
      BY <1>5, <2>1
  <1>7. v \in [0..n -> V]
    BY <1>4, <1>6
  <1>8. \A k \in 1..n : v[k] = F[<<k, v[k - 1]>>]
    <2>1. \A k \in 1..n : k - 1 \in 0..n
      OBVIOUS
    <2> QED
      BY <1>3, <1>6, <2>1
  <1> QED
    BY <1>3, <1>4, <1>7, <1>8 DEF Goes

\* A fold over 1..n.
IsFoldTo(g, n, V, base, F) ==
    /\ g = [T \in SUBSET (1..n) |-> g[T]]
    /\ g[{}] = base
    /\ \A T \in SUBSET (1..n) : T # {} =>
          /\ Max(T) \in 1..n /\ g[T \ {Max(T)}] \in V
          /\ g[T] = F[<<Max(T), g[T \ {Max(T)}]>>]

\* Such a fold exists.
LEMMA FoldsExist ==
    ASSUME NEW n \in Nat, NEW V, NEW base \in V, NEW F, IsStep(F, n, V)
    PROVE  \E g : IsFoldTo(g, n, V, base, F)
  <1> DEFINE S == 1..n
             c == [T \in SUBSET S |-> Max(T)]
  <1>1. IsFiniteSet(S)
    BY FS_Interval
  <1>2. \A T \in SUBSET S : T # {} => c[T] = Max(T) /\ c[T] \in T
    BY MaxIsIn
  <1> HIDE DEF c
  <1>3. MayFold(S, V, base, c, F)
    BY <1>1, <1>2 DEF MayFold, IsStep
  <1> HIDE DEF S
  <1>4. PICK g : IsFold(g, S, V, base, c, F)
    BY <1>3, FoldExists
  <1>5. g = [T \in SUBSET S |-> g[T]] /\ g[{}] = base
    BY <1>4 DEF IsFold
  <1>6. ASSUME NEW T \in SUBSET S, T # {}
        PROVE  Max(T) \in S /\ g[T \ {Max(T)}] \in V /\ g[T] = F[<<Max(T), g[T \ {Max(T)}]>>]
    BY <1>2, <1>4, <1>6 DEF IsFold
  <1> QED
    BY <1>5, <1>6 DEF S, IsFoldTo

\* v[k] is the sum of the first k numbers.
Sums(v, s) == v[0] = 0 /\ \A k \in 1..Len(s) : v[k] = v[k - 1] + s[k]

Partial(v, s) == v \in [0..Len(s) -> Nat] /\ Sums(v, s) /\ Total(s) = v[Len(s)]

LEMMA TotalSteps ==
    ASSUME NEW s \in Seq(Nat)
    PROVE  \E v : Partial(v, s)
  <1> DEFINE n == Len(s)
             F == [x \in (1..n) \X Nat |-> x[2] + s[x[1]]]
             isFold(g) == g = [T \in SUBSET (1..n) |-> IF T = {} THEN 0 ELSE g[T \ {Max(T)}] + s[Max(T)]]
  <1>1. n \in Nat /\ DOMAIN s = 1..n /\ (\A k \in 1..n : s[k] \in Nat) /\ 0 \in Nat
    OBVIOUS
  <1>2. Total(s) = (CHOOSE g : isFold(g))[1..n]
    BY <1>1 DEF Total, FoldLeft, MapThenFoldSet
  <1>3. \A k \in 1..n, w \in Nat : F[<<k, w>>] = w + s[k] /\ F[<<k, w>>] \in Nat
    BY <1>1
  <1> HIDE DEF n, F
  <1>4. \E g : isFold(g)
    <2>1. PICK g : IsFoldTo(g, n, Nat, 0, F)
      BY <1>1, <1>3, FoldsExist DEF IsStep
    <2>2. \A T \in SUBSET (1..n) : g[T] = IF T = {} THEN 0 ELSE g[T \ {Max(T)}] + s[Max(T)]
      BY <1>3, <2>1 DEF IsFoldTo
    <2>3. isFold(g)
      BY <2>1, <2>2 DEF IsFoldTo
    <2> QED
      BY <2>3
  <1> DEFINE g == CHOOSE h : isFold(h)
  <1>5. isFold(g)
    BY <1>4
  <1> HIDE DEF g
  <1>6. g[{}] = 0 /\ \A T \in SUBSET (1..n) : T # {} => g[T] = g[T \ {Max(T)}] + s[Max(T)]
    BY <1>5
  <1> HIDE DEF isFold
  <1>7. Unfolds(g, n, Nat, 0, F) /\ IsStep(F, n, Nat)
    BY <1>1, <1>3, <1>6, MaxIsIn DEF Unfolds, IsStep
  <1>8. PICK v : Goes(v, g, n, Nat, 0, F)
    BY <1>1, <1>7, FoldSteps
  <1>9. \A k \in 1..n : v[k] = v[k - 1] + s[k]
    <2>1. \A k \in 1..n : k - 1 \in 0..n
      BY <1>1
    <2> QED
      BY <1>3, <1>8, <2>1 DEF Goes
  <1> QED
    BY <1>2, <1>8, <1>9 DEF g, n, Goes, Partial, Sums

LEMMA TotalIsNat == ASSUME NEW s \in Seq(Nat) PROVE Total(s) \in Nat
  <1>1. Len(s) \in Nat /\ Len(s) \in 0..Len(s)
    OBVIOUS
  <1> QED
    BY <1>1, TotalSteps DEF Partial

\* Sums of two sequences that agree on their first n places.
LEMMA TotalsAgree ==
    ASSUME NEW n \in Nat, NEW s \in Seq(Nat), NEW t \in Seq(Nat), n <= Len(s), n <= Len(t),
           \A k \in 1..n : s[k] = t[k],
           NEW v, Sums(v, s), NEW w, Sums(w, t)
    PROVE  v[n] = w[n]
  <1> DEFINE N == {k \in Nat : k <= n => v[k] = w[k]}
  <1>1. 0 \in N
    BY DEF Sums
  <1>2. ASSUME NEW k \in Nat, k \in N PROVE k + 1 \in N
    <2> SUFFICES ASSUME k + 1 <= n PROVE v[k + 1] = w[k + 1]
      OBVIOUS
    <2>1. k + 1 \in 1..n /\ k + 1 \in 1..Len(s) /\ k + 1 \in 1..Len(t) /\ (k + 1) - 1 = k /\ k <= n
      OBVIOUS
    <2>2. v[k] = w[k]
      BY <1>2, <2>1
    <2>3. v[k + 1] = v[k] + s[k + 1] /\ w[k + 1] = w[k] + t[k + 1]
      BY <2>1 DEF Sums
    <2> QED
      BY <2>1, <2>2, <2>3
  <1> HIDE DEF N
  <1>3. n \in N
    BY <1>1, <1>2, EveryNumber
  <1> QED
    BY <1>3 DEF N

LEMMA TotalOfAppend ==
    ASSUME NEW s \in Seq(Nat), NEW x \in Nat
    PROVE  Total(Append(s, x)) = Total(s) + x
  <1> DEFINE n == Len(s)
             t == Append(s, x)
  <1>1. n \in Nat /\ t \in Seq(Nat) /\ Len(t) = n + 1 /\ t[n + 1] = x /\ \A k \in 1..n : s[k] = t[k]
    OBVIOUS
  <1> HIDE DEF t
  <1>2. PICK v : Sums(v, s) /\ Total(s) = v[Len(s)]
    BY TotalSteps DEF Partial
  <1>3. PICK w : Sums(w, t) /\ Total(t) = w[Len(t)]
    BY <1>1, TotalSteps DEF Partial
  <1>4. v[n] = w[n]
    <2>1. n \in Nat /\ t \in Seq(Nat) /\ n <= Len(s) /\ n <= Len(t) /\ \A k \in 1..n : s[k] = t[k]
      BY <1>1
    <2>2. Sums(v, s) /\ Sums(w, t)
      BY <1>2, <1>3
    <2> HIDE DEF n
    <2> QED
      BY <2>1, <2>2, TotalsAgree
  <1>5. n + 1 \in 1..Len(t) /\ (n + 1) - 1 = n
    BY <1>1
  <1>6. Total(t) = w[n] + x
    BY <1>1, <1>3, <1>5 DEF Sums
  <1> QED
    BY <1>2, <1>4, <1>6 DEF t

LEMMA TotalOfNone == Total(<<>>) = 0
  <1>1. <<>> \in Seq(Nat) /\ Len(<<>>) = 0
    OBVIOUS
  <1>2. PICK v : v[0] = 0 /\ Total(<<>>) = v[Len(<<>>)]
    BY <1>1, TotalSteps DEF Partial, Sums
  <1> QED
    BY <1>1, <1>2

\* Packing, step by step: v[k] is what is chosen of the k best hits.
Packs(v, g, s, n) ==
    /\ v \in [0..n -> Seq(Range(s))]
    /\ v[0] = <<>> /\ Chosen(g) = v[n]
    /\ \A k \in 1..n : v[k] = IF Fits(g, v[k - 1], s[k]) THEN Append(v[k - 1], s[k]) ELSE v[k - 1]

LEMMA ChosenSteps ==
    ASSUME NEW given, NEW n \in Nat, NEW s, s = ByScore(given, Visible(given)), DOMAIN s = 1..n
    PROVE  \E v : Packs(v, given, s, n)
  <1> DEFINE V == Seq(Range(s))
             step(w, h) == IF Fits(given, w, h) THEN Append(w, h) ELSE w
             F == [x \in (1..n) \X V |-> step(x[2], s[x[1]])]
             isFold(g) == g = [T \in SUBSET (1..n) |-> IF T = {} THEN <<>> ELSE step(g[T \ {Max(T)}], s[Max(T)])]
  <1>1. <<>> \in V /\ \A k \in 1..n, w \in V : step(w, s[k]) \in V
    <2>1. \A k \in 1..n : s[k] \in Range(s)
      BY DEF Range
    <2> DEFINE E == Range(s)
    <2> HIDE DEF E
    <2>2. <<>> \in Seq(E) /\ \A w \in Seq(E), e \in E : Append(w, e) \in Seq(E)
      OBVIOUS
    <2> QED
      BY <2>1, <2>2 DEF E
  <1>2. Chosen(given) = (CHOOSE g : isFold(g))[1..n]
    BY DEF Chosen, FoldLeft, MapThenFoldSet
  <1> HIDE DEF V, step
  <1>3. \A k \in 1..n, w \in V : F[<<k, w>>] = step(w, s[k]) /\ F[<<k, w>>] \in V
    BY <1>1
  <1> HIDE DEF F
  <1>4. \E g : isFold(g)
    <2>1. PICK g : IsFoldTo(g, n, V, <<>>, F)
      BY <1>1, <1>3, FoldsExist DEF IsStep
    <2>2. \A T \in SUBSET (1..n) : g[T] = IF T = {} THEN <<>> ELSE step(g[T \ {Max(T)}], s[Max(T)])
      BY <1>3, <2>1 DEF IsFoldTo
    <2>3. isFold(g)
      BY <2>1, <2>2 DEF IsFoldTo
    <2> QED
      BY <2>3
  <1> DEFINE g == CHOOSE h : isFold(h)
  <1>5. isFold(g)
    BY <1>4
  <1> HIDE DEF g
  <1>6. g[{}] = <<>> /\ \A T \in SUBSET (1..n) : T # {} => g[T] = step(g[T \ {Max(T)}], s[Max(T)])
    BY <1>5
  <1> HIDE DEF isFold
  <1>7. Unfolds(g, n, V, <<>>, F) /\ IsStep(F, n, V)
    BY <1>1, <1>3, <1>6, MaxIsIn DEF Unfolds, IsStep
  <1>8. PICK v : Goes(v, g, n, V, <<>>, F)
    BY <1>1, <1>7, FoldSteps
  <1>9. \A k \in 1..n : v[k] = step(v[k - 1], s[k])
    <2>1. \A k \in 1..n : k - 1 \in 0..n
      OBVIOUS
    <2> QED
      BY <1>3, <1>8, <2>1 DEF Goes
  <1>10. v \in [0..n -> V] /\ v[0] = <<>> /\ Chosen(given) = v[n]
    BY <1>2, <1>8 DEF g, Goes
  <1> QED
    BY <1>9, <1>10 DEF step, V, Packs

\* The recent messages are taken one by one, newest first.
RecentStep(kept, chars, budget) ==
    LET left == budget - kept.total
        shown == Tokens(Clamped(chars, AtLeast(0, left)))
    IN IF kept.over \/ left <= 0 \/ shown = 0 THEN [kept EXCEPT !.over = TRUE]
       ELSE [total |-> kept.total + shown, count |-> kept.count + 1, over |-> Tokens(chars) > left]

\* As long as the budget lasts.
RecentState(budget) == [total : 0..budget, count : Nat, over : BOOLEAN]

LEMMA ClampFits ==
    ASSUME NEW chars \in Nat, NEW budget \in Nat
    PROVE  /\ Tokens(chars) \in Nat /\ Clamped(chars, budget) \in Nat
           /\ Tokens(Clamped(chars, budget)) \in 0..budget
           /\ chars > 0 /\ budget > 0 => Tokens(Clamped(chars, budget)) > 0
           /\ Tokens(chars) <= budget /\ budget > 0 => Clamped(chars, budget) = chars
  BY DEF Tokens, Clamped, MarkerChars, AtMost

LEMMA RecentStepIs ==
    ASSUME NEW budget \in Nat, NEW kept \in RecentState(budget), NEW chars \in Nat
    PROVE  RecentStep(kept, chars, budget) \in RecentState(budget)
  <1> DEFINE left == budget - kept.total
             shown == Tokens(Clamped(chars, AtLeast(0, left)))
  <1>1. kept.total \in 0..budget /\ kept.count \in Nat /\ kept.over \in BOOLEAN
    BY DEF RecentState
  <1>2. left \in Nat /\ AtLeast(0, left) = left
    BY <1>1 DEF AtLeast
  <1> HIDE DEF left
  <1>3. shown \in 0..left /\ Tokens(chars) \in Nat
    BY <1>2, ClampFits
  <1>4. kept.total + left = budget
    BY <1>1 DEF left
  <1> HIDE DEF shown
  <1>5. kept.total + shown \in 0..budget
    BY <1>1, <1>2, <1>3, <1>4
  <1>6. [kept EXCEPT !.over = TRUE] \in RecentState(budget)
    BY DEF RecentState
  <1>7. [total |-> kept.total + shown, count |-> kept.count + 1, over |-> Tokens(chars) > left]
        \in RecentState(budget)
    BY <1>1, <1>5 DEF RecentState
  <1> QED
    BY <1>6, <1>7 DEF RecentStep, left, shown

LEMMA RecentFits ==
    ASSUME NEW recent \in Seq(Nat), NEW budget \in Nat
    PROVE  RecentKept(recent, budget) \in RecentState(budget)
  <1> DEFINE V == RecentState(budget)
             n == Len(recent)
             s == Reverse(recent)
             none == [total |-> 0, count |-> 0, over |-> FALSE]
             step(w, h) == RecentStep(w, h, budget)
             F == [x \in (1..n) \X V |-> step(x[2], s[x[1]])]
             isFold(g) == g = [T \in SUBSET (1..n) |-> IF T = {} THEN none ELSE step(g[T \ {Max(T)}], s[Max(T)])]
  <1>0. n \in Nat /\ DOMAIN s = 1..n /\ \A k \in 1..n : s[k] \in Nat
    <2>1. n \in Nat /\ s = [i \in 1..n |-> recent[(n - i) + 1]]
      BY DEF Reverse
    <2>2. \A i \in 1..n : (n - i) + 1 \in 1..n
      OBVIOUS
    <2>3. \A i \in 1..n : recent[i] \in Nat
      OBVIOUS
    <2> HIDE DEF n, s
    <2> QED
      BY <2>1, <2>2, <2>3
  <1>1. none \in V /\ \A k \in 1..n, w \in V : step(w, s[k]) \in V
    <2>1. none \in V
      BY DEF RecentState
    <2> HIDE DEF n, s
    <2> QED
      BY <1>0, <2>1, RecentStepIs
  <1>2. RecentKept(recent, budget) = (CHOOSE g : isFold(g))[1..n]
    BY <1>0 DEF RecentKept, FoldLeft, MapThenFoldSet, RecentStep
  <1> HIDE DEF V, step, n, s, none
  <1>3. \A k \in 1..n, w \in V : F[<<k, w>>] = step(w, s[k]) /\ F[<<k, w>>] \in V
    BY <1>1
  <1> HIDE DEF F
  <1>4. \E g : isFold(g)
    <2>1. PICK g : IsFoldTo(g, n, V, none, F)
      BY <1>0, <1>1, <1>3, FoldsExist DEF IsStep
    <2>2. \A T \in SUBSET (1..n) : g[T] = IF T = {} THEN none ELSE step(g[T \ {Max(T)}], s[Max(T)])
      BY <1>3, <2>1 DEF IsFoldTo
    <2>3. isFold(g)
      BY <2>1, <2>2 DEF IsFoldTo
    <2> QED
      BY <2>3
  <1> DEFINE g == CHOOSE h : isFold(h)
  <1>5. isFold(g)
    BY <1>4
  <1> HIDE DEF g
  <1>6. g[{}] = none /\ \A T \in SUBSET (1..n) : T # {} => g[T] = step(g[T \ {Max(T)}], s[Max(T)])
    BY <1>5
  <1> HIDE DEF isFold
  <1>7. Unfolds(g, n, V, none, F) /\ IsStep(F, n, V)
    BY <1>0, <1>1, <1>3, <1>6, MaxIsIn DEF Unfolds, IsStep
  <1>8. PICK v : Goes(v, g, n, V, none, F)
    BY <1>0, <1>1, <1>7, FoldSteps
  <1>9. g[1..n] \in V
    BY <1>0, <1>8 DEF Goes
  <1> QED
    BY <1>2, <1>9 DEF g, V

-----------------------------------------------------------------------------
(* What the policy makes of a memory.                                      *)

LEMMA WeightsAreInts == \A c \in DOMAIN Weight : Weight[c] \in Int
  BY DEF Weight

LEMMA SumIsInt ==
    ASSUME NEW S \in SUBSET DOMAIN Weight
    PROVE  MapThenSumSet(LAMBDA c : Weight[c], S) \in Int
  <1> DEFINE c == [T \in SUBSET S |-> CHOOSE x \in T : TRUE]
             F == [x \in S \X Int |-> Weight[x[1]] + x[2]]
             isFold(g) == g = [T \in SUBSET S |-> IF T = {} THEN 0
                                 ELSE Weight[CHOOSE x \in T : TRUE] + g[T \ {CHOOSE x \in T : TRUE}]]
  <1>0. \A x \in S : Weight[x] \in Int
    BY WeightsAreInts
  <1>1. IsFiniteSet(S)
    <2>1. DOMAIN Weight = {"named", "instruction", "legal", "architecture", "poor"}
      BY DEF Weight
    <2>2. IsFiniteSet({"named", "instruction", "legal", "architecture", "poor"})
      <3>1. IsFiniteSet({} \cup {"named"})
        BY FS_EmptySet, FS_AddElement
      <3>2. IsFiniteSet(({} \cup {"named"}) \cup {"instruction"})
        BY <3>1, FS_AddElement
      <3>3. IsFiniteSet((({} \cup {"named"}) \cup {"instruction"}) \cup {"legal"})
        BY <3>2, FS_AddElement
      <3>4. IsFiniteSet(((({} \cup {"named"}) \cup {"instruction"}) \cup {"legal"}) \cup {"architecture"})
        BY <3>3, FS_AddElement
      <3>5. IsFiniteSet((((({} \cup {"named"}) \cup {"instruction"}) \cup {"legal"}) \cup {"architecture"}) \cup {"poor"})
        BY <3>4, FS_AddElement
      <3>6. (((({} \cup {"named"}) \cup {"instruction"}) \cup {"legal"}) \cup {"architecture"}) \cup {"poor"}
            = {"named", "instruction", "legal", "architecture", "poor"}
        OBVIOUS
      <3> QED
        BY <3>5, <3>6, Zenon
    <2> QED
      BY <2>1, <2>2, FS_Subset
  <1>2. MapThenSumSet(LAMBDA k : Weight[k], S) = (CHOOSE g : isFold(g))[S]
    BY DEF MapThenSumSet, MapThenFoldSet
  <1>3. \A T \in SUBSET S : T # {} => c[T] = (CHOOSE x \in T : TRUE) /\ c[T] \in T
    OBVIOUS
  <1>4. \A x \in S, v \in Int : F[<<x, v>>] = Weight[x] + v /\ F[<<x, v>>] \in Int
    BY <1>0
  <1> HIDE DEF c, F
  <1>5. MayFold(S, Int, 0, c, F)
    BY <1>1, <1>3, <1>4 DEF MayFold
  <1>6. \E g : isFold(g)
    <2>1. PICK g : IsFold(g, S, Int, 0, c, F)
      BY <1>5, FoldExists
    <2>2. ASSUME NEW T \in SUBSET S, T # {}
          PROVE  g[T] = Weight[CHOOSE x \in T : TRUE] + g[T \ {CHOOSE x \in T : TRUE}]
      <3>1. g[T] = F[<<c[T], g[T \ {c[T]}]>>] /\ c[T] \in S /\ g[T \ {c[T]}] \in Int
        BY <1>3, <2>1, <2>2 DEF IsFold
      <3> QED
        BY <1>3, <1>4, <2>2, <3>1
    <2>3. g = [T \in SUBSET S |-> g[T]] /\ g[{}] = 0
      BY <2>1 DEF IsFold
    <2>4. isFold(g)
      <3>1. \A T \in SUBSET S : g[T] = IF T = {} THEN 0
                                 ELSE Weight[CHOOSE x \in T : TRUE] + g[T \ {CHOOSE x \in T : TRUE}]
        BY <2>2, <2>3
      <3> QED
        BY <2>3, <3>1
    <2> QED
      BY <2>4
  <1> DEFINE g == CHOOSE h : isFold(h)
  <1>7. isFold(g)
    BY <1>6
  <1> HIDE DEF g
  <1>8. \A T \in SUBSET S : g[T] = IF T = {} THEN 0 
            ELSE Weight[CHOOSE x \in T : TRUE] + g[T \ {CHOOSE x \in T : TRUE}]
    BY <1>7
  <1> HIDE DEF isFold
  <1> DEFINE N == {k \in Nat : \A T \in SUBSET S : Cardinality(T) = k => g[T] \in Int}
  <1>9. \A T \in SUBSET S : IsFiniteSet(T) /\ Cardinality(T) \in Nat
    BY <1>1, FS_Subset, FS_CardinalityType
  <1>10. \A T \in SUBSET S : T # {} =>
           /\ c[T] \in T /\ c[T] \in S /\ T \ {c[T]} \in SUBSET S
           /\ Cardinality(T \ {c[T]}) = Cardinality(T) - 1
    BY <1>3, <1>9, FS_RemoveElement
  <1>11. \A T \in SUBSET S : T # {} => g[T] = Weight[c[T]] + g[T \ {c[T]}]
    BY <1>3, <1>8
  <1>12. 0 \in N
    <2> SUFFICES ASSUME NEW T \in SUBSET S, Cardinality(T) = 0 PROVE g[T] \in Int
      OBVIOUS
    <2>1. T = {}
      BY <1>9, FS_EmptySet
    <2> QED
      BY <1>8, <2>1
  <1>13. ASSUME NEW k \in Nat, k \in N PROVE k + 1 \in N
    <2> SUFFICES ASSUME NEW T \in SUBSET S, Cardinality(T) = k + 1 PROVE g[T] \in Int
      OBVIOUS
    <2>1. T # {}
      BY <1>9, FS_EmptySet
    <2>2. Cardinality(T \ {c[T]}) = k /\ T \ {c[T]} \in SUBSET S /\ c[T] \in S
      BY <1>10, <2>1
    <2>3. g[T \ {c[T]}] \in Int
      BY <1>13, <2>2
    <2>4. Weight[c[T]] \in Int /\ g[T] = Weight[c[T]] + g[T \ {c[T]}]
      BY <1>0, <1>11, <2>1, <2>2
    <2> QED
      BY <2>3, <2>4
  <1> HIDE DEF N
  <1>14. Cardinality(S) \in N
    BY <1>9, <1>12, <1>13, EveryNumber
  <1>15. g[S] \in Int
    BY <1>14 DEF N
  <1> QED
    BY <1>2, <1>15 DEF g

LEMMA Ranges ==
    ASSUME NEW m \in Memories
    PROVE  Risk(m) \in 0..100 /\ Strength(m) \in 0..100 /\ Importance(m) \in 0..100
  <1> DEFINE sum == MapThenSumSet(LAMBDA c : Weight[c], Cues[m])
  <1>1. sum \in Int
    BY MemoryTexts, SumIsInt
  <1>2. Risk(m) = Unit(100, 20 + sum + (IF Source[m] = "external" THEN 20 ELSE 0))
    BY DEF Risk
  <1> HIDE DEF sum
  <1>3. Risk(m) \in 0..100
    BY <1>1, <1>2 DEF Unit, AtLeast, AtMost
  <1>4. Strength(m) \in 0..100 /\ Importance(m) \in 0..100
    BY <1>3 DEF Strength, Importance, AtLeast
  <1> QED
    BY <1>3, <1>4

\* The fields of a hit.
LEMMA HitFields ==
    ASSUME NEW h, IsHit(h)
    PROVE  /\ h.chars \in Nat /\ h.direct \subseteq h.lineage /\ h.broad \in BOOLEAN
           /\ h.risk \in Nat /\ h.strength \in Nat /\ h.must \in BOOLEAN
           /\ h.trust \in Nat /\ h.score \in 0..1000
  BY DEF IsHit

LEMMA IngestedIsHit ==
    ASSUME NEW m \in Memories
    PROVE  IsHit(Ingested(m)) /\ Ingested(m).id = m /\ m \in Ingested(m).direct
  <1>1. Risk(m) \in 0..100 /\ Strength(m) \in 0..100 /\ Chars[m] \in Nat /\ PolicyPins(m) \in BOOLEAN
    BY Ranges, MemoryTexts DEF PolicyPins
  <1> QED
    BY <1>1 DEF IsHit, Ingested

LEMMA RecoveredIsHit ==
    ASSUME NEW given, NEW m \in Memories
    PROVE  /\ IsHit(Recovered(given, m)) /\ Recovered(given, m).id = m /\ m \in Recovered(given, m).direct
           /\ Recovered(given, m).lineage = {m}
           /\ m \in given.pins => Recovered(given, m).must
           /\ Recovered(given, m).class \in {"PINNED_EXACT", "HIGH_RISK_RAW"} /\ ~Recovered(given, m).broad
  <1> DEFINE pins == m \in given.pins \/ PolicyPins(m)
             score == IF pins THEN 1000 ELSE IF m \in given.failed THEN 880 ELSE AtLeast(650, 10 * Importance(m))
             strength == IF m \notin given.pins THEN 0 ELSE IF PolicyPins(m) THEN Strength(m) ELSE HandStrength
             must == m \in given.pins
  <1>1. Risk(m) \in 0..100 /\ Strength(m) \in 0..100 /\ Importance(m) \in 0..100 /\ Chars[m] \in Nat
    BY Ranges, MemoryTexts
  <1>2. score \in 0..1000 /\ strength \in 0..100
    BY <1>1 DEF AtLeast, HandStrength
  <1>3. Recovered(given, m) =
          [id |-> m, chars |-> Chars[m], direct |-> {m}, lineage |-> {m}, broad |-> FALSE,
           class |-> IF pins THEN "PINNED_EXACT" ELSE "HIGH_RISK_RAW",
           risk |-> Risk(m), trust |-> 100, must |-> must, strength |-> strength, score |-> score]
    BY DEF Recovered
  <1>4. must \in BOOLEAN /\ (m \in given.pins => must)
    OBVIOUS
  <1> HIDE DEF score, strength, must
  <1> QED
    BY <1>1, <1>2, <1>3, <1>4 DEF IsHit

-----------------------------------------------------------------------------
(* Sequences of hits.                                                      *)

IsHits(s) == s \in Seq(Range(s)) /\ \A h \in Range(s) : IsHit(h)

LEMMA SeqShape ==
    ASSUME NEW n \in Nat, NEW s, s = [i \in 1..n |-> s[i]]
    PROVE  /\ s \in Seq(Range(s)) /\ Len(s) = n /\ DOMAIN s = 1..n
           /\ \A i \in 1..n : s[i] \in Range(s)
           /\ \A h \in Range(s) : \E i \in 1..n : s[i] = h
  <1>1. DOMAIN s = 1..n
    BY Zenon
  <1>2. /\ \A i \in 1..n : s[i] \in Range(s)
        /\ \A h \in Range(s) : \E i \in 1..n : s[i] = h
    BY <1>1 DEF Range
  <1> DEFINE E == Range(s)
  <1> HIDE DEF E
  <1>3. s \in [1..n -> E]
    BY <1>2 DEF E
  <1>4. s \in Seq(E) /\ Len(s) = n
    BY <1>3
  <1> QED
    BY <1>1, <1>2, <1>4 DEF E

LEMMA HitsShape ==
    ASSUME NEW s, IsHits(s)
    PROVE  /\ Len(s) \in Nat /\ DOMAIN s = 1..Len(s) /\ s = [i \in 1..Len(s) |-> s[i]]
           /\ \A i \in 1..Len(s) : s[i] \in Range(s) /\ IsHit(s[i])
           /\ \A h \in Range(s) : IsHit(h) /\ \E i \in 1..Len(s) : s[i] = h
  <1> DEFINE E == Range(s)
  <1>1. s \in Seq(E)
    BY DEF IsHits
  <1> HIDE DEF E
  <1>2. Len(s) \in Nat /\ DOMAIN s = 1..Len(s) /\ s = [i \in 1..Len(s) |-> s[i]]
    BY <1>1
  <1>3. /\ \A i \in 1..Len(s) : s[i] \in Range(s)
        /\ \A h \in Range(s) : \E i \in 1..Len(s) : s[i] = h
    BY <1>2 DEF Range
  <1> QED
    BY <1>2, <1>3 DEF IsHits

\* t is s at the m places of p.
Through(t, s, p, m) == t = [k \in 1..m |-> s[p[k]]]

Shows(t, s, S) == \A h : h \in Range(t) <=> \E i \in S : h = s[i]

LEMMA AtFacts ==
    ASSUME NEW s, NEW S, NEW m \in Nat, NEW p, Onto(p, m, S)
    PROVE  Through(At(s, p), s, p, m) /\ Shows(At(s, p), s, S)
  <1>1. At(s, p) = [k \in 1..m |-> s[p[k]]]
    BY DEF At, Onto
  <1> QED
    BY <1>1 DEF Range, Onto, Through, Shows

LEMMA SetInSeq ==
    ASSUME NEW S, IsFiniteSet(S)
    PROVE  /\ Cardinality(S) \in Nat
           /\ SetToSeq(S) \in [1..Cardinality(S) -> S]
           /\ \A x \in S : \E i \in 1..Cardinality(S) : SetToSeq(S)[i] = x
  <1> DEFINE n == Cardinality(S)
  <1>1. n \in Nat /\ ExistsBijection(1..n, S)
    BY FS_CardinalityType
  <1>2. IsFiniteSet(1..n) /\ Cardinality(1..n) = n
    <2>1. 1 \in Int /\ n \in Int
      BY <1>1
    <2> HIDE DEF n
    <2> QED
      BY <1>1, <2>1, FS_Interval
  <1> HIDE DEF n
  <1>3. \E f \in [1..n -> S] : IsInjective(f)
    BY <1>1 DEF ExistsBijection, Bijection, Injection, IsInjective
  <1>4. SetToSeq(S) \in [1..n -> S] /\ IsInjective(SetToSeq(S))
    BY <1>3 DEF SetToSeq, n
  <1> DEFINE f == SetToSeq(S)
  <1> HIDE DEF f
  <1>5. f \in Injection(1..n, S)
    BY <1>4 DEF Injection, IsInjective, f
  <1>6. f \in Surjection(1..n, S)
    <2>1. Cardinality(1..n) = Cardinality(S) <=> f \in Surjection(1..n, S)
      BY <1>2, <1>5, FS_Injection
    <2> QED
      BY <1>2, <2>1 DEF n
  <1>7. \A x \in S : \E i \in 1..n : f[i] = x
    BY <1>6 DEF Surjection
  <1> QED
    BY <1>1, <1>4, <1>7 DEF f, n

LEMMA SelectFacts ==
    ASSUME NEW n \in Nat, NEW s, DOMAIN s = 1..n, NEW S \in SUBSET (1..n), NEW p, p = Line(S),
           \A i \in S : IsHit(s[i])
    PROVE  /\ IsHits(At(s, p)) /\ Cardinality(S) \in Nat
           /\ Through(At(s, p), s, p, Cardinality(S)) /\ Shows(At(s, p), s, S)
  <1>1. /\ Cardinality(S) \in Nat
        /\ Onto(p, Cardinality(S), S)
    BY InLine
  <1>2. Through(At(s, p), s, p, Cardinality(S)) /\ Shows(At(s, p), s, S)
    BY <1>1, AtFacts
  <1>3. At(s, p) \in Seq(Range(At(s, p)))
    <2> DEFINE t == At(s, p)
    <2>1. t = [k \in 1..Cardinality(S) |-> t[k]]
      BY <1>2 DEF Through
    <2> HIDE DEF t
    <2>2. t \in Seq(Range(t))
      BY <1>1, <2>1, SeqShape
    <2> QED
      BY <2>2 DEF t
  <1>4. \A h \in Range(At(s, p)) : IsHit(h)
    BY <1>2 DEF Shows
  <1> QED
    BY <1>1, <1>2, <1>3, <1>4 DEF IsHits

-----------------------------------------------------------------------------
(* What a turn has read, and what the prompt may show of it.               *)

\* A hit of a memory names that memory.
Reading(g) ==
    /\ g.user \in Nat /\ g.recent \in Seq(Nat)
    /\ IsHits(g.hits)
    /\ \A h \in Range(g.hits) : h.id \in Memories => h.id \in h.lineage
    /\ g.pins \subseteq Memories /\ g.got \subseteq Memories
    /\ IsFiniteSet(g.got) /\ IsFiniteSet(g.traces)

LEMMA ConcatFacts ==
    ASSUME NEW E, NEW s \in Seq(E), NEW t \in Seq(E)
    PROVE  /\ s \o t \in Seq(E) /\ Len(s \o t) = Len(s) + Len(t)
           /\ DOMAIN (s \o t) = 1..Len(s) + Len(t)
           /\ \A i \in 1..Len(s) : (s \o t)[i] = s[i]
           /\ \A i \in 1..Len(s) + Len(t) : i > Len(s) => (s \o t)[i] = t[i - Len(s)]
  OBVIOUS

LEMMA ConcatHits ==
    ASSUME NEW s, NEW t, IsHits(s), IsHits(t)
    PROVE  IsHits(s \o t) /\ Range(s \o t) = Range(s) \cup Range(t)
  <1> DEFINE m == Len(s)
             n == Len(t)
             E == Range(s) \cup Range(t)
             u == s \o t
  <1>1. /\ m \in Nat /\ n \in Nat /\ s = [i \in 1..m |-> s[i]] /\ t = [i \in 1..n |-> t[i]]
        /\ \A i \in 1..m : s[i] \in E
        /\ \A i \in 1..n : t[i] \in E
        /\ \A h \in E : IsHit(h) /\ \/ \E i \in 1..m : s[i] = h
                                    \/ \E i \in 1..n : t[i] = h
    BY HitsShape
  <1> HIDE DEF m, n, E
  <1>2. s \in Seq(E) /\ t \in Seq(E) /\ Len(s) = m /\ Len(t) = n
    <2>1. s \in [1..m -> E] /\ t \in [1..n -> E]
      BY <1>1
    <2> QED
      BY <1>1, <2>1
  <1>3. /\ u \in Seq(E) /\ Len(u) = m + n /\ DOMAIN u = 1..m + n
        /\ \A i \in 1..m : u[i] = s[i]
        /\ \A i \in 1..m + n : i > m => u[i] = t[i - m]
    BY <1>2, ConcatFacts
  <1> HIDE DEF u
  <1>4. ASSUME NEW h \in E PROVE h \in Range(u)
    <2>1. CASE \E i \in 1..m : s[i] = h
      <3>1. PICK i \in 1..m : s[i] = h
        BY <2>1
      <3>2. i \in 1..m + n /\ u[i] = h
        BY <1>1, <1>3, <3>1
      <3> QED
        BY <1>3, <3>2 DEF Range
    <2>2. CASE \E i \in 1..n : t[i] = h
      <3>1. PICK i \in 1..n : t[i] = h
        BY <2>2
      <3>2. i + m \in 1..m + n /\ i + m > m /\ (i + m) - m = i
        BY <1>1
      <3>3. u[i + m] = h
        BY <1>3, <3>1, <3>2
      <3> QED
        BY <1>3, <3>2, <3>3 DEF Range
    <2> QED
      BY <1>1, <2>1, <2>2
  <1>5. ASSUME NEW i \in 1..m + n PROVE u[i] \in E
    <2>1. CASE i > m
      <3>1. i - m \in 1..n
        BY <1>1, <2>1
      <3> QED
        BY <1>1, <1>3, <2>1, <3>1
    <2>2. CASE ~(i > m)
      <3>1. i \in 1..m
        BY <1>1, <2>2
      <3> QED
        BY <1>1, <1>3, <3>1
    <2> QED
      BY <2>1, <2>2
  <1>6. Range(u) = E
    BY <1>3, <1>4, <1>5 DEF Range
  <1>7. IsHits(u)
    BY <1>1, <1>3, <1>6 DEF IsHits
  <1> QED
    BY <1>6, <1>7 DEF u, E

RecoveredIn(g, S) == [i \in DOMAIN SetToSeq(S) |-> Recovered(g, SetToSeq(S)[i])]

LEMMA RecoveredHits ==
    ASSUME NEW g, NEW S \in SUBSET Memories, IsFiniteSet(S)
    PROVE  /\ IsHits(RecoveredIn(g, S))
           /\ Range(RecoveredIn(g, S)) = {Recovered(g, m) : m \in S}
  <1> DEFINE f == SetToSeq(S)
             n == Cardinality(S)
             t == RecoveredIn(g, S)
  <1>1. n \in Nat /\ f \in [1..n -> S] /\ \A x \in S : \E i \in 1..n : f[i] = x
    BY SetInSeq
  <1> HIDE DEF n
  <1>2. t = [i \in 1..n |-> Recovered(g, f[i])]
    BY <1>1 DEF RecoveredIn
  <1> HIDE DEF f, t
  <1>3. t = [i \in 1..n |-> t[i]] /\ \A i \in 1..n : t[i] = Recovered(g, f[i])
    BY <1>2
  <1>4. /\ t \in Seq(Range(t)) /\ DOMAIN t = 1..n
    BY <1>1, <1>3, SeqShape
  <1>5. Range(t) = {Recovered(g, m) : m \in S}
    BY <1>1, <1>3, <1>4 DEF Range
  <1>6. \A h \in Range(t) : IsHit(h)
    BY <1>5, RecoveredIsHit
  <1> QED
    BY <1>4, <1>5, <1>6 DEF IsHits, t

LEMMA AugmentedFacts ==
    ASSUME NEW g, Reading(g)
    PROVE  /\ IsHits(Augmented(g))
           /\ Range(Augmented(g)) =
                Range(g.hits) \cup {Recovered(g, m) : m \in g.got \ Represented(g.hits)}
  <1> DEFINE missing == g.got \ Represented(g.hits)
             a == g.hits
             b == RecoveredIn(g, missing \cap g.pins)
             c == RecoveredIn(g, missing \ g.pins)
  <1>1. /\ missing \cap g.pins \in SUBSET Memories /\ IsFiniteSet(missing \cap g.pins)
        /\ missing \ g.pins \in SUBSET Memories /\ IsFiniteSet(missing \ g.pins)
    BY FS_Subset DEF Reading
  <1>2. Augmented(g) = (a \o b) \o c
    BY DEF Augmented, RecoveredIn
  <1> HIDE DEF missing
  <1>3. /\ IsHits(b) /\ Range(b) = {Recovered(g, m) : m \in missing \cap g.pins}
        /\ IsHits(c) /\ Range(c) = {Recovered(g, m) : m \in missing \ g.pins}
    BY <1>1, RecoveredHits
  <1>4. IsHits(a)
    BY DEF Reading
  <1> HIDE DEF a, b, c
  <1>5. IsHits(a \o b) /\ Range(a \o b) = Range(a) \cup Range(b)
    BY <1>3, <1>4, ConcatHits
  <1> DEFINE d == a \o b
  <1> HIDE DEF d
  <1>6. IsHits(d \o c) /\ Range(d \o c) = Range(d) \cup Range(c)
    BY <1>3, <1>5, ConcatHits DEF d
  <1>7. {Recovered(g, m) : m \in missing \cap g.pins} \cup {Recovered(g, m) : m \in missing \ g.pins}
          = {Recovered(g, m) : m \in missing}
    OBVIOUS
  <1>8. Augmented(g) = d \o c
    BY <1>2 DEF d
  <1>9. Range(d \o c) = Range(a) \cup {Recovered(g, m) : m \in missing}
    BY <1>3, <1>5, <1>6, <1>7 DEF d
  <1> QED
    BY <1>6, <1>8, <1>9 DEF a, missing

LEMMA VisibleFacts ==
    ASSUME NEW g, Reading(g)
    PROVE  /\ IsHits(Visible(g))
           /\ \A h : h \in Range(Visible(g)) <=> h \in Range(Augmented(g)) /\ Traceable(h)
  <1> DEFINE s == Augmented(g)
             S == {i \in DOMAIN s : Traceable(s[i])}
             p == Line(S)
             n == Len(s)
  <1>1. Visible(g) = At(s, p)
    BY DEF Visible, Select, InOrder, Line
  <1>2. /\ n \in Nat /\ DOMAIN s = 1..n
        /\ \A i \in 1..n : s[i] \in Range(s) /\ IsHit(s[i])
        /\ \A h \in Range(s) : \E i \in 1..n : s[i] = h
    BY AugmentedFacts, HitsShape
  <1> HIDE DEF n, s
  <1>3. S \in SUBSET (1..n) /\ \A i \in S : IsHit(s[i])
    BY <1>2
  <1>4. \A i : i \in S <=> i \in 1..n /\ Traceable(s[i])
    BY <1>2
  <1> HIDE DEF S
  <1>5. p = Line(S)
    OBVIOUS
  <1> HIDE DEF p
  <1>6. IsHits(At(s, p)) /\ Shows(At(s, p), s, S)
    BY <1>2, <1>3, <1>5, SelectFacts
  <1>7. \A h : h \in Range(At(s, p)) <=> h \in Range(s) /\ Traceable(h)
    BY <1>2, <1>4, <1>6 DEF Shows
  <1> QED
    BY <1>1, <1>6, <1>7 DEF s

-----------------------------------------------------------------------------
(* Scores, and the order they put hits in.                                 *)

LEMMA ScoreRange ==
    ASSUME NEW g, IsFiniteSet(g.traces), NEW h, IsHit(h)
    PROVE  FinalScore(g, h) \in 0..1000
  <1> DEFINE shownBy == {t \in g.traces : h.id \in t.included \/ h.lineage \cap t.raws # {}}
  <1>1. PriorInclusions(g, h) \in Nat
    <2>1. IsFiniteSet(shownBy)
      BY FS_Subset
    <2> QED
      BY <2>1, FS_CardinalityType DEF PriorInclusions
  <1>2. h.score \in 0..1000 /\ h.risk \in Nat
    BY HitFields
  <1>3. Boost(g, h) \in Int
    <2>1. (6 * h.risk) \div 5 \in Int
      BY <1>2
    <2> QED
      BY <1>1, <1>2, <2>1 DEF Boost, AtMost
  <1> DEFINE sum == h.score + Boost(g, h)
  <1>4. sum \in Int
    <2>1. h.score \in Int
      BY <1>2
    <2> QED
      BY <1>3, <2>1
  <1>5. FinalScore(g, h) = IF IsProtected(g, h) THEN 1000 ELSE Unit(1000, sum)
    BY DEF FinalScore
  <1> HIDE DEF sum
  <1>6. Unit(1000, sum) \in 0..1000
    BY <1>4 DEF Unit, AtLeast, AtMost
  <1> QED
    BY <1>5, <1>6

\* The order of ByScore.
Ahead(g, s, i, j) ==
    \/ FinalScore(g, s[i]) > FinalScore(g, s[j])
    \/ FinalScore(g, s[i]) = FinalScore(g, s[j]) /\ i < j

AheadRanks(g, s, S) ==
    [k \in 1..Cardinality(S) |-> CHOOSE i \in S : Cardinality({j \in S : Ahead(g, s, j, i)}) = k - 1]

LEMMA ByScoreFacts ==
    ASSUME NEW g, IsFiniteSet(g.traces), NEW s, IsHits(s)
    PROVE  /\ IsHits(ByScore(g, s)) /\ Len(ByScore(g, s)) = Len(s)
           /\ Range(ByScore(g, s)) = Range(s)
           /\ \A k, l \in 1..Len(s) : k < l =>
                FinalScore(g, ByScore(g, s)[k]) >= FinalScore(g, ByScore(g, s)[l])
  <1> DEFINE n == Len(s)
             S == 1..n
             R == {x \in S \X S : Ahead(g, s, x[1], x[2])}
             p == RanksOf(R, S)
             b == ByScore(g, s)
  <1>1. /\ n \in Nat /\ DOMAIN s = 1..n
        /\ \A i \in 1..n : s[i] \in Range(s) /\ IsHit(s[i])
        /\ \A h \in Range(s) : IsHit(h) /\ \E i \in 1..n : s[i] = h
    BY HitsShape
  <1> HIDE DEF n
  <1>2. \A i \in S : FinalScore(g, s[i]) \in Int /\ i \in Int
    <2> SUFFICES ASSUME NEW i \in S PROVE FinalScore(g, s[i]) \in Int /\ i \in Int
      OBVIOUS
    <2>1. i \in Int /\ IsHit(s[i])
      BY <1>1
    <2>2. FinalScore(g, s[i]) \in 0..1000
      BY <2>1, ScoreRange
    <2>3. \A x \in 0..1000 : x \in Int
      OBVIOUS
    <2> QED
      BY <2>1, <2>2, <2>3
  <1>3. \A i, j \in S : <<i, j>> \in R <=> Ahead(g, s, i, j)
    <2> SUFFICES ASSUME NEW i \in S, NEW j \in S PROVE <<i, j>> \in R <=> Ahead(g, s, i, j)
      OBVIOUS
    <2>1. <<i, j>> \in S \X S /\ <<i, j>>[1] = i /\ <<i, j>>[2] = j
      OBVIOUS
    <2> QED
      BY <2>1
  <1> HIDE DEF R
  <1>4. IsFiniteSet(S) /\ Cardinality(S) = n
    <2>1. 1 \in Int /\ n \in Int
      BY <1>1
    <2> QED
      BY <1>1, <2>1, FS_Interval
  <1>5. IsOrder(R, S)
    <2>1. ASSUME NEW i \in S PROVE <<i, i>> \notin R
      <3>1. FinalScore(g, s[i]) \in Int /\ i \in Int
        BY <1>2
      <3>2. ~Ahead(g, s, i, i)
        BY <3>1 DEF Ahead
      <3> QED
        BY <1>3, <3>2
    <2>2. ASSUME NEW i \in S, NEW j \in S, NEW k \in S, <<i, j>> \in R, <<j, k>> \in R PROVE <<i, k>> \in R
      <3>1. Ahead(g, s, i, j) /\ Ahead(g, s, j, k)
        BY <1>3, <2>2
      <3>2. FinalScore(g, s[i]) \in Int /\ FinalScore(g, s[j]) \in Int /\ FinalScore(g, s[k]) \in Int
            /\ i \in Int /\ j \in Int /\ k \in Int
        BY <1>2
      <3>3. Ahead(g, s, i, k)
        BY <3>1, <3>2 DEF Ahead
      <3> QED
        BY <1>3, <3>3
    <2>3. ASSUME NEW i \in S, NEW j \in S, i # j PROVE <<i, j>> \in R \/ <<j, i>> \in R
      <3>2. FinalScore(g, s[i]) \in Int /\ FinalScore(g, s[j]) \in Int /\ i \in Int /\ j \in Int
        BY <1>2
      <3>3. Ahead(g, s, i, j) \/ Ahead(g, s, j, i)
        BY <2>3, <3>2 DEF Ahead
      <3> QED
        BY <1>3, <3>3
    <2> QED
      BY <2>1, <2>2, <2>3 DEF IsOrder
  <1>6. \A i \in S : {j \in S : Ahead(g, s, j, i)} = Before(R, S, i)
    <2> SUFFICES ASSUME NEW i \in S PROVE {j \in S : Ahead(g, s, j, i)} = {j \in S : <<j, i>> \in R}
      BY DEF Before
    <2> HIDE DEF S
    <2>1. \A j \in S : Ahead(g, s, j, i) <=> <<j, i>> \in R
      BY <1>3
    <2> QED
      BY <2>1, Zenon
  <1>7. b = At(s, p)
    <2>1. DOMAIN s = S
      BY <1>1
    <2> DEFINE q == AheadRanks(g, s, S)
    <2>2. b = At(s, q)
      BY <2>1 DEF ByScore, InOrder, Ahead, AheadRanks
    <2> HIDE DEF S
    <2>3. \A k \in 1..Cardinality(S) : (CHOOSE i \in S : Cardinality({j \in S : Ahead(g, s, j, i)}) = k - 1)
                                     = CHOOSE i \in S : Cardinality(Before(R, S, i)) = k - 1
      BY <1>6
    <2>4. q = [k \in 1..Cardinality(S) |-> q[k]]
      BY DEF AheadRanks
    <2>5. \A k \in 1..Cardinality(S) : q[k] = CHOOSE i \in S : Cardinality(Before(R, S, i)) = k - 1
      BY <2>3 DEF AheadRanks
    <2>6. q = RanksOf(R, S)
      BY <2>4, <2>5, Zenon DEF RanksOf
    <2> QED
      BY <2>2, <2>6
  <1> HIDE DEF S
  <1>8. p = RanksOf(R, S)
    OBVIOUS
  <1> HIDE DEF p, b
  <1>9. Onto(p, n, S) /\ \A k, l \in 1..n : k < l <=> <<p[k], p[l]>> \in R
    BY <1>4, <1>5, <1>8, OrderIsKept
  <1>10. Through(b, s, p, n) /\ Shows(b, s, S)
    BY <1>1, <1>7, <1>9, AtFacts
  <1>11. b = [k \in 1..n |-> b[k]] /\ \A k \in 1..n : b[k] = s[p[k]] /\ p[k] \in S
    BY <1>9, <1>10 DEF Through, Onto
  <1>12. b \in Seq(Range(b)) /\ Len(b) = n
    BY <1>1, <1>11, SeqShape
  <1>13. Range(b) = Range(s)
    BY <1>1, <1>10 DEF Shows, S
  <1>14. IsHits(b)
    BY <1>1, <1>12, <1>13 DEF IsHits
  <1>15. ASSUME NEW k \in 1..n, NEW l \in 1..n, k < l PROVE FinalScore(g, b[k]) >= FinalScore(g, b[l])
    <2>1. Ahead(g, s, p[k], p[l])
      BY <1>3, <1>9, <1>11, <1>15
    <2>2. FinalScore(g, s[p[k]]) \in Int /\ FinalScore(g, s[p[l]]) \in Int
      BY <1>2, <1>11
    <2> QED
      BY <1>11, <2>1, <2>2 DEF Ahead
  <1> QED
    BY <1>12, <1>13, <1>14, <1>15 DEF b, n

-----------------------------------------------------------------------------
(* The prompt fits.                                                        *)

LEMMA HitsAmong ==
    ASSUME NEW E, \A h \in E : IsHit(h), NEW w \in Seq(E)
    PROVE  IsHits(w) /\ Range(w) \subseteq E /\ Len(w) \in Nat
  <1> DEFINE n == Len(w)
  <1>1. n \in Nat /\ w = [i \in 1..n |-> w[i]] /\ \A i \in 1..n : w[i] \in E
    OBVIOUS
  <1> HIDE DEF n
  <1>2. w \in Seq(Range(w)) /\ \A h \in Range(w) : \E i \in 1..n : w[i] = h
    BY <1>1, SeqShape
  <1>3. Range(w) \subseteq E
    BY <1>1, <1>2
  <1> QED
    BY <1>1, <1>2, <1>3 DEF IsHits, n

LEMMA Constants ==
    /\ MaxMemory \in Nat /\ MaxRecent \in Nat /\ SystemChars \in Nat /\ HeaderChars \in Nat
    /\ MaxBlocks \in Nat /\ TopK \in Nat /\ Window \in Nat
    /\ MaxPrompt \in Nat /\ MaxPrompt > 0 /\ BlockSize \in Nat /\ BlockSize > 0
    /\ SafeTokens \in Nat /\ SafeTokens > 0
  BY PlanBounds

LEMMA WithMemoryIs ==
    ASSUME NEW c, IsHits(c)
    PROVE  WithMemory(c) \in Nat /\ WithMemory(c) >= 32
  <1> DEFINE t == [i \in DOMAIN c |-> HeaderChars + c[i].chars]
             n == Len(c)
  <1>1. /\ n \in Nat /\ DOMAIN c = 1..n /\ c = [i \in 1..n |-> c[i]]
        /\ \A i \in 1..n : IsHit(c[i])
    BY HitsShape
  <1>2. \A i \in 1..n : HeaderChars + c[i].chars \in Nat
    BY <1>1, Constants, HitFields
  <1>3. t \in [1..n -> Nat]
    BY <1>1, <1>2
  <1>4. c # <<>> => n - 1 \in Nat
    BY <1>1
  <1> HIDE DEF n
  <1>5. t \in Seq(Nat)
    <2> HIDE DEF t
    <2> QED
      BY <1>1, <1>3
  <1>6. Total(t) \in Nat
    BY <1>5, TotalIsNat
  <1>7. WithMemory(c) = SystemChars + 32 +
                          (IF c = <<>> THEN 44 ELSE Total(t) + 7 * (n - 1))
    BY DEF WithMemory, HeadingChars, NoMemoryChars, SeparatorChars, n
  <1> HIDE DEF t
  <1> QED
    BY <1>4, <1>6, <1>7, Constants

LEMMA BudgetIs ==
    ASSUME NEW g, g.user \in Nat
    PROVE  /\ SystemBudget(g) \in Nat /\ UserShare(g) \in 0..1 /\ SystemBudget(g) + UserShare(g) = MaxPrompt
           /\ g.user > 0 => UserShare(g) = 1
  BY Constants DEF SystemBudget, UserShare, AtLeast

LEMMA ChosenPacks ==
    ASSUME NEW g, Reading(g), NEW s, s = ByScore(g, Visible(g)), NEW n, n = Len(s)
    PROVE  /\ IsHits(s) /\ n \in Nat /\ DOMAIN s = 1..n /\ \A i \in 1..n : s[i] \in Range(s)
           /\ \A h \in Range(s) : IsHit(h) /\ \E i \in 1..n : s[i] = h
           /\ Range(s) = Range(Visible(g))
           /\ \E v : Packs(v, g, s, n)
  <1>1. IsHits(Visible(g)) /\ IsFiniteSet(g.traces)
    BY VisibleFacts DEF Reading
  <1>2. IsHits(s) /\ Range(s) = Range(Visible(g))
    BY <1>1, ByScoreFacts
  <1>3. /\ n \in Nat /\ DOMAIN s = 1..n /\ \A i \in 1..n : s[i] \in Range(s)
        /\ \A h \in Range(s) : IsHit(h) /\ \E i \in 1..n : s[i] = h
    BY <1>2, HitsShape
  <1>4. \E v : Packs(v, g, s, n)
    BY <1>3, ChosenSteps
  <1> QED
    BY <1>2, <1>3, <1>4

LEMMA ChosenFits ==
    ASSUME NEW g, Reading(g)
    PROVE  /\ Chosen(g) \in Seq(Range(Visible(g))) /\ IsHits(Chosen(g))
           /\ Chosen(g) # <<>> => Tokens(WithMemory(Chosen(g))) <= SystemBudget(g)
  <1> DEFINE s == ByScore(g, Visible(g))
             n == Len(s)
  <1>1. /\ n \in Nat /\ (\A h \in Range(s) : IsHit(h)) /\ Range(s) = Range(Visible(g))
        /\ \E v : Packs(v, g, s, n)
    BY ChosenPacks
  <1> HIDE DEF s, n
  <1>2. PICK v : Packs(v, g, s, n)
    BY <1>1
  <1> DEFINE N == {k \in Nat : k <= n /\ v[k] # <<>> => Tokens(WithMemory(v[k])) <= SystemBudget(g)}
  <1>3. 0 \in N
    BY <1>2 DEF Packs
  <1>4. ASSUME NEW k \in Nat, k \in N PROVE k + 1 \in N
    <2> SUFFICES ASSUME k + 1 <= n, v[k + 1] # <<>>
                 PROVE  Tokens(WithMemory(v[k + 1])) <= SystemBudget(g)
      OBVIOUS
    <2>1. k + 1 \in 1..n /\ (k + 1) - 1 = k /\ k <= n
      BY <1>1
    <2>2. v[k] # <<>> => Tokens(WithMemory(v[k])) <= SystemBudget(g)
      BY <1>4, <2>1
    <2>3. v[k + 1] = IF Fits(g, v[k], s[k + 1]) THEN Append(v[k], s[k + 1]) ELSE v[k]
      BY <1>2, <2>1 DEF Packs
    <2>4. CASE Fits(g, v[k], s[k + 1])
      BY <2>3, <2>4 DEF Fits
    <2>5. CASE ~Fits(g, v[k], s[k + 1])
      BY <2>2, <2>3, <2>5
    <2> QED
      BY <2>4, <2>5
  <1> HIDE DEF N
  <1>5. n \in N
    BY <1>1, <1>3, <1>4, EveryNumber
  <1>6. v[n] # <<>> => Tokens(WithMemory(v[n])) <= SystemBudget(g)
    BY <1>1, <1>5 DEF N
  <1>7. Chosen(g) = v[n] /\ v[n] \in Seq(Range(s))
    BY <1>1, <1>2 DEF Packs
  <1>8. IsHits(v[n])
    BY <1>1, <1>7, HitsAmong
  <1> QED
    BY <1>1, <1>6, <1>7, <1>8

LEMMA PackedFits ==
    ASSUME NEW g, Reading(g)
    PROVE  /\ Packed(g).estimate \in Nat /\ Packed(g).estimate <= MaxPrompt
           /\ g.user > 0 => Packed(g).user > 0
           /\ Packed(g).memories # {} => Packed(g).whole
  <1> DEFINE chosen == Chosen(g)
             whole == WithMemory(chosen)
             budget == SystemBudget(g)
             share == UserShare(g)
             system == Clamped(whole, budget)
             left == AtMost(MaxRecent, AtLeast(0, MaxPrompt - Tokens(system) - share))
             recent == RecentKept(g.recent, left)
             rest == AtLeast(0, MaxPrompt - Tokens(system) - recent.total)
             user == Clamped(g.user, rest)
  <1>0. Packed(g) = [memories |-> Ids(chosen), whole |-> system = whole,
                     system |-> Tokens(system), recent |-> recent, user |-> Tokens(user),
                     estimate |-> Tokens(system) + recent.total + Tokens(user)]
    BY DEF Packed
  <1>1. IsHits(chosen) /\ (chosen # <<>> => Tokens(whole) <= budget)
    BY ChosenFits
  <1>2. whole \in Nat /\ whole >= 32
    BY <1>1, WithMemoryIs
  <1>3. /\ budget \in Nat /\ share \in 0..1 /\ budget + share = MaxPrompt /\ (g.user > 0 => share = 1)
        /\ g.user \in Nat /\ g.recent \in Seq(Nat)
    BY BudgetIs DEF Reading
  <1>4. Ids(chosen) # {} => chosen # <<>>
    BY DEF Ids
  <1> HIDE DEF chosen, whole, budget, share
  <1>5. /\ Tokens(system) \in 0..budget /\ Tokens(whole) \in Nat
        /\ Tokens(whole) <= budget /\ budget > 0 => system = whole
    BY <1>2, <1>3, ClampFits
  <1>6. Tokens(whole) > 0
    BY <1>2 DEF Tokens
  <1>7. Ids(chosen) # {} => system = whole
    BY <1>1, <1>3, <1>4, <1>5, <1>6
  <1> HIDE DEF system
  <1>8. left \in Nat /\ left <= budget - Tokens(system)
    BY <1>3, <1>5, Constants DEF AtMost, AtLeast
  <1> HIDE DEF left
  <1>9. recent \in RecentState(left)
    BY <1>3, <1>8, RecentFits
  <1>10. recent.total \in 0..left
    BY <1>9 DEF RecentState
  <1> HIDE DEF recent
  <1>11. rest \in Nat /\ rest = MaxPrompt - Tokens(system) - recent.total /\ rest >= share
    BY <1>3, <1>5, <1>8, <1>10, Constants DEF AtLeast
  <1> HIDE DEF rest
  <1>12. Tokens(user) \in 0..rest /\ (g.user > 0 /\ rest > 0 => Tokens(user) > 0)
    BY <1>3, <1>11, ClampFits
  <1> HIDE DEF user
  <1>13. Tokens(system) + recent.total + Tokens(user) \in Nat
         /\ Tokens(system) + recent.total + Tokens(user) <= MaxPrompt
    <2> DEFINE a == Tokens(system)
               b == recent.total
               c == Tokens(user)
    <2>1. a \in Nat /\ b \in Nat
      BY <1>3, <1>5, <1>8, <1>10
    <2>2. rest \in Nat /\ rest = MaxPrompt - a - b /\ c \in 0..rest /\ MaxPrompt \in Nat
      BY <1>11, <1>12, Constants
    <2> HIDE DEF a, b, c
    <2>3. a + b + c \in Nat /\ a + b + c <= MaxPrompt
      BY <2>1, <2>2
    <2> QED
      BY <2>3 DEF a, b, c
  <1>14. g.user > 0 => Tokens(user) > 0
    BY <1>3, <1>11, <1>12
  <1>15. /\ Packed(g).estimate = Tokens(system) + recent.total + Tokens(user)
         /\ Packed(g).user = Tokens(user)
         /\ Packed(g).memories = Ids(chosen)
         /\ Packed(g).whole = (system = whole)
    BY <1>0
  <1> QED
    BY <1>7, <1>13, <1>14, <1>15

-----------------------------------------------------------------------------
(* A pin's hit is chosen, or the chosen of score 1 leave it no room.       *)

\* A pin that was read has a hit of score 1 that names it.
LEMMA PinHasHit ==
    ASSUME NEW g, Reading(g), NEW m \in g.pins \cap g.got
    PROVE  \E h \in Range(Visible(g)) : m \in h.direct \cup {h.id} /\ FinalScore(g, h) = 1000
  <1>0. m \in Memories
    BY DEF Reading
  <1>1. CASE m \in Represented(g.hits)
    <2>1. PICK i \in DOMAIN g.hits : m = g.hits[i].id \/ m \in g.hits[i].direct
      BY <1>1 DEF Represented, Ids
    <2> DEFINE h == g.hits[i]
    <2>2. h \in Range(g.hits)
      BY DEF Range
    <2> HIDE DEF h
    <2>3. IsHit(h) /\ (h.id \in Memories => h.id \in h.lineage)
      BY <2>2, HitsShape DEF Reading
    <2>4. m = h.id \/ m \in h.direct
      BY <2>1 DEF h
    <2>5. h.direct \subseteq h.lineage
      BY <2>3, HitFields
    <2>6. m \in h.lineage
      BY <1>0, <2>3, <2>4, <2>5
    <2>7. FinalScore(g, h) = 1000
      BY <2>6 DEF FinalScore, IsProtected
    <2>8. h \in Range(Visible(g))
      BY <2>2, <2>6, AugmentedFacts, VisibleFacts DEF Traceable
    <2> QED
      BY <2>4, <2>7, <2>8
  <1>2. CASE m \notin Represented(g.hits)
    <2> DEFINE h == Recovered(g, m)
    <2>1. h \in Range(Augmented(g))
      BY <1>2, AugmentedFacts
    <2>2. m \in h.direct /\ h.lineage = {m} /\ h.must
      BY <1>0, RecoveredIsHit
    <2> HIDE DEF h
    <2>3. FinalScore(g, h) = 1000
      BY <2>2 DEF FinalScore, IsProtected
    <2>4. h \in Range(Visible(g))
      BY <2>1, <2>2, VisibleFacts DEF Traceable
    <2> QED
      BY <2>2, <2>3, <2>4
  <1> QED
    BY <1>1, <1>2

TextChars(c) == Total([i \in DOMAIN c |-> HeaderChars + c[i].chars])

\* Costs of a sequence of hits, and of one hit more.
LEMMA Costs ==
    ASSUME NEW c, IsHits(c), NEW h, IsHit(h)
    PROVE  /\ Len(c) \in Nat /\ MemoryTokens(c) \in Nat /\ TextChars(c) \in Nat
           /\ IsHits(Append(c, h)) /\ Len(Append(c, h)) = Len(c) + 1
           /\ Range(Append(c, h)) = Range(c) \cup {h}
           /\ MemoryTokens(Append(c, h)) = MemoryTokens(c) + Tokens(h.chars)
           /\ TextChars(Append(c, h)) = TextChars(c) + HeaderChars + h.chars
           /\ WithMemory(Append(c, h)) =
                SystemChars + 32 + TextChars(c) + HeaderChars + h.chars + 7 * Len(c)
  <1> DEFINE n == Len(c)
             d == Append(c, h)
             E == Range(c) \cup {h}
             t == [i \in DOMAIN c |-> Tokens(c[i].chars)]
             u == [i \in DOMAIN c |-> HeaderChars + c[i].chars]
             t2 == [i \in DOMAIN d |-> Tokens(d[i].chars)]
             u2 == [i \in DOMAIN d |-> HeaderChars + d[i].chars]
  <1>1. /\ n \in Nat /\ DOMAIN c = 1..n /\ c = [i \in 1..n |-> c[i]]
        /\ \A i \in 1..n : c[i] \in Range(c) /\ IsHit(c[i])
        /\ \A x \in Range(c) : IsHit(x) /\ \E i \in 1..n : c[i] = x
    BY HitsShape
  <1> HIDE DEF n, E
  <1>2. c \in Seq(E) /\ Len(c) = n
    <2>1. c \in [1..n -> E]
      BY <1>1 DEF E
    <2> QED
      BY <1>1, <2>1
  <1>3. h \in E
    BY DEF E
  <1>4. /\ d \in Seq(E) /\ Len(d) = n + 1 /\ DOMAIN d = 1..n + 1 /\ d[n + 1] = h
        /\ \A i \in 1..n : d[i] = c[i]
    BY <1>2, <1>3
  <1> HIDE DEF d
  <1>5. (\A x \in E : IsHit(x))
    BY <1>1 DEF E
  <1>6. IsHits(d) /\ Range(d) \subseteq E
    BY <1>4, <1>5, HitsAmong
  <1>7. E \subseteq Range(d)
    <2>1. n + 1 \in DOMAIN d /\ \A i \in 1..n : i \in DOMAIN d
      BY <1>1, <1>4
    <2>2. h \in Range(d)
      BY <1>4, <2>1 DEF Range
    <2>3. \A x \in Range(c) : x \in Range(d)
      BY <1>1, <1>4, <2>1 DEF Range
    <2> QED
      BY <2>2, <2>3 DEF E
  <1>8. \A x : IsHit(x) => Tokens(x.chars) \in Nat /\ HeaderChars + x.chars \in Nat
    BY HitFields, Constants DEF Tokens
  <1>9. t \in Seq(Nat) /\ u \in Seq(Nat) /\ Len(t) = n /\ Len(u) = n
    <2>1. t \in [1..n -> Nat] /\ u \in [1..n -> Nat]
      BY <1>1, <1>8
    <2> HIDE DEF t, u
    <2> QED
      BY <1>1, <2>1
  <1>10. t2 = Append(t, Tokens(h.chars)) /\ u2 = Append(u, HeaderChars + h.chars)
    <2> DEFINE a == Append(t, Tokens(h.chars))
               b == Append(u, HeaderChars + h.chars)
    <2>1. /\ a = [i \in 1..n + 1 |-> a[i]] /\ a[n + 1] = Tokens(h.chars) /\ \A i \in 1..n : a[i] = t[i]
          /\ b = [i \in 1..n + 1 |-> b[i]] /\ b[n + 1] = HeaderChars + h.chars /\ \A i \in 1..n : b[i] = u[i]
      <3>1. Tokens(h.chars) \in Nat /\ HeaderChars + h.chars \in Nat
        BY <1>8
      <3> HIDE DEF t, u
      <3> QED
        BY <1>1, <1>9, <3>1
    <2> HIDE DEF a, b
    <2>2. /\ t2 = [i \in 1..n + 1 |-> t2[i]] /\ \A i \in 1..n + 1 : t2[i] = Tokens(d[i].chars)
          /\ u2 = [i \in 1..n + 1 |-> u2[i]] /\ \A i \in 1..n + 1 : u2[i] = HeaderChars + d[i].chars
      BY <1>4
    <2>3. \A i \in 1..n : t[i] = Tokens(c[i].chars) /\ u[i] = HeaderChars + c[i].chars
      BY <1>1
    <2> HIDE DEF t, u, t2, u2
    <2>4. \A i \in 1..n + 1 : i \in 1..n \/ i = n + 1
      BY <1>1
    <2>5. \A i \in 1..n + 1 : t2[i] = a[i] /\ u2[i] = b[i]
      <3> SUFFICES ASSUME NEW i \in 1..n + 1 PROVE t2[i] = a[i] /\ u2[i] = b[i]
        OBVIOUS
      <3>1. t2[i] = Tokens(d[i].chars) /\ u2[i] = HeaderChars + d[i].chars
        BY <2>2
      <3>2. CASE i \in 1..n
        BY <1>4, <2>1, <2>3, <3>1, <3>2
      <3>3. CASE i = n + 1
        BY <1>4, <2>1, <3>1, <3>3
      <3> QED
        BY <2>4, <3>2, <3>3
    <2> QED
      BY <2>1, <2>2, <2>5 DEF a, b
  <1>11. Total(t) \in Nat /\ Total(u) \in Nat
    <2> HIDE DEF t, u
    <2> QED
      BY <1>9, TotalIsNat
  <1>12. Total(t2) = Total(t) + Tokens(h.chars) /\ Total(u2) = Total(u) + (HeaderChars + h.chars)
    <2> HIDE DEF t, u, t2, u2
    <2>1. Tokens(h.chars) \in Nat /\ HeaderChars + h.chars \in Nat
      BY <1>8
    <2> QED
      BY <1>9, <1>10, <2>1, TotalOfAppend
  <1>13. MemoryTokens(c) = Total(t) /\ TextChars(c) = Total(u) /\ MemoryTokens(d) = Total(t2) /\ TextChars(d) = Total(u2)
    BY DEF MemoryTokens, TextChars
  <1>14. d # <<>>
    <2>1. 1 \in DOMAIN d
      BY <1>1, <1>4
    <2> QED
      BY <2>1
  <1>15. WithMemory(d) = SystemChars + 32 + (Total(u2) + 7 * ((n + 1) - 1))
    BY <1>4, <1>14 DEF WithMemory, HeadingChars, SeparatorChars
  <1> HIDE DEF t, u, t2, u2
  <1>16. h.chars \in Nat
    BY HitFields
  <1>17. WithMemory(d) = SystemChars + 32 + Total(u) + HeaderChars + h.chars + 7 * n
    <2>1. n \in Nat /\ (n + 1) - 1 = n
      BY <1>1
    <2>2. SystemChars \in Nat /\ HeaderChars \in Nat
      BY Constants
    <2> DEFINE a == Total(u)
               b == Total(u2)
               k == h.chars
    <2>3. a \in Nat /\ k \in Nat /\ b = a + (HeaderChars + k)
      BY <1>11, <1>12, <1>16
    <2>4. WithMemory(d) = SystemChars + 32 + (b + 7 * n)
      BY <1>15, <2>1
    <2> HIDE DEF a, b, k
    <2>5. WithMemory(d) = SystemChars + 32 + a + HeaderChars + k + 7 * n
      BY <2>1, <2>2, <2>3, <2>4
    <2> QED
      BY <2>5 DEF a, k
  <1>18. TextChars(d) = TextChars(c) + HeaderChars + h.chars
    BY <1>11, <1>12, <1>13, <1>16, Constants
  <1>19. Range(d) = Range(c) \cup {h}
    BY <1>6, <1>7 DEF E
  <1> QED
    BY <1>1, <1>4, <1>6, <1>11, <1>12, <1>13, <1>17, <1>18, <1>19 DEF n, d

LEMMA StaysChosen ==
    ASSUME NEW g, Reading(g), NEW s, s = ByScore(g, Visible(g)), NEW n, n = Len(s),
           NEW v, Packs(v, g, s, n), NEW k \in 1..n, Fits(g, v[k - 1], s[k])
    PROVE  s[k].id \in Ids(Chosen(g))
  <1>1. /\ n \in Nat /\ \A i \in 1..n : s[i] \in Range(s)
        /\ \A h \in Range(s) : IsHit(h)
    BY ChosenPacks
  <1>2. \A i \in 0..n : v[i] \in Seq(Range(s))
    BY DEF Packs
  <1>3. \A i \in 0..n : IsHits(v[i])
    BY <1>1, <1>2, HitsAmong
  <1>4. \A i \in 1..n : i - 1 \in 0..n /\ IsHit(s[i])
    BY <1>1
  <1> DEFINE N == {l \in Nat : k + l <= n => s[k] \in Range(v[k + l])}
  <1>5. 0 \in N
    <2>1. v[k] = Append(v[k - 1], s[k])
      BY DEF Packs
    <2>4. Range(Append(v[k - 1], s[k])) = Range(v[k - 1]) \cup {s[k]}
      BY <1>3, <1>4, Costs
    <2>2. s[k] \in Range(v[k])
      BY <2>1, <2>4
    <2>3. k + 0 = k
      OBVIOUS
    <2> QED
      BY <2>2, <2>3
  <1>6. ASSUME NEW l \in Nat, l \in N PROVE l + 1 \in N
    <2> SUFFICES ASSUME k + (l + 1) <= n PROVE s[k] \in Range(v[k + (l + 1)])
      OBVIOUS
    <2> DEFINE j == k + (l + 1)
    <2>1. j \in 1..n /\ j - 1 = k + l /\ k + l <= n
      BY <1>1
    <2>2. s[k] \in Range(v[j - 1])
      BY <1>6, <2>1
    <2> HIDE DEF j
    <2>3. v[j] = v[j - 1] \/ v[j] = Append(v[j - 1], s[j])
      BY <2>1 DEF Packs
    <2>4. Range(Append(v[j - 1], s[j])) = Range(v[j - 1]) \cup {s[j]}
      BY <1>3, <1>4, <2>1, Costs
    <2>5. s[k] \in Range(v[j])
      BY <2>2, <2>3, <2>4
    <2> QED
      BY <2>5 DEF j
  <1> HIDE DEF N
  <1>7. n - k \in Nat /\ k + (n - k) = n
    BY <1>1
  <1>8. n - k \in N
    BY <1>5, <1>6, <1>7, EveryNumber
  <1>9. s[k] \in Range(v[n])
    BY <1>7, <1>8 DEF N
  <1>10. PICK i \in DOMAIN v[n] : v[n][i] = s[k]
    BY <1>9 DEF Range
  <1>11. Chosen(g) = v[n]
    BY DEF Packs
  <1> QED
    BY <1>10, <1>11 DEF Ids

LEMMA SumsRise ==
    ASSUME NEW n \in Nat, NEW w \in [0..n -> Nat], \A k \in 1..n : w[k] >= w[k - 1], NEW l \in 0..n
    PROVE  w[l] <= w[n]
  <1> DEFINE N == {k \in Nat : l + k <= n => w[l] <= w[l + k]}
  <1>1. 0 \in N
    OBVIOUS
  <1>2. ASSUME NEW k \in Nat, k \in N PROVE k + 1 \in N
    <2> SUFFICES ASSUME l + (k + 1) <= n PROVE w[l] <= w[l + (k + 1)]
      OBVIOUS
    <2> DEFINE j == l + (k + 1)
    <2>1. j \in 1..n /\ j - 1 = l + k /\ l + k <= n /\ j - 1 \in 0..n /\ j \in 0..n
      OBVIOUS
    <2>2. w[l] <= w[j - 1]
      BY <1>2, <2>1
    <2> HIDE DEF j
    <2>3. w[j - 1] <= w[j] /\ w[j - 1] \in Nat /\ w[j] \in Nat /\ w[l] \in Nat
      BY <2>1
    <2>4. w[l] <= w[j]
      BY <2>2, <2>3
    <2> QED
      BY <2>4 DEF j
  <1> HIDE DEF N
  <1>3. n - l \in Nat /\ l + (n - l) = n
    OBVIOUS
  <1>4. n - l \in N
    BY <1>1, <1>2, <1>3, EveryNumber
  <1> QED
    BY <1>3, <1>4 DEF N

\* w1[k] and w2[k]: what the first k of c hits take.
CostSums(w1, w2, t, c) ==
    /\ w1 \in [0..c -> Nat] /\ w1[0] = 0 /\ \A k \in 1..c : w1[k] = w1[k - 1] + Tokens(t[k].chars)
    /\ w2 \in [0..c -> Nat] /\ w2[0] = 0 /\ \A k \in 1..c : w2[k] = w2[k - 1] + HeaderChars + t[k].chars

LEMMA CostSumsExist ==
    ASSUME NEW t, IsHits(t), NEW c, c = Len(t)
    PROVE  /\ c \in Nat
           /\ \E w1, w2 : CostSums(w1, w2, t, c) /\ MemoryTokens(t) = w1[c] /\ TextChars(t) = w2[c]
  <1> DEFINE a == [i \in DOMAIN t |-> Tokens(t[i].chars)]
             b == [i \in DOMAIN t |-> HeaderChars + t[i].chars]
  <1>1. c \in Nat /\ DOMAIN t = 1..c /\ \A i \in 1..c : IsHit(t[i])
    BY HitsShape
  <1>2. \A i \in 1..c : Tokens(t[i].chars) \in Nat /\ t[i].chars \in Nat
    BY <1>1, HitFields DEF Tokens
  <1>3. \A k \in 1..c : a[k] = Tokens(t[k].chars) /\ b[k] = HeaderChars + t[k].chars
    BY <1>1
  <1>4. a \in [1..c -> Nat] /\ b \in [1..c -> Nat]
    BY <1>1, <1>2, Constants
  <1>5. MemoryTokens(t) = Total(a) /\ TextChars(t) = Total(b)
    BY DEF MemoryTokens, TextChars
  <1> HIDE DEF a, b
  <1>6. a \in Seq(Nat) /\ b \in Seq(Nat) /\ Len(a) = c /\ Len(b) = c
    BY <1>1, <1>4
  <1>7. PICK w1 : Partial(w1, a)
    BY <1>6, TotalSteps
  <1>8. PICK w2 : Partial(w2, b)
    BY <1>6, TotalSteps
  <1>12. /\ w1 \in [0..c -> Nat] /\ w1[0] = 0 /\ Total(a) = w1[c] /\ \A k \in 1..c : w1[k] = w1[k - 1] + a[k]
         /\ w2 \in [0..c -> Nat] /\ w2[0] = 0 /\ Total(b) = w2[c] /\ \A k \in 1..c : w2[k] = w2[k - 1] + b[k]
    BY <1>6, <1>7, <1>8 DEF Partial, Sums
  <1>9. \A k \in 1..c : w1[k] = w1[k - 1] + Tokens(t[k].chars)
    BY <1>3, <1>12
  <1>10. \A k \in 1..c : w2[k] = w2[k - 1] + HeaderChars + t[k].chars
    <2> SUFFICES ASSUME NEW k \in 1..c PROVE w2[k] = w2[k - 1] + HeaderChars + t[k].chars
      OBVIOUS
    <2>0. k - 1 \in 0..c
      BY <1>1
    <2>1. w2[k - 1] \in Nat /\ t[k].chars \in Nat
      BY <1>2, <1>12, <2>0
    <2>2. w2[k] = w2[k - 1] + (HeaderChars + t[k].chars)
      BY <1>3, <1>12
    <2> QED
      BY <2>1, <2>2, Constants
  <1>11. CostSums(w1, w2, t, c)
    BY <1>9, <1>10, <1>12 DEF CostSums
  <1> QED
    BY <1>1, <1>5, <1>11, <1>12

LEMMA CostsRise ==
    ASSUME NEW t, IsHits(t), NEW c, c = Len(t), NEW w1, NEW w2, CostSums(w1, w2, t, c), NEW l \in 0..c
    PROVE  w1[l] <= w1[c] /\ w2[l] <= w2[c]
  <1>1. c \in Nat /\ \A i \in 1..c : IsHit(t[i])
    BY HitsShape
  <1>2. \A i \in 1..c : Tokens(t[i].chars) \in Nat /\ t[i].chars \in Nat
    BY <1>1, HitFields DEF Tokens
  <1>3. ASSUME NEW k \in 1..c PROVE w1[k] >= w1[k - 1] /\ w2[k] >= w2[k - 1]
    <2>1. k - 1 \in 0..c
      BY <1>1
    <2>2. w1[k - 1] \in Nat /\ w2[k - 1] \in Nat
      BY <2>1 DEF CostSums
    <2>3. w1[k] = w1[k - 1] + Tokens(t[k].chars) /\ w2[k] = w2[k - 1] + HeaderChars + t[k].chars
      BY DEF CostSums
    <2>4. Tokens(t[k].chars) \in Nat /\ t[k].chars \in Nat
      BY <1>2
    <2> QED
      BY <2>2, <2>3, <2>4, Constants
  <1>4. w1 \in [0..c -> Nat] /\ w2 \in [0..c -> Nat]
    BY DEF CostSums
  <1> QED
    BY <1>1, <1>3, <1>4, SumsRise

\* v[k] takes no more than the first l of the hits t.
Covers(l, k, v, p, c, w1, w2) ==
    /\ l \in 0..c /\ \A i \in 1..c : p[i] <= k <=> i <= l
    /\ Len(v[k]) <= l /\ MemoryTokens(v[k]) <= w1[l] /\ TextChars(v[k]) <= w2[l]

\* What is chosen of the K best hits is among the members of T.
LEMMA ChosenWithin ==
    ASSUME NEW g, Reading(g), NEW s, s = ByScore(g, Visible(g)), NEW n, n = Len(s),
           NEW v, Packs(v, g, s, n), NEW T \in SUBSET (1..n), NEW p, NEW c \in Nat, Onto(p, c, T),
           \A k, l \in 1..c : k < l <=> p[k] < p[l],
           NEW t, Through(t, s, p, c), NEW w1, NEW w2, CostSums(w1, w2, t, c),
           NEW K \in 0..n, \A k \in 1..K : Fits(g, v[k - 1], s[k]) => k \in T
    PROVE  \E l : Covers(l, K, v, p, c, w1, w2)
  <1>1. /\ n \in Nat /\ (\A i \in 1..n : s[i] \in Range(s))
        /\ (\A h \in Range(s) : IsHit(h)) /\ \A i \in 1..n : IsHit(s[i])
    BY ChosenPacks
  <1>2. \A i \in 0..n : v[i] \in Seq(Range(s))
    BY DEF Packs
  <1>3. \A i \in 0..n : IsHits(v[i])
    BY <1>1, <1>2, HitsAmong
  <1>4. \A k \in 1..c : p[k] \in T /\ p[k] \in 1..n
    BY DEF Onto
  <1> DEFINE N == {k \in Nat : k <= K => \E l : Covers(l, k, v, p, c, w1, w2)}
  <1>5. 0 \in N
    <2>1. v[0] = <<>>
      BY DEF Packs
    <2>2. Len(<<>>) = 0 /\ MemoryTokens(<<>>) = 0 /\ TextChars(<<>>) = 0
      <3>1. [i \in DOMAIN <<>> |-> Tokens(<<>>[i].chars)] = <<>>
        OBVIOUS
      <3>2. [i \in DOMAIN <<>> |-> HeaderChars + <<>>[i].chars] = <<>>
        OBVIOUS
      <3> QED
        BY <3>1, <3>2, TotalOfNone DEF MemoryTokens, TextChars
    <2>3. 0 \in 0..c /\ w1[0] = 0 /\ w2[0] = 0
      BY DEF CostSums
    <2>4. \A i \in 1..c : p[i] <= 0 <=> i <= 0
      BY <1>4
    <2>5. Covers(0, 0, v, p, c, w1, w2)
      BY <2>1, <2>2, <2>3, <2>4 DEF Covers
    <2> QED
      BY <2>5
  <1>6. ASSUME NEW k \in Nat, k \in N PROVE k + 1 \in N
    <2> SUFFICES ASSUME k + 1 <= K PROVE \E l : Covers(l, k + 1, v, p, c, w1, w2)
      OBVIOUS
    <2> DEFINE j == k + 1
    <2>1. j \in 1..n /\ j \in 1..K /\ j - 1 = k /\ k \in 0..n /\ k <= K /\ j \in 0..n /\ j \in Nat
      BY <1>1
    <2>2. \A x \in Nat : (x <= j <=> x <= k \/ x = j) /\ ~(j <= k)
      BY <2>1
    <2> HIDE DEF j
    <2>3. PICK l : Covers(l, k, v, p, c, w1, w2)
      BY <1>6, <2>1
    <2>4. v[j] = IF Fits(g, v[k], s[j]) THEN Append(v[k], s[j]) ELSE v[k]
      BY <2>1 DEF Packs
    <2>5. CASE j \notin T
      <3>1. v[j] = v[k]
        BY <2>1, <2>4, <2>5
      <3>2. \A i \in 1..c : p[i] # j /\ p[i] \in Nat
        BY <1>4, <2>5
      <3>3. Covers(l, j, v, p, c, w1, w2)
        BY <2>2, <2>3, <3>1, <3>2 DEF Covers
      <3> QED
        BY <3>3 DEF j
    <2>6. CASE j \in T
      <3>1. PICK e \in 1..c : p[e] = j
        BY <2>6 DEF Onto
      <3>2. l \in 0..c /\ l \in Nat /\ e \in Nat
        BY <2>3 DEF Covers
      <3>3. ~(e <= l)
        BY <2>2, <2>3, <3>1 DEF Covers
      <3>4. l + 1 \in 1..c /\ (l + 1) - 1 = l
        BY <3>2, <3>3
      <3>5. ~(p[l + 1] <= k)
        BY <2>3, <3>2, <3>4 DEF Covers
      <3>6. ~(l + 1 < e)
        <4>1. l + 1 < e <=> p[l + 1] < p[e]
          BY <3>4
        <4>2. p[l + 1] \in Nat
          BY <1>4, <3>4
        <4>3. ~(p[l + 1] < j)
          BY <2>1, <3>5, <4>2
        <4> QED
          BY <3>1, <4>1, <4>3
      <3>7. e = l + 1
        BY <3>2, <3>3, <3>6
      <3>8. \A i \in 1..c : p[i] <= j <=> i <= l + 1
        <4> SUFFICES ASSUME NEW i \in 1..c PROVE p[i] <= j <=> i <= l + 1
          OBVIOUS
        <4>1. p[i] \in Nat /\ i \in Nat
          BY <1>4
        <4>2. p[i] <= k <=> i <= l
          BY <2>3 DEF Covers
        <4>3. p[i] = j => i = e
          <5>1. (i < e <=> p[i] < p[e]) /\ (e < i <=> p[e] < p[i])
            OBVIOUS
          <5>2. p[i] = j => ~(p[i] < p[e]) /\ ~(p[e] < p[i])
            BY <3>1, <4>1
          <5> QED
            BY <3>2, <4>1, <5>1, <5>2
        <4>4. p[i] <= j <=> p[i] <= k \/ p[i] = j
          BY <2>2, <4>1
        <4>5. i <= l + 1 <=> i <= l \/ i = l + 1
          BY <3>2, <4>1
        <4> QED
          BY <3>1, <3>7, <4>2, <4>3, <4>4, <4>5
      <3>9. t[l + 1] = s[j]
        BY <3>1, <3>4, <3>7 DEF Through
      <3>10. /\ w1[l + 1] = w1[l] + Tokens(s[j].chars) /\ w1[l] \in Nat
             /\ w2[l + 1] = w2[l] + HeaderChars + s[j].chars /\ w2[l] \in Nat
        BY <3>2, <3>4, <3>9 DEF CostSums
      <3>11. Tokens(s[j].chars) \in Nat /\ s[j].chars \in Nat
        BY <1>1, <2>1, HitFields DEF Tokens
      <3>12. /\ Len(v[k]) \in Nat /\ MemoryTokens(v[k]) \in Nat /\ TextChars(v[k]) \in Nat
             /\ Len(Append(v[k], s[j])) = Len(v[k]) + 1
             /\ MemoryTokens(Append(v[k], s[j])) = MemoryTokens(v[k]) + Tokens(s[j].chars)
             /\ TextChars(Append(v[k], s[j])) = TextChars(v[k]) + HeaderChars + s[j].chars
        BY <1>1, <1>3, <2>1, Costs
      <3>13. Len(v[k]) <= l /\ MemoryTokens(v[k]) <= w1[l] /\ TextChars(v[k]) <= w2[l]
        BY <2>3 DEF Covers
      <3>14. Len(v[j]) <= l + 1 /\ MemoryTokens(v[j]) <= w1[l + 1] /\ TextChars(v[j]) <= w2[l + 1]
        <4> DEFINE a == Len(v[k])
                   b == MemoryTokens(v[k])
                   d == TextChars(v[k])
                   x == Tokens(s[j].chars)
                   y == s[j].chars
                   u == w1[l]
                   w == w2[l]
        <4>0. a \in Nat /\ b \in Nat /\ d \in Nat /\ x \in Nat /\ y \in Nat /\ l \in Nat
              /\ u \in Nat /\ w \in Nat /\ HeaderChars \in Nat
              /\ a <= l /\ b <= u /\ d <= w
          BY <3>2, <3>10, <3>11, <3>12, <3>13, Constants
        <4> HIDE DEF a, b, d, x, y, u, w
        <4>3. /\ a <= l + 1 /\ b <= u + x /\ d <= w + HeaderChars + y
              /\ a + 1 <= l + 1 /\ b + x <= u + x /\ d + HeaderChars + y <= w + HeaderChars + y
          BY <4>0
        <4>1. CASE v[j] = v[k]
          BY <3>10, <4>1, <4>3 DEF a, b, d, x, y, u, w
        <4>2. CASE v[j] = Append(v[k], s[j])
          BY <3>10, <3>12, <4>2, <4>3 DEF a, b, d, x, y, u, w
        <4> QED
          BY <2>4, <4>1, <4>2
      <3>15. l + 1 \in 0..c
        BY <3>4
      <3>16. Covers(l + 1, j, v, p, c, w1, w2)
        BY <3>8, <3>14, <3>15 DEF Covers
      <3> QED
        BY <3>16 DEF j
    <2> QED
      BY <2>5, <2>6
  <1> HIDE DEF N
  <1>7. K \in N
    BY <1>1, <1>5, <1>6, EveryNumber
  <1>8. K <= K
    BY <1>1
  <1> QED
    BY <1>7, <1>8 DEF N

\* The places of the chosen hits of score 1.
BestChosen(g, s) == {i \in DOMAIN s : s[i].id \in Ids(Chosen(g)) /\ FinalScore(g, s[i]) = 1000}

\* What fits beside more fits beside less.
LEMMA FitsLess ==
    ASSUME NEW g, NEW b, NEW c, IsHits(b), IsHits(c), NEW h, IsHit(h), Fits(g, b, h), g.user \in Nat,
           Len(c) <= Len(b), MemoryTokens(c) <= MemoryTokens(b), TextChars(c) <= TextChars(b)
    PROVE  Fits(g, c, h)
  <1> DEFINE m == MemoryTokens(b)
             n == MemoryTokens(c)
             x == Tokens(h.chars)
             wb == WithMemory(Append(b, h))
             wc == WithMemory(Append(c, h))
  <1>1. m + x <= MaxMemory /\ Tokens(wb) <= SystemBudget(g) /\ MaxMemory > 0
    BY DEF Fits
  <1>2. /\ m \in Nat /\ n \in Nat /\ n <= m
        /\ wb = SystemChars + 32 + TextChars(b) + HeaderChars + h.chars + 7 * Len(b)
        /\ wc = SystemChars + 32 + TextChars(c) + HeaderChars + h.chars + 7 * Len(c)
        /\ TextChars(b) \in Nat /\ TextChars(c) \in Nat /\ Len(b) \in Nat /\ Len(c) \in Nat
    BY Costs
  <1>3. h.chars \in Nat /\ x \in Nat
    BY HitFields DEF Tokens
  <1> HIDE DEF m, n, x, wb, wc
  <1>4. n + x <= MaxMemory
    BY <1>1, <1>2, <1>3, Constants
  <1>5. wc <= wb /\ wc \in Nat /\ wb \in Nat
    <2> DEFINE p == TextChars(b)
               q == TextChars(c)
               i == Len(b)
               j == Len(c)
               y == h.chars
    <2>1. /\ p \in Nat /\ q \in Nat /\ q <= p /\ i \in Nat /\ j \in Nat /\ j <= i /\ y \in Nat
          /\ wb = SystemChars + 32 + p + HeaderChars + y + 7 * i
          /\ wc = SystemChars + 32 + q + HeaderChars + y + 7 * j
          /\ SystemChars \in Nat /\ HeaderChars \in Nat
      BY <1>2, <1>3, Constants
    <2> HIDE DEF p, q, i, j, y
    <2> QED
      BY <2>1
  <1>6. Tokens(wc) <= Tokens(wb) /\ Tokens(wc) \in Nat /\ Tokens(wb) \in Nat
    BY <1>5 DEF Tokens
  <1>7. SystemBudget(g) \in Nat
    BY BudgetIs
  <1>8. Tokens(wc) <= SystemBudget(g)
    BY <1>1, <1>6, <1>7
  <1> QED
    BY <1>1, <1>4, <1>8 DEF Fits, n, x, wc

LEMMA PinsReach ==
    ASSUME NEW g, Reading(g), NEW m \in g.pins \cap g.got,
           NEW s, s = ByScore(g, Visible(g)), NEW t, t = At(s, Line(BestChosen(g, s)))
    PROVE  \E h \in Range(Visible(g)) :
              m \in h.direct \cup {h.id} /\ (h.id \in Ids(Chosen(g)) \/ ~Fits(g, t, h))
  <1> DEFINE n == Len(s)
             T == BestChosen(g, s)
             p == Line(T)
             c == Cardinality(T)
  <1>1. PICK h \in Range(Visible(g)) : m \in h.direct \cup {h.id} /\ FinalScore(g, h) = 1000
    BY PinHasHit
  <1>2. /\ n \in Nat /\ DOMAIN s = 1..n /\ (\A i \in 1..n : s[i] \in Range(s) /\ IsHit(s[i]))
        /\ (\A x \in Range(s) : IsHit(x) /\ \E i \in 1..n : s[i] = x)
        /\ Range(s) = Range(Visible(g)) /\ \E v : Packs(v, g, s, n)
    BY ChosenPacks
  <1>3. IsFiniteSet(g.traces) /\ g.user \in Nat /\ IsHits(Visible(g))
    BY VisibleFacts DEF Reading
  <1>4. \A k, l \in 1..n : k < l => FinalScore(g, s[k]) >= FinalScore(g, s[l])
    <2>1. Len(ByScore(g, Visible(g))) = Len(Visible(g))
      BY <1>3, ByScoreFacts
    <2>2. n = Len(Visible(g))
      BY <2>1
    <2> QED
      BY <1>3, <2>2, ByScoreFacts
  <1> HIDE DEF n
  <1>5. PICK v : Packs(v, g, s, n)
    BY <1>2
  <1>6. PICK k \in 1..n : s[k] = h
    BY <1>1, <1>2
  <1>7. \A i \in 1..k : FinalScore(g, s[i]) = 1000
    <2> SUFFICES ASSUME NEW i \in 1..k PROVE FinalScore(g, s[i]) = 1000
      OBVIOUS
    <2>1. i \in 1..n /\ (i < k \/ i = k)
      BY <1>2
    <2>2. FinalScore(g, s[i]) \in 0..1000
      BY <1>2, <1>3, <2>1, ScoreRange
    <2>3. i < k => FinalScore(g, s[i]) >= 1000
      BY <1>1, <1>4, <1>6, <2>1
    <2> QED
      BY <1>1, <1>6, <2>1, <2>2, <2>3
  <1>8. ASSUME NEW i \in 1..k, Fits(g, v[i - 1], s[i]) PROVE i \in T
    <2>1. i \in 1..n
      BY <1>2
    <2>2. s[i].id \in Ids(Chosen(g))
      BY <1>5, <1>8, <2>1, StaysChosen DEF n
    <2> QED
      BY <1>2, <1>7, <2>1, <2>2 DEF BestChosen
  <1>9. T \in SUBSET (1..n)
    BY <1>2 DEF BestChosen
  <1>10. t = At(s, p)
    OBVIOUS
  <1>11. \A i \in T : i \in 1..n /\ s[i].id \in Ids(Chosen(g))
    BY <1>2 DEF BestChosen
  <1> HIDE DEF T
  <1>12. p = Line(T)
    OBVIOUS
  <1> HIDE DEF p
  <1>13. /\ c \in Nat /\ Onto(p, c, T) /\ \A i, j \in 1..c : i < j <=> p[i] < p[j]
    BY <1>2, <1>9, <1>12, InLine
  <1>14. IsHits(t) /\ Through(t, s, p, c)
    BY <1>2, <1>9, <1>10, <1>12, SelectFacts
  <1> HIDE DEF c
  <1>15. Len(t) = c
    <2>1. t = [i \in 1..c |-> t[i]]
      BY <1>14 DEF Through
    <2> QED
      BY <1>13, <2>1, SeqShape
  <1>16. PICK w1, w2 : CostSums(w1, w2, t, c) /\ MemoryTokens(t) = w1[c] /\ TextChars(t) = w2[c]
    BY <1>14, <1>15, CostSumsExist
  <1>17. k - 1 \in 0..n /\ \A i \in 1..k - 1 : Fits(g, v[i - 1], s[i]) => i \in T
    <2>1. k - 1 \in 0..n /\ \A i \in 1..k - 1 : i \in 1..k
      BY <1>2
    <2> QED
      BY <1>8, <2>1
  <1>18. PICK l : Covers(l, k - 1, v, p, c, w1, w2)
    BY <1>5, <1>9, <1>13, <1>14, <1>16, <1>17, ChosenWithin DEF n
  <1>19. IsHits(v[k - 1])
    <2>1. v[k - 1] \in Seq(Range(s))
      BY <1>5, <1>17 DEF Packs
    <2> QED
      BY <1>2, <2>1, HitsAmong
  <1>20. l \in 0..c /\ w1[l] <= w1[c] /\ w2[l] <= w2[c]
    BY <1>14, <1>15, <1>16, <1>18, CostsRise DEF Covers
  <1>21. /\ Len(v[k - 1]) <= Len(t) /\ MemoryTokens(v[k - 1]) <= MemoryTokens(t)
         /\ TextChars(v[k - 1]) <= TextChars(t)
    <2>1. /\ Len(v[k - 1]) <= l /\ MemoryTokens(v[k - 1]) <= w1[l] /\ TextChars(v[k - 1]) <= w2[l]
      BY <1>18 DEF Covers
    <2>2. /\ Len(v[k - 1]) \in Nat /\ MemoryTokens(v[k - 1]) \in Nat /\ TextChars(v[k - 1]) \in Nat
      BY <1>2, <1>6, <1>19, Costs
    <2>3. c \in Nat /\ w1[l] \in Nat /\ w2[l] \in Nat /\ w1[c] \in Nat /\ w2[c] \in Nat
      BY <1>13, <1>16, <1>20 DEF CostSums
    <2>4. Len(v[k - 1]) <= c
      BY <1>13, <1>20, <2>1, <2>2
    <2>5. MemoryTokens(v[k - 1]) <= w1[c]
      BY <1>20, <2>1, <2>2, <2>3
    <2>6. TextChars(v[k - 1]) <= w2[c]
      BY <1>20, <2>1, <2>2, <2>3
    <2> QED
      BY <1>15, <1>16, <2>4, <2>5, <2>6
  <1>22. CASE Fits(g, v[k - 1], s[k])
    <2>1. k \in T
      BY <1>8, <1>22, <1>2
    <2> QED
      BY <1>1, <1>6, <1>11, <2>1
  <1>23. CASE ~Fits(g, v[k - 1], s[k])
    <2>1. IsHit(h)
      BY <1>2, <1>6
    <2>2. ~Fits(g, t, h)
      BY <1>3, <1>6, <1>14, <1>19, <1>21, <1>23, <2>1, FitsLess
    <2> QED
      BY <1>1, <2>2
  <1> QED
    BY <1>22, <1>23

-----------------------------------------------------------------------------
(* Blocks.                                                                 *)

LEMMA DivFacts ==
    ASSUME NEW a \in Nat, NEW b \in Nat, b > 0
    PROVE  a \div b \in Nat /\ b * (a \div b) <= a /\ a < b * (a \div b) + b
  OBVIOUS

LEMMA Products ==
    ASSUME NEW a \in Nat, NEW b \in Nat, NEW c \in Nat, a <= b
    PROVE  a * c \in Nat /\ b * c \in Nat /\ a * c <= b * c
  OBVIOUS

IsBlock(b) ==
    /\ b.len \in Nat /\ b.len > 0 /\ b.must \in BOOLEAN
    /\ b.priority \in Int /\ b.search \in Int /\ b.weight \in Int

IsBlocks(blocks, n) ==
    /\ n \in Nat /\ n > 0 /\ DOMAIN blocks = 1..n /\ blocks = [i \in 1..n |-> blocks[i]]
    /\ \A i \in 1..n : IsBlock(blocks[i])

LEMMA MessageIsBlock ==
    ASSUME NEW g, g.user \in Nat
    PROVE  IsBlock(MessageBlock(g))
  <1>1. AtLeast(1, Tokens(g.user)) \in Nat /\ AtLeast(1, Tokens(g.user)) > 0
    BY DEF AtLeast, Tokens
  <1> QED
    BY <1>1 DEF IsBlock, MessageBlock

LEMMA MemoryIsBlock ==
    ASSUME NEW g, IsFiniteSet(g.traces), NEW h, IsHit(h), NEW i \in Nat
    PROVE  IsBlock(MemoryBlock(g, h, i))
  <1> DEFINE class == RouteClass(h)
             weight == IF class = "none" THEN 0
                       ELSE 10 * (h.trust + h.risk + h.strength)
                            + (IF h.must THEN 10000 ELSE 0)
                            + ClassWeight(class)
             len == AtLeast(1, Tokens(h.chars))
             priority == FinalScore(g, h) - (i - 1)
  <1>1. /\ h.chars \in Nat /\ h.risk \in Int /\ h.strength \in Int /\ h.trust \in Int /\ h.score \in Int
        /\ h.must \in BOOLEAN
    <2>1. /\ h.chars \in Nat /\ h.risk \in Nat /\ h.strength \in Nat /\ h.trust \in Nat
          /\ h.score \in 0..1000 /\ h.must \in BOOLEAN
      BY HitFields
    <2> QED
      BY <2>1
  <1>2. len \in Nat /\ len > 0
    BY <1>1 DEF AtLeast, Tokens
  <1>3. ClassWeight(class) \in Int
    <2> HIDE DEF class
    <2> QED
      BY DEF ClassWeight
  <1> HIDE DEF class
  <1>4. weight \in Int
    BY <1>1, <1>3
  <1>5. priority \in Int
    <2>1. FinalScore(g, h) \in 0..1000
      BY ScoreRange
    <2>2. FinalScore(g, h) \in Int
      BY <2>1
    <2> QED
      BY <2>2
  <1> HIDE DEF weight, len, priority
  <1>6. MemoryBlock(g, h, i) =
          [id |-> h.id, len |-> len, priority |-> priority, search |-> h.score,
           class |-> class, must |-> h.must, weight |-> weight]
    BY DEF MemoryBlock, len, priority, class, weight
  <1> QED
    BY <1>1, <1>2, <1>4, <1>5, <1>6 DEF IsBlock

\* The message comes first, the memories follow.
LEMMA BlocksShape ==
    ASSUME NEW g, Reading(g), NEW included
    PROVE  /\ \E n : IsBlocks(Blocks(g, included), n)
           /\ 1 \in DOMAIN Blocks(g, included)
  <1> DEFINE s == Visible(g)
             n == Len(s)
             S == {i \in DOMAIN s : s[i].id \in included}
             p == Line(S)
             c == Cardinality(S)
             a == <<MessageBlock(g)>>
             b == [k \in DOMAIN p |-> MemoryBlock(g, s[p[k]], p[k])]
             E == {MessageBlock(g)} \cup {b[k] : k \in DOMAIN p}
  <1>1. Blocks(g, included) = a \o b
    BY DEF Blocks, InOrder, Line
  <1>2. /\ IsFiniteSet(g.traces) /\ g.user \in Nat
        /\ n \in Nat /\ DOMAIN s = 1..n /\ \A i \in 1..n : IsHit(s[i])
    BY VisibleFacts, HitsShape DEF Reading
  <1> HIDE DEF s, n
  <1>3. S \in SUBSET (1..n) /\ \A i \in S : i \in Nat /\ IsHit(s[i])
    BY <1>2
  <1> HIDE DEF S
  <1>4. p = Line(S)
    OBVIOUS
  <1> HIDE DEF p
  <1>5. c \in Nat /\ Onto(p, c, S)
    BY <1>2, <1>3, <1>4, InLine
  <1> HIDE DEF c
  <1>6. DOMAIN p = 1..c /\ \A k \in 1..c : p[k] \in S
    BY <1>5 DEF Onto
  <1>7. b = [k \in 1..c |-> b[k]] /\ \A k \in 1..c : b[k] = MemoryBlock(g, s[p[k]], p[k]) /\ b[k] \in E
    BY <1>6
  <1>8. MessageBlock(g) \in E
    OBVIOUS
  <1>9. \A x \in E : IsBlock(x)
    <2>1. \A k \in DOMAIN p : IsBlock(b[k])
      BY <1>2, <1>3, <1>6, <1>7, MemoryIsBlock
    <2>2. IsBlock(MessageBlock(g))
      BY <1>2, MessageIsBlock
    <2> HIDE DEF b
    <2> QED
      BY <2>1, <2>2
  <1> HIDE DEF E, b
  <1>10. b \in Seq(E) /\ Len(b) = c
    <2>1. b \in [1..c -> E]
      BY <1>7
    <2> QED
      BY <1>5, <2>1
  <1>11. a \in Seq(E) /\ Len(a) = 1
    BY <1>8
  <1> HIDE DEF a
  <1> DEFINE d == a \o b
  <1>12. d \in Seq(E) /\ Len(d) = 1 + c
    <2>1. d \in Seq(E) /\ Len(d) = Len(a) + Len(b)
      BY <1>10, <1>11, ConcatFacts
    <2> HIDE DEF d
    <2> QED
      BY <1>10, <1>11, <2>1
  <1> HIDE DEF d
  <1>13. /\ DOMAIN d = 1..1 + c /\ d = [i \in 1..1 + c |-> d[i]] /\ \A i \in 1..1 + c : d[i] \in E
         /\ 1 + c \in Nat /\ 1 + c > 0 /\ 1 \in 1..1 + c
    BY <1>5, <1>12
  <1>14. IsBlocks(d, 1 + c) /\ 1 \in DOMAIN d
    BY <1>9, <1>13 DEF IsBlocks
  <1> QED
    BY <1>1, <1>14 DEF d

-----------------------------------------------------------------------------
(* The best of a set of blocks.                                            *)

LEMMA ScoreIsInt ==
    ASSUME NEW blocks, NEW n, IsBlocks(blocks, n), NEW i \in 1..n
    PROVE  Score(blocks, i) \in Int /\ i \in Int
  <1>1. i \in Int /\ blocks[i].priority \in Int /\ blocks[i].search \in Int /\ blocks[i].weight \in Int
    BY DEF IsBlocks, IsBlock
  <1> QED
    BY <1>1 DEF Score

Beats(blocks, i, j) ==
    \/ Score(blocks, i) > Score(blocks, j)
    \/ Score(blocks, i) = Score(blocks, j) /\ i < j

LEMMA BestAreFew ==
    ASSUME NEW blocks, NEW n, IsBlocks(blocks, n), NEW S \in SUBSET (1..n), NEW k \in Nat
    PROVE  /\ Best(blocks, S, k) \subseteq S
           /\ IsFiniteSet(Best(blocks, S, k)) /\ Cardinality(Best(blocks, S, k)) <= k
  <1> DEFINE R == {x \in S \X S : Beats(blocks, x[1], x[2])}
             U == {i \in S : Cardinality(Before(R, S, i)) < k}
             ranks == 0..k - 1
             rank == [i \in U |-> Cardinality(Before(R, S, i))]
  <1>1. IsFiniteSet(S)
    <2>1. 1 \in Int /\ n \in Int
      BY DEF IsBlocks
    <2> QED
      BY <2>1, FS_Interval, FS_Subset
  <1>2. \A i \in S : Score(blocks, i) \in Int /\ i \in Int
    BY ScoreIsInt
  <1>3. \A i, j \in S : <<i, j>> \in R <=> Beats(blocks, i, j)
    <2> SUFFICES ASSUME NEW i \in S, NEW j \in S PROVE <<i, j>> \in R <=> Beats(blocks, i, j)
      OBVIOUS
    <2>1. <<i, j>> \in S \X S /\ <<i, j>>[1] = i /\ <<i, j>>[2] = j
      OBVIOUS
    <2> QED
      BY <2>1
  <1> HIDE DEF R
  <1>4. IsOrder(R, S)
    <2>1. \A i \in S : <<i, i>> \notin R
      BY <1>2, <1>3 DEF Beats
    <2>2. ASSUME NEW i \in S, NEW j \in S, NEW l \in S, <<i, j>> \in R, <<j, l>> \in R PROVE <<i, l>> \in R
      <3>1. Beats(blocks, i, j) /\ Beats(blocks, j, l)
        BY <1>3, <2>2
      <3>2. Beats(blocks, i, l)
        BY <1>2, <3>1 DEF Beats
      <3> QED
        BY <1>3, <3>2
    <2>3. ASSUME NEW i \in S, NEW j \in S, i # j PROVE <<i, j>> \in R \/ <<j, i>> \in R
      <3>1. Beats(blocks, i, j) \/ Beats(blocks, j, i)
        BY <1>2, <2>3 DEF Beats
      <3> QED
        BY <1>3, <3>1
    <2> QED
      BY <2>1, <2>2, <2>3 DEF IsOrder
  <1>5. Best(blocks, S, k) = U
    <2>1. \A i \in S : {j \in S : Beats(blocks, j, i)} = Before(R, S, i)
      <3> SUFFICES ASSUME NEW i \in S PROVE {j \in S : Beats(blocks, j, i)} = {j \in S : <<j, i>> \in R}
        BY DEF Before
      <3>1. \A j \in S : Beats(blocks, j, i) <=> <<j, i>> \in R
        BY <1>3
      <3> QED
        BY <3>1, Zenon
    <2>2. Best(blocks, S, k) = {i \in S : Cardinality({j \in S : Beats(blocks, j, i)}) < k}
      BY DEF Best, Beats
    <2> QED
      BY <2>1, <2>2
  <1>6. IsFiniteSet(U) /\ U \in SUBSET S
    BY <1>1, FS_Subset
  <1>7. \A i \in U : i \in S /\ rank[i] = Cardinality(Before(R, S, i)) /\ rank[i] \in ranks
    <2> SUFFICES ASSUME NEW i \in U PROVE rank[i] \in ranks
      OBVIOUS
    <2>1. Cardinality(Before(R, S, i)) \in 0..Cardinality(S) - 1
      BY <1>1, <1>4, RanksRise
    <2>2. Cardinality(Before(R, S, i)) \in Nat
      BY <2>1
    <2> QED
      BY <2>2
  <1>8. \A i, j \in U : rank[i] = rank[j] => i = j
    <2> SUFFICES ASSUME NEW i \in U, NEW j \in U, rank[i] = rank[j], i # j PROVE FALSE
      OBVIOUS
    <2>1. <<i, j>> \in R \/ <<j, i>> \in R
      BY <1>4, <1>6 DEF IsOrder
    <2>2. rank[i] < rank[j] \/ rank[j] < rank[i]
      BY <1>1, <1>4, <1>6, <1>7, <2>1, RanksRise
    <2>3. rank[i] \in Int
      BY <1>7
    <2> QED
      BY <2>2, <2>3
  <1>9. rank \in [U -> ranks]
    BY <1>7
  <1>10. IsFiniteSet(ranks) /\ Cardinality(ranks) = k
    <2>1. 0 \in Int /\ k - 1 \in Int
      OBVIOUS
    <2> QED
      BY <2>1, FS_Interval
  <1>11. rank \in Injection(U, ranks)
    <2> HIDE DEF rank, ranks, U
    <2> QED
      BY <1>8, <1>9 DEF Injection, IsInjective
  <1>12. Cardinality(U) <= Cardinality(ranks)
    <2> HIDE DEF rank, ranks, U
    <2> QED
      BY <1>6, <1>10, <1>11, FS_Injection
  <1> QED
    BY <1>5, <1>6, <1>10, <1>12

-----------------------------------------------------------------------------
(* Where blocks begin.                                                     *)

\* w[i] tokens lie in the first i blocks.
TokensUpTo(w, blocks, n) ==
    /\ w \in [0..n -> Nat] /\ w[0] = 0 /\ w[n] = Length(blocks)
    /\ \A i \in 1..n : StartOf(blocks, i) = w[i - 1] /\ w[i] = w[i - 1] + blocks[i].len

LEMMA TokensAdd ==
    ASSUME NEW blocks, NEW n, IsBlocks(blocks, n)
    PROVE  \E w : TokensUpTo(w, blocks, n)
  <1> DEFINE lens == [k \in DOMAIN blocks |-> blocks[k].len]
  <1>1. n \in Nat /\ DOMAIN blocks = 1..n /\ \A i \in 1..n : blocks[i].len \in Nat
    BY DEF IsBlocks, IsBlock
  <1>2. lens \in [1..n -> Nat] /\ \A i \in 1..n : lens[i] = blocks[i].len
    BY <1>1
  <1>3. Length(blocks) = Total(lens)
    BY DEF Length
  <1> HIDE DEF lens
  <1>4. lens \in Seq(Nat) /\ Len(lens) = n
    BY <1>1, <1>2
  <1>5. PICK w : Partial(w, lens)
    BY <1>4, TotalSteps
  <1>6. /\ w \in [0..n -> Nat] /\ w[0] = 0 /\ w[n] = Length(blocks)
        /\ \A i \in 1..n : w[i] = w[i - 1] + blocks[i].len
    BY <1>2, <1>3, <1>4, <1>5 DEF Partial, Sums
  <1>7. ASSUME NEW i \in 1..n PROVE StartOf(blocks, i) = w[i - 1]
    <2> DEFINE m == i - 1
               t == [k \in 1..m |-> blocks[k].len]
    <2>1. m \in Nat /\ m <= n /\ \A k \in 1..m : k \in 1..n
      BY <1>1
    <2>2. StartOf(blocks, i) = Total(t)
      BY DEF StartOf
    <2> HIDE DEF m
    <2>3. t \in [1..m -> Nat] /\ \A k \in 1..m : t[k] = lens[k]
      BY <1>1, <1>2, <2>1
    <2> HIDE DEF t
    <2>4. t \in Seq(Nat) /\ Len(t) = m
      BY <2>1, <2>3
    <2>5. PICK v : Partial(v, t)
      BY <2>4, TotalSteps
    <2>6. m <= Len(t) /\ m <= Len(lens)
      BY <1>4, <2>1, <2>4
    <2>7. Sums(v, t) /\ Sums(w, lens) /\ Total(t) = v[m]
      BY <1>5, <2>4, <2>5 DEF Partial
    <2>8. v[m] = w[m]
      BY <1>4, <2>1, <2>3, <2>4, <2>6, <2>7, TotalsAgree
    <2> QED
      BY <2>2, <2>7, <2>8 DEF m
  <1>8. TokensUpTo(w, blocks, n)
    BY <1>6, <1>7 DEF TokensUpTo
  <1> QED
    BY <1>8

\* The first token of a query block.
LEMMA QueryBegins ==
    ASSUME NEW blocks, NEW q \in QueryBlocks(blocks), Length(blocks) \in Nat, Length(blocks) > 0
    PROVE  (q - 1) * BlockSize \in Nat /\ (q - 1) * BlockSize < Length(blocks)
  <1> DEFINE a == Length(blocks) + BlockSize - 1
             d == a \div BlockSize
             b == BlockSize
             len == Length(blocks)
  <1>1. b \in Nat /\ b > 0 /\ len \in Nat /\ len > 0 /\ a \in Nat /\ a = len + b - 1
    BY Constants
  <1>2. q \in 1..AtLeast(1, d)
    BY DEF QueryBlocks
  <1> HIDE DEF a, b, len
  <1>3. d \in Nat /\ b * d <= a /\ a < b * d + b
    <2>1. d = a \div b
      BY DEF b
    <2> HIDE DEF d
    <2> QED
      BY <1>1, <2>1, DivFacts
  <1> HIDE DEF d
  <1>4. d > 0
    <2>1. d = 0 => b * d = 0
      BY <1>1
    <2> QED
      BY <1>1, <1>3, <2>1
  <1>5. q \in Nat /\ q - 1 \in Nat /\ d - 1 \in Nat /\ q - 1 <= d - 1
    BY <1>2, <1>3, <1>4 DEF AtLeast
  <1>6. (q - 1) * b \in Nat /\ (q - 1) * b <= (d - 1) * b /\ (d - 1) * b \in Nat
    BY <1>1, <1>5, Products
  <1>7. (d - 1) * b = b * d - b
    BY <1>1, <1>3
  <1>8. (d - 1) * b < len
    <2> DEFINE x == (d - 1) * b
               y == b * d
    <2>1. x \in Nat /\ x = y - b /\ y <= a /\ y \in Int
      BY <1>1, <1>3, <1>6, <1>7
    <2> HIDE DEF x, y
    <2>2. x < len
      BY <1>1, <2>1
    <2> QED
      BY <2>2 DEF x
  <1>9. (q - 1) * b < len
    <2> DEFINE x == (d - 1) * b
               y == (q - 1) * b
    <2>1. x \in Nat /\ y \in Nat /\ y <= x /\ x < len
      BY <1>6, <1>8
    <2> HIDE DEF x, y
    <2>2. y < len
      BY <1>1, <2>1
    <2> QED
      BY <2>2 DEF y
  <1> QED
    BY <1>6, <1>9 DEF b, len

LEMMA HomeIsABlock ==
    ASSUME NEW blocks, NEW n, IsBlocks(blocks, n), NEW q \in QueryBlocks(blocks)
    PROVE  HomeOf(blocks, q) \in 1..n
  <1> DEFINE x == (q - 1) * BlockSize
  <1>1. PICK w : TokensUpTo(w, blocks, n)
    BY TokensAdd
  <1>2. n \in Nat /\ n > 0 /\ DOMAIN blocks = 1..n /\ \A i \in 1..n : blocks[i].len \in Nat /\ blocks[i].len > 0
    BY DEF IsBlocks, IsBlock
  <1>3. \A i \in 1..n : i - 1 \in 0..n /\ i \in 0..n
    BY <1>2
  <1>4. w \in [0..n -> Nat] /\ w[0] = 0 /\ w[n] = Length(blocks)
        /\ \A i \in 1..n : StartOf(blocks, i) = w[i - 1] /\ w[i] = w[i - 1] + blocks[i].len
    BY <1>1 DEF TokensUpTo
  <1>5. \A i \in 1..n : w[i] > w[i - 1] /\ w[i] >= w[i - 1] /\ w[i] \in Nat /\ w[i - 1] \in Nat
    <2> SUFFICES ASSUME NEW i \in 1..n
                 PROVE  w[i] > w[i - 1] /\ w[i] >= w[i - 1] /\ w[i] \in Nat /\ w[i - 1] \in Nat
      OBVIOUS
    <2>1. w[i - 1] \in Nat /\ w[i] \in Nat
      BY <1>3, <1>4
    <2>2. blocks[i].len \in Nat /\ blocks[i].len > 0
      BY <1>2
    <2>3. w[i] = w[i - 1] + blocks[i].len
      BY <1>4
    <2> QED
      BY <2>1, <2>2, <2>3
  <1>6. Length(blocks) \in Nat /\ Length(blocks) > 0
    <2>1. w[n] > w[n - 1] /\ w[n] \in Nat /\ w[n - 1] \in Nat
      BY <1>2, <1>5
    <2> QED
      BY <1>4, <2>1
  <1>7. x \in Nat /\ x < Length(blocks)
    BY <1>6, QueryBegins
  <1> HIDE DEF x
  <1> DEFINE beyond == {i \in 0..n : x < w[i]}
  <1>8. beyond # {} /\ beyond \subseteq Nat
    <2>1. n \in beyond
      BY <1>2, <1>4, <1>7
    <2> QED
      BY <2>1
  <1>9. \A i : i \in beyond <=> i \in 0..n /\ x < w[i]
    OBVIOUS
  <1> HIDE DEF beyond
  <1>10. PICK i \in beyond : \A j \in beyond : i <= j
    BY <1>8, LeastNumber
  <1>11. i \in 0..n /\ x < w[i]
    BY <1>9, <1>10
  <1>12. i # 0
    BY <1>4, <1>7, <1>11
  <1>13. i \in 1..n /\ i - 1 \in 0..n /\ ~(i <= i - 1)
    BY <1>2, <1>11, <1>12
  <1>14. ~(x < w[i - 1])
    BY <1>9, <1>10, <1>13
  <1>15. StartOf(blocks, i) <= x /\ x < StartOf(blocks, i) + blocks[i].len
    BY <1>4, <1>5, <1>7, <1>11, <1>13, <1>14
  <1>16. \E k \in 1..n : StartOf(blocks, k) <= x /\ x < StartOf(blocks, k) + blocks[k].len
    BY <1>13, <1>15
  <1>17. HomeOf(blocks, q) = CHOOSE k \in 1..n : StartOf(blocks, k) <= x /\ x < StartOf(blocks, k) + blocks[k].len
    BY <1>2 DEF HomeOf, x
  <1> QED
    BY <1>16, <1>17

-----------------------------------------------------------------------------
(* Routes and shards.                                                      *)

LEMMA RouteFacts ==
    ASSUME NEW blocks, NEW n, IsBlocks(blocks, n), NEW q \in QueryBlocks(blocks)
    PROVE  /\ {i \in DOMAIN blocks : blocks[i].must \/ blocks[i].id = Message} \subseteq Route(blocks, q)
           /\ Route(blocks, q) \subseteq Selected(blocks)
           /\ Cardinality(Route(blocks, q) \ Pinned(blocks)) <= AtLeast(2 * Window + 1, TopK)
  <1> DEFINE pins == Pinned(blocks)
             selected == Selected(blocks)
             home == HomeOf(blocks, q)
             near == pins \cup {i \in selected : i >= home - Window /\ i <= home + Window}
             k == AtLeast(0, TopK + Cardinality(pins) - Cardinality(near))
             rest == selected \ near
             best == Best(blocks, rest, k)
             window == (home - Window)..(home + Window)
  <1>1. Route(blocks, q) = near \cup best
    BY DEF Route
  <1>2. n \in Nat /\ DOMAIN blocks = 1..n /\ pins \subseteq 1..n
    BY DEF IsBlocks, Pinned
  <1>3. {i \in DOMAIN blocks : blocks[i].must \/ blocks[i].id = Message} \subseteq pins
    BY DEF Pinned
  <1>4. home \in 1..n
    BY HomeIsABlock
  <1>5. IsFiniteSet(1..n)
    <2>1. 1 \in Int /\ n \in Int
      BY <1>2
    <2> QED
      BY <2>1, FS_Interval
  <1>6. IsFiniteSet(pins) /\ Cardinality(pins) \in Nat
    BY <1>2, <1>5, FS_Subset, FS_CardinalityType
  <1>7. pins \subseteq selected /\ selected \subseteq 1..n
    <2> DEFINE left == AtLeast(0, MaxBlocks - Cardinality(pins))
               unpinned == DOMAIN blocks \ pins
    <2>1. selected = pins \cup Best(blocks, unpinned, left)
      BY DEF Selected
    <2>2. left \in Nat
      BY <1>6, Constants DEF AtLeast
    <2>3. unpinned \in SUBSET (1..n)
      BY <1>2
    <2> HIDE DEF left, unpinned, selected
    <2>4. Best(blocks, unpinned, left) \subseteq unpinned
      BY <2>2, <2>3, BestAreFew
    <2> QED
      BY <1>2, <2>1, <2>3, <2>4
  <1> HIDE DEF pins, selected, home
  <1>8. near \subseteq selected /\ near \in SUBSET (1..n) /\ pins \subseteq near /\ near \ pins \subseteq window
    <2>1. \A i \in 1..n : i \in Int
      BY <1>2
    <2>2. home \in Int /\ Window \in Int
      BY <1>2, <1>4, Constants
    <2>3. near \subseteq selected /\ pins \subseteq near
      BY <1>7
    <2>4. ASSUME NEW i \in near \ pins PROVE i \in window
      <3>1. i \in selected /\ i >= home - Window /\ i <= home + Window
        BY <2>4
      <3>2. i \in Int
        BY <1>7, <2>1, <3>1
      <3> QED
        BY <2>2, <3>1, <3>2
    <2> HIDE DEF near, window
    <2> QED
      BY <1>7, <2>3, <2>4
  <1>9. IsFiniteSet(near) /\ Cardinality(near) \in Nat
    BY <1>5, <1>8, FS_Subset, FS_CardinalityType
  <1>10. IsFiniteSet(window) /\ Cardinality(window) = 2 * Window + 1
    <2>1. home - Window \in Int /\ home + Window \in Int /\ (home + Window) - (home - Window) + 1 = 2 * Window + 1
          /\ home - Window <= home + Window
      BY <1>2, <1>4, Constants
    <2> QED
      BY <2>1, FS_Interval
  <1>11. IsFiniteSet(near \ pins) /\ Cardinality(near \ pins) <= 2 * Window + 1 /\ Cardinality(near \ pins) \in Nat
    <2> DEFINE other == near \ pins
    <2>1. other \subseteq window
      BY <1>8
    <2> HIDE DEF other, window
    <2>2. IsFiniteSet(other) /\ Cardinality(other) <= Cardinality(window)
      BY <1>10, <2>1, FS_Subset
    <2>3. Cardinality(other) \in Nat
      BY <2>2, FS_CardinalityType
    <2> QED
      BY <1>10, <2>2, <2>3 DEF other
  <1>12. Cardinality(near) = Cardinality(pins) + Cardinality(near \ pins)
    <2> HIDE DEF near
    <2> DEFINE other == near \ pins
    <2>1. near = pins \cup other /\ pins \cap other = {}
      BY <1>8
    <2> HIDE DEF other
    <2>2. IsFiniteSet(other)
      BY <1>11 DEF other
    <2>3. Cardinality(pins \cup other) = Cardinality(pins) + Cardinality(other) - Cardinality(pins \cap other)
      BY <1>6, <2>2, FS_Union
    <2>4. Cardinality(pins \cap other) = 0
      BY <2>1, FS_EmptySet
    <2>5. Cardinality(other) \in Nat
      BY <1>11 DEF other
    <2>6. Cardinality(pins \cup other) = Cardinality(pins) + Cardinality(other)
      <3> DEFINE x == Cardinality(pins)
                 y == Cardinality(other)
      <3>1. x \in Nat /\ y \in Nat /\ Cardinality(pins \cup other) = x + y - 0
        BY <1>6, <2>3, <2>4, <2>5
      <3> HIDE DEF x, y
      <3>2. Cardinality(pins \cup other) = x + y
        BY <3>1
      <3> QED
        BY <3>2 DEF x, y
    <2> QED
      BY <2>1, <2>6 DEF other
  <1>13. k \in Nat /\ k = IF TopK < Cardinality(near \ pins) THEN 0 ELSE TopK - Cardinality(near \ pins)
    BY <1>6, <1>9, <1>11, <1>12, Constants DEF AtLeast
  <1>14. rest \in SUBSET (1..n)
    BY <1>7
  <1> HIDE DEF k, rest, near
  <1>15. best \subseteq rest /\ IsFiniteSet(best) /\ Cardinality(best) <= k
    BY <1>13, <1>14, BestAreFew
  <1>16. Cardinality(best) \in Nat
    BY <1>15, FS_CardinalityType
  <1>17. near \cup best \subseteq selected
    BY <1>8, <1>15 DEF rest
  <1> HIDE DEF best
  <1>18. Cardinality((near \cup best) \ pins) <= Cardinality(near \ pins) + Cardinality(best)
    <2> DEFINE a == near \ pins
               b == best \ pins
    <2>1. (near \cup best) \ pins = a \cup b
      OBVIOUS
    <2>2. IsFiniteSet(b) /\ Cardinality(b) <= Cardinality(best) /\ Cardinality(b) \in Nat
      BY <1>15, FS_Subset, FS_CardinalityType
    <2>3. IsFiniteSet(a) /\ Cardinality(a) \in Nat
      BY <1>11
    <2> HIDE DEF a, b
    <2>4. Cardinality(a \cup b) = Cardinality(a) + Cardinality(b) - Cardinality(a \cap b)
      BY <2>2, <2>3, FS_Union
    <2>5. Cardinality(a \cap b) \in Nat
      <3>1. a \cap b \in SUBSET a
        OBVIOUS
      <3> QED
        BY <2>3, <3>1, FS_Subset, FS_CardinalityType
    <2>6. Cardinality(a \cup b) <= Cardinality(a) + Cardinality(best)
      <3> DEFINE x == Cardinality(a)
                 y == Cardinality(b)
                 z == Cardinality(a \cap b)
                 u == Cardinality(best)
                 r == Cardinality(a \cup b)
      <3>1. x \in Nat /\ y \in Nat /\ z \in Nat /\ u \in Nat /\ y <= u /\ r = x + y - z
        BY <1>16, <2>2, <2>3, <2>4, <2>5
      <3> HIDE DEF x, y, z, u, r
      <3>2. r <= x + u
        BY <3>1
      <3> QED
        BY <3>2 DEF x, u, r
    <2> QED
      BY <2>1, <2>6 DEF a
  <1>19. Cardinality((near \cup best) \ pins) \in Nat
    <2>1. (near \cup best) \ pins \in SUBSET (1..n)
      BY <1>7, <1>17
    <2> QED
      BY <1>5, <2>1, FS_Subset, FS_CardinalityType
  <1>20. Cardinality((near \cup best) \ pins) <= AtLeast(2 * Window + 1, TopK)
    <2> DEFINE x == Cardinality((near \cup best) \ pins)
               a == Cardinality(near \ pins)
               b == Cardinality(best)
    <2>1. /\ x \in Nat /\ a \in Nat /\ b \in Nat /\ x <= a + b /\ a <= 2 * Window + 1 /\ b <= k
          /\ k = IF TopK < a THEN 0 ELSE TopK - a
      BY <1>11, <1>13, <1>15, <1>16, <1>18, <1>19
    <2> HIDE DEF x, a, b
    <2> QED
      BY <2>1, Constants DEF AtLeast, x
  <1> QED
    BY <1>1, <1>3, <1>8, <1>17, <1>20 DEF pins, selected

LEMMA ShardsCover ==
    ASSUME NEW tokens \in Nat
    PROVE  UNION {Shard(tokens, s) : s \in 1..Shards(tokens)} = 1..tokens
  <1> DEFINE k == Shards(tokens)
             a == tokens + k - 1
             size == a \div k
  <1>1. k \in Nat /\ k > 0
    <2>1. SafeTokens \in Nat /\ SafeTokens > 0 /\ tokens + SafeTokens - 1 \in Nat
      BY Constants
    <2>2. (tokens + SafeTokens - 1) \div SafeTokens \in Nat
      BY <2>1, DivFacts
    <2> QED
      BY <2>2 DEF Shards, AtLeast
  <1>2. \A s : Shard(tokens, s) = {t \in 1..tokens : t > (s - 1) * size /\ t <= s * size}
    BY DEF Shard
  <1> HIDE DEF k
  <1>3. a \in Nat /\ a = tokens + k - 1
    BY <1>1
  <1> HIDE DEF a
  <1>4. size \in Nat /\ a < k * size + k
    BY <1>1, <1>3, DivFacts
  <1> HIDE DEF size
  <1>5. k * size \in Nat /\ tokens <= k * size
    <2> DEFINE x == k * size
    <2>1. x \in Nat
      BY <1>1, <1>4
    <2>2. a < x + k
      BY <1>4
    <2> HIDE DEF x
    <2>3. tokens <= x
      BY <1>1, <1>3, <2>1, <2>2
    <2> QED
      BY <2>1, <2>3 DEF x
  <1>6. ASSUME NEW t \in 1..tokens PROVE \E s \in 1..k : t \in Shard(tokens, s)
    <2> DEFINE reach == {s \in Nat : t <= s * size}
    <2>1. t \in Nat /\ t > 0 /\ t <= tokens
      OBVIOUS
    <2>2. t <= k * size
      <3> DEFINE x == k * size
      <3>1. x \in Nat /\ tokens <= x
        BY <1>5
      <3> HIDE DEF x
      <3>2. t <= x
        BY <2>1, <3>1
      <3> QED
        BY <3>2 DEF x
    <2>3. k \in reach /\ reach \subseteq Nat
      BY <1>1, <2>2
    <2>4. \A s : s \in reach <=> s \in Nat /\ t <= s * size
      OBVIOUS
    <2> HIDE DEF reach
    <2>5. PICK s \in reach : \A r \in reach : s <= r
      BY <2>3, LeastNumber
    <2>6. s \in Nat /\ t <= s * size /\ s <= k
      BY <2>3, <2>4, <2>5
    <2>7. s # 0
      <3>1. s = 0 => s * size = 0
        BY <1>4
      <3> QED
        BY <2>1, <2>6, <3>1
    <2>8. s - 1 \in Nat /\ ~(s <= s - 1) /\ s \in 1..k
      BY <1>1, <2>6, <2>7
    <2>9. ~(t <= (s - 1) * size) /\ (s - 1) * size \in Nat
      BY <1>4, <2>4, <2>5, <2>8
    <2>10. t > (s - 1) * size
      <3> DEFINE x == (s - 1) * size
      <3>1. x \in Nat /\ ~(t <= x)
        BY <2>9
      <3> HIDE DEF x
      <3>2. t > x
        BY <2>1, <3>1
      <3> QED
        BY <3>2 DEF x
    <2>11. t \in Shard(tokens, s)
      BY <1>2, <2>6, <2>10
    <2> QED
      BY <2>8, <2>11
  <1>7. \A s \in 1..k : Shard(tokens, s) \subseteq 1..tokens
    BY <1>2
  <1>8. UNION {Shard(tokens, s) : s \in 1..k} = 1..tokens
    BY <1>6, <1>7
  <1> QED
    BY <1>8 DEF k

-----------------------------------------------------------------------------
(* What the store and the turn hold.                                       *)

Fields == {"user", "recent", "hits", "pins", "failed", "kept", "traces", "got"}

StoreHolds ==
    /\ chunks \subseteq Memories \cup {h.id : h \in Stored} /\ IsFiniteSet(chunks)
    /\ raw \subseteq Memories /\ pinned \subseteq Memories /\ everRaw \subseteq Memories
    /\ derived \subseteq Jobs
    /\ IsFiniteSet(traces)
    /\ \A j \in Jobs : "raw" \in DOMAIN seenBy[j] => seenBy[j]["raw"] \subseteq Memories
    /\ \A r \in runs : r.candidates \subseteq Memories

TurnReads ==
    /\ phase \in {"idle", "reading", "recovering", "tracing", "model"}
    /\ DOMAIN in = Fields /\ Reading(in)

\* A plan is what the packing makes of the reading it was made from.
PlanMade ==
    /\ plan.scores \subseteq 0..1000 /\ IsFiniteSet(plan.trace)
    /\ Planned => plan.packed = Packed(in) /\ plan.blocks = Blocks(in, plan.packed.memories)

\* The inductive invariant behind the properties of the prompt.
PlanInv == StoreHolds /\ TurnReads /\ PlanMade

LEMMA StoredIdsAreFinite == IsFiniteSet({h.id : h \in Stored})
  <1> DEFINE ids == {h.id : h \in Stored}
             id == [h \in Stored |-> h.id]
  <1>1. IsFiniteSet(Stored)
    BY LoopBounds
  <1>2. id \in Surjection(Stored, ids)
    BY DEF Surjection
  <1> HIDE DEF ids, id
  <1>3. IsFiniteSet(ids)
    BY <1>1, <1>2, FS_Surjection
  <1> QED
    BY <1>3 DEF ids

LEMMA NothingRead == DOMAIN Empty = Fields /\ Reading(Empty)
  <1>1. Empty.hits = <<>> /\ Empty.hits = [i \in 1..0 |-> Empty.hits[i]]
    BY DEF Empty
  <1>2. IsHits(Empty.hits) /\ \A h \in Range(Empty.hits) : h.id \in Memories => h.id \in h.lineage
    BY <1>1 DEF IsHits, Range
  <1>3. Empty.recent \in Seq(Nat) /\ Empty.user \in Nat
    BY DEF Empty
  <1>4. /\ DOMAIN Empty = Fields
        /\ Empty.pins = {} /\ Empty.got = {} /\ Empty.traces = {}
    BY DEF Empty, Fields
  <1> QED
    BY <1>2, <1>3, <1>4, FS_EmptySet DEF Reading

LEMMA NothingPlanned == NoPlan.scores \subseteq 0..1000 /\ IsFiniteSet(NoPlan.trace)
  BY FS_EmptySet DEF NoPlan

LEMMA InitPlan == Init => PlanInv
  <1> SUFFICES ASSUME Init PROVE PlanInv
    OBVIOUS
  <1>1. StoreHolds
    <2>1. IsFiniteSet(chunks) /\ IsFiniteSet(traces)
      BY StoredIdsAreFinite, LoopBounds DEF Init
    <2>2. \A j \in Jobs : DOMAIN seenBy[j] = {}
      BY DEF Init, NothingSeen
    <2> QED
      BY <2>1, <2>2 DEF Init, StoreHolds
  <1>2. TurnReads
    BY NothingRead DEF Init, TurnReads
  <1>3. PlanMade
    BY NothingPlanned DEF Init, PlanMade, Planned
  <1> QED
    BY <1>1, <1>2, <1>3 DEF PlanInv

-----------------------------------------------------------------------------
(* Steps of jobs and of other clients.                                     *)

LEMMA IngestHolds ==
    ASSUME StoreHolds, JobTypes, Ingest
    PROVE  StoreHolds'
  <1>1. PICK j \in Jobs :
            \/ WriteChunks(j)
            \/ WriteExact(j) /\ UNCHANGED <<chunks, audits, derived, runs, traces, seenBy, guarded>>
            \/ WriteDerived(j) \/ Consolidate(j)
            \/ \E l \in Lists : ReadList(j, l)
    BY DEF Ingest
  <1>2. Contents[j] \subseteq Memories /\ IsFiniteSet(Contents[j])
    BY LoopBounds
  <1>3. CASE WriteChunks(j)
    <2>1. IsFiniteSet(chunks')
      BY <1>2, <1>3, FS_Union DEF WriteChunks, StoreHolds
    <2> QED
      BY <1>2, <1>3, <2>1 DEF WriteChunks, StoreHolds
  <1>4. CASE WriteExact(j) /\ UNCHANGED <<chunks, audits, derived, runs, traces, seenBy, guarded>>
    BY <1>2, <1>4 DEF WriteExact, OwnPins, StoreHolds
  <1>5. CASE WriteDerived(j)
    BY <1>5 DEF WriteDerived, StoreHolds
  <1>6. CASE Consolidate(j)
    <2> DEFINE taken == Candidates(seenBy[j]["raw"], seenBy[j]["pins"], seenBy[j]["audits"])
    <2>1. /\ seenBy' = [seenBy EXCEPT ![j] = NothingSeen]
          /\ UNCHANGED <<chunks, raw, pinned, derived, traces, everRaw>>
          /\ \A r \in runs' : r \in runs \/ r = [job |-> j, candidates |-> taken]
      BY <1>6 DEF Consolidate
    <2>2. taken \subseteq Memories
      BY <1>6 DEF Consolidate, Candidates, StoreHolds, Lists
    <2> HIDE DEF taken
    <2>3. \A k \in Jobs : "raw" \in DOMAIN seenBy'[k] => seenBy'[k]["raw"] \subseteq Memories
      <3>1. DOMAIN seenBy'[j] = {} /\ \A k \in Jobs : k # j => seenBy'[k] = seenBy[k]
        BY <2>1 DEF JobTypes, NothingSeen
      <3> QED
        BY <3>1 DEF StoreHolds
    <2>4. \A r \in runs' : r.candidates \subseteq Memories
      BY <2>1, <2>2 DEF StoreHolds
    <2> QED
      BY <2>1, <2>3, <2>4 DEF StoreHolds
  <1>7. ASSUME NEW l \in Lists, ReadList(j, l) PROVE StoreHolds'
    <2> DEFINE rows == CASE l = "raw" -> raw [] l = "pins" -> pinned [] OTHER -> Failed(audits)
               seen == [k \in DOMAIN seenBy[j] \cup {l} |-> IF k = l THEN rows ELSE seenBy[j][k]]
    <2>1. UNCHANGED <<chunks, raw, pinned, derived, runs, traces, everRaw>>
      BY <1>7 DEF ReadList, store
    <2>2. seenBy' = [seenBy EXCEPT ![j] = seen]
      BY <1>7 DEF ReadList
    <2>3. l = "raw" => rows = raw
      OBVIOUS
    <2> HIDE DEF rows
    <2>4. "raw" \in DOMAIN seen => seen["raw"] \subseteq Memories
      BY <2>3 DEF StoreHolds
    <2> HIDE DEF seen
    <2>5. \A k \in Jobs : "raw" \in DOMAIN seenBy'[k] => seenBy'[k]["raw"] \subseteq Memories
      BY <2>2, <2>4 DEF StoreHolds, JobTypes
    <2> QED
      BY <2>1, <2>5 DEF StoreHolds
  <1> QED
    BY <1>1, <1>3, <1>4, <1>5, <1>6, <1>7

LEMMA OthersHold ==
    ASSUME StoreHolds, Others
    PROVE  StoreHolds'
  <1>1. UNCHANGED <<seenBy, everRaw>>
    BY DEF Others, jobVars
  <1>2. /\ chunks' \subseteq chunks /\ raw' \subseteq raw /\ pinned' \subseteq pinned \cup raw
        /\ derived' \subseteq derived /\ runs' \subseteq runs /\ traces' \subseteq traces
    <2>1. ASSUME NEW set, DeleteRows(set)
          PROVE  raw' \subseteq raw /\ pinned' \subseteq pinned /\ traces' \subseteq traces
      BY <2>1 DEF DeleteRows
    <2> QED
      BY <2>1 DEF Others, Audit, Pin, Delete, DeleteScope
  <1>3. IsFiniteSet(chunks') /\ IsFiniteSet(traces')
    BY <1>2, FS_Subset DEF StoreHolds
  <1> QED
    BY <1>1, <1>2, <1>3 DEF StoreHolds

-----------------------------------------------------------------------------
(* Steps of a turn.                                                        *)

Thousandths == 0..1000

LEMMA RescoredIsHit ==
    ASSUME NEW h, IsHit(h), NEW score \in Thousandths, NEW k, k = [h EXCEPT !.score = score]
    PROVE  IsHit(k) /\ k.id = h.id /\ k.lineage = h.lineage
  BY DEF IsHit, Thousandths

LEMMA FoundIsHit ==
    ASSUME NEW id \in Memories \cup {h.id : h \in Stored}, NEW score \in Thousandths
    PROVE  /\ IsHit(Hit(id, score))
           /\ Hit(id, score).id \in Memories => Hit(id, score).id \in Hit(id, score).lineage
  <1> DEFINE h == IF id \in Memories THEN Ingested(id) ELSE CHOOSE x \in Stored : x.id = id
  <1>1. IsHit(h) /\ (h.id \in Memories => h.id \in h.lineage)
    <2>1. CASE id \in Memories
      BY <2>1, IngestedIsHit, HitFields
    <2>2. CASE id \notin Memories
      <3>1. h \in Stored /\ h.id = id
        BY <2>2
      <3> QED
        BY <2>2, <3>1, StoredAreHits
    <2> QED
      BY <2>1, <2>2
  <1>2. Hit(id, score) = [h EXCEPT !.score = score]
    BY DEF Hit
  <1> DEFINE k == [h EXCEPT !.score = score]
  <1> HIDE DEF h
  <1>3. IsHit(k) /\ k.id = h.id /\ k.lineage = h.lineage
    <2>1. k = [h EXCEPT !.score = score]
      OBVIOUS
    <2> HIDE DEF k
    <2> QED
      BY <1>1, <2>1, RescoredIsHit
  <1> QED
    BY <1>1, <1>2, <1>3

LEMMA SearchReads ==
    ASSUME StoreHolds, Search
    PROVE  DOMAIN in' = Fields /\ Reading(in')
  <1>1. PICK r \in Searches, user \in Messages, recent \in Recents :
            in' = [Empty EXCEPT !.hits = [i \in DOMAIN r |-> Hit(r[i][1], r[i][2])],
                                !.user = user, !.recent = recent]
    BY DEF Search
  <1>2. PICK found \in SUBSET chunks : r \in [1..Cardinality(found) -> found \X Scores]
    BY DEF Searches
  <1> DEFINE n == Cardinality(found)
             hits == [i \in DOMAIN r |-> Hit(r[i][1], r[i][2])]
  <1>3. n \in Nat
    BY FS_Subset, FS_CardinalityType DEF StoreHolds
  <1>4. /\ hits = [i \in 1..n |-> hits[i]]
        /\ \A i \in 1..n : IsHit(hits[i]) /\ (hits[i].id \in Memories => hits[i].id \in hits[i].lineage)
    <2>1. ASSUME NEW i \in 1..n
          PROVE  r[i][1] \in Memories \cup {h.id : h \in Stored} /\ r[i][2] \in Thousandths
      <3>1. r[i] \in found \X Scores
        BY <1>2
      <3>2. r[i][1] \in chunks /\ r[i][2] \in Scores
        BY <3>1
      <3>3. Scores \subseteq Thousandths
        BY LoopBounds DEF Thousandths
      <3> QED
        BY <3>2, <3>3 DEF StoreHolds
    <2>2. hits = [i \in 1..n |-> hits[i]] /\ \A i \in 1..n : hits[i] = Hit(r[i][1], r[i][2])
      BY <1>2
    <2> HIDE DEF hits
    <2>3. ASSUME NEW i \in 1..n
          PROVE  IsHit(hits[i]) /\ (hits[i].id \in Memories => hits[i].id \in hits[i].lineage)
      <3>1. hits[i] = Hit(r[i][1], r[i][2])
        BY <2>2
      <3>2. r[i][1] \in Memories \cup {h.id : h \in Stored} /\ r[i][2] \in Thousandths
        BY <2>1
      <3> QED
        BY <3>1, <3>2, FoundIsHit
    <2> QED
      BY <2>2, <2>3
  <1>5. /\ DOMAIN in' = Fields
        /\ in'.hits = hits /\ in'.user = user /\ in'.recent = recent
        /\ in'.pins = {} /\ in'.got = {} /\ in'.traces = {}
    BY <1>1 DEF Empty, Fields
  <1> HIDE DEF hits, n
  <1>6. /\ hits \in Seq(Range(hits))
        /\ \A h \in Range(hits) : \E i \in 1..n : hits[i] = h
    BY <1>3, <1>4, SeqShape
  <1>7. IsHits(hits) /\ \A h \in Range(hits) : h.id \in Memories => h.id \in h.lineage
    BY <1>4, <1>6 DEF IsHits
  <1>8. user \in Nat /\ recent \in Seq(Nat)
    BY LoopBounds
  <1> QED
    BY <1>5, <1>7, <1>8, FS_EmptySet DEF Reading

LEMMA SignalReads ==
    ASSUME StoreHolds, TurnReads, NEW l \in {"traces", "pins", "audits"}, ReadSignal(l)
    PROVE  DOMAIN in' = Fields /\ Reading(in')
  <1>1. DOMAIN in = Fields /\ Reading(in)
    BY DEF TurnReads
  <1>2. CASE l = "traces"
    <2>1. in' = [in EXCEPT !.traces = traces]
      BY <1>2 DEF ReadSignal
    <2>2. /\ DOMAIN in' = Fields /\ in'.traces = traces
          /\ in'.user = in.user /\ in'.recent = in.recent /\ in'.hits = in.hits
          /\ in'.pins = in.pins /\ in'.got = in.got
      BY <1>1, <2>1 DEF Fields
    <2> QED
      BY <1>1, <2>2 DEF Reading, StoreHolds
  <1>3. CASE l = "pins"
    <2>1. in' = [in EXCEPT !.pins = pinned]
      BY <1>3 DEF ReadSignal
    <2>2. /\ DOMAIN in' = Fields /\ in'.pins = pinned
          /\ in'.user = in.user /\ in'.recent = in.recent /\ in'.hits = in.hits
          /\ in'.traces = in.traces /\ in'.got = in.got
      BY <1>1, <2>1 DEF Fields
    <2> QED
      BY <1>1, <2>2 DEF Reading, StoreHolds
  <1>4. CASE l = "audits"
    <2>1. in' = [in EXCEPT !.failed = Failed(audits), !.kept = Kept(audits)]
      BY <1>4 DEF ReadSignal
    <2>2. /\ DOMAIN in' = Fields /\ in'.pins = in.pins
          /\ in'.user = in.user /\ in'.recent = in.recent /\ in'.hits = in.hits
          /\ in'.traces = in.traces /\ in'.got = in.got
      BY <1>1, <2>1 DEF Fields
    <2> QED
      BY <1>1, <2>2 DEF Reading
  <1> QED
    BY <1>2, <1>3, <1>4

LEMMA RawReads ==
    ASSUME StoreHolds, TurnReads, NEW m \in Memories, ReadRaw(m)
    PROVE  DOMAIN in' = Fields /\ Reading(in')
  <1>1. DOMAIN in = Fields /\ Reading(in)
    BY DEF TurnReads
  <1> DEFINE more == in.got \cup ({m} \cap raw)
  <1>2. in' = [in EXCEPT !.got = more]
    BY DEF ReadRaw
  <1>3. more \subseteq Memories /\ IsFiniteSet(more)
    <2>1. IsFiniteSet({m} \cap raw)
      BY FS_Singleton, FS_Subset
    <2> QED
      BY <1>1, <2>1, FS_Union DEF Reading
  <1> HIDE DEF more
  <1>4. /\ DOMAIN in' = Fields /\ in'.got = more
        /\ in'.user = in.user /\ in'.recent = in.recent /\ in'.hits = in.hits
        /\ in'.traces = in.traces /\ in'.pins = in.pins
    BY <1>1, <1>2 DEF Fields
  <1> QED
    BY <1>1, <1>3, <1>4 DEF Reading

LEMMA PlanIsMade ==
    ASSUME TurnReads, MakePlan
    PROVE  PlanMade'
  <1>1. PICK alike \in {{}, DOMAIN Blocks(in, Packed(in).memories)} :
            plan' = [packed |-> Packed(in), blocks |-> Blocks(in, Packed(in).memories), alike |-> alike,
                     scores |-> {FinalScore(in, h) : h \in Range(Visible(in))},
                     trace |-> {[included |-> Packed(in).memories,
                                 raws |-> UNION {IF h.direct = {} THEN {h.id} ELSE h.direct :
                                                    h \in {k \in Range(Visible(in)) : k.id \in Packed(in).memories}}]}]
    BY DEF MakePlan
  <1>2. \A h \in Range(Visible(in)) : FinalScore(in, h) \in 0..1000
    <2>1. \A h \in Range(Visible(in)) : IsHit(h)
      BY VisibleFacts, HitsShape DEF TurnReads
    <2>2. IsFiniteSet(in.traces)
      BY DEF TurnReads, Reading
    <2> QED
      BY <2>1, <2>2, ScoreRange
  <1>3. plan'.scores = {FinalScore(in, h) : h \in Range(Visible(in))}
    BY <1>1
  <1>4. plan'.packed = Packed(in) /\ plan'.blocks = Blocks(in, Packed(in).memories)
    BY <1>1
  <1>5. IsFiniteSet(plan'.trace)
    BY <1>1, FS_Singleton
  <1>6. in' = in
    BY DEF MakePlan
  <1> QED
    BY <1>2, <1>3, <1>4, <1>5, <1>6 DEF PlanMade

LEMMA TurnHolds ==
    ASSUME PlanInv, Turn
    PROVE  PlanInv'
  <1>1. StoreHolds /\ TurnReads /\ PlanMade
    BY DEF PlanInv
  <1>2. UNCHANGED <<chunks, raw, pinned, derived, runs, seenBy, everRaw>>
    BY TurnLeaves DEF jobVars
  <1>3. ASSUME traces' = traces PROVE StoreHolds'
    BY <1>1, <1>2, <1>3 DEF StoreHolds
  <1>4. CASE Search
    <2>1. TurnReads'
      BY <1>1, <1>4, SearchReads DEF Search, TurnReads
    <2>2. PlanMade'
      BY <1>1, <1>4 DEF Search, PlanMade, Planned
    <2> QED
      BY <1>3, <1>4, <2>1, <2>2 DEF Search, store, PlanInv
  <1>5. CASE AskRaw
    BY <1>1, <1>3, <1>5 DEF AskRaw, store, PlanInv, TurnReads, PlanMade, Planned
  <1>6. CASE MakePlan
    <2>1. TurnReads'
      BY <1>1, <1>6 DEF MakePlan, TurnReads
    <2> QED
      BY <1>1, <1>3, <1>6, <2>1, PlanIsMade DEF MakePlan, store, PlanInv
  <1>7. CASE TurnFails \/ Answered
    <2>1. phase' = "idle" /\ in' = Empty /\ plan' = NoPlan /\ traces' = traces
      BY <1>7 DEF TurnFails, Answered, store
    <2>2. TurnReads' /\ PlanMade'
      BY <2>1, NothingRead, NothingPlanned DEF TurnReads, PlanMade, Planned
    <2> QED
      BY <1>3, <2>1, <2>2 DEF PlanInv
  <1>8. CASE WriteTrace
    <2>1. phase = "tracing" /\ phase' = "model" /\ traces' = traces \cup plan.trace /\ in' = in /\ plan' = plan
      BY <1>8 DEF WriteTrace
    <2>2. IsFiniteSet(traces')
      BY <1>1, <2>1, FS_Union DEF StoreHolds, PlanMade
    <2>3. StoreHolds'
      BY <1>1, <1>2, <2>2 DEF StoreHolds
    <2>4. TurnReads' /\ PlanMade'
      BY <1>1, <2>1 DEF TurnReads, PlanMade, Planned
    <2> QED
      BY <2>3, <2>4 DEF PlanInv
  <1>9. ASSUME NEW l \in {"traces", "pins", "audits"}, ReadSignal(l) PROVE PlanInv'
    <2>1. phase = "reading" /\ phase' = phase /\ plan' = plan /\ traces' = traces
      BY <1>9 DEF ReadSignal, store
    <2>2. TurnReads' /\ PlanMade'
      BY <1>1, <1>9, <2>1, SignalReads DEF TurnReads, PlanMade, Planned
    <2> QED
      BY <1>3, <2>1, <2>2 DEF PlanInv
  <1>10. ASSUME NEW m \in Memories, ReadRaw(m) PROVE PlanInv'
    <2>1. phase = "recovering" /\ phase' = phase /\ plan' = plan /\ traces' = traces
      BY <1>10 DEF ReadRaw, store
    <2>2. TurnReads' /\ PlanMade'
      BY <1>1, <1>10, <2>1, RawReads DEF TurnReads, PlanMade, Planned
    <2> QED
      BY <1>3, <2>1, <2>2 DEF PlanInv
  <1> QED
    BY <1>4, <1>5, <1>6, <1>7, <1>8, <1>9, <1>10 DEF Turn

LEMMA PlanKeeps == PlanInv /\ LoopInv /\ [Next]_vars => PlanInv'
  <1> SUFFICES ASSUME PlanInv, LoopInv, [Next]_vars PROVE PlanInv'
    OBVIOUS
  <1>1. ASSUME StoreHolds', UNCHANGED <<phase, in, plan>> PROVE PlanInv'
    BY <1>1 DEF PlanInv, TurnReads, PlanMade, Planned
  <1>2. CASE Ingest
    BY <1>1, <1>2, IngestHolds DEF Ingest, turnVars, PlanInv, LoopInv
  <1>3. CASE Others
    BY <1>1, <1>3, OthersHold DEF Others, turnVars, PlanInv
  <1>4. CASE UNCHANGED vars
    BY <1>1, <1>4 DEF vars, store, jobVars, turnVars, PlanInv, StoreHolds
  <1> QED
    BY <1>2, <1>3, <1>4, TurnHolds DEF Next

LEMMA PlanIsInvariant == Spec => []PlanInv
  BY InitPlan, PlanKeeps, LoopIsInvariant, PTL DEF Spec

-----------------------------------------------------------------------------
(* What was deleted.                                                       *)

\* It is in no table that a turn takes memories from, and no job is to write
\* it again; a turn that began later has not read it.
DeletedInv ==
    /\ gone \cap (chunks \cup raw) = {}
    /\ \A j \in Jobs : job[j] \in {"idle", "raw"} => gone \cap Contents[j] = {}
    /\ out \subseteq gone
    /\ phase # "idle" => /\ \A h \in Range(in.hits) : h.id \notin out
                         /\ in.got \cap out = {}

LEMMA ShownWasRead ==
    ASSUME NEW g, Reading(g), NEW id \in Packed(g).memories
    PROVE  id \in g.got \/ \E h \in Range(g.hits) : h.id = id
  <1> DEFINE c == Chosen(g)
  <1>1. c \in Seq(Range(Visible(g)))
    BY ChosenFits
  <1>2. PICK i \in DOMAIN c : id = c[i].id
    BY DEF Packed, Ids
  <1> HIDE DEF c
  <1>3. c[i] \in Range(Visible(g))
    BY <1>1, <1>2
  <1>4. c[i] \in Range(Augmented(g))
    BY <1>3, VisibleFacts
  <1>5. c[i] \in Range(g.hits) \/ \E m \in g.got : c[i] = Recovered(g, m)
    BY <1>4, AugmentedFacts
  <1> QED
    BY <1>2, <1>5 DEF Recovered

LEMMA IngestForgets ==
    ASSUME DeletedInv, JobTypes, Ingest
    PROVE  DeletedInv'
  <1>1. PICK j \in Jobs :
            \/ WriteChunks(j)
            \/ WriteExact(j) /\ UNCHANGED <<chunks, audits, derived, runs, traces, seenBy, guarded>>
            \/ WriteDerived(j) \/ Consolidate(j)
            \/ \E l \in Lists : ReadList(j, l)
    BY DEF Ingest
  <1>2. UNCHANGED <<gone, out, phase, in>>
    BY DEF Ingest, turnVars
  <1>3. chunks' \subseteq chunks \cup IF job[j] = "idle" THEN Contents[j] ELSE {}
    BY <1>1 DEF WriteChunks, WriteDerived, Consolidate, ReadList, Step, store
  <1>4. raw' \subseteq raw \cup IF job[j] = "raw" THEN Contents[j] ELSE {}
    BY <1>1 DEF WriteChunks, WriteExact, WriteDerived, Consolidate, ReadList, Step, store
  <1>5. \A k \in Jobs : job'[k] \in {"idle", "raw"} => job[k] \in {"idle", "raw"}
    BY <1>1 DEF WriteChunks, WriteExact, WriteDerived, Consolidate, ReadList, Step, JobTypes
  <1> QED
    BY <1>2, <1>3, <1>4, <1>5 DEF DeletedInv

LEMMA OthersForget ==
    ASSUME DeletedInv, Others
    PROVE  DeletedInv'
  <1>1. UNCHANGED <<job, out, phase, in>>
    BY DEF Others, jobVars, turnVars
  <1>2. CASE Audit \/ Pin
    BY <1>1, <1>2 DEF Audit, Pin, DeletedInv
  <1>3. CASE Delete
    <2>1. PICK set : /\ chunks' = chunks \ set
                     /\ gone' = gone \cup (set \ Unwritten)
                     /\ DeleteRows(set) \/ DeleteScope
      BY <1>3 DEF Delete
    <2>2. raw' \subseteq raw \ set
      BY <2>1 DEF DeleteRows, DeleteScope
    <2>3. \A j \in Jobs : job'[j] \in {"idle", "raw"} => gone' \cap Contents[j] = {}
      BY <1>1, <2>1 DEF DeletedInv, Unwritten
    <2> QED
      BY <1>1, <2>1, <2>2, <2>3 DEF DeletedInv
  <1> QED
    BY <1>2, <1>3 DEF Others

\* A search finds chunks.
LEMMA SearchFinds ==
    ASSUME StoreHolds, Search
    PROVE  in'.got = {} /\ \A h \in Range(in'.hits) : h.id \in chunks
  <1>1. PICK r \in Searches, user \in Messages, recent \in Recents :
            in' = [Empty EXCEPT !.hits = [i \in DOMAIN r |-> Hit(r[i][1], r[i][2])],
                                !.user = user, !.recent = recent]
    BY DEF Search
  <1>2. PICK found \in SUBSET chunks : r \in [1..Cardinality(found) -> found \X Scores]
    BY DEF Searches
  <1> DEFINE hits == [i \in DOMAIN r |-> Hit(r[i][1], r[i][2])]
  <1>3. in'.hits = hits /\ in'.got = {}
    BY <1>1 DEF Empty
  <1>4. ASSUME NEW i \in DOMAIN r PROVE hits[i].id \in chunks
    <2> DEFINE id == r[i][1]
               score == r[i][2]
               h == IF id \in Memories THEN Ingested(id) ELSE CHOOSE k \in Stored : k.id = id
    <2>1. id \in chunks /\ id \in Memories \cup {k.id : k \in Stored} /\ score \in Thousandths
      <3>1. r[i] \in found \X Scores
        BY <1>2
      <3>2. id \in chunks /\ score \in Scores
        BY <3>1
      <3>3. Scores \subseteq Thousandths
        BY LoopBounds DEF Thousandths
      <3> QED
        BY <3>2, <3>3 DEF StoreHolds
    <2>2. h.id = id /\ IsHit(h)
      BY <2>1, StoredAreHits, IngestedIsHit, HitFields DEF Ingested
    <2>3. Hit(id, score) = [h EXCEPT !.score = score]
      BY DEF Hit
    <2>4. hits[i] = Hit(id, score)
      OBVIOUS
    <2> HIDE DEF h, hits, id, score
    <2>5. hits[i].id = h.id
      BY <2>1, <2>2, <2>3, <2>4, RescoredIsHit
    <2> QED
      BY <2>1, <2>2, <2>5
  <1>5. \A h \in Range(hits) : \E i \in DOMAIN r : h = hits[i]
    BY DEF Range
  <1> HIDE DEF hits
  <1> QED
    BY <1>3, <1>4, <1>5

LEMMA TurnForgets ==
    ASSUME DeletedInv, PlanInv, Turn
    PROVE  DeletedInv'
  <1>1. UNCHANGED <<chunks, raw, job, gone>>
    BY TurnLeaves DEF Turn, jobVars
  <1>2. CASE Search
    <2>1. out' = gone
      BY <1>2 DEF Search
    <2> QED
      BY <1>1, <1>2, <2>1, SearchFinds DEF DeletedInv, PlanInv
  <1>3. CASE TurnFails \/ Answered
    BY <1>1, <1>3 DEF TurnFails, Answered, DeletedInv
  <1>4. ASSUME phase # "idle", out' = out, in'.hits = in.hits, in'.got \subseteq in.got \cup raw
        PROVE  DeletedInv'
    BY <1>1, <1>4 DEF DeletedInv
  <1>5. CASE AskRaw \/ MakePlan \/ WriteTrace
    BY <1>4, <1>5 DEF AskRaw, MakePlan, WriteTrace
  <1>6. DOMAIN in = Fields
    BY DEF PlanInv, TurnReads
  <1>7. ASSUME NEW l \in {"traces", "pins", "audits"}, ReadSignal(l) PROVE DeletedInv'
    <2>1. in'.hits = in.hits /\ in'.got = in.got
      BY <1>6, <1>7 DEF ReadSignal, Fields
    <2> QED
      BY <1>4, <1>7, <2>1 DEF ReadSignal
  <1>8. ASSUME NEW m \in Memories, ReadRaw(m) PROVE DeletedInv'
    <2> DEFINE more == in.got \cup ({m} \cap raw)
    <2>1. in' = [in EXCEPT !.got = more] /\ more \subseteq in.got \cup raw
      BY <1>8 DEF ReadRaw
    <2> HIDE DEF more
    <2>2. in'.hits = in.hits /\ in'.got = more
      BY <1>6, <2>1 DEF Fields
    <2> QED
      BY <1>4, <1>8, <2>1, <2>2 DEF ReadRaw
  <1> QED
    BY <1>2, <1>3, <1>5, <1>7, <1>8 DEF Turn

LEMMA DeletedKeeps == DeletedInv /\ PlanInv /\ LoopInv /\ [Next]_vars => DeletedInv'
  <1> SUFFICES ASSUME DeletedInv, PlanInv, LoopInv, [Next]_vars PROVE DeletedInv'
    OBVIOUS
  <1>1. CASE UNCHANGED vars
    BY <1>1 DEF vars, store, jobVars, turnVars, DeletedInv
  <1>2. JobTypes
    BY DEF LoopInv
  <1> QED
    BY <1>1, <1>2, IngestForgets, OthersForget, TurnForgets DEF Next

LEMMA DeletedIsInvariant == Spec => []DeletedInv
  <1>1. Init => DeletedInv
    BY DEF Init, DeletedInv
  <1> QED
    BY <1>1, DeletedKeeps, PlanIsInvariant, LoopIsInvariant, PTL DEF Spec

-----------------------------------------------------------------------------
(* The theorems about the prompt.                                          *)

\* Every reading of the store stays what the code takes it for, and no
\* adaptive score leaves 0..1 (clampUnit of calculateAdaptiveFinalScore).
THEOREM TypeCorrect == Spec => []TypeOK
  <1>1. ASSUME PlanInv, LoopInv PROVE TypeOK
    <2>1. StoreHolds /\ TurnReads /\ PlanMade /\ JobTypes
      BY <1>1 DEF PlanInv, LoopInv
    <2>2. in.pins \subseteq Memories /\ in.got \subseteq Memories
      BY <2>1 DEF TurnReads, Reading
    <2>3. job \in [Jobs -> JobStages]
      BY <2>1 DEF JobTypes
    <2>4. plan.scores \subseteq 0..1000
      BY <2>1 DEF PlanMade
    <2>5. phase \in {"idle", "reading", "recovering", "tracing", "model"}
      BY <2>1 DEF TurnReads
    <2> QED
      BY <2>1, <2>2, <2>3, <2>4, <2>5 DEF TypeOK, StoreHolds, JobStages
  <1> QED
    BY <1>1, PlanIsInvariant, LoopIsInvariant, PTL

\* packContextWithinBudget: the prompt fits the window whatever was retrieved,
\* a user message is never squeezed out of it, and memories are shown whole.
THEOREM PromptIsFit == Spec => []PromptFits
  <1>1. PlanInv => PromptFits
    BY PackedFits DEF PlanInv, TurnReads, PlanMade, PromptFits
  <1> QED
    BY <1>1, PlanIsInvariant, PTL

\* A pin that was seen, and whose raw memory was read, is shown, itself or in
\* a memory that names it, unless others that scored 1 left no room for it.
THEOREM PinsAreShown == Spec => []PinsReachThePrompt
  <1>1. PlanInv => PinsReachThePrompt
    <2> SUFFICES ASSUME PlanInv, Planned, NEW m \in in.pins \cap in.got
                 PROVE  \E h \in Hits :
                          /\ m \in h.direct \cup {h.id}
                          /\ \/ h.id \in plan.packed.memories
                             \/ ~Fits(in, Select(ByScore(in, Visible(in)),
                                              LAMBDA g : g.id \in plan.packed.memories /\ FinalScore(in, g) = 1000), h)
      BY DEF PinsReachThePrompt
    <2> DEFINE s == ByScore(in, Visible(in))
               t == At(s, Line(BestChosen(in, s)))
    <2>1. Reading(in) /\ plan.packed.memories = Ids(Chosen(in))
      BY DEF PlanInv, TurnReads, PlanMade, Packed
    <2>2. Select(s, LAMBDA g : g.id \in plan.packed.memories /\ FinalScore(in, g) = 1000) = t
      BY <2>1 DEF Select, InOrder, Line, BestChosen
    <2>3. \E h \in Range(Visible(in)) :
            m \in h.direct \cup {h.id} /\ (h.id \in Ids(Chosen(in)) \/ ~Fits(in, t, h))
      <3> HIDE DEF t
      <3>1. s = ByScore(in, Visible(in)) /\ t = At(s, Line(BestChosen(in, s)))
        BY DEF t
      <3> HIDE DEF s
      <3> QED
        BY <2>1, <3>1, PinsReach
    <2> QED
      BY <2>1, <2>2, <2>3 DEF Hits, Select, InOrder
  <1> QED
    BY <1>1, PlanIsInvariant, PTL

\* No prompt shows a memory that was deleted, its raw text written, before
\* the turn began - though its ingestion may write its pin afterwards, and the
\* turn ask for it (deleteMemory, writeImmediateGacIngestionPlan).
THEOREM DeletedIsNotShown == Spec => []DeletedStaysOut
  <1>1. DeletedInv /\ PlanInv => DeletedStaysOut
    <2> SUFFICES ASSUME DeletedInv, PlanInv, Planned, NEW id \in plan.packed.memories
                 PROVE  id \notin out
      BY DEF DeletedStaysOut
    <2>1. Reading(in) /\ plan.packed = Packed(in) /\ phase # "idle"
      BY DEF PlanInv, TurnReads, PlanMade, Planned
    <2>2. id \in in.got \/ \E h \in Range(in.hits) : h.id = id
      BY <2>1, ShownWasRead
    <2> QED
      BY <2>1, <2>2 DEF DeletedInv
  <1> QED
    BY <1>1, DeletedIsInvariant, PlanIsInvariant, PTL

\* Every query block attends to the message and to what must be attended
\* (selectBlocksForQueryBlock), within its budget; what is selected is in
\* video memory or fetched, and buildTSPSchedule loses no token.
THEOREM PinsAreAttended == Spec => []PlanKeepsPins
  <1>1. PlanInv => PlanKeepsPins
    <2> SUFFICES ASSUME PlanInv, phase = "tracing" PROVE PlanKeepsPins
      BY DEF PlanKeepsPins
    <2>1. Reading(in) /\ plan.packed = Packed(in) /\ plan.blocks = Blocks(in, plan.packed.memories)
      BY DEF PlanInv, TurnReads, PlanMade, Planned
    <2>2. PICK n : IsBlocks(plan.blocks, n)
      BY <2>1, BlocksShape
    <2>3. Selected(plan.blocks) \subseteq InVram(plan.blocks) \cup Prefetched(plan.blocks, plan.alike)
      BY DEF HotPages, Prefetched
    <2>4. plan.packed.estimate \in Nat
      BY <2>1, PackedFits
    <2> QED
      BY <2>2, <2>3, <2>4, RouteFacts, ShardsCover DEF PlanKeepsPins
  <1> QED
    BY <1>1, PlanIsInvariant, PTL
=============================================================================
