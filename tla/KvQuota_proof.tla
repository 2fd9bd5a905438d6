---------------------------- MODULE KvQuota_proof ----------------------------
(***************************************************************************)
(* Proofs about the quota of persisted KV blocks: the loop of              *)
(* planQuotaEviction returns one of the plans of KvQuota, for every set of *)
(* blocks, every quota and every listing; and the namespace that           *)
(* KvSwapStore's clients share, with such plans, is within its quota at    *)
(* rest, for any number of clients.                                        *)
(*                                                                         *)
(* QuotaAtRest says nothing while a persist is between its sections, so it *)
(* is not inductive.  QuotaInv is: as soon as every written batch has been *)
(* listed, deleting what the outstanding plans name settles the namespace. *)
(* A listing makes it true whatever the other plans are, since taking more *)
(* blocks away never brings a settled set over quota; executing a plan     *)
(* moves its blocks from the plans out of the directory.                   *)
(***************************************************************************)
EXTENDS KvSwapStore, KvQuotaLoop, FiniteSetTheorems, TLAPS

-----------------------------------------------------------------------------
(* The loop.                                                               *)

Unpinned == Read \ pinned

\* What the loop has done so far: the evicted blocks come first in the order
\* of the sorted array, and the last of them was taken while over quota.
LoopInv ==
    /\ pinned \subseteq Read
    /\ at \in [Read -> Times]
    /\ evicted \subseteq Unpinned
    /\ evictable = Unpinned \ evicted
    /\ remaining = Read \ evicted
    /\ \A p \in evicted, q \in evictable : at[p] <= at[q]
    /\ evicted # {} => \E last \in evicted :
          /\ \A p \in evicted : at[p] <= at[last]
          /\ Over(remaining \cup {last})
    /\ returned => ~Over(remaining) \/ evictable = {}

LEMMA LoopInitHolds == LoopInit => LoopInv
BY DEF LoopInit, LoopInv, Unpinned

LEMMA EvictOneHolds ==
    ASSUME LoopInv, EvictOne
    PROVE  LoopInv'
<1>1. PICK b \in evictable :
          /\ \A c \in evictable : Before(b, c)
          /\ evictable' = evictable \ {b}
          /\ evicted' = evicted \cup {b}
          /\ remaining' = remaining \ {b}
  BY DEF EvictOne
<1>2. Read' = Read /\ Unpinned' = Unpinned /\ pinned' = pinned /\ at' = at
  BY DEF EvictOne, Read, Unpinned
<1>3. b \in Unpinned /\ b \notin evicted
  BY DEF LoopInv
<1>4. \A p \in Read : at[p] \in Nat
  BY TimesAreNumbers DEF LoopInv
<1>5. \A q \in evictable : at[b] <= at[q]
  <2>1. SUFFICES ASSUME NEW q \in evictable PROVE at[b] <= at[q]
    OBVIOUS
  <2>2. Before(b, q) /\ b \in Read /\ q \in Read
    BY <1>1 DEF LoopInv, Unpinned
  <2> QED
    BY <2>2, <1>4 DEF Before
<1>6. \A p \in evicted' : at[p] <= at[b]
  BY <1>1, <1>3, <1>4 DEF LoopInv, Unpinned
<1>7. Over(remaining' \cup {b})
  <2>1. remaining' \cup {b} = remaining
    BY <1>1, <1>3 DEF LoopInv, Unpinned
  <2> QED
    BY <2>1 DEF EvictOne
<1>8. evicted' # {} => \E last \in evicted' :
          (\A p \in evicted' : at'[p] <= at'[last]) /\ Over(remaining' \cup {last})
  BY <1>1, <1>2, <1>6, <1>7
<1>9. \A p \in evicted', q \in evictable' : at'[p] <= at'[q]
  BY <1>1, <1>2, <1>5 DEF LoopInv
<1>10. ~returned'
  BY DEF EvictOne
<1> QED
  BY <1>1, <1>2, <1>3, <1>8, <1>9, <1>10 DEF LoopInv, Over

LEMMA LoopNextHolds == LoopInv /\ [LoopNext]_loopVars => LoopInv'
<1> SUFFICES ASSUME LoopInv, [LoopNext]_loopVars PROVE LoopInv'
  OBVIOUS
<1>1. CASE Return
  BY <1>1 DEF Return, LoopInv, Unpinned, Read, Over
<1>2. CASE UNCHANGED loopVars
  BY <1>2 DEF loopVars, LoopInv, Unpinned, Read, Over
<1> QED
  BY <1>1, <1>2, EvictOneHolds DEF LoopNext

\* planQuotaEviction never names a pinned block, takes the least recently
\* used first and takes no more than it needs.
THEOREM LoopMeetsPolicy == LoopSpec => []ReturnsAPlan
<1>1. LoopInv => ReturnsAPlan
  <2> SUFFICES ASSUME LoopInv, returned PROVE evicted \in Plans(Read, pinned, at)
    BY DEF ReturnsAPlan
  <2>1. Over(Read \ evicted) => evicted = Unpinned
    BY DEF LoopInv
  <2> QED
    BY <2>1 DEF LoopInv, Plans, Unpinned
<1> QED
  BY <1>1, LoopInitHolds, LoopNextHolds, PTL DEF LoopSpec

-----------------------------------------------------------------------------
(* The stores.                                                             *)

Planned == UNION {plan[c] : c \in Clients}

PlansAreDue == \A c \in Clients : pc[c] # "evicting" => plan[c] = {}

QuotaInv ==
    (\A c \in Clients : pc[c] # "listing") /\ ~debt => Settled(Records \ Planned)

IInv == TypeOK /\ PlansAreDue /\ QuotaInv

-----------------------------------------------------------------------------
\* What is over quota stays over quota with more blocks.
LEMMA OverGrows ==
    ASSUME NEW S, NEW T \in SUBSET Blocks, S \subseteq T, Over(S)
    PROVE  Over(T)
<1>1. IsFiniteSet(T) /\ IsFiniteSet(S)
  BY FewBlocks, FS_Subset
<1>2. Cardinality(S) <= Cardinality(T) /\ Cardinality(S) \in Nat /\ Cardinality(T) \in Nat
  BY <1>1, FS_Subset, FS_CardinalityType
<1>3. Weight[S] <= Weight[T] /\ Weight[S] \in Nat /\ Weight[T] \in Nat
  <2>1. S \in SUBSET Blocks
    OBVIOUS
  <2> QED
    BY <2>1, Weights
<1> QED
  BY <1>2, <1>3, Quotas DEF Over

\* A plan of the code settles the blocks it was made for.
LEMMA PlanSettles ==
    ASSUME NEW used, NEW P \in Plans(Records, Pinned, used)
    PROVE  P \subseteq Records /\ Settled(Records \ P)
BY DEF Plans, Settled, Pinned

\* Deleting files keeps the type of file (TypeOK!1) and the other records.
LEMMA Deletion ==
    ASSUME TypeOK, NEW X, file' = Without(X)
    PROVE  /\ TypeOK!1'
           /\ Records' = Records \ X
           /\ Pinned' = Pinned \ X
BY DEF TypeOK, Without, Records, Pinned, Record, Absent, Torn

\* Quarantine removes no record.
LEMMA QuarantineKeeps ==
    ASSUME TypeOK, NEW S, Quarantine(S)
    PROVE  /\ TypeOK!1'
           /\ Records' = Records
           /\ Pinned' = Pinned
<1> DEFINE X == {b \in S : file[b].is = "torn"}
<1>1. file' = Without(X)
  BY DEF Quarantine
<1>2. Records \cap X = {} /\ Pinned \cap X = {}
  BY DEF Records, Pinned
<1> QED
  BY <1>1, <1>2, Deletion

\* A step that only deletes files and drops no more plans than it executes
\* keeps the namespace settled.
LEMMA DeletionKeepsQuota ==
    ASSUME TypeOK, QuotaInv, NEW X, file' = Without(X),
           Planned \subseteq Planned' \cup X,
           (\A c \in Clients : pc'[c] # "listing") => \A c \in Clients : pc[c] # "listing",
           debt' = debt
    PROVE  QuotaInv'
<1> SUFFICES ASSUME \A c \in Clients : pc'[c] # "listing", ~debt'
             PROVE  Settled(Records \ Planned)'
  BY DEF QuotaInv
<1>1. Settled(Records \ Planned)
  BY DEF QuotaInv
<1>2. Records' = Records \ X /\ Pinned' = Pinned \ X
  BY Deletion
<1>3. Records' \ Planned' \subseteq Records \ Planned
  BY <1>2
<1>4. Records \ Planned \in SUBSET Blocks
  BY DEF Records
<1>5. CASE ~Over(Records \ Planned)
  <2>1. ~Over(Records' \ Planned')
    BY <1>3, <1>4, <1>5, OverGrows
  <2> QED
    BY <2>1 DEF Settled, Over
<1>6. CASE Records \ Planned \subseteq Pinned
  <2>1. Records' \ Planned' \subseteq Pinned'
    BY <1>2, <1>3, <1>6
  <2> QED
    BY <2>1 DEF Settled
<1> QED
  BY <1>1, <1>5, <1>6 DEF Settled

-----------------------------------------------------------------------------
LEMMA InitHolds == Init => IInv
<1> SUFFICES ASSUME Init PROVE IInv
  OBVIOUS
<1>1. TypeOK
  BY DEF Init, TypeOK
<1>2. PlansAreDue
  BY DEF Init, PlansAreDue
<1>3. Records = {}
  BY DEF Init, Records, Absent
<1>4. Settled(Records \ Planned)
  BY <1>3 DEF Settled
<1> QED
  BY <1>1, <1>2, <1>4 DEF IInv, QuotaInv

\* A step that leaves pc, plan and debt alone and deletes files.
LEMMA PlainDeletion ==
    ASSUME IInv, NEW X, file' = Without(X), UNCHANGED <<pc, plan, debt>>
    PROVE  IInv'
<1>1. TypeOK'
  BY Deletion DEF IInv, TypeOK
<1>2. PlansAreDue'
  BY DEF IInv, PlansAreDue
<1>3. QuotaInv'
  <2>1. Planned' = Planned
    BY DEF Planned
  <2> QED
    BY <2>1, DeletionKeepsQuota DEF IInv
<1> QED
  BY <1>1, <1>2, <1>3 DEF IInv

LEMMA WriteStep ==
    ASSUME IInv, NEW c \in Clients, Write(c)
    PROVE  IInv'
<1>1. file' \in [Blocks -> Record \cup {Absent, Torn}]
  <2>1. PICK S \in SUBSET Blocks \ {{}} : \E new \in [S -> Record] :
            file' = [b \in Blocks |-> IF b \in S THEN new[b] ELSE file[b]]
    BY DEF Write
  <2> QED
    BY <2>1 DEF IInv, TypeOK
<1>2. TypeOK'
  BY <1>1 DEF IInv, TypeOK, Write, Goto
<1>3. PlansAreDue'
  BY DEF IInv, TypeOK, PlansAreDue, Write, Goto
<1>4. pc'[c] = "listing"
  BY DEF IInv, TypeOK, Write, Goto
<1>5. QuotaInv'
  BY <1>4 DEF QuotaInv
<1> QED
  BY <1>2, <1>3, <1>5 DEF IInv

LEMMA WriteStopsStep ==
    ASSUME IInv, NEW c \in Clients, WriteStops(c)
    PROVE  IInv'
<1>1. file' \in [Blocks -> Record \cup {Absent, Torn}]
  <2>1. PICK S \in SUBSET Blocks : \E new \in [S -> Record] :
        \E cut \in {{}} \cup {{b} : b \in Blocks \ S} :
            file' = [b \in Blocks |-> IF b \in S THEN new[b]
                                      ELSE IF b \in cut THEN Torn ELSE file[b]]
    BY DEF WriteStops
  <2> QED
    BY <2>1 DEF IInv, TypeOK
<1>2. TypeOK'
  BY <1>1 DEF IInv, TypeOK, WriteStops
<1>3. PlansAreDue' /\ QuotaInv'
  BY DEF IInv, PlansAreDue, QuotaInv, WriteStops
<1> QED
  BY <1>2, <1>3 DEF IInv

LEMMA ListForQuotaStep ==
    ASSUME IInv, NEW c \in Clients, ListForQuota(c)
    PROVE  IInv'
<1>1. PICK P \in Plans(Records, Pinned, [b \in Blocks |-> file[b].at]) :
          /\ plan' = [plan EXCEPT ![c] = P]
          /\ pc' = [pc EXCEPT ![c] = IF P = {} THEN "idle" ELSE "evicting"]
  BY DEF ListForQuota, Goto
<1>2. P \subseteq Records /\ Settled(Records \ P)
  BY PlanSettles
<1>3. /\ file' \in [Blocks -> Record \cup {Absent, Torn}]
      /\ Records' = Records
      /\ Pinned' = Pinned
  BY QuarantineKeeps DEF IInv, TypeOK, ListForQuota
<1>4. P \subseteq Blocks
  BY <1>2 DEF Records
<1>5. TypeOK'
  BY <1>1, <1>3, <1>4 DEF IInv, TypeOK, ListForQuota
<1>6. PlansAreDue'
  BY <1>1 DEF IInv, TypeOK, PlansAreDue
<1>7. P \subseteq Planned'
  BY <1>1 DEF IInv, TypeOK, Planned
<1>8. Settled(Records \ Planned)'
  <2>1. Records' \ Planned' \subseteq Records \ P
    BY <1>3, <1>7
  <2>2. Records \ P \in SUBSET Blocks
    BY DEF Records
  <2>3. CASE ~Over(Records \ P)
    <3>1. ~Over(Records' \ Planned')
      BY <2>1, <2>2, <2>3, OverGrows
    <3> QED
      BY <3>1 DEF Settled, Over
  <2>4. CASE Records \ P \subseteq Pinned
    <3>1. Records' \ Planned' \subseteq Pinned'
      BY <2>1, <2>4, <1>3
    <3> QED
      BY <3>1 DEF Settled
  <2> QED
    BY <1>2, <2>3, <2>4 DEF Settled
<1> QED
  BY <1>5, <1>6, <1>8 DEF IInv, QuotaInv

LEMMA EvictPlanStep ==
    ASSUME IInv, NEW c \in Clients, EvictPlan(c)
    PROVE  IInv'
<1>1. TypeOK'
  BY Deletion DEF IInv, TypeOK, EvictPlan, Goto
<1>2. PlansAreDue'
  BY DEF IInv, TypeOK, PlansAreDue, EvictPlan, Goto
<1>3. Planned \subseteq Planned' \cup plan[c]
  BY DEF IInv, TypeOK, Planned, EvictPlan
<1>4. \A d \in Clients : pc[d] = "listing" => pc'[d] = "listing"
  BY DEF IInv, TypeOK, EvictPlan, Goto
<1>5. QuotaInv'
  BY <1>3, <1>4, DeletionKeepsQuota DEF IInv, EvictPlan
<1> QED
  BY <1>1, <1>2, <1>5 DEF IInv

LEMMA PersistStopsStep ==
    ASSUME IInv, NEW c \in Clients, PersistStops(c)
    PROVE  IInv'
<1>1. TypeOK'
  BY Deletion DEF IInv, TypeOK, PersistStops, Goto
<1>2. PlansAreDue'
  BY DEF IInv, TypeOK, PlansAreDue, PersistStops, Goto
<1>3. QuotaInv'
  BY DEF QuotaInv, PersistStops
<1> QED
  BY <1>1, <1>2, <1>3 DEF IInv

\* clear moves its client between "idle" and "clearing" only.
LEMMA ClearStep ==
    ASSUME IInv, NEW c \in Clients, NEW X, file' = Without(X),
           pc[c] \in {"idle", "clearing"}, UNCHANGED <<plan, debt>>,
           NEW s \in {"idle", "clearing"}, pc' = [pc EXCEPT ![c] = s]
    PROVE  IInv'
<1>1. TypeOK'
  BY Deletion DEF IInv, TypeOK
<1>2. PlansAreDue'
  BY DEF IInv, TypeOK, PlansAreDue
<1>3. \A d \in Clients : pc[d] = "listing" => pc'[d] = "listing"
  BY DEF IInv, TypeOK
<1>4. Planned' = Planned
  BY DEF Planned
<1>5. QuotaInv'
  BY <1>3, <1>4, DeletionKeepsQuota DEF IInv
<1> QED
  BY <1>1, <1>2, <1>5 DEF IInv

-----------------------------------------------------------------------------
LEMMA NextHolds == IInv /\ [Next]_vars => IInv'
<1> SUFFICES ASSUME IInv, [Next]_vars PROVE IInv'
  OBVIOUS
<1>1. ASSUME NEW c \in Clients, Load(c) PROVE IInv'
  <2>1. PICK b \in Blocks : Quarantine({b})
    BY <1>1 DEF Load
  <2> QED
    BY <1>1, <2>1, PlainDeletion DEF Load, Quarantine
<1>2. ASSUME NEW c \in Clients, List(c) PROVE IInv'
  BY <1>2, PlainDeletion DEF List, Quarantine
<1>3. ASSUME NEW c \in Clients, Remove(c) PROVE IInv'
  BY <1>3, PlainDeletion DEF Remove
<1>4. ASSUME NEW c \in Clients, ClearList(c) PROVE IInv'
  BY <1>4, ClearStep DEF ClearList, Quarantine, Goto
<1>5. ASSUME NEW c \in Clients, ClearFiles(c) PROVE IInv'
  BY <1>5, ClearStep DEF ClearFiles, Goto
<1>6. ASSUME NEW c \in Clients, ClearStops(c) PROVE IInv'
  BY <1>6, ClearStep DEF ClearStops, Goto
<1>7. CASE UNCHANGED vars
  BY <1>7 DEF vars, IInv, TypeOK, PlansAreDue, QuotaInv, Planned, Settled,
              Records, Pinned, Over
<1> QED
  BY <1>1, <1>2, <1>3, <1>4, <1>5, <1>6, <1>7, WriteStep, WriteStopsStep,
     ListForQuotaStep, EvictPlanStep, PersistStopsStep DEF Next, Step

LEMMA Invariance == Spec => []IInv
BY InitHolds, NextHolds, PTL DEF Spec

\* The variables keep their types, whatever the clients do.
THEOREM StoreTypes == Spec => []TypeOK
<1>1. IInv => TypeOK
  BY DEF IInv
<1> QED
  BY <1>1, Invariance, PTL

\* Interleaved persists of any number of clients leave the namespace within
\* its quota, or over it with pinned blocks only, once all have finished.
THEOREM QuotaKept == Spec => []QuotaAtRest
<1>1. IInv => QuotaAtRest
  <2> SUFFICES ASSUME IInv, Idle, ~debt PROVE Settled(Records)
    BY DEF QuotaAtRest
  <2>1. Planned = {}
    BY DEF IInv, PlansAreDue, Planned, Idle
  <2>2. Settled(Records \ Planned)
    BY DEF IInv, QuotaInv, Idle
  <2>3. Records \ Planned = Records
    BY <2>1
  <2> QED
    BY <2>2, <2>3
<1> QED
  BY <1>1, Invariance, PTL
=============================================================================
