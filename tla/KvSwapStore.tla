---------------------------- MODULE KvSwapStore ----------------------------
(***************************************************************************)
(* The binary OPFS store of persisted KV blocks (BinaryOpfsKVSwapPersistence *)
(* in kvSwapPersistence.ts): one file per block in one namespace, used by  *)
(* several clients at once - the model workers of the tabs that share a    *)
(* session.                                                                *)
(*                                                                         *)
(* Every access runs in an exclusive Web Lock (withCoordination), so one   *)
(* lock section is one step.  But persist takes the lock three times, to   *)
(* write, to list for the quota and to delete what the plan evicts, and    *)
(* clear twice: other clients' sections come in between.  A client may     *)
(* stop inside a section (the tab is closed, the disk is full, a handle    *)
(* cannot be opened) and leave its work half done; a file cut while it was *)
(* written does not decode and is removed by whoever reads it next.        *)
(***************************************************************************)
EXTENDS KvQuota

CONSTANT Clients \* users of the directory

VARIABLES
    file,  \* what each block's file holds
    pc,    \* the section each client's operation takes next
    plan,  \* the blocks each client's persist is about to evict
    debt   \* history: a persist stopped before it had enforced the quota

vars == <<file, pc, plan, debt>>

Absent == [is |-> "absent", pinned |-> FALSE, at |-> 0]
Torn   == [is |-> "torn", pinned |-> FALSE, at |-> 0]
Record == [is : {"record"}, pinned : BOOLEAN, at : Times]

Records == {b \in Blocks : file[b].is = "record"}
Pinned  == {b \in Records : file[b].pinned}

Init ==
    /\ file = [b \in Blocks |-> Absent]
    /\ pc = [c \in Clients |-> "idle"]
    /\ plan = [c \in Clients |-> {}]
    /\ debt = FALSE

Goto(c, section) == pc' = [pc EXCEPT ![c] = section]

\* Files of S are gone.
Without(S) == [b \in Blocks |-> IF b \in S THEN Absent ELSE file[b]]

\* Reading removes what does not decode or validate.
Quarantine(S) == file' = Without({b \in S : file[b].is = "torn"})

-----------------------------------------------------------------------------
(* persist                                                                 *)

\* First section: the batch is written file by file.
Write(c) ==
    /\ pc[c] = "idle"
    /\ \E S \in SUBSET Blocks \ {{}} : \E new \in [S -> Record] :
          file' = [b \in Blocks |-> IF b \in S THEN new[b] ELSE file[b]]
    /\ Goto(c, "listing")
    /\ UNCHANGED <<plan, debt>>

\* Mutant: no checksum, so a file cut while written reads as a block.
CutWithoutChecksum(c) ==
    /\ pc[c] = "idle"
    /\ \E S \in SUBSET Blocks : \E new \in [S -> Record] :
       \E cut \in {{}} \cup {{b} : b \in Blocks \ S} :
          file' = [b \in Blocks |-> IF b \in S THEN new[b]
                                    ELSE IF b \in cut THEN [Torn EXCEPT !.is = "record"]
                                    ELSE file[b]]
    /\ debt' = TRUE
    /\ UNCHANGED <<pc, plan>>

\* The batch stops after S; cut is the file that was being written, if any.
\* persist throws before evictOverBudget.
WriteStops(c) ==
    /\ pc[c] = "idle"
    /\ \E S \in SUBSET Blocks : \E new \in [S -> Record] :
       \E cut \in {{}} \cup {{b} : b \in Blocks \ S} :
          file' = [b \in Blocks |-> IF b \in S THEN new[b]
                                    ELSE IF b \in cut THEN Torn ELSE file[b]]
    /\ debt' = TRUE
    /\ UNCHANGED <<pc, plan>>

\* Mutant: quota planned from the blocks on the list, least recent first,
\* but without counting the pinned ones.
ListUnpinned(c) ==
    /\ pc[c] = "listing"
    /\ Quarantine(Blocks)
    /\ \E P \in Plans(Records \ Pinned, {}, [b \in Blocks |-> file[b].at]) :
          /\ plan' = [plan EXCEPT ![c] = P]
          /\ Goto(c, IF P = {} THEN "idle" ELSE "evicting")
    /\ debt' = FALSE

\* Second section: evictOverBudget hydrates the namespace and plans.
ListForQuota(c) ==
    /\ pc[c] = "listing"
    /\ Quarantine(Blocks)
    /\ \E P \in Plans(Records, Pinned, [b \in Blocks |-> file[b].at]) :
          /\ plan' = [plan EXCEPT ![c] = P]
          /\ Goto(c, IF P = {} THEN "idle" ELSE "evicting")
    /\ debt' = FALSE

\* Third section: what was planned is deleted, with no second look.
EvictPlan(c) ==
    /\ pc[c] = "evicting"
    /\ file' = Without(plan[c])
    /\ plan' = [plan EXCEPT ![c] = {}]
    /\ Goto(c, "idle")
    /\ UNCHANGED debt

\* What the section of a persist was about to delete.
Doomed(c) == IF pc[c] = "listing" THEN {b \in Blocks : file[b].is = "torn"}
                                  ELSE plan[c]

\* The client stops between the sections, or inside one.
PersistStops(c) ==
    /\ pc[c] \in {"listing", "evicting"}
    /\ \E S \in SUBSET Doomed(c) : file' = Without(S)
    /\ plan' = [plan EXCEPT ![c] = {}]
    /\ Goto(c, "idle")
    /\ debt' = TRUE

-----------------------------------------------------------------------------
(* load, list and hydrate; delete and evict; clear                         *)

Load(c) ==
    /\ pc[c] = "idle"
    /\ \E b \in Blocks : Quarantine({b})
    /\ UNCHANGED <<pc, plan, debt>>

List(c) ==
    /\ pc[c] = "idle"
    /\ Quarantine(Blocks)
    /\ UNCHANGED <<pc, plan, debt>>

\* delete of one block, evict of several, stopped or not.
Remove(c) ==
    /\ pc[c] = "idle"
    /\ \E S \in SUBSET Blocks : file' = Without(S)
    /\ UNCHANGED <<pc, plan, debt>>

\* clear lists what it will report ...
ClearList(c) ==
    /\ pc[c] = "idle"
    /\ Quarantine(Blocks)
    /\ Goto(c, "clearing")
    /\ UNCHANGED <<plan, debt>>

\* ... and deletes every file of the namespace in a second section.
ClearFiles(c) ==
    /\ pc[c] = "clearing"
    /\ file' = Without(Blocks)
    /\ Goto(c, "idle")
    /\ UNCHANGED <<plan, debt>>

ClearStops(c) ==
    /\ pc[c] = "clearing"
    /\ \E S \in SUBSET Blocks : file' = Without(S)
    /\ Goto(c, "idle")
    /\ UNCHANGED <<plan, debt>>

-----------------------------------------------------------------------------
Step(c) ==
    \/ Write(c) \/ WriteStops(c) \/ ListForQuota(c) \/ EvictPlan(c) \/ PersistStops(c)
    \/ Load(c) \/ List(c) \/ Remove(c)
    \/ ClearList(c) \/ ClearFiles(c) \/ ClearStops(c)

Next == \E c \in Clients : Step(c)

Spec == Init /\ [][Next]_vars

-----------------------------------------------------------------------------
(* Properties.                                                             *)

TypeOK ==
    /\ file \in [Blocks -> Record \cup {Absent, Torn}]
    /\ pc \in [Clients -> {"idle", "listing", "evicting", "clearing"}]
    /\ plan \in [Clients -> SUBSET Blocks]
    /\ debt \in BOOLEAN

\* Within the quota, or over it with pinned blocks only.
Settled(S) == ~Over(S) \/ S \subseteq Pinned

Idle == \A c \in Clients : pc[c] = "idle"

\* When no operation is in progress the namespace respects its quota, however
\* the sections of the clients interleaved, unless a persist was cut and none
\* has completed a listing since.
QuotaAtRest == Idle /\ ~debt => Settled(Records)

=============================================================================
