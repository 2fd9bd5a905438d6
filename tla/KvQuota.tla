------------------------------ MODULE KvQuota ------------------------------
(***************************************************************************)
(* The eviction policy of the persisted KV blocks: planQuotaEviction in    *)
(* kvSwapPersistence.ts, as what it may return.  KvQuotaLoop models the    *)
(* loop that computes it, KvSwapStore the stores that act on it.           *)
(*                                                                         *)
(* A block is its id.  The bytes of a set of blocks are given by Weight;   *)
(* the code sums max(0, byteLength), so more blocks never weigh less.      *)
(***************************************************************************)
EXTENDS Naturals, FiniteSets

CONSTANTS
    Blocks,    \* ids of the blocks of one namespace
    MaxBlocks, \* the quota in blocks ...
    MaxBytes,  \* ... and in bytes
    Weight,    \* bytes of each set of blocks
    Times      \* values of lastAccessAt

ASSUME FewBlocks == IsFiniteSet(Blocks)
ASSUME Quotas == MaxBlocks \in Nat /\ MaxBytes \in Nat
ASSUME Weights ==
    /\ Weight \in [SUBSET Blocks -> Nat]
    /\ \A S, T \in SUBSET Blocks : S \subseteq T => Weight[S] <= Weight[T]

ASSUME TimesAreNumbers == Times \subseteq Nat

\* isOverQuota
Over(S) == Cardinality(S) > MaxBlocks \/ Weight[S] > MaxBytes

\* The sets planQuotaEviction may choose among the blocks R: unpinned blocks,
\* least recently used first, as few as bring R within the quota, or all of
\* them.  Blocks used at the same time go in the order of the directory.
Plans(R, pinned, at) ==
    {P \in SUBSET (R \ pinned) :
        /\ \A p \in P, q \in (R \ pinned) \ P : at[p] <= at[q]
        /\ Over(R \ P) => P = R \ pinned
        /\ P # {} => \E last \in P :
              /\ \A p \in P : at[p] <= at[last]
              /\ Over((R \ P) \cup {last})}
=============================================================================
