---------------------------- MODULE KvQuotaLoop ----------------------------
(***************************************************************************)
(* The loop of planQuotaEviction, from every listing of a namespace: sort  *)
(* the unpinned blocks by lastAccessAt (a stable sort), then shift them    *)
(* off one by one while what remains is over quota.                        *)
(***************************************************************************)
EXTENDS KvQuota, Sequences

VARIABLES
    listing,   \* the blocks read, in directory order
    pinned, at,
    remaining,
    evictable, \* unpinned blocks not yet considered
    evicted,
    returned

loopVars == <<listing, pinned, at, remaining, evictable, evicted, returned>>

Listings ==
    {s \in UNION {[1..n -> Blocks] : n \in 0..Cardinality(Blocks)} :
        \A i, j \in DOMAIN s : s[i] = s[j] => i = j}

Read == {listing[i] : i \in DOMAIN listing}

LoopInit ==
    /\ listing \in Listings
    /\ pinned \in SUBSET Read
    /\ at \in [Read -> Times]
    /\ remaining = Read
    /\ evictable = Read \ pinned
    /\ evicted = {}
    /\ returned = FALSE

Place(b) == CHOOSE i \in DOMAIN listing : listing[i] = b

\* Mutant: sorted by b.lastAccessAt - a.lastAccessAt.
NewestFirst(b, c) == at[b] > at[c] \/ (at[b] = at[c] /\ Place(b) <= Place(c))

\* The order of the sorted array.
Before(b, c) == at[b] < at[c] \/ (at[b] = at[c] /\ Place(b) <= Place(c))

EvictOne ==
    /\ ~returned
    /\ Over(remaining)
    /\ \E b \in evictable :
          /\ \A c \in evictable : Before(b, c)
          /\ evictable' = evictable \ {b}
          /\ evicted' = evicted \cup {b}
          /\ remaining' = remaining \ {b}
    /\ UNCHANGED <<listing, pinned, at, returned>>

\* Mutant: `while (isOverQuota(...))` without evictable.length > 0.
ReturnWithinQuota ==
    /\ ~returned
    /\ ~Over(remaining)
    /\ returned' = TRUE
    /\ UNCHANGED <<listing, pinned, at, remaining, evictable, evicted>>

Return ==
    /\ ~returned
    /\ ~Over(remaining) \/ evictable = {}
    /\ returned' = TRUE
    /\ UNCHANGED <<listing, pinned, at, remaining, evictable, evicted>>

LoopNext == EvictOne \/ Return

LoopSpec == LoopInit /\ [][LoopNext]_loopVars /\ WF_loopVars(LoopNext)

-----------------------------------------------------------------------------
(* Properties.                                                             *)

\* The loop returns one of the plans the stores rely on: unpinned blocks
\* only, the least recently used ones, and no more than needed.
ReturnsAPlan == returned => evicted \in Plans(Read, pinned, at)

\* The loop returns, also when pinned blocks alone exceed the quota.
Returns == <>returned
=============================================================================
