------------------------------ MODULE KvReuse ------------------------------
(***************************************************************************)
(* The persisted prefill of the unlocked client: what a stream leaves to   *)
(* be persisted, what comes back when a client starts or prefetches, and   *)
(* when a stream may start from it instead of computing its own prefill.   *)
(*                                                                         *)
(* The worker of a client runs one operation at a time, so its stream,     *)
(* flush and clear do not overlap.  Other tabs on the same namespace write *)
(* and remove blocks at any time.  A row of a layer's q, k, v and hidden   *)
(* is named by the weights and the text it is computed from.               *)
(***************************************************************************)
EXTENDS Naturals, Sequences, FiniteSets

CONSTANTS
    Versions,      \* model fingerprints under one model id
    Tokens,
    Prompts,       \* prefillTokenIds
    NewTokens,     \* tokens a decode may feed
    Layers, BlockSize,
    Hash(_),       \* tokenHash
    MaxFed         \* tokens fed by one stream

ASSUME LayersAreNumbered == Layers = 0..(Cardinality(Layers) - 1) /\ Layers # {}
ASSUME BlocksHoldTokens == BlockSize \in Nat \ {0}
ASSUME PrefillsAreTokens == Prompts \subseteq Seq(Tokens) \ {<<>>} /\ NewTokens \subseteq Tokens

VARIABLES
    store,      \* the blocks of the namespace
    stage,      \* "off", "idle" or "streaming"
    version,    \* modelFingerprint()
    hydrated,   \* hydratedKvBlocks
    cache,      \* kvCacheHandle of the current stream
    slot,       \* the cache pendingKvPersistStarter will serialize
    scheduled   \* it is the current stream's

vars == <<store, stage, version, hydrated, cache, slot, scheduled>>

None == [prompt |-> <<>>]

First(s, n) == SubSeq(s, 1, n)
Rows(v, text) == [i \in 1..Len(text) |-> <<v, First(text, i)>>]

Init ==
    /\ store = {}
    /\ stage = "off"
    /\ version \in Versions
    /\ hydrated = {}
    /\ cache = None
    /\ slot = None
    /\ scheduled = FALSE

-----------------------------------------------------------------------------
(* Blocks.                                                                 *)

\* Mutant: the blocks are cut at what was fed, not at the prefill.
CacheLength(x) == Len(x.fed)

\* The prefill of a cache that may have grown since.
PrefillLength(x) == Len(x.prompt)

\* serializeKvCacheBlocks: the blocks of the layers the last pass got to.
Serialized(x) ==
    LET last == PrefillLength(x)
        starts == {i \in 0..(last - 1) : i % BlockSize = 0}
        End(i) == IF i + BlockSize < last THEN i + BlockSize ELSE last
    IN {[id |-> <<Hash(x.prompt), l, i>>, version |-> x.version, prompt |-> x.prompt,
         layer |-> l, from |-> i, to |-> End(i),
         rows |-> SubSeq(x.rows[l], i + 1, End(i))] : l \in x.covered, i \in starts}

\* Mutant: blocks are told apart by what they hold.
Together(blocks, newer) == blocks \cup newer

\* mergeSerializedKvBlocks, and the writes of a store: by id, the newer wins.
Merged(blocks, newer) == {b \in blocks : \A n \in newer : n.id # b.id} \cup newer

\* Mutant: the hash of the prompt stands for the prompt.
SameHash(b, v, p) == b.version = v /\ Hash(b.prompt) = Hash(p) /\ Len(b.prompt) = Len(p)

\* The filter of buildReusedKvCacheHandle.
Candidate(b, v, p) == b.version = v /\ b.prompt = p

\* mergeLayerRowsForReuse: the layer's blocks follow each other without a gap
\* and end with the prompt.
Covers(blocks, p) ==
    \A i \in 1..Len(p) : Cardinality({b \in blocks : b.from < i /\ i <= b.to}) = 1

Whole(blocks, p) == \A l \in Layers : Covers({b \in blocks : b.layer = l}, p)

JoinedRows(blocks, l, p) ==
    [i \in 1..Len(p) |->
        LET b == CHOOSE b \in blocks : b.layer = l /\ b.from < i /\ i <= b.to
        IN b.rows[i - b.from]]

-----------------------------------------------------------------------------
(* The life of a client.                                                   *)

\* init(): the blocks of the namespace are read, or removed (clearOnInit).
Start ==
    /\ stage = "off"
    /\ stage' = "idle"
    /\ \/ hydrated' = store /\ UNCHANGED store
       \/ store' = {} /\ UNCHANGED hydrated
    /\ UNCHANGED <<version, cache, slot, scheduled>>

\* The tab is closed or the worker terminated: what was not persisted is lost.
\* The tab may come back with other weights.
Stop ==
    /\ stage # "off"
    /\ stage' = "off"
    /\ hydrated' = {}
    /\ cache' = None
    /\ slot' = None
    /\ scheduled' = FALSE
    /\ version' \in Versions
    /\ UNCHANGED store

\* tryReusePersistedKvCache, or a prefill.
Begin(p) ==
    LET found == {b \in hydrated : Candidate(b, version, p)}
        reused == found # {} /\ Whole(found, p)
    IN /\ stage = "idle"
       /\ stage' = "streaming"
       /\ cache' = [prompt |-> p, fed |-> p, version |-> version, reused |-> reused,
                    rows |-> [l \in Layers |-> IF reused THEN JoinedRows(found, l, p)
                                               ELSE Rows(version, p)],
                    covered |-> Layers]
       /\ UNCHANGED <<store, version, hydrated, slot, scheduled>>

\* The cache once the layers `reached' have been fed a token.
Fed(t, reached) ==
    LET text == Append(cache.fed, t)
    IN [cache EXCEPT !.fed = text, !.covered = reached,
                     !.rows = [l \in Layers |-> IF l \in reached
                                  THEN Append(@[l], <<version, text>>) ELSE @[l]]]

\* A starter that waits shares the cache with the stream.
Decode(t) ==
    /\ stage = "streaming"
    /\ Len(cache.fed) < MaxFed
    /\ cache' = Fed(t, Layers)
    /\ slot' = IF scheduled THEN Fed(t, Layers) ELSE slot
    /\ UNCHANGED <<store, stage, version, hydrated, scheduled>>

\* A decode throws before layer n: its block list was emptied at the start and
\* refilled layer by layer.  The stream ends and only a starter keeps the cache.
DecodeFails(t, n) ==
    /\ stage = "streaming"
    /\ Len(cache.fed) < MaxFed
    /\ stage' = "idle"
    /\ slot' = IF scheduled THEN Fed(t, {l \in Layers : l < n}) ELSE slot
    /\ cache' = None
    /\ scheduled' = FALSE
    /\ UNCHANGED <<store, version, hydrated>>

\* scheduleDeferredPrefillPersist takes the slot, whoever's starter was there.
Schedule == slot' = IF cache.reused THEN slot ELSE cache

\* Before a visible chunk is yielded.
Show ==
    /\ stage = "streaming"
    /\ Schedule
    /\ scheduled' = ~cache.reused
    /\ UNCHANGED <<store, stage, version, hydrated, cache>>

\* A load of prefetchPredictiveKvBlocks.
Prefetch(b) ==
    /\ stage = "streaming"
    /\ ~cache.reused
    /\ \E h \in hydrated \ {b} : h.id = b.id
    /\ hydrated' = Merged(hydrated, {b})
    /\ UNCHANGED <<store, stage, version, cache, slot, scheduled>>

End ==
    /\ stage = "streaming"
    /\ stage' = "idle"
    /\ Schedule
    /\ scheduled' = FALSE
    /\ cache' = None
    /\ UNCHANGED <<store, version, hydrated>>

\* flushKvPersistence runs the starter: persistKvCache.  When the store fails
\* the blocks are given up.
Flush ==
    /\ stage = "idle"
    /\ slot # None
    /\ slot' = None
    /\ \/ /\ store' = Merged(store, Serialized(slot))
          /\ hydrated' = Merged(hydrated, Serialized(slot))
       \/ UNCHANGED <<store, hydrated>>
    /\ UNCHANGED <<stage, version, cache, scheduled>>

\* clearKvPersistence: a flush, the removal of all blocks and of the copies.
Clear ==
    /\ stage = "idle"
    /\ store' = {}
    /\ hydrated' = {}
    /\ slot' = None
    /\ UNCHANGED <<stage, version, cache, scheduled>>

\* Another tab, perhaps with other weights, persists a prefill.
OtherTabPersists(v, p) ==
    /\ store' = Merged(store, Serialized([prompt |-> p, fed |-> p, version |-> v,
                  rows |-> [l \in Layers |-> Rows(v, p)], covered |-> Layers]))
    /\ UNCHANGED <<stage, version, hydrated, cache, slot, scheduled>>

\* The eviction of anyone's persist takes blocks one by one.
Evict(b) ==
    /\ store' = store \ {b}
    /\ UNCHANGED <<stage, version, hydrated, cache, slot, scheduled>>

Next ==
    \/ Start \/ Stop \/ Show \/ End \/ Flush \/ Clear
    \/ \E p \in Prompts : Begin(p) \/ \E v \in Versions : OtherTabPersists(v, p)
    \/ \E t \in NewTokens : Decode(t) \/ \E n \in Layers : DecodeFails(t, n)
    \/ \E b \in store : Prefetch(b) \/ Evict(b)

Spec == Init /\ [][Next]_vars

-----------------------------------------------------------------------------
(* Properties.                                                             *)

\* A collection of blocks holds one for each id.
TypeOK ==
    /\ stage \in {"off", "idle", "streaming"}
    /\ version \in Versions
    /\ scheduled \in BOOLEAN
    /\ \A blocks \in {store, hydrated} :
          /\ \A b \in blocks : b.layer \in Layers /\ b.from < b.to
          /\ \A b, d \in blocks : b.id = d.id => b = d

\* A persisted block has the rows of the prompt and the weights it names, also
\* when it was serialized from a cache that had grown or that a decode had left
\* half done.
BlocksAreTrue ==
    \A b \in store \cup hydrated :
        /\ b.to <= Len(b.prompt)
        /\ b.rows = SubSeq(Rows(b.version, b.prompt), b.from + 1, b.to)

\* A stream that skipped its prefill attends to the rows its own weights would
\* have computed for its own prompt, all of them and in every layer, whatever
\* mix of blocks evictions, colliding hashes, other tabs and other versions of
\* the model left behind.
ReuseIsExact ==
    stage = "streaming" => \A l \in Layers : cache.rows[l] = Rows(version, cache.fed)
=============================================================================
