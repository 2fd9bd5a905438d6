----------------------------- MODULE BlockPlan -----------------------------
(***************************************************************************)
(* The second half of buildAdvancedRuntimeGenerationPlan: the memories of  *)
(* the prompt and the user message as blocks of tokens, the blocks that    *)
(* sparse attention selects and routes, their KV blocks, and the shards.   *)
(***************************************************************************)
EXTENDS PromptPlan

\* getMemoryClass: what has no class gets one from the records it names.
RouteClass(h) ==
    CASE h.class # "none" -> h.class
      [] h.class = "none" /\ h.broad -> "LOW_RISK_REPRESENTATIVE"
      [] h.class = "none" /\ ~h.broad /\ h.direct # {} -> "HIGH_RISK_RAW"
      [] OTHER -> "none"

MessageBlock(in) ==
    [id |-> Message, len |-> AtLeast(1, Tokens(in.user)), priority |-> 1000, search |-> 0,
     class |-> "none", must |-> FALSE, weight |-> 4000]

ClassWeight(class) ==
    CASE class = "PINNED_EXACT" -> 8000
      [] class = "HIGH_RISK_RAW" -> 3000
      [] class = "SOURCE_EVIDENCE" -> 2000
      [] OTHER -> 0

\* weight: what the metadata adds to a block's score.
MemoryBlock(in, h, i) ==
    [id |-> h.id, len |-> AtLeast(1, Tokens(h.chars)),
     priority |-> FinalScore(in, h) - (i - 1), search |-> h.score,
     class |-> RouteClass(h), must |-> h.must,
     weight |-> IF RouteClass(h) = "none" THEN 0
                ELSE 10 * (h.trust + h.risk + h.strength)
                     + (IF h.must THEN 10000 ELSE 0)
                     + ClassWeight(RouteClass(h))]

\* toContextBlocks: the message first, then what the prompt includes.
Blocks(in, included) ==
    LET frames == Visible(in)
        shown  == InOrder({i \in DOMAIN frames : frames[i].id \in included}, LAMBDA i, j : i < j)
    IN <<MessageBlock(in)>> \o [k \in DOMAIN shown |-> MemoryBlock(in, frames[shown[k]], shown[k])]

StartOf(blocks, i) == Total([k \in 1..i - 1 |-> blocks[k].len])
Length(blocks)     == Total([k \in DOMAIN blocks |-> blocks[k].len])

-----------------------------------------------------------------------------
(* Sparse attention.  A block is named by its place.                       *)

\* selectSSAAnchors: the message, and what its metadata says must be attended.
Pinned(blocks) ==
    {i \in DOMAIN blocks : blocks[i].id = Message \/ blocks[i].must \/ blocks[i].class = "PINNED_EXACT"}

Score(blocks, i) ==
    blocks[i].priority + blocks[i].search + blocks[i].weight
    + (IF i \in Pinned(blocks) THEN 10000 ELSE 0)

\* The n best of a set of blocks; of equal scores the earlier one.
Best(blocks, S, n) ==
    LET Before(i, j) ==
            \/ Score(blocks, i) > Score(blocks, j)
            \/ Score(blocks, i) = Score(blocks, j) /\ i < j
    IN {i \in S : Cardinality({j \in S : Before(j, i)}) < n}

Selected(blocks) ==
    LET pinned == Pinned(blocks)
    IN pinned \cup Best(blocks, DOMAIN blocks \ pinned, AtLeast(0, MaxBlocks - Cardinality(pinned)))

QueryBlocks(blocks) == 1..AtLeast(1, (Length(blocks) + BlockSize - 1) \div BlockSize)

\* The block that the first token of a query block lies in.
HomeOf(blocks, q) ==
    CHOOSE i \in DOMAIN blocks :
        /\ StartOf(blocks, i) <= (q - 1) * BlockSize
        /\ (q - 1) * BlockSize < StartOf(blocks, i) + blocks[i].len

\* Mutant: the top-k cut is applied to everything routeable.
CutTogether(blocks, q) ==
    LET selected == Selected(blocks)
    IN Best(blocks, selected, TopK + 1)

\* selectBlocksForQueryBlock: the pinned, the neighbours, then the best others.
Route(blocks, q) ==
    LET selected == Selected(blocks)
        pinned   == Pinned(blocks)
        home     == HomeOf(blocks, q)
        near     == pinned \cup {i \in selected : i >= home - Window /\ i <= home + Window}
    IN near \cup Best(blocks, selected \ near, AtLeast(0, TopK + Cardinality(pinned) - Cardinality(near)))

-----------------------------------------------------------------------------
(* KV blocks: one per block, pinned ones in video memory, others in RAM.   *)
(* The caller asks planKVSwap to free 0 bytes, so nothing is evicted.      *)

InVram(blocks) == Pinned(blocks)

\* predictedHotPages: pinned, selected, or with GAC metadata.
HotPages(blocks) ==
    Pinned(blocks) \cup Selected(blocks) \cup {i \in DOMAIN blocks : blocks[i].class # "none"}

\* planKVSwap fetches what is needed and not in video memory: hot pages, and
\* the blocks whose low-rank summaries are most like the message's.
Prefetched(blocks, alike) == (HotPages(blocks) \cup alike) \ InVram(blocks)

-----------------------------------------------------------------------------
(* Shards.                                                                 *)

Shards(tokens) == AtLeast(1, (tokens + SafeTokens - 1) \div SafeTokens)

\* buildTSPSchedule: the tokens of one shard.
Shard(tokens, s) ==
    LET size == (tokens + Shards(tokens) - 1) \div Shards(tokens)
    IN {t \in 1..tokens : t > (s - 1) * size /\ t <= s * size}
=============================================================================
