----------------------------- MODULE PromptPlan -----------------------------
(***************************************************************************)
(* buildAdvancedRuntimeGenerationPlan as a function of what a turn has     *)
(* read: which memories the prompt shows (contextRuntime.ts,               *)
(* contextPacking.ts), which blocks sparse attention selects (ssa.ts),     *)
(* which of their KV blocks are kept or fetched (predictiveRuntime.ts,     *)
(* kvswap.ts) and how the tokens are cut into shards (tsp.ts).             *)
(*                                                                         *)
(* A text is its length in characters, scores are in thousandths.  The     *)
(* reading `in` is a record:                                               *)
(*   user, recent   lengths of the message and of the conversation         *)
(*   hits           what the search found, best first                      *)
(*   pins           raw memories with an identity pin                      *)
(*   failed, kept   raw memories whose retrieval audits failed, succeeded  *)
(*   traces         what earlier prompts showed                            *)
(*   got            the raw memories read for pins and failed audits       *)
(***************************************************************************)
EXTENDS GacPolicy, SequencesExt

CONSTANTS
    MaxPrompt, MaxMemory, MaxRecent, \* maxPromptTokens and its two shares
    SystemChars,   \* the system prompt
    HeaderChars,   \* the line above a memory
    MaxBlocks,     \* 64
    BlockSize, TopK, Window, \* 16, 16 and 2
    SafeTokens,    \* maxSafeContextTokens of the device and model, 256 or more
    Message        \* the block of the current user message

ASSUME PlanBounds ==
    /\ {MaxMemory, MaxRecent, SystemChars, HeaderChars, MaxBlocks, TopK, Window} \subseteq Nat
    /\ {MaxPrompt, BlockSize, SafeTokens} \subseteq Nat \ {0}
    /\ Message \notin Memories

Tokens(chars) == (chars + 3) \div 4
Total(s)      == FoldLeft(LAMBDA sum, n : sum + n, 0, s)
Ids(hits)     == {hits[i].id : i \in DOMAIN hits}

\* What a hit brings along; what it names directly is in its lineage.
IsHit(h) ==
    h \in [id : {h.id}, chars : Nat, direct : SUBSET h.lineage, lineage : {h.lineage}, broad : BOOLEAN,
          class : {h.class}, risk : Nat, strength : Nat, must : BOOLEAN, trust : Nat,
          score : 0..1000]

\* Places in an order, and what is at them.
InOrder(places, First(_, _)) ==
    [k \in 1..Cardinality(places) |->
        CHOOSE i \in places : Cardinality({j \in places : First(j, i)}) = k - 1]

At(s, places) == [k \in DOMAIN places |-> s[places[k]]]

Select(s, Test(_)) == At(s, InOrder({i \in DOMAIN s : Test(s[i])}, LAMBDA i, j : i < j))

-----------------------------------------------------------------------------
(* Recovery: raw memories that pins and failed audits ask for and that no  *)
(* hit represents are added to what the search found.                      *)

Requested(pins, failed) == pins \cup failed

\* Mutant: lineageRawMemoryIds represent a raw memory too.
RepresentedByLineage(hits) == Ids(hits) \cup UNION {hits[i].lineage : i \in DOMAIN hits}

Represented(hits) == Ids(hits) \cup UNION {hits[i].direct : i \in DOMAIN hits}

HandStrength == 80

Recovered(in, m) ==
    LET pinned == m \in in.pins \/ PolicyPins(m)
    IN [id |-> m, chars |-> Chars[m], direct |-> {m}, lineage |-> {m}, broad |-> FALSE,
        class |-> IF pinned THEN "PINNED_EXACT" ELSE "HIGH_RISK_RAW",
        risk |-> Risk(m), trust |-> 100, must |-> m \in in.pins,
        strength |-> IF m \notin in.pins THEN 0 ELSE IF PolicyPins(m) THEN Strength(m) ELSE HandStrength,
        score |-> IF pinned THEN 1000 ELSE IF m \in in.failed THEN 880
                  ELSE AtLeast(650, 10 * Importance(m))]

Augmented(in) ==
    LET missing == in.got \ Represented(in.hits)
        pinned  == SetToSeq(missing \cap in.pins)
        others  == SetToSeq(missing \ in.pins)
    IN in.hits \o [i \in DOMAIN pinned |-> Recovered(in, pinned[i])]
               \o [i \in DOMAIN others |-> Recovered(in, others[i])]

\* Representatives without lineage are not shown to the model.
Traceable(h) ==
    h.broad \/ h.class \in {"LOW_RISK_REPRESENTATIVE", "BACKGROUND_SUMMARY"} => h.lineage # {}

Visible(in) == Select(Augmented(in), Traceable)

-----------------------------------------------------------------------------
(* Adaptive scores.                                                        *)

IsProtected(in, h) ==
    h.must \/ h.class = "PINNED_EXACT" \/ h.lineage \cap in.pins # {}

PriorInclusions(in, h) ==
    Cardinality({t \in in.traces : h.id \in t.included \/ h.lineage \cap t.raws # {}})

Boost(in, h) ==
    (IF h.class = "HIGH_RISK_RAW" THEN 2 * h.risk ELSE (6 * h.risk) \div 5)
    + AtMost(150, 50 * PriorInclusions(in, h))
    + (IF h.lineage \cap in.failed # {} THEN 350
       ELSE IF h.lineage \cap in.kept # {} THEN 80 ELSE 0)

\* Mutant: the sum is not clamped.
Unclamped(in, h) == IF IsProtected(in, h) THEN 1000 ELSE h.score + Boost(in, h)

\* A pin's strength counts too, but what has one is protected anyway.
FinalScore(in, h) ==
    IF IsProtected(in, h) THEN 1000 ELSE Unit(1000, h.score + Boost(in, h))

\* A stable sort: of equal scores the earlier hit comes first.
ByScore(in, hits) ==
    LET First(i, j) ==
            \/ FinalScore(in, hits[i]) > FinalScore(in, hits[j])
            \/ FinalScore(in, hits[i]) = FinalScore(in, hits[j]) /\ i < j
    IN At(hits, InOrder(DOMAIN hits, First))

-----------------------------------------------------------------------------
(* Packing: the system text with its memories, then the recent messages,   *)
(* then the user message; one token is kept for it from the start.         *)

MarkerChars == 15

\* Mutant: the truncation marker's own tokens are not counted.
ClampedBesideMarker(chars, budget) ==
    IF Tokens(chars) <= budget THEN chars
    ELSE IF budget = 0 THEN 0 ELSE 4 * budget + MarkerChars

Clamped(chars, budget) ==
    IF budget = 0 THEN 0
    ELSE IF Tokens(chars) <= budget THEN chars
    ELSE IF budget <= Tokens(MarkerChars) THEN AtMost(4 * budget, chars)
    ELSE 4 * (budget - Tokens(MarkerChars)) + MarkerChars

HeadingChars   == 32
NoMemoryChars  == 44
SeparatorChars == 7

WithMemory(hits) ==
    SystemChars + HeadingChars +
    IF hits = <<>> THEN NoMemoryChars
    ELSE Total([i \in DOMAIN hits |-> HeaderChars + hits[i].chars]) + SeparatorChars * (Len(hits) - 1)

UserShare(in)    == IF MaxPrompt > 0 /\ in.user > 0 THEN 1 ELSE 0
SystemBudget(in) == AtLeast(0, MaxPrompt - UserShare(in))
MemoryTokens(hits) == Total([i \in DOMAIN hits |-> Tokens(hits[i].chars)])

Fits(in, chosen, h) ==
    /\ MaxMemory > 0
    /\ MemoryTokens(chosen) + Tokens(h.chars) <= MaxMemory
    /\ Tokens(WithMemory(Append(chosen, h))) <= SystemBudget(in)

Chosen(in) ==
    FoldLeft(LAMBDA chosen, h : IF Fits(in, chosen, h) THEN Append(chosen, h) ELSE chosen,
             <<>>, ByScore(in, Visible(in)))

\* Newest first; the first message that must be cut, or is empty, is the last.
RecentKept(recent, budget) ==
    FoldLeft(LAMBDA kept, chars :
                 LET left == budget - kept.total
                     shown == Tokens(Clamped(chars, AtLeast(0, left)))
                 IN IF kept.over \/ left <= 0 \/ shown = 0 THEN [kept EXCEPT !.over = TRUE]
                    ELSE [total |-> kept.total + shown, count |-> kept.count + 1,
                          over |-> Tokens(chars) > left],
             [total |-> 0, count |-> 0, over |-> FALSE], Reverse(recent))

Packed(in) ==
    LET chosen == Chosen(in)
        system == Clamped(WithMemory(chosen), SystemBudget(in))
        recent == RecentKept(in.recent, AtMost(MaxRecent, AtLeast(0, MaxPrompt - Tokens(system) - UserShare(in))))
        user   == Clamped(in.user, AtLeast(0, MaxPrompt - Tokens(system) - recent.total))
    IN [memories |-> Ids(chosen), whole |-> system = WithMemory(chosen),
        system |-> Tokens(system), recent |-> recent, user |-> Tokens(user),
        estimate |-> Tokens(system) + recent.total + Tokens(user)]
=============================================================================
