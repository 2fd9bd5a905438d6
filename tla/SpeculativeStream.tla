------------------------- MODULE SpeculativeStream -------------------------
(***************************************************************************)
(* The token loop of one streamChat of the unlocked client, with the KV    *)
(* caches it grows: a draft of a few tokens is verified by one pass of the *)
(* target (verifySpeculativeDraft), the accepted rows are committed, and   *)
(* speculation is dropped for good once it does not pay.                   *)
(*                                                                         *)
(* A row of a cache is the token it was computed from; its values depend   *)
(* on the rows before it, so a cache is right when its rows are the text   *)
(* fed so far.  Layers advance together and are one.  What a model prefers *)
(* is a constant function of the rows it attends to.  Where the GPU is     *)
(* required, a decode keeps its rows there: the caches the program can     *)
(* read get rows of zeros in their place.                                  *)
(***************************************************************************)
EXTENDS Naturals, Sequences, FiniteSets, SequencesExt

CONSTANTS
    Tokens, Zero, Stop,   \* token ids; id 0; the one that ends the answer
    Blank,                \* a row of zeros
    Words,                \* tokens whose text is a single word
    Seeds, Best(_, _, _, _),  \* Best(seed, model, rows, banned)
    Setups,               \* pairs of requireWebGpu, else the CPU, and a drafter
    Window,               \* numSpeculativeTokens
    MinRate,              \* minAcceptanceRate, in percent
    Prompts, Limits       \* tokenised prompts, token budgets

ASSUME WindowIsPositive == Window \in 1..3
ASSUME SetupsAreKnown == Setups \subseteq {"none", "required"} \X {"none", "ngram", "qwen"}
ASSUME BlankIsNoToken == Blank \notin Tokens
ASSUME PromptsHoldTokens == Prompts \subseteq Seq(Tokens) \ {<<>>}
ASSUME LimitsArePositive == Limits \subseteq Nat \ {0}

Nothing == <<>>   \* no resident copies; a cache that has any has rows

VARIABLES
    seed, drafter, gpu,  \* the models, normalizeMtpOptions
    prompt, limit,       \* tokenIds, maxTokens
    pc,
    prev,                \* previousTokenId
    out,                 \* generatedTokenIds
    off,                 \* mtpAutoDisabledReason, or no draft at all
    shown,               \* what the output filter let through
    cache,               \* the target's rows: k, compactK, residentCompactK
    draft                \* rows of the draft model's cache

input == <<seed, drafter, gpu, prompt, limit>>
vars == <<input, pc, prev, out, off, shown, cache, draft>>

First(s, n) == SubSeq(s, 1, n)
Least(m, n) == IF m < n THEN m ELSE n

\* The last prompt token is not prefilled but fed to the first decode; a prompt
\* of one token is both.
PrefillIds == IF Len(prompt) > 1 THEN Front(prompt) ELSE prompt

\* A word generated twice in a row may not come a third time.
Banned(text) ==
    LET n == Len(text)
    IN IF n >= 2 /\ text[n] = text[n - 1] THEN {text[n]} \cap Words ELSE {}

Init ==
    /\ seed \in Seeds
    /\ \E setup \in Setups : gpu = setup[1] /\ drafter = setup[2]
    /\ prompt \in Prompts
    /\ limit \in Limits
    /\ pc = "prefill"
    /\ prev = Last(prompt)
    /\ out = <<>>
    /\ off \in IF drafter = "none" THEN {TRUE} ELSE BOOLEAN  \* an earlier stream's
    /\ shown = <<>>
    /\ cache = [k |-> <<>>, compact |-> <<>>, resident |-> Nothing]
    /\ draft = <<>>

-----------------------------------------------------------------------------
(* Prefill, or rows reused from a persisted prefill of the same prompt,    *)
(* which come without GPU-resident copies.                                 *)

Prefill ==
    /\ pc = "prefill"
    /\ pc' = "decode"
    /\ \E reused \in BOOLEAN :
          cache' = [k |-> PrefillIds, compact |-> PrefillIds,
                    resident |-> IF gpu = "required" /\ ~reused THEN PrefillIds ELSE Nothing]
    /\ draft' = IF drafter = "qwen" THEN PrefillIds ELSE <<>>
    /\ UNCHANGED <<input, prev, out, off, shown>>

-----------------------------------------------------------------------------
(* Drafting.                                                               *)

\* draftQwenPrefixTokenIds: the shallow model decodes one after another from prev.
QwenDraft(d) ==
    \A i \in DOMAIN d :
        d[i] = Best(seed, "draft", Append(draft, prev) \o First(d, i - 1), Banned(out))

\* draftLocalTokenizerTokenIds: the distinct tokens, the prompt's last first and
\* then the answer's, over and over.
NgramDraft(d) ==
    LET text == out \o prompt
        latest == {i \in DOMAIN text : text[i] # Zero /\ \A j \in (i + 1)..Len(text) : text[j] # text[i]}
        found == [r \in 1..Cardinality(latest) |->
                     text[CHOOSE i \in latest : Cardinality({j \in latest : j >= i}) = r]]
        candidates == IF found = <<>> THEN <<Zero>> ELSE found
    IN \A i \in DOMAIN d : d[i] = candidates[((i - 1) % Len(candidates)) + 1]

\* The one draft of n tokens.
Guess(n) == {d \in [1..n -> Tokens] : IF drafter = "qwen" THEN QwenDraft(d) ELSE NgramDraft(d)}

\* What verifySpeculativeDraft feeds: the token not yet in the cache and all
\* guesses but the last.
Fed(d) == <<prev>> \o Front(d)

\* What a projection returns for the tokens it was fed: with phase "decode" and
\* the GPU required, placeholders, the rows themselves being left on the GPU.
Projected(ts) == IF gpu = "required" THEN [i \in DOMAIN ts |-> Blank] ELSE ts

\* The target's choice after each token it was fed, which it sees in any case,
\* and the ones before it as far as they were projected.
Targets(d) ==
    [i \in 1..Len(d) |->
        Best(seed, "target", cache.compact \o Append(Projected(First(Fed(d), i - 1)), Fed(d)[i]),
             Banned(out))]

\* countAcceptedDraftPrefix of the guesses d and the targets t.
Accepted(d, t) == Max({n \in 0..Len(d) : First(d, n) = First(t, n)})

\* Mutant: the whole draft is shown when any of it was accepted.
StreamedDraft(d, t, a) == IF a > 0 THEN d ELSE <<t[1]>>

\* toStreamedTokenIds: the accepted guesses and the target's correction.
Streamed(d, t, a) == First(d, a) \o IF a < Len(d) THEN <<t[a + 1]>> ELSE <<>>

\* Mutant: the row whose continuation the target corrected is not kept.
CommitAccepted(d, a) ==
    LET rows == Projected(First(Fed(d), a))
    IN [cache EXCEPT !.k = @ \o rows, !.compact = @ \o rows]

\* commitSpeculativeContinuation: the rows of the inputs whose continuation is
\* now known.  The resident copies are left as they were.
Commit(d, a) ==
    LET rows == Projected(First(Fed(d), Least(Len(d), a + 1)))
    IN [cache EXCEPT !.k = @ \o rows, !.compact = @ \o rows]

\* The draft model's cache has every guess but the last; after a rejection it
\* is prefilled anew with everything but the token to be fed next.
DraftAfter(d, a, s) ==
    CASE drafter # "qwen" -> draft
      [] a < Len(d)       -> Front(prompt \o out \o s)
      [] OTHER            -> draft \o Fed(d)

-----------------------------------------------------------------------------
(* Showing what was generated: a stop marker ends the answer.              *)

\* Mutant: what a window holds behind the marker is shown.
VisiblePast(s) == SelectSeq(s, LAMBDA t : t # Stop)

Visible(s) ==
    IF Stop \in ToSet(s) THEN First(s, (CHOOSE i \in DOMAIN s :
                                           s[i] = Stop /\ Stop \notin ToSet(First(s, i - 1))) - 1)
    ELSE s

Extend(s) ==
    /\ out' = out \o s
    /\ prev' = Last(s)
    /\ shown' = shown \o Visible(s)
    /\ pc' = IF Stop \in ToSet(s) \/ Len(out) + Len(s) >= limit THEN "done" ELSE "decode"

\* Mutant: the window is not cut to what is left of the budget.
WholeWindow == Window

\* What is left of the budget bounds the window.
Guesses == Least(Window, limit - Len(out))

\* A poor acceptance rate disables speculation, and so may the latency.
OffAfter(d, a) == IF a * 100 < MinRate * Len(d) THEN {TRUE} ELSE BOOLEAN

\* decodeSpeculativeStep.
Verify ==
    /\ pc = "decode"
    /\ ~off
    /\ \E d \in Guess(Guesses) : \E t \in {Targets(d)} : \E a \in {Accepted(d, t)} :
       \E s \in {Streamed(d, t, a)} :
          /\ Extend(s)
          /\ cache' = Commit(d, a)
          /\ draft' = DraftAfter(d, a, s)
          /\ off' \in OffAfter(d, a)
    /\ UNCHANGED input

\* Mutant: the row of the token fed is not appended to the resident copies.
ResidentKept == IF cache.resident = Nothing THEN Append(cache.compact, prev) ELSE cache.resident

\* The resident copies, made from the compact rows when there are none, get
\* the row of the token fed.
Resident ==
    Append(IF cache.resident = Nothing THEN cache.compact ELSE cache.resident, prev)

\* One decode of the target feeds prev and draws a token.
Decode ==
    /\ pc = "decode"
    /\ off
    /\ cache' = [k |-> cache.k \o Projected(<<prev>>),
                 compact |-> cache.compact \o Projected(<<prev>>),
                 resident |-> IF gpu = "required" THEN Resident ELSE Nothing]
    /\ \E t \in Tokens \ Banned(out) : Extend(<<t>>)
    /\ UNCHANGED <<input, off, draft>>

Done == pc = "done" /\ UNCHANGED vars

Next == Prefill \/ Verify \/ Decode \/ Done

Spec == Init /\ [][Next]_vars

-----------------------------------------------------------------------------
(* Properties.                                                             *)

TypeOK ==
    /\ pc \in {"prefill", "decode", "done"}
    /\ prev \in Tokens
    /\ out \in Seq(Tokens) /\ Len(out) <= limit
    /\ off \in BOOLEAN
    /\ shown \in Seq(Tokens \ {Stop})
    /\ cache.k \in Seq(Tokens \cup {Blank})
    /\ cache.compact \in Seq(Tokens \cup {Blank})
    /\ cache.resident \in Seq(Tokens)
    /\ draft \in Seq(Tokens)

\* The text the target has been fed: all but the newest token.
Context == PrefillIds \o First(<<Last(prompt)>> \o out, Len(out))

\* What the next pass of the target attends to.
Attended == IF cache.resident = Nothing THEN cache.compact ELSE cache.resident

\* After any mix of accepted, partly accepted and rejected windows and of
\* plain decodes, on the CPU or on the GPU, the target attends to one row for
\* each token fed and no others; every copy of the cache has as many, and the
\* token to be fed next is the newest.
CacheIsContext ==
    pc # "prefill" =>
        /\ Attended = Context
        /\ Len(cache.k) = Len(Context) /\ Len(cache.compact) = Len(Context)
        /\ prev = Last(<<Last(prompt)>> \o out)

\* The draft model guesses from the same context as the target verifies in,
\* also after a window of which only part was accepted.
DraftFollows ==
    pc = "decode" /\ drafter = "qwen" /\ ~off /\ Len(prompt) > 1 => draft = Context

\* Both models' caches are those of the text: verification rolls back both
\* (commitSpeculativeContinuation, createQwenPrefixDraftState).
CachesFollow == CacheIsContext /\ DraftFollows

\* The answer is what the target alone would have said: the tokens of a
\* verified window are its own greedy choices in their own contexts, within
\* the budget.  (The target reads a prompt of one token twice.)
Answer == INSTANCE TargetText WITH
    prompt <- Append(PrefillIds, Last(prompt)), MaxRun <- Window,
    text <- out, sampling <- off

AnswerIsTargets == Answer!Spec

\* The reader gets the tokens up to the stop marker and none behind it, although
\* a window may have verified and committed some.
ShownIsAnswer ==
    \E n \in 0..Len(out) :
        /\ shown = First(out, n)
        /\ Stop \notin ToSet(shown)
        /\ n < Len(out) => out[n + 1] = Stop
=============================================================================
