---------------------------- MODULE TargetText ----------------------------
(***************************************************************************)
(* What a stream of the unlocked client owes its reader: a text that grows *)
(* by tokens the target model alone chose, each for the prompt and the     *)
(* text before it.  How many of them one pass of the target settles, and   *)
(* what a draft model guessed, is not part of the promise.                 *)
(***************************************************************************)
EXTENDS Naturals, Sequences, SequencesExt

CONSTANTS
    Tokens,
    Best(_, _, _, _),  \* a model's choice in a context, some tokens excluded
    Banned(_),         \* the tokens a text may not continue with
    MaxRun             \* tokens that one pass may settle

VARIABLES seed, prompt, limit, text, sampling

input == <<seed, prompt, limit>>
vars == <<input, text, sampling>>

Init == text = <<>>

\* A pass of the target settles one token or more, the last of which the draft
\* may have missed.  What is excluded is fixed for the whole pass.
GreedyRun ==
    /\ ~sampling
    /\ Len(text') - Len(text) \in 1..MaxRun
    /\ IsPrefix(text, text')
    /\ \A i \in (Len(text) + 1)..Len(text') :
          text'[i] = Best(seed, "target", prompt \o SubSeq(text', 1, i - 1), Banned(text))
    /\ Len(text') <= limit
    /\ sampling' \in BOOLEAN

\* Without a draft tokens are drawn one by one.
Sample ==
    /\ sampling
    /\ Len(text) < limit
    /\ \E t \in Tokens \ Banned(text) : text' = Append(text, t)
    /\ UNCHANGED sampling

Next == (GreedyRun \/ Sample) /\ UNCHANGED input

Spec == Init /\ [][Next]_vars
=============================================================================
