------------------------ MODULE MCSpeculativeStream ------------------------
EXTENDS SpeculativeStream

MCTokens == 0..3
MCBlank == 9

MCPrompts == {<<1>>, <<1, 2>>, <<2, 1, 1>>}

\* The rows turn the preferences of a model; seed 1 makes the draft agree with
\* the target, seed 2 sometimes, seed 3 repeats one word for ever.
Hash(rows) ==
    LET n == Len(rows)
    IN (2 * rows[n] + (IF n > 1 THEN rows[n - 1] ELSE 1) + n) % 7

Favourite(s, model, rows) ==
    CASE s = 1 -> Hash(rows)
      [] s = 2 -> Hash(rows) + IF model = "draft" /\ Len(rows) % 2 = 0 THEN 1 ELSE 0
      [] s = 3 -> 2

MCBest(s, model, rows, banned) ==
    CHOOSE u \in {Favourite(s, model, rows) % 4, (Favourite(s, model, rows) + 1) % 4} :
        u \notin banned /\ (u = Favourite(s, model, rows) % 4 \/ Favourite(s, model, rows) % 4 \in banned)

\* A draft is verified on the CPU; the GPU decodes token by token.
MCSetups == {"none"} \X {"none", "ngram", "qwen"} \cup {<<"required", "none">>}
=============================================================================
