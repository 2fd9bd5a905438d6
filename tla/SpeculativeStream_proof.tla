---------------------- MODULE SpeculativeStream_proof ----------------------
(***************************************************************************)
(* Why drafting does not change the answer.  Whatever a draft guesses, the *)
(* tokens that leave a window are the target's own: the accepted guesses   *)
(* equal its choices and the correction is one.  Each was made in the      *)
(* context of the answer because the target's cache is that of the text    *)
(* fed so far, and it stays so because what a window commits is the token  *)
(* not yet in the cache and all streamed tokens but the last.              *)
(***************************************************************************)
EXTENDS SpeculativeStream, SequenceTheorems, WellFoundedInduction, TLAPS

\* The target's choice is a token (an argmax over the vocabulary).
BestIsAToken ==
    \A s \in Seeds, rows \in Seq(Tokens \cup {Blank}) \ {<<>>}, text \in Seq(Tokens) :
        Best(s, "target", rows, Banned(text)) \in Tokens

\* No drafter where the GPU is required: a window verified there leaves rows of
\* zeros in the caches that the program reads.
DraftsOnCpu == \A setup \in Setups : setup[1] = "required" => setup[2] = "none"

-----------------------------------------------------------------------------
(* Prefixes.                                                               *)

LEMMA FirstElements ==
    ASSUME NEW T, NEW s \in Seq(T), NEW n \in 0..Len(s)
    PROVE  /\ First(s, n) \in Seq(T)
           /\ Len(First(s, n)) = n
           /\ \A i \in 1..n : First(s, n)[i] = s[i]
BY SubSeqProperties, LenProperties DEF First

\* Two sequences that begin alike have the same prefixes there.
LEMMA SamePrefix ==
    ASSUME NEW T, NEW s \in Seq(T), NEW p \in Seq(T), NEW k \in Nat,
           k <= Len(s), k <= Len(p), \A i \in 1..k : s[i] = p[i]
    PROVE  First(s, k) = First(p, k)
<1>1. k \in 0..Len(s) /\ k \in 0..Len(p)
  BY LenProperties
<1>2. /\ First(s, k) \in Seq(T) /\ Len(First(s, k)) = k
      /\ \A i \in 1..k : First(s, k)[i] = s[i]
  BY <1>1, FirstElements
<1>3. /\ First(p, k) \in Seq(T) /\ Len(First(p, k)) = k
      /\ \A i \in 1..k : First(p, k)[i] = p[i]
  BY <1>1, FirstElements
<1>4. \A i \in 1..k : First(s, k)[i] = First(p, k)[i]
  BY <1>2, <1>3
<1> QED
  BY <1>2, <1>3, <1>4, SeqEqual

\* A prefix that ends in the second of two sequences.
LEMMA FirstOfConcat ==
    ASSUME NEW T, NEW s \in Seq(T), NEW t \in Seq(T), NEW k \in 0..Len(t)
    PROVE  First(s \o t, Len(s) + k) = s \o First(t, k)
<1> DEFINE m == Len(s)
<1> DEFINE both == s \o t
<1> DEFINE f == First(both, m + k)
<1> DEFINE u == First(t, k)
<1> DEFINE g == s \o u
<1>1. m \in Nat /\ Len(t) \in Nat /\ k \in Nat /\ k <= Len(t)
  BY LenProperties
<1>2. /\ both \in Seq(T) /\ Len(both) = m + Len(t)
      /\ \A i \in 1..(m + Len(t)) : both[i] = IF i <= m THEN s[i] ELSE t[i - m]
  BY ConcatProperties
<1>3. f \in Seq(T) /\ Len(f) = m + k /\ \A i \in 1..(m + k) : f[i] = both[i]
  <2>1. m + k \in 0..Len(both)
    BY <1>1, <1>2
  <2> HIDE DEF m, both
  <2> QED
    BY <1>2, <2>1, FirstElements
<1>4. u \in Seq(T) /\ Len(u) = k /\ \A i \in 1..k : u[i] = t[i]
  BY FirstElements
<1> HIDE DEF u
<1>5. /\ g \in Seq(T) /\ Len(g) = m + k
      /\ \A i \in 1..(m + k) : g[i] = IF i <= m THEN s[i] ELSE u[i - m]
  BY <1>4, ConcatProperties
<1> HIDE DEF m, both, f, g
<1>6. \A i \in 1..(m + k) : f[i] = g[i]
  <2> SUFFICES ASSUME NEW i \in 1..(m + k) PROVE f[i] = g[i]
    OBVIOUS
  <2>1. i \in 1..(m + Len(t))
    BY <1>1
  <2>2. CASE i <= m
    BY <1>2, <1>3, <1>5, <2>1, <2>2
  <2>3. CASE ~(i <= m)
    <3>1. i - m \in 1..k
      BY <1>1, <2>3
    <3> QED
      BY <1>2, <1>3, <1>4, <1>5, <2>1, <2>3, <3>1
  <2> QED
    BY <2>2, <2>3
<1>7. f = g
  BY <1>3, <1>5, <1>6, SeqEqual
<1> QED
  BY <1>7 DEF m, both, f, g, u

\* A prefix of a prefix.
LEMMA FirstOfFirst ==
    ASSUME NEW T, NEW s \in Seq(T), NEW m \in 0..Len(s), NEW k \in 0..m
    PROVE  First(First(s, m), k) = First(s, k)
<1>1. First(s, m) \in Seq(T) /\ Len(First(s, m)) = m /\ \A i \in 1..m : First(s, m)[i] = s[i]
  BY FirstElements
<1>2. k \in Nat /\ k <= Len(s) /\ k <= m
  BY LenProperties
<1>3. \A i \in 1..k : First(s, m)[i] = s[i]
  BY <1>1, <1>2
<1> QED
  BY <1>1, <1>2, <1>3, SamePrefix

LEMMA FirstAll ==
    ASSUME NEW T, NEW s \in Seq(T)
    PROVE  First(s, Len(s)) = s
BY SubSeqFull DEF First

LEMMA FirstNone ==
    ASSUME NEW T, NEW s \in Seq(T)
    PROVE  First(s, 0) = <<>>
<1>1. 0 \in 0..Len(s)
  BY LenProperties
<1>2. First(s, 0) \in Seq(T) /\ Len(First(s, 0)) = 0
  BY <1>1, FirstElements
<1> QED
  BY <1>2, EmptySeq

\* A sequence is its front and its last element.
LEMMA FrontAndLast ==
    ASSUME NEW T, NEW s \in Seq(T), s # <<>>
    PROVE  /\ Len(s) \in Nat \ {0}
           /\ Front(s) = First(s, Len(s) - 1)
           /\ Front(s) \in Seq(T) /\ Len(Front(s)) = Len(s) - 1
           /\ Last(s) \in T
           /\ <<Last(s)>> \in Seq(T)
           /\ Front(s) \o <<Last(s)>> = s
<1>1. Len(s) \in Nat \ {0}
  BY LenProperties, EmptySeq
<1>2. Front(s) = First(s, Len(s) - 1)
  BY DEF Front, First
<1>3. Len(s) - 1 \in 0..Len(s)
  BY <1>1
<1>4. Front(s) \in Seq(T) /\ Len(Front(s)) = Len(s) - 1
  BY <1>2, <1>3, FirstElements
<1>5. Last(s) \in T
  BY <1>1, ElementOfSeq DEF Last
<1>6. <<Last(s)>> \in Seq(T)
  BY <1>5
<1>7. Front(s) \o <<Last(s)>> = s
  <2>1. 1 \in 1..Len(s) /\ Len(s) \in 1..Len(s)
    BY <1>1
  <2>2. SubSeq(s, 1, Len(s)) = SubSeq(s, 1, Len(s) - 1) \o <<s[Len(s)]>>
    BY <2>1, SubSeqRecursiveSecond
  <2> QED
    BY <2>2, SubSeqFull DEF Front, Last
<1> QED
  BY <1>1, <1>2, <1>4, <1>5, <1>6, <1>7

LEMMA FrontElements ==
    ASSUME NEW T, NEW s \in Seq(T), s # <<>>
    PROVE  \A k \in 1..(Len(s) - 1) : Front(s)[k] = s[k]
<1> DEFINE n == Len(s) - 1
<1>1. Front(s) = First(s, n) /\ Len(s) \in Nat \ {0}
  BY FrontAndLast
<1>2. n \in 0..Len(s)
  BY <1>1
<1> HIDE DEF n
<1>3. \A k \in 1..n : First(s, n)[k] = s[k]
  BY <1>2, FirstElements
<1> QED
  BY <1>1, <1>3 DEF n

\* The front of a concatenation.
LEMMA FrontOfConcat ==
    ASSUME NEW T, NEW s \in Seq(T), NEW t \in Seq(T), t # <<>>
    PROVE  s \o t # <<>> /\ Front(s \o t) = s \o Front(t) /\ Last(s \o t) = Last(t)
<1>1. Len(t) \in Nat \ {0} /\ Front(t) = First(t, Len(t) - 1) /\ Len(s) \in Nat
  BY FrontAndLast, LenProperties
<1>2. /\ s \o t \in Seq(T) /\ Len(s \o t) = Len(s) + Len(t)
      /\ \A i \in 1..(Len(s) + Len(t)) : (s \o t)[i] = IF i <= Len(s) THEN s[i] ELSE t[i - Len(s)]
  BY ConcatProperties
<1>3. s \o t # <<>>
  BY ConcatEqualIffEmpty
<1>4. Len(t) - 1 \in 0..Len(t) /\ Len(s) + (Len(t) - 1) = Len(s \o t) - 1
  BY <1>1, <1>2
<1>5. Front(s \o t) = First(s \o t, Len(s) + (Len(t) - 1))
  BY <1>4 DEF Front, First
<1>6. Front(s \o t) = s \o Front(t)
  <2> DEFINE k == Len(t) - 1
  <2>1. k \in 0..Len(t)
    BY <1>4
  <2> HIDE DEF k
  <2>2. First(s \o t, Len(s) + k) = s \o First(t, k)
    BY <2>1, FirstOfConcat
  <2> QED
    BY <1>1, <1>5, <2>2 DEF k
<1>7. (s \o t)[Len(s) + Len(t)] = t[Len(t)]
  <2>1. /\ Len(s) + Len(t) \in 1..(Len(s) + Len(t)) /\ ~(Len(s) + Len(t) <= Len(s))
        /\ Len(s) + Len(t) - Len(s) = Len(t)
    BY <1>1
  <2> QED
    BY <1>2, <2>1
<1> QED
  BY <1>2, <1>3, <1>6, <1>7 DEF Last
-----------------------------------------------------------------------------
(* The text a cache stands for: the prefill p and all but the newest token *)
(* of what followed it, w.                                                 *)

Ctx(p, w) == p \o Front(w)

\* The context with the newest token is all of the text.
LEMMA ContextAndNewest ==
    ASSUME NEW T, NEW p \in Seq(T), NEW w \in Seq(T), w # <<>>
    PROVE  /\ Ctx(p, w) \in Seq(T)
           /\ Len(Ctx(p, w)) = Len(p) + Len(w) - 1
           /\ <<Last(w)>> \in Seq(T)
           /\ Ctx(p, w) \o <<Last(w)>> = p \o w
<1> DEFINE f == Front(w)
<1> DEFINE e == <<Last(w)>>
<1>1. /\ f \in Seq(T) /\ e \in Seq(T) /\ f \o e = w /\ Len(f) = Len(w) - 1
      /\ Len(w) \in Nat /\ Len(p) \in Nat
  BY FrontAndLast, LenProperties
<1>2. Ctx(p, w) = p \o f
  BY DEF Ctx
<1> HIDE DEF f, e
<1>3. (p \o f) \o e = p \o w
  <2>1. f \in Seq(T) /\ e \in Seq(T)
    BY <1>1
  <2>2. (p \o f) \o e = p \o (f \o e)
    BY <2>1, ConcatAssociative, SMTT(30)
  <2> QED
    BY <1>1, <2>2
<1>4. p \o f \in Seq(T) /\ Len(p \o f) = Len(p) + Len(w) - 1
  BY <1>1, ConcatProperties
<1> QED
  BY <1>1, <1>2, <1>3, <1>4 DEF e

LEMMA ConcatTokens ==
    \A x, y, z \in Seq(Tokens) : (x \o y) \o z = x \o (y \o z)
  BY ConcatAssociative

\* A text that grows by u past the newest token.
LEMMA ContextBefore ==
    \A p, w, u \in Seq(Tokens) :
        w # <<>> => Ctx(p, w) \o (<<Last(w)>> \o u) = p \o (w \o u)
<1> SUFFICES ASSUME NEW p \in Seq(Tokens), NEW w \in Seq(Tokens), NEW u \in Seq(Tokens), w # <<>>
             PROVE  Ctx(p, w) \o (<<Last(w)>> \o u) = p \o (w \o u)
  OBVIOUS
<1> DEFINE c == Ctx(p, w)
<1> DEFINE e == <<Last(w)>>
<1>1. c \in Seq(Tokens) /\ e \in Seq(Tokens) /\ c \o e = p \o w
  BY ContextAndNewest
<1> HIDE DEF c, e
<1>2. c \in Seq(Tokens) /\ e \in Seq(Tokens)
  BY <1>1
<1>3. (c \o e) \o u = c \o (e \o u)
  BY <1>2, ConcatTokens, ZenonT(60)
<1>4. (p \o w) \o u = p \o (w \o u)
  BY ConcatTokens
<1> QED
  BY <1>1, <1>3, <1>4 DEF c, e

\* A text that grows by s grows the context by the newest token and all of s
\* but its last token.
LEMMA ContextGrows ==
    \A p, w, s \in Seq(Tokens) :
        w # <<>> /\ s # <<>> => /\ Ctx(p, w \o s) = Ctx(p, w) \o (<<Last(w)>> \o Front(s))
                              /\ Last(w \o s) = Last(s)
<1> SUFFICES ASSUME NEW p \in Seq(Tokens), NEW w \in Seq(Tokens), NEW s \in Seq(Tokens),
                    w # <<>>, s # <<>>
             PROVE  /\ Ctx(p, w \o s) = Ctx(p, w) \o (<<Last(w)>> \o Front(s))
                    /\ Last(w \o s) = Last(s)
  OBVIOUS
<1>1. Front(w \o s) = w \o Front(s) /\ Last(w \o s) = Last(s)
  BY FrontOfConcat
<1>2. Front(s) \in Seq(Tokens)
  BY FrontAndLast
<1>3. Ctx(p, w) \o (<<Last(w)>> \o Front(s)) = p \o (w \o Front(s))
  BY <1>2, ContextBefore
<1> QED
  BY <1>1, <1>3 DEF Ctx

-----------------------------------------------------------------------------
(* Least and greatest numbers of a set.                                    *)

LEMMA MinOfOrder ==
    ASSUME NEW R, IsWellFoundedOn(R, Nat), \A x, y \in Nat : <<y, x>> \in R <=> y < x,
           NEW S, S \subseteq Nat, S # {}
    PROVE  \E n \in S : \A m \in S : n <= m
<1>1. PICK x \in S : \A y \in S : ~(<<y, x>> \in R)
  BY WFMin
<1>2. \A y \in S : y \in Nat /\ x \in Nat /\ ~(y < x)
  BY <1>1
<1> QED
  BY <1>2

LEMMA NatMin ==
    ASSUME NEW S, S \subseteq Nat, S # {}
    PROVE  \E n \in S : \A m \in S : n <= m
<1>1. \A x, y \in Nat : <<y, x>> \in OpToRel(<, Nat) <=> y < x
  BY DEF OpToRel
<1> QED
  BY <1>1, NatLessThanWellFounded, MinOfOrder, Zenon

\* A set of numbers up to n that is not empty has its greatest member.
LEMMA MaxIsMember ==
    ASSUME NEW n \in Nat, NEW S \in SUBSET (0..n), S # {}
    PROVE  Max(S) \in S
<1> DEFINE rest == {k \in Nat : n - k \in S}
<1>1. rest # {}
  <2>1. PICK x \in S : TRUE
    OBVIOUS
  <2>2. n - x \in Nat /\ n - (n - x) = x
    OBVIOUS
  <2> QED
    BY <2>1, <2>2
<1>2. rest \subseteq Nat
  OBVIOUS
<1>3. PICK m \in rest : \A k \in rest : m <= k
  <2> HIDE DEF rest
  <2> QED
    BY <1>1, <1>2, NatMin
<1>4. n - m \in S
  OBVIOUS
<1>5. \A y \in S : n - m >= y
  <2> SUFFICES ASSUME NEW y \in S PROVE n - m >= y
    OBVIOUS
  <2>1. n - y \in Nat /\ n - (n - y) = y /\ y \in Nat
    OBVIOUS
  <2>2. n - y \in rest
    BY <2>1
  <2>3. m <= n - y /\ m \in Nat
    BY <1>3, <2>2
  <2> QED
    BY <2>1, <2>3
<1> QED
  BY <1>4, <1>5 DEF Max

-----------------------------------------------------------------------------
(* Types.                                                                  *)

Cells == Tokens \cup {Blank}
Caches == [k : Seq(Cells), compact : Seq(Cells), resident : Seq(Cells)]

StreamTypes ==
    /\ seed \in Seeds
    /\ gpu \in {"none", "required"}
    /\ prompt \in Seq(Tokens) /\ prompt # <<>> /\ limit \in Nat \ {0}
    /\ pc \in {"prefill", "decode", "done"}
    /\ prev \in Tokens /\ off \in BOOLEAN
    /\ out \in Seq(Tokens) /\ Len(out) <= limit
    /\ pc = "prefill" => out = <<>>
    /\ pc = "decode" => Len(out) < limit
    /\ shown \in Seq(Tokens)
    /\ cache \in Caches
    /\ draft \in Seq(Tokens)

\* What a window is: guesses d, the target's choices t, the number a of guesses
\* accepted, and the tokens s that go on.
IsWindow(d, t, a, s) ==
    /\ d \in Seq(Tokens) /\ t \in Seq(Tokens) /\ s \in Seq(Tokens)
    /\ Len(t) = Len(d) /\ Len(d) \in Nat \ {0} /\ a \in 0..Len(d)
    /\ Len(s) = Least(Len(d), a + 1)
    /\ \A j \in 1..Len(s) : s[j] = t[j]
    /\ \A j \in 1..a : s[j] = d[j]
    /\ a = Len(d) => s = d

LEMMA GuessesFit ==
    ASSUME StreamTypes, pc = "decode"
    PROVE  Guesses \in 1..Window /\ Len(out) + Guesses <= limit
<1>1. Len(out) \in Nat /\ limit \in Nat /\ Len(out) < limit /\ Window \in 1..3
  BY WindowIsPositive, LenProperties DEF StreamTypes
<1> QED
  BY <1>1 DEF Guesses, Least

LEMMA DraftType ==
    ASSUME NEW n \in Nat, NEW d \in Guess(n)
    PROVE  d \in Seq(Tokens) /\ Len(d) = n
<1>1. d \in [1..n -> Tokens]
  BY DEF Guess
<1>2. d \in Seq(Tokens)
  BY <1>1, SeqDef
<1> QED
  BY <1>1, <1>2, LenProperties

LEMMA FedType ==
    ASSUME NEW d \in Seq(Tokens), d # <<>>, prev \in Tokens
    PROVE  /\ Fed(d) \in Seq(Tokens) /\ Len(Fed(d)) = Len(d)
           /\ <<prev>> \in Seq(Tokens) /\ Len(<<prev>>) = 1
           /\ Front(d) \in Seq(Tokens) /\ Len(Front(d)) = Len(d) - 1
           /\ Len(d) \in Nat \ {0}
<1>1. <<prev>> \in Seq(Tokens) /\ Len(<<prev>>) = 1
  OBVIOUS
<1>2. Front(d) \in Seq(Tokens) /\ Len(Front(d)) = Len(d) - 1 /\ Len(d) \in Nat \ {0}
  BY FrontAndLast
<1>3. /\ <<prev>> \o Front(d) \in Seq(Tokens)
      /\ Len(<<prev>> \o Front(d)) = Len(<<prev>>) + Len(Front(d))
  BY <1>1, <1>2, ConcatProperties
<1> QED
  BY <1>1, <1>2, <1>3 DEF Fed

LEMMA ProjectedType ==
    ASSUME NEW ts \in Seq(Tokens)
    PROVE  /\ Projected(ts) \in Seq(Cells) /\ Len(Projected(ts)) = Len(ts)
           /\ gpu # "required" => Projected(ts) = ts
<1>1. Len(ts) \in Nat /\ DOMAIN ts = 1..Len(ts)
  BY LenProperties
<1>2. CASE gpu = "required"
  <2> DEFINE p == [i \in 1..Len(ts) |-> Blank]
  <2>1. Projected(ts) = p
    BY <1>1, <1>2 DEF Projected
  <2>2. p \in [1..Len(ts) -> Cells]
    BY DEF Cells
  <2> HIDE DEF p
  <2>3. p \in Seq(Cells)
    BY <1>1, <2>2, SeqDef
  <2>4. Len(p) = Len(ts)
    BY <1>1, <2>2, <2>3, LenProperties
  <2> QED
    BY <1>2, <2>1, <2>3, <2>4
<1>3. CASE gpu # "required"
  <2>1. Projected(ts) = ts
    BY <1>3 DEF Projected
  <2>2. ts \in Seq(Cells)
    BY SeqMonotonic DEF Cells
  <2> QED
    BY <2>1, <2>2
<1> QED
  BY <1>2, <1>3

\* The rows that the target's i-th choice attends to.
RowsBefore(d, i) == cache.compact \o Append(Projected(First(Fed(d), i - 1)), Fed(d)[i])

LEMMA TargetType ==
    ASSUME StreamTypes, BestIsAToken, NEW d \in Seq(Tokens), d # <<>>
    PROVE  /\ Targets(d) \in Seq(Tokens) /\ Len(Targets(d)) = Len(d)
           /\ \A i \in 1..Len(d) :
                 Targets(d)[i] = Best(seed, "target", RowsBefore(d, i), Banned(out))
<1>1. Fed(d) \in Seq(Tokens) /\ Len(Fed(d)) = Len(d) /\ Len(d) \in Nat
  BY FedType DEF StreamTypes
<1>2. \A i \in 1..Len(d) : Best(seed, "target", RowsBefore(d, i), Banned(out)) \in Tokens
  <2> SUFFICES ASSUME NEW i \in 1..Len(d) PROVE RowsBefore(d, i) \in Seq(Cells) \ {<<>>}
    BY DEF BestIsAToken, StreamTypes, Cells
  <2> DEFINE f == First(Fed(d), i - 1)
  <2> DEFINE e == Fed(d)[i]
  <2>1. f \in Seq(Tokens)
    <3>1. i - 1 \in 0..Len(Fed(d))
      BY <1>1
    <3> QED
      BY <1>1, <3>1, FirstElements
  <2>2. e \in Cells
    BY <1>1, ElementOfSeq DEF Cells
  <2>3. Projected(f) \in Seq(Cells)
    BY <2>1, ProjectedType
  <2> DEFINE r == Append(Projected(f), e)
  <2> HIDE DEF e, f
  <2>4. r \in Seq(Cells) /\ r # <<>>
    BY <2>2, <2>3, AppendProperties
  <2>5. cache.compact \in Seq(Cells)
    BY DEF StreamTypes, Caches
  <2>6. RowsBefore(d, i) = cache.compact \o r
    BY DEF RowsBefore, e, f
  <2> HIDE DEF r
  <2>7. cache.compact \o r \in Seq(Cells) /\ cache.compact \o r # <<>>
    BY <2>4, <2>5, ConcatProperties, ConcatEqualIffEmpty
  <2> QED
    BY <2>6, <2>7
<1> DEFINE t == [i \in 1..Len(d) |-> Best(seed, "target", RowsBefore(d, i), Banned(out))]
<1>3. Targets(d) = t
  BY DEF Targets, RowsBefore
<1>4. t \in [1..Len(d) -> Tokens]
  BY <1>2
<1>5. \A i \in 1..Len(d) : t[i] = Best(seed, "target", RowsBefore(d, i), Banned(out))
  OBVIOUS
<1> HIDE DEF t
<1>6. t \in Seq(Tokens)
  BY <1>1, <1>4, SeqDef
<1>7. Len(t) = Len(d)
  BY <1>1, <1>4, <1>6, LenProperties
<1> QED
  BY <1>3, <1>5, <1>6, <1>7

\* Accepted guesses equal the choices; so does the correction.
LEMMA StreamedAreTargets ==
    ASSUME NEW d \in Seq(Tokens), d # <<>>, NEW t \in Seq(Tokens), Len(t) = Len(d),
           NEW a, a = Accepted(d, t)
    PROVE  IsWindow(d, t, a, Streamed(d, t, a))
<1> DEFINE n == Len(d)
<1> DEFINE agree == {k \in 0..n : First(d, k) = First(t, k)}
<1>1. n \in Nat \ {0}
  BY FrontAndLast
<1>2. a \in agree
  <2>1. First(d, 0) = First(t, 0)
    BY <1>1, SamePrefix
  <2>2. 0 \in agree /\ agree \in SUBSET (0..n)
    BY <1>1, <2>1
  <2> HIDE DEF agree, n
  <2>3. Max(agree) \in agree
    BY <1>1, <2>2, MaxIsMember
  <2> QED
    BY <2>3 DEF agree, n, Accepted
<1>3. a \in 0..n /\ First(d, a) = First(t, a)
  BY <1>2
<1> DEFINE f == First(d, a)
<1>4. /\ f \in Seq(Tokens) /\ Len(f) = a
      /\ \A j \in 1..a : f[j] = d[j] /\ f[j] = t[j]
  BY <1>3, FirstElements
<1> HIDE DEF n, agree, f
<1>5. CASE a = n
  <2>1. f = d
    BY <1>5, FirstAll DEF f, n
  <2>2. Streamed(d, t, a) = f \o <<>>
    <3>1. ~(a < Len(d))
      BY <1>1, <1>5 DEF n
    <3> QED
      BY <3>1 DEF Streamed, f
  <2>3. Streamed(d, t, a) = d
    BY <2>1, <2>2, ConcatEmptySeq
  <2>4. Len(d) = Least(Len(d), a + 1)
    BY <1>1, <1>5 DEF Least, n
  <2> QED
    BY <1>1, <1>3, <1>4, <1>5, <2>1, <2>3, <2>4 DEF IsWindow, n
<1>6. CASE a < n
  <2> DEFINE c == <<t[a + 1]>>
  <2>1. t[a + 1] \in Tokens
    BY <1>1, <1>3, <1>6, ElementOfSeq DEF n
  <2>2. c \in Seq(Tokens) /\ Len(c) = 1 /\ c[1] = t[a + 1]
    BY <2>1
  <2>3. Streamed(d, t, a) = f \o c
    BY <1>6 DEF Streamed, n, f
  <2> HIDE DEF c
  <2>4. /\ f \o c \in Seq(Tokens) /\ Len(f \o c) = a + 1
        /\ \A j \in 1..(a + 1) : (f \o c)[j] = IF j <= a THEN f[j] ELSE c[j - a]
    <3>1. f \in Seq(Tokens) /\ c \in Seq(Tokens)
      BY <1>4, <2>2
    <3>2. /\ f \o c \in Seq(Tokens) /\ Len(f \o c) = Len(f) + Len(c)
          /\ \A j \in 1..(Len(f) + Len(c)) :
                (f \o c)[j] = IF j <= Len(f) THEN f[j] ELSE c[j - Len(f)]
      BY <3>1, ConcatProperties
    <3> QED
      BY <1>4, <2>2, <3>2
  <2>5. a + 1 = Least(Len(d), a + 1)
    BY <1>1, <1>3, <1>6 DEF Least, n
  <2>6. \A j \in 1..a : (f \o c)[j] = f[j]
    BY <1>3, <2>4
  <2>7. (f \o c)[a + 1] = t[a + 1]
    <3>1. a + 1 \in 1..(a + 1) /\ ~(a + 1 <= a) /\ (a + 1) - a = 1
      BY <1>1, <1>3
    <3> QED
      BY <2>2, <2>4, <3>1
  <2>8. \A j \in 1..(a + 1) : j \in 1..a \/ j = a + 1
    BY <1>1, <1>3
  <2>9. \A j \in 1..(a + 1) : (f \o c)[j] = t[j]
    BY <1>4, <2>6, <2>7, <2>8
  <2> QED
    BY <1>1, <1>3, <1>4, <1>6, <2>3, <2>4, <2>5, <2>6, <2>9 DEF IsWindow, n
<1> QED
  BY <1>1, <1>3, <1>5, <1>6
-----------------------------------------------------------------------------
(* One step of the loop.                                                   *)

LEMMA ToSetOfConcat ==
    ASSUME NEW T, NEW s \in Seq(T), NEW t \in Seq(T)
    PROVE  ToSet(s \o t) = ToSet(s) \cup ToSet(t)
<1>1. /\ DOMAIN s = 1..Len(s) /\ DOMAIN t = 1..Len(t) /\ Len(s) \in Nat /\ Len(t) \in Nat
      /\ DOMAIN (s \o t) = 1..(Len(s) + Len(t))
      /\ \A i \in 1..(Len(s) + Len(t)) : (s \o t)[i] = IF i <= Len(s) THEN s[i] ELSE t[i - Len(s)]
  BY LenProperties, ConcatProperties
<1>2. ASSUME NEW i \in 1..(Len(s) + Len(t)) PROVE (s \o t)[i] \in ToSet(s) \cup ToSet(t)
  <2>1. CASE i <= Len(s)
    BY <1>1, <2>1 DEF ToSet
  <2>2. CASE ~(i <= Len(s))
    <3>1. i - Len(s) \in 1..Len(t)
      BY <1>1, <2>2
    <3> QED
      BY <1>1, <2>2, <3>1 DEF ToSet
  <2> QED
    BY <2>1, <2>2
<1>3. ASSUME NEW i \in 1..Len(s) PROVE s[i] \in ToSet(s \o t)
  <2>1. i \in 1..(Len(s) + Len(t)) /\ i <= Len(s)
    BY <1>1
  <2>2. (s \o t)[i] = s[i]
    BY <1>1, <2>1
  <2> QED
    BY <1>1, <2>1, <2>2 DEF ToSet
<1>4. ASSUME NEW i \in 1..Len(t) PROVE t[i] \in ToSet(s \o t)
  <2> DEFINE j == Len(s) + i
  <2>1. j \in 1..(Len(s) + Len(t)) /\ ~(j <= Len(s)) /\ j - Len(s) = i
    BY <1>1
  <2> HIDE DEF j
  <2>2. (s \o t)[j] = t[i]
    BY <1>1, <2>1
  <2> QED
    BY <1>1, <2>1, <2>2 DEF ToSet
<1>5. ToSet(s \o t) \subseteq ToSet(s) \cup ToSet(t)
  BY <1>1, <1>2 DEF ToSet
<1>6. ToSet(s) \subseteq ToSet(s \o t)
  BY <1>1, <1>3 DEF ToSet
<1>7. ToSet(t) \subseteq ToSet(s \o t)
  BY <1>1, <1>4 DEF ToSet
<1> QED
  BY <1>5, <1>6, <1>7

\* The visible part of a window ends before the first stop marker.
LEMMA VisiblePart ==
    ASSUME NEW s \in Seq(Tokens), Stop \in ToSet(s)
    PROVE  \E i \in 1..Len(s) :
              /\ Visible(s) = First(s, i - 1)
              /\ s[i] = Stop
              /\ Stop \notin ToSet(First(s, i - 1))
<1> DEFINE stops == {i \in 1..Len(s) : s[i] = Stop}
<1>1. DOMAIN s = 1..Len(s) /\ Len(s) \in Nat
  BY LenProperties
<1>2. stops # {} /\ stops \subseteq Nat
  BY <1>1 DEF ToSet
<1>3. PICK i \in stops : \A j \in stops : i <= j
  <2> HIDE DEF stops
  <2> QED
    BY <1>2, NatMin
<1>4. Stop \notin ToSet(First(s, i - 1))
  <2> DEFINE f == First(s, i - 1)
  <2>1. i - 1 \in 0..Len(s)
    BY <1>1
  <2>2. f \in Seq(Tokens) /\ Len(f) = i - 1 /\ \A j \in 1..(i - 1) : f[j] = s[j]
    BY <2>1, FirstElements
  <2>3. DOMAIN f = 1..(i - 1)
    BY <2>2, LenProperties
  <2>4. \A j \in 1..(i - 1) : s[j] # Stop
    <3> SUFFICES ASSUME NEW j \in 1..(i - 1), s[j] = Stop PROVE FALSE
      OBVIOUS
    <3>1. j \in 1..Len(s) /\ ~(i <= j)
      BY <1>1
    <3> QED
      BY <1>3, <3>1
  <2> HIDE DEF f
  <2> QED
    BY <2>2, <2>3, <2>4 DEF ToSet, f
<1> DEFINE IsFirst(k) == s[k] = Stop /\ Stop \notin ToSet(First(s, k - 1))
<1>5. i \in DOMAIN s /\ IsFirst(i)
  BY <1>1, <1>4
<1> DEFINE first == CHOOSE k \in DOMAIN s : IsFirst(k)
<1>6. first \in DOMAIN s /\ IsFirst(first)
  <2> HIDE DEF IsFirst
  <2> QED
    BY <1>5
<1>7. Visible(s) = First(s, first - 1)
  BY DEF Visible
<1> HIDE DEF first
<1> QED
  BY <1>1, <1>6, <1>7

\* What a step shows of what it adds.
LEMMA VisibleType ==
    ASSUME NEW s \in Seq(Tokens)
    PROVE  Visible(s) \in Seq(Tokens)
<1>1. CASE Stop \notin ToSet(s)
  BY <1>1 DEF Visible
<1>2. CASE Stop \in ToSet(s)
  <2>1. PICK i \in 1..Len(s) : Visible(s) = First(s, i - 1)
    BY <1>2, VisiblePart
  <2>2. i - 1 \in 0..Len(s)
    BY LenProperties
  <2> QED
    BY <2>1, <2>2, FirstElements
<1> QED
  BY <1>1, <1>2

\* The tokens of a step, and how it changes what does not depend on the caches.
Adds(s) ==
    /\ s \in Seq(Tokens) /\ s # <<>> /\ Len(out) + Len(s) <= limit
    /\ pc = "decode"
    /\ Extend(s)
    /\ UNCHANGED input

LEMMA AddsTypes ==
    ASSUME StreamTypes, NEW s, Adds(s)
    PROVE  /\ out' \in Seq(Tokens) /\ Len(out') = Len(out) + Len(s) /\ Len(out') <= limit
           /\ prev' \in Tokens /\ shown' \in Seq(Tokens) /\ pc' \in {"decode", "done"}
           /\ pc' = "decode" => Len(out') < limit /\ Stop \notin ToSet(s)
           /\ seed' = seed /\ gpu' = gpu /\ drafter' = drafter /\ prompt' = prompt /\ limit' = limit
<1>1. s \in Seq(Tokens) /\ s # <<>> /\ out \in Seq(Tokens) /\ shown \in Seq(Tokens) /\ limit \in Nat
  BY DEF Adds, StreamTypes
<1>2. out \o s \in Seq(Tokens) /\ Len(out \o s) = Len(out) + Len(s)
  BY <1>1, ConcatProperties
<1>3. shown \o Visible(s) \in Seq(Tokens)
  BY <1>1, VisibleType, ConcatProperties
<1>4. Last(s) \in Tokens
  BY <1>1, FrontAndLast
<1>5. Len(out) \in Nat /\ Len(s) \in Nat
  BY <1>1, LenProperties
<1>6. /\ out' = out \o s /\ prev' = Last(s) /\ shown' = shown \o Visible(s)
      /\ pc' = IF Stop \in ToSet(s) \/ Len(out) + Len(s) >= limit THEN "done" ELSE "decode"
      /\ Len(out) + Len(s) <= limit
  BY DEF Adds, Extend
<1>7. seed' = seed /\ gpu' = gpu /\ drafter' = drafter /\ prompt' = prompt /\ limit' = limit
  BY DEF Adds, input
<1> QED
  BY <1>1, <1>2, <1>3, <1>4, <1>5, <1>6, <1>7

\* A verification adds a window ...
LEMMA VerifyAdds ==
    ASSUME StreamTypes, BestIsAToken, Verify
    PROVE  \E d, t, a, s :
              /\ IsWindow(d, t, a, s) /\ Len(d) <= Window /\ t = Targets(d)
              /\ Adds(s)
              /\ ~off /\ off' \in BOOLEAN
              /\ cache' = Commit(d, a)
              /\ draft' = DraftAfter(d, a, s)
<1>1. pc = "decode" /\ ~off /\ UNCHANGED input
  BY DEF Verify
<1>2. PICK d \in Guess(Guesses) : \E t \in {Targets(d)} : \E a \in {Accepted(d, t)} :
         \E s \in {Streamed(d, t, a)} :
            Extend(s) /\ cache' = Commit(d, a) /\ draft' = DraftAfter(d, a, s) /\ off' \in OffAfter(d, a)
  BY DEF Verify
<1> DEFINE t == Targets(d)
<1> DEFINE a == Accepted(d, t)
<1> DEFINE s == Streamed(d, t, a)
<1>3. Extend(s) /\ cache' = Commit(d, a) /\ draft' = DraftAfter(d, a, s) /\ off' \in OffAfter(d, a)
  BY <1>2
<1>4. Guesses \in 1..Window /\ Len(out) + Guesses <= limit
  BY <1>1, GuessesFit
<1>5. Guesses \in Nat \ {0} /\ Guesses <= Window
  BY <1>4, WindowIsPositive
<1>6. d \in Seq(Tokens) /\ Len(d) = Guesses
  BY <1>5, DraftType
<1>7. d # <<>>
  BY <1>5, <1>6, EmptySeq
<1>8. t \in Seq(Tokens) /\ Len(t) = Len(d)
  BY <1>6, <1>7, TargetType
<1> HIDE DEF t
<1>9. IsWindow(d, t, a, s)
  BY <1>6, <1>7, <1>8, StreamedAreTargets
<1> HIDE DEF a, s
<1>10. s \in Seq(Tokens) /\ Len(s) \in 1..Len(d)
  BY <1>9 DEF IsWindow, Least
<1>11. s # <<>>
  BY <1>10, EmptySeq
<1>12. Len(out) + Len(s) <= limit
  BY <1>4, <1>6, <1>10, LenProperties DEF StreamTypes
<1>13. Adds(s)
  BY <1>1, <1>3, <1>10, <1>11, <1>12 DEF Adds
<1>14. off' \in BOOLEAN
  BY <1>3 DEF OffAfter
<1> QED
  BY <1>1, <1>3, <1>5, <1>6, <1>9, <1>13, <1>14 DEF t

\* ... and a decode one token.
LEMMA DecodeAdds ==
    ASSUME StreamTypes, Decode
    PROVE  \E t \in Tokens :
              /\ t \notin Banned(out)
              /\ Adds(<<t>>)
              /\ off /\ off' = off /\ draft' = draft
              /\ cache' = [k |-> cache.k \o Projected(<<prev>>),
                           compact |-> cache.compact \o Projected(<<prev>>),
                           resident |-> IF gpu = "required" THEN Resident ELSE Nothing]
<1>1. PICK t \in Tokens \ Banned(out) : Extend(<<t>>)
  BY DEF Decode
<1>2. <<t>> \in Seq(Tokens) /\ <<t>> # <<>> /\ Len(<<t>>) = 1
  OBVIOUS
<1>3. Len(out) + 1 <= limit
  BY LenProperties DEF StreamTypes, Decode
<1>4. Adds(<<t>>)
  BY <1>1, <1>2, <1>3 DEF Adds, Decode
<1> QED
  BY <1>1, <1>4 DEF Decode

\* The records that take the place of the caches.
LEMMA CommitFields ==
    ASSUME cache \in Caches, NEW d, NEW a
    PROVE  LET rows == Projected(First(Fed(d), Least(Len(d), a + 1)))
           IN /\ Commit(d, a).k = cache.k \o rows
              /\ Commit(d, a).compact = cache.compact \o rows
              /\ Commit(d, a).resident = cache.resident
              /\ (cache.k \o rows \in Seq(Cells) /\ cache.compact \o rows \in Seq(Cells)
                    => Commit(d, a) \in Caches)
<1> DEFINE rows == Projected(First(Fed(d), Least(Len(d), a + 1)))
<1>1. Commit(d, a) = [cache EXCEPT !.k = @ \o rows, !.compact = @ \o rows]
  BY DEF Commit
<1> HIDE DEF rows
<1>2. /\ Commit(d, a).k = cache.k \o rows
      /\ Commit(d, a).compact = cache.compact \o rows
      /\ Commit(d, a).resident = cache.resident
  BY <1>1, Zenon DEF Caches
<1>3. cache.k \o rows \in Seq(Cells) /\ cache.compact \o rows \in Seq(Cells) => Commit(d, a) \in Caches
  BY <1>1, Zenon DEF Caches
<1> QED
  BY <1>2, <1>3 DEF rows

\* The rows a window commits are those of the token not yet in the cache and of
\* all streamed tokens but the last, projected.
LEMMA CommittedAreStreamed ==
    ASSUME NEW d, NEW t, NEW a, NEW s, IsWindow(d, t, a, s), prev \in Tokens
    PROVE  /\ First(Fed(d), Least(Len(d), a + 1)) = Fed(s)
           /\ Fed(s) \in Seq(Tokens) /\ Len(Fed(s)) = Len(s) /\ s # <<>>
           /\ Fed(d) \in Seq(Tokens) /\ Len(Fed(d)) = Len(d)
           /\ Len(s) \in 1..Len(d)
<1>1. /\ d \in Seq(Tokens) /\ s \in Seq(Tokens) /\ Len(d) \in Nat \ {0} /\ a \in 0..Len(d)
      /\ Len(s) = Least(Len(d), a + 1) /\ \A j \in 1..a : s[j] = d[j]
  BY DEF IsWindow
<1> DEFINE n == Len(s)
<1>2. n \in 1..Len(d) /\ n - 1 <= a /\ n \in Nat
  BY <1>1 DEF Least
<1>3. d # <<>> /\ s # <<>>
  BY <1>1, <1>2, EmptySeq
<1>4. /\ Fed(d) \in Seq(Tokens) /\ Len(Fed(d)) = Len(d)
      /\ Front(d) \in Seq(Tokens) /\ Len(Front(d)) = Len(d) - 1
      /\ <<prev>> \in Seq(Tokens) /\ Len(<<prev>>) = 1
  BY <1>1, <1>3, FedType
<1>5. /\ Fed(s) \in Seq(Tokens) /\ Len(Fed(s)) = n
      /\ Front(s) \in Seq(Tokens) /\ Len(Front(s)) = n - 1
  BY <1>1, <1>3, FedType
<1> HIDE DEF n
<1>6. \A k \in 1..Len(d) : Fed(d)[k] = IF k <= 1 THEN prev ELSE Front(d)[k - 1]
  <2>1. \A k \in 1..(Len(<<prev>>) + Len(Front(d))) :
           (<<prev>> \o Front(d))[k] = IF k <= Len(<<prev>>) THEN <<prev>>[k] ELSE Front(d)[k - Len(<<prev>>)]
    BY <1>4, ConcatProperties
  <2>2. 1 + (Len(d) - 1) = Len(d)
    BY <1>1
  <2>3. \A k \in 1..Len(d) :
           (<<prev>> \o Front(d))[k] = IF k <= 1 THEN <<prev>>[k] ELSE Front(d)[k - 1]
    BY <1>4, <2>1, <2>2
  <2>4. \A k \in 1..Len(d) : k <= 1 => <<prev>>[k] = prev
    BY <1>1
  <2> QED
    BY <2>3, <2>4 DEF Fed
<1>7. \A k \in 1..n : Fed(s)[k] = IF k <= 1 THEN prev ELSE Front(s)[k - 1]
  <2>1. \A k \in 1..(Len(<<prev>>) + Len(Front(s))) :
           (<<prev>> \o Front(s))[k] = IF k <= Len(<<prev>>) THEN <<prev>>[k] ELSE Front(s)[k - Len(<<prev>>)]
    BY <1>4, <1>5, ConcatProperties
  <2>2. 1 + (n - 1) = n
    BY <1>2
  <2>3. \A k \in 1..n :
           (<<prev>> \o Front(s))[k] = IF k <= 1 THEN <<prev>>[k] ELSE Front(s)[k - 1]
    BY <1>4, <1>5, <2>1, <2>2
  <2>4. \A k \in 1..n : k <= 1 => <<prev>>[k] = prev
    BY <1>2
  <2> QED
    BY <2>3, <2>4 DEF Fed
<1>8. /\ \A k \in 1..(Len(d) - 1) : Front(d)[k] = d[k]
      /\ \A k \in 1..(n - 1) : Front(s)[k] = s[k]
  BY <1>1, <1>3, FrontElements DEF n
<1>9. \A k \in 1..n : Fed(d)[k] = Fed(s)[k]
  <2> SUFFICES ASSUME NEW k \in 1..n PROVE Fed(d)[k] = Fed(s)[k]
    OBVIOUS
  <2>1. k \in 1..Len(d)
    BY <1>2
  <2>2. CASE k <= 1
    BY <1>6, <1>7, <2>1, <2>2
  <2>3. CASE ~(k <= 1)
    <3>1. k - 1 \in 1..(n - 1) /\ k - 1 \in 1..(Len(d) - 1) /\ k - 1 \in 1..a
      BY <1>1, <1>2, <2>1, <2>3
    <3> QED
      BY <1>1, <1>6, <1>7, <1>8, <2>1, <2>3, <3>1
  <2> QED
    BY <2>2, <2>3
<1>10. First(Fed(d), n) = First(Fed(s), n)
  BY <1>2, <1>4, <1>5, <1>9, SamePrefix
<1>11. First(Fed(s), n) = Fed(s)
  BY <1>5, FirstAll
<1> QED
  BY <1>1, <1>2, <1>3, <1>4, <1>5, <1>10, <1>11 DEF n

-----------------------------------------------------------------------------
(* Types are kept.                                                         *)

LEMMA PrefillType ==
    ASSUME prompt \in Seq(Tokens), prompt # <<>>
    PROVE  /\ PrefillIds \in Seq(Tokens) /\ PrefillIds # <<>>
           /\ Last(prompt) \in Tokens
<1>1. /\ Front(prompt) \in Seq(Tokens) /\ Len(Front(prompt)) = Len(prompt) - 1
      /\ Last(prompt) \in Tokens /\ Len(prompt) \in Nat \ {0}
  BY FrontAndLast
<1>2. CASE Len(prompt) > 1
  <2>1. Front(prompt) # <<>>
    BY <1>1, <1>2, EmptySeq
  <2> QED
    BY <1>1, <1>2, <2>1 DEF PrefillIds
<1>3. CASE ~(Len(prompt) > 1)
  BY <1>1, <1>3 DEF PrefillIds
<1> QED
  BY <1>2, <1>3

LEMMA InitTypes == Init => StreamTypes
<1> SUFFICES ASSUME Init PROVE StreamTypes
  OBVIOUS
<1>1. prompt \in Seq(Tokens) /\ prompt # <<>> /\ limit \in Nat \ {0}
  BY PromptsHoldTokens, LimitsArePositive DEF Init
<1>2. Last(prompt) \in Tokens
  BY <1>1, FrontAndLast
<1>3. gpu \in {"none", "required"}
  BY SetupsAreKnown DEF Init
<1>4. <<>> \in Seq(Tokens) /\ <<>> \in Seq(Cells) /\ Len(<<>>) = 0
  BY EmptySeq
<1>5. cache \in Caches
  BY <1>4 DEF Init, Caches, Nothing
<1>6. prev \in Tokens /\ off \in BOOLEAN
  BY <1>2 DEF Init
<1>7. out \in Seq(Tokens) /\ Len(out) <= limit /\ out = <<>>
  BY <1>1, <1>4 DEF Init
<1>8. shown \in Seq(Tokens) /\ draft \in Seq(Tokens)
  BY <1>4 DEF Init
<1>9. seed \in Seeds /\ pc = "prefill"
  BY DEF Init
<1> QED
  BY <1>1, <1>3, <1>5, <1>6, <1>7, <1>8, <1>9 DEF StreamTypes

LEMMA VerifyTypes ==
    ASSUME StreamTypes, BestIsAToken, Verify
    PROVE  StreamTypes'
<1>1. PICK d, t, a, s :
         /\ IsWindow(d, t, a, s) /\ t = Targets(d) /\ Adds(s)
         /\ off' \in BOOLEAN /\ cache' = Commit(d, a) /\ draft' = DraftAfter(d, a, s)
  BY VerifyAdds
<1>2. prev \in Tokens /\ cache \in Caches /\ draft \in Seq(Tokens) /\ out \in Seq(Tokens)
      /\ prompt \in Seq(Tokens) /\ prompt # <<>>
  BY DEF StreamTypes
<1>3. /\ First(Fed(d), Least(Len(d), a + 1)) = Fed(s)
      /\ Fed(s) \in Seq(Tokens) /\ s # <<>> /\ Fed(d) \in Seq(Tokens)
  BY <1>1, <1>2, CommittedAreStreamed
<1>4. cache' \in Caches
  <2> DEFINE rows == Projected(First(Fed(d), Least(Len(d), a + 1)))
  <2>1. rows \in Seq(Cells)
    BY <1>3, ProjectedType
  <2> HIDE DEF rows
  <2>2. cache.k \in Seq(Cells) /\ cache.compact \in Seq(Cells)
    BY <1>2 DEF Caches
  <2>3. cache.k \o rows \in Seq(Cells) /\ cache.compact \o rows \in Seq(Cells)
    BY <2>1, <2>2, ConcatProperties
  <2> QED
    BY <1>1, <1>2, <2>3, CommitFields DEF rows
<1>5. draft' \in Seq(Tokens)
  <2>1. s \in Seq(Tokens)
    BY <1>1 DEF Adds
  <2>2. prompt \o out \in Seq(Tokens)
    BY <1>2, ConcatProperties
  <2>3. (prompt \o out) \o s \in Seq(Tokens) /\ (prompt \o out) \o s # <<>>
    BY <1>3, <2>1, <2>2, ConcatProperties, ConcatEqualIffEmpty
  <2>4. Front((prompt \o out) \o s) \in Seq(Tokens)
    BY <2>3, FrontAndLast
  <2>5. draft \o Fed(d) \in Seq(Tokens)
    BY <1>2, <1>3, ConcatProperties
  <2> QED
    BY <1>1, <1>2, <2>4, <2>5 DEF DraftAfter
<1>6. /\ out' \in Seq(Tokens) /\ Len(out') <= limit
      /\ prev' \in Tokens /\ shown' \in Seq(Tokens) /\ pc' \in {"decode", "done"}
      /\ pc' = "decode" => Len(out') < limit
      /\ seed' = seed /\ gpu' = gpu /\ prompt' = prompt /\ limit' = limit
  BY <1>1, AddsTypes
<1> QED
  BY <1>1, <1>4, <1>5, <1>6 DEF StreamTypes

LEMMA PrefillTypes ==
    ASSUME StreamTypes, Prefill
    PROVE  StreamTypes'
<1> DEFINE p == PrefillIds
<1>1. p \in Seq(Tokens)
  BY PrefillType DEF StreamTypes
<1>2. p \in Seq(Cells) /\ <<>> \in Seq(Cells) /\ <<>> \in Seq(Tokens)
  BY <1>1, SeqMonotonic DEF Cells
<1>3. PICK reused \in BOOLEAN :
         cache' = [k |-> p, compact |-> p,
                   resident |-> IF gpu = "required" /\ ~reused THEN p ELSE Nothing]
  BY DEF Prefill
<1>4. draft' = IF drafter = "qwen" THEN p ELSE <<>>
  BY DEF Prefill
<1>5. /\ pc = "prefill" /\ pc' = "decode" /\ UNCHANGED <<prev, out, off, shown>>
      /\ seed' = seed /\ gpu' = gpu /\ prompt' = prompt /\ limit' = limit
  BY DEF Prefill, input
<1> HIDE DEF p
<1>6. cache' \in Caches
  BY <1>2, <1>3 DEF Caches, Nothing
<1>7. draft' \in Seq(Tokens)
  BY <1>1, <1>2, <1>4
<1>8. Len(out') < limit'
  BY <1>5, EmptySeq DEF StreamTypes
<1> QED
  BY <1>5, <1>6, <1>7, <1>8 DEF StreamTypes

\* The row of the token fed, in the resident copies.
LEMMA ResidentType ==
    ASSUME cache \in Caches, prev \in Cells
    PROVE  Resident \in Seq(Cells)
<1> DEFINE rows == IF cache.resident = Nothing THEN cache.compact ELSE cache.resident
<1>1. rows \in Seq(Cells)
  BY DEF Caches
<1>2. Resident = Append(rows, prev)
  BY DEF Resident
<1> HIDE DEF rows
<1> QED
  BY <1>1, <1>2, AppendProperties

LEMMA DecodeTypes ==
    ASSUME StreamTypes, Decode
    PROVE  StreamTypes'
<1>1. PICK u \in Tokens :
         /\ Adds(<<u>>) /\ off' = off /\ draft' = draft
         /\ cache' = [k |-> cache.k \o Projected(<<prev>>),
                      compact |-> cache.compact \o Projected(<<prev>>),
                      resident |-> IF gpu = "required" THEN Resident ELSE Nothing]
  BY DecodeAdds
<1>2. prev \in Tokens /\ cache \in Caches /\ draft \in Seq(Tokens) /\ off \in BOOLEAN
  BY DEF StreamTypes
<1>3. cache' \in Caches
  <2> DEFINE row == Projected(<<prev>>)
  <2>1. row \in Seq(Cells)
    <3>1. <<prev>> \in Seq(Tokens)
      BY <1>2
    <3> QED
      BY <3>1, ProjectedType
  <2> HIDE DEF row
  <2>2. cache.k \in Seq(Cells) /\ cache.compact \in Seq(Cells)
    BY <1>2 DEF Caches
  <2>3. cache.k \o row \in Seq(Cells) /\ cache.compact \o row \in Seq(Cells)
    BY <2>1, <2>2, ConcatProperties
  <2>4. Resident \in Seq(Cells) /\ Nothing \in Seq(Cells)
    BY <1>2, ResidentType DEF Cells, Nothing
  <2> DEFINE res == IF gpu = "required" THEN Resident ELSE Nothing
  <2>5. res \in Seq(Cells)
    BY <2>4
  <2>6. cache' = [k |-> cache.k \o row, compact |-> cache.compact \o row, resident |-> res]
    BY <1>1 DEF row
  <2> HIDE DEF res
  <2> QED
    BY <2>3, <2>5, <2>6 DEF Caches
<1> DEFINE s == <<u>>
<1>4. Adds(s)
  BY <1>1
<1> HIDE DEF s
<1>5. /\ out' \in Seq(Tokens) /\ Len(out') <= limit
      /\ prev' \in Tokens /\ shown' \in Seq(Tokens) /\ pc' \in {"decode", "done"}
      /\ pc' = "decode" => Len(out') < limit
      /\ seed' = seed /\ gpu' = gpu /\ prompt' = prompt /\ limit' = limit
  BY <1>4, AddsTypes
<1> QED
  BY <1>1, <1>2, <1>3, <1>5 DEF StreamTypes

LEMMA TypesStep ==
    ASSUME StreamTypes, BestIsAToken, [Next]_vars
    PROVE  StreamTypes'
<1>1. CASE Prefill
  BY <1>1, PrefillTypes
<1>2. CASE Verify
  BY <1>2, VerifyTypes
<1>3. CASE Decode
  BY <1>3, DecodeTypes
<1>4. CASE UNCHANGED vars
  BY <1>4 DEF StreamTypes, vars, input
<1> QED
  BY <1>1, <1>2, <1>3, <1>4 DEF Next, Done

-----------------------------------------------------------------------------
(* What the reader sees.                                                   *)

ShownInv ==
    /\ pc # "done" => shown = out /\ Stop \notin ToSet(out)
    /\ ShownIsAnswer

LEMMA InitShown == Init => ShownInv
<1> SUFFICES ASSUME Init PROVE ShownInv
  OBVIOUS
<1>1. out = <<>> /\ shown = <<>>
  BY DEF Init
<1>2. ToSet(<<>>) = {} /\ Len(<<>>) = 0
  BY DEF ToSet
<1>3. First(<<>>, 0) = <<>>
  BY <1>2, EmptySeq, FirstAll
<1>4. ShownIsAnswer
  BY <1>1, <1>2, <1>3 DEF ShownIsAnswer
<1> QED
  BY <1>1, <1>2, <1>4 DEF ShownInv

\* Every step shows the whole of what it adds, or ends the answer at a marker.
LEMMA ShownAdds ==
    ASSUME StreamTypes, ShownInv, NEW s, Adds(s)
    PROVE  ShownInv'
<1>1. /\ s \in Seq(Tokens) /\ out \in Seq(Tokens) /\ shown = out /\ Stop \notin ToSet(out)
      /\ Len(out) \in Nat /\ Len(s) \in Nat
  BY LenProperties DEF Adds, StreamTypes, ShownInv
<1>2. /\ out' = out \o s /\ shown' = out \o Visible(s)
      /\ pc' = IF Stop \in ToSet(s) \/ Len(out) + Len(s) >= limit THEN "done" ELSE "decode"
  BY <1>1 DEF Adds, Extend
<1>3. out \o s \in Seq(Tokens) /\ Len(out \o s) = Len(out) + Len(s)
  BY <1>1, ConcatProperties
<1>4. CASE Stop \notin ToSet(s)
  <2>1. shown' = out'
    BY <1>2, <1>4 DEF Visible
  <2>2. Stop \notin ToSet(out')
    BY <1>1, <1>2, <1>4, ToSetOfConcat
  <2>3. First(out', Len(out')) = out'
    BY <1>2, <1>3, FirstAll
  <2>4. Len(out') \in 0..Len(out')
    BY <1>1, <1>2, <1>3
  <2>5. ShownIsAnswer'
    BY <2>1, <2>2, <2>3, <2>4 DEF ShownIsAnswer
  <2> QED
    BY <2>1, <2>2, <2>5 DEF ShownInv
<1>5. CASE Stop \in ToSet(s)
  <2>1. PICK i \in 1..Len(s) :
           Visible(s) = First(s, i - 1) /\ s[i] = Stop /\ Stop \notin ToSet(First(s, i - 1))
    BY <1>1, <1>5, VisiblePart
  <2> DEFINE k == i - 1
  <2>2. k \in 0..Len(s) /\ k + 1 \in 1..Len(s) /\ k + 1 = i
    BY <1>1
  <2> HIDE DEF k
  <2>3. Visible(s) = First(s, k) /\ Stop \notin ToSet(First(s, k)) /\ s[k + 1] = Stop
    BY <2>1, <2>2 DEF k
  <2>4. shown' = First(out', Len(out) + k)
    BY <1>1, <1>2, <2>2, <2>3, FirstOfConcat, ZenonT(60)
  <2>5. First(s, k) \in Seq(Tokens)
    BY <1>1, <2>2, FirstElements
  <2>6. Stop \notin ToSet(shown')
    BY <1>1, <1>2, <2>3, <2>5, ToSetOfConcat
  <2> DEFINE m == Len(out) + k
  <2>7. m \in 0..Len(out') /\ m + 1 \in 1..(Len(out) + Len(s)) /\ ~(m + 1 <= Len(out)) /\ m + 1 - Len(out) = k + 1
    BY <1>1, <1>2, <1>3, <2>2
  <2> HIDE DEF m
  <2>8. out'[m + 1] = Stop
    <3>1. \A j \in 1..(Len(out) + Len(s)) :
             (out \o s)[j] = IF j <= Len(out) THEN out[j] ELSE s[j - Len(out)]
      BY <1>1, ConcatProperties
    <3>2. (out \o s)[m + 1] = s[k + 1]
      BY <2>7, <3>1
    <3> QED
      BY <1>2, <2>3, <3>2
  <2>9. ShownIsAnswer'
    <3>1. shown' = First(out', m)
      BY <2>4 DEF m
    <3> QED
      BY <2>6, <2>7, <2>8, <3>1 DEF ShownIsAnswer
  <2> QED
    BY <1>2, <1>5, <2>9 DEF ShownInv
<1> QED
  BY <1>4, <1>5

LEMMA ShownStep ==
    ASSUME StreamTypes, BestIsAToken, ShownInv, [Next]_vars
    PROVE  ShownInv'
<1>1. CASE Prefill
  BY <1>1 DEF Prefill, ShownInv, ShownIsAnswer
<1>2. CASE Verify
  <2>1. PICK s : Adds(s)
    BY <1>2, VerifyAdds
  <2> QED
    BY <2>1, ShownAdds
<1>3. CASE Decode
  <2>1. PICK s : Adds(s)
    BY <1>3, DecodeAdds
  <2> QED
    BY <2>1, ShownAdds
<1>4. CASE UNCHANGED vars
  BY <1>4 DEF ShownInv, ShownIsAnswer, vars, input
<1> QED
  BY <1>1, <1>2, <1>3, <1>4 DEF Next, Done

-----------------------------------------------------------------------------
(* The caches are those of the text.                                       *)

\* The last prompt token, which is not prefilled, and the answer so far.
Said == <<Last(prompt)>> \o out

CacheInv ==
    /\ gpu = "required" => off
    /\ prev = Last(Said)
    /\ cache.resident \in Seq(Tokens)
    /\ pc # "prefill" =>
          /\ Attended = Context
          /\ Len(cache.k) = Len(Context) /\ Len(cache.compact) = Len(Context)
          /\ gpu = "none" => cache.resident = Nothing
    /\ DraftFollows

\* The text behind a prompt.
LEMMA SaidOf ==
    ASSUME NEW q \in Seq(Tokens), q # <<>>, NEW o \in Seq(Tokens), NEW w, w = <<Last(q)>> \o o
    PROVE  /\ w \in Seq(Tokens) /\ w # <<>> /\ Len(w) = Len(o) + 1
           /\ First(w, Len(o)) = Front(w)
           /\ <<Last(q)>> \in Seq(Tokens)
<1> DEFINE e == <<Last(q)>>
<1>1. Last(q) \in Tokens
  BY FrontAndLast
<1>2. e \in Seq(Tokens) /\ Len(e) = 1 /\ w = e \o o
  BY <1>1
<1> HIDE DEF e
<1>3. w \in Seq(Tokens) /\ Len(w) = Len(o) + 1 /\ Len(o) \in Nat
  BY <1>2, ConcatProperties, LenProperties
<1>4. w # <<>>
  BY <1>3, EmptySeq
<1>5. Len(w) - 1 = Len(o)
  BY <1>3
<1>6. Front(w) = First(w, Len(w) - 1)
  BY <1>3, <1>4, FrontAndLast
<1> QED
  BY <1>2, <1>3, <1>4, <1>5, <1>6 DEF e

LEMMA SaidType ==
    ASSUME prompt \in Seq(Tokens), prompt # <<>>, out \in Seq(Tokens)
    PROVE  /\ Said \in Seq(Tokens) /\ Said # <<>> /\ Len(Said) = Len(out) + 1
           /\ PrefillIds \in Seq(Tokens) /\ <<Last(prompt)>> \in Seq(Tokens)
           /\ Context = Ctx(PrefillIds, Said)
           /\ Context \in Seq(Tokens)
<1> DEFINE w == Said
<1>1. w = <<Last(prompt)>> \o out
  BY DEF Said
<1>2. PrefillIds \in Seq(Tokens)
  BY PrefillType
<1> HIDE DEF w
<1>3. /\ w \in Seq(Tokens) /\ w # <<>> /\ Len(w) = Len(out) + 1 /\ First(w, Len(out)) = Front(w)
      /\ <<Last(prompt)>> \in Seq(Tokens)
  BY <1>1, SaidOf
<1>4. Context = PrefillIds \o First(w, Len(out))
  BY <1>1 DEF Context
<1>5. Context = Ctx(PrefillIds, w)
  BY <1>3, <1>4 DEF Ctx
<1>6. Context \in Seq(Tokens)
  BY <1>2, <1>3, <1>5, ContextAndNewest
<1> QED
  BY <1>2, <1>3, <1>5, <1>6 DEF w

\* A step that adds s grows the context by what a window commits of s.
LEMMA ContextAdds ==
    ASSUME StreamTypes, prev = Last(Said), NEW s, Adds(s)
    PROVE  /\ Said' = Said \o s
           /\ prev' = Last(Said')
           /\ Context' = Context \o Fed(s)
           /\ Context \in Seq(Tokens) /\ Fed(s) \in Seq(Tokens) /\ Len(Fed(s)) = Len(s)
           /\ Len(Context') = Len(Context) + Len(s)
<1>1. /\ prompt \in Seq(Tokens) /\ prompt # <<>> /\ out \in Seq(Tokens) /\ prev \in Tokens
      /\ s \in Seq(Tokens) /\ s # <<>>
  BY DEF StreamTypes, Adds
<1>2. out' = out \o s /\ prev' = Last(s) /\ prompt' = prompt
  BY DEF Adds, Extend, input
<1>3. /\ Said \in Seq(Tokens) /\ Said # <<>> /\ PrefillIds \in Seq(Tokens)
      /\ <<Last(prompt)>> \in Seq(Tokens)
      /\ Context = Ctx(PrefillIds, Said) /\ Context \in Seq(Tokens)
  BY <1>1, SaidType
<1>4. Said' = Said \o s
  <2> DEFINE e == <<Last(prompt)>>
  <2>1. e \in Seq(Tokens)
    BY <1>3
  <2>2. Said = e \o out /\ Said' = e \o (out \o s)
    BY <1>2 DEF Said
  <2> HIDE DEF e
  <2>3. e \o (out \o s) = (e \o out) \o s
    BY <1>1, <2>1, ConcatTokens
  <2> QED
    BY <2>2, <2>3
<1>5. Said' \in Seq(Tokens) /\ Said' # <<>>
  BY <1>1, <1>3, <1>4, ConcatProperties, ConcatEqualIffEmpty
<1>6. Context' = Ctx(PrefillIds, Said')
  <2> DEFINE w == Said'
  <2>1. w = <<Last(prompt)>> \o (out \o s)
    BY <1>2 DEF Said
  <2>2. Context' = PrefillIds \o First(w, Len(out \o s))
    BY <1>2, <2>1 DEF Context, PrefillIds
  <2> HIDE DEF w
  <2> DEFINE o == out \o s
  <2>3. o \in Seq(Tokens)
    BY <1>1, ConcatProperties
  <2>4. w = <<Last(prompt)>> \o o /\ Context' = PrefillIds \o First(w, Len(o))
    BY <2>1, <2>2
  <2> HIDE DEF o
  <2>5. First(w, Len(o)) = Front(w)
    BY <1>1, <2>3, <2>4, SaidOf
  <2> QED
    BY <2>4, <2>5 DEF Ctx, w
<1>7. /\ Ctx(PrefillIds, Said \o s) = Ctx(PrefillIds, Said) \o (<<Last(Said)>> \o Front(s))
      /\ Last(Said \o s) = Last(s)
  <2> DEFINE p == PrefillIds
  <2> DEFINE w == Said
  <2>1. p \in Seq(Tokens) /\ w \in Seq(Tokens) /\ w # <<>> /\ s \in Seq(Tokens) /\ s # <<>>
    BY <1>1, <1>3
  <2> HIDE DEF p, w
  <2>2. Ctx(p, w \o s) = Ctx(p, w) \o (<<Last(w)>> \o Front(s)) /\ Last(w \o s) = Last(s)
    BY <2>1, ContextGrows
  <2> QED
    BY <2>2 DEF p, w
<1>8. Fed(s) = <<Last(Said)>> \o Front(s)
  BY DEF Fed
<1>9. Context' = Context \o Fed(s)
  BY <1>3, <1>4, <1>6, <1>7, <1>8
<1>10. Fed(s) \in Seq(Tokens) /\ Len(Fed(s)) = Len(s)
  BY <1>1, FedType
<1>11. Len(Context \o Fed(s)) = Len(Context) + Len(s)
  <2> DEFINE c == Context
  <2> DEFINE f == Fed(s)
  <2>1. c \in Seq(Tokens) /\ f \in Seq(Tokens) /\ Len(f) = Len(s)
    BY <1>3, <1>10
  <2> HIDE DEF c, f
  <2>2. Len(c \o f) = Len(c) + Len(f)
    BY <2>1, ConcatProperties
  <2> QED
    BY <2>1, <2>2 DEF c, f
<1> QED
  BY <1>2, <1>3, <1>4, <1>7, <1>9, <1>10, <1>11

LEMMA NothingSaid ==
    ASSUME prompt \in Seq(Tokens), prompt # <<>>, out = <<>>
    PROVE  Said = <<Last(prompt)>> /\ Last(Said) = Last(prompt) /\ Context = PrefillIds
<1> DEFINE e == <<Last(prompt)>>
<1>1. /\ PrefillIds \in Seq(Tokens) /\ e \in Seq(Tokens) /\ Len(out) = 0
      /\ Len(e) = 1 /\ e[1] = Last(prompt)
  BY EmptySeq, SaidType
<1>2. Said = e \o <<>>
  BY DEF Said
<1>3. Context = PrefillIds \o First(e \o <<>>, 0)
  BY <1>1 DEF Context
<1> HIDE DEF e
<1>4. e \o <<>> = e
  BY <1>1, ConcatEmptySeq
<1>6. First(e, 0) = <<>>
  BY <1>1, FirstNone
<1>7. Context = PrefillIds
  BY <1>1, <1>3, <1>4, <1>6, ConcatEmptySeq
<1>8. Last(e) = Last(prompt)
  BY <1>1 DEF Last
<1> QED
  BY <1>2, <1>4, <1>7, <1>8 DEF e

LEMMA InitCache ==
    ASSUME DraftsOnCpu, StreamTypes, Init
    PROVE  CacheInv
<1>1. gpu = "required" => off
  <2>1. PICK setup \in Setups : gpu = setup[1] /\ drafter = setup[2]
    BY DEF Init
  <2> QED
    BY <2>1 DEF Init, DraftsOnCpu
<1>2. prompt \in Seq(Tokens) /\ prompt # <<>> /\ out = <<>> /\ prev = Last(prompt) /\ pc = "prefill"
  BY DEF Init, StreamTypes
<1>3. prev = Last(Said)
  BY <1>2, NothingSaid
<1>4. cache.resident \in Seq(Tokens)
  <2>1. <<>> \in Seq(Tokens)
    BY EmptySeq
  <2> QED
    BY <2>1 DEF Init, Nothing
<1> QED
  BY <1>1, <1>2, <1>3, <1>4 DEF CacheInv, DraftFollows

LEMMA PrefillCache ==
    ASSUME StreamTypes, CacheInv, Prefill
    PROVE  CacheInv'
<1> DEFINE p == PrefillIds
<1>1. /\ pc' = "decode" /\ UNCHANGED <<prev, out, off, shown>>
      /\ gpu' = gpu /\ prompt' = prompt /\ drafter' = drafter
  BY DEF Prefill, input
<1>2. out = <<>> /\ prompt \in Seq(Tokens) /\ prompt # <<>> /\ prev = Last(Said)
  BY DEF Prefill, StreamTypes, CacheInv
<1>3. p \in Seq(Tokens) /\ p # <<>> /\ Context = p
  BY <1>2, PrefillType, NothingSaid
<1>4. Context' = p /\ prev' = Last(Said')
  BY <1>1, <1>2, <1>3 DEF Context, PrefillIds, Said
<1>5. PICK reused \in BOOLEAN :
         cache' = [k |-> p, compact |-> p,
                   resident |-> IF gpu = "required" /\ ~reused THEN p ELSE Nothing]
  BY DEF Prefill
<1>6. drafter = "qwen" => draft' = p
  BY DEF Prefill
<1> HIDE DEF p
<1>7. /\ cache'.k = p /\ cache'.compact = p /\ cache'.resident \in {p, Nothing}
      /\ gpu = "none" => cache'.resident = Nothing
  BY <1>5
<1>8. <<>> \in Seq(Tokens)
  BY EmptySeq
<1>9. cache'.resident \in Seq(Tokens)
  BY <1>3, <1>7, <1>8 DEF Nothing
<1>10. Attended' = p
  BY <1>7 DEF Attended
<1>11. DraftFollows'
  BY <1>1, <1>4, <1>6 DEF DraftFollows
<1>12. gpu = "required" => off
  BY DEF CacheInv
<1> QED
  BY <1>1, <1>4, <1>7, <1>9, <1>10, <1>11, <1>12 DEF CacheInv

\* A rejected window: the draft model is given all of the text but its newest
\* token, which is the context.
LEMMA DraftRebuilt ==
    ASSUME StreamTypes, prev = Last(Said), Len(prompt) > 1, NEW s, Adds(s)
    PROVE  Front(prompt \o out \o s) = Context'
<1> DEFINE p == Front(prompt)
<1> DEFINE e == <<Last(prompt)>>
<1> DEFINE w == Said
<1>1. /\ prompt \in Seq(Tokens) /\ prompt # <<>> /\ out \in Seq(Tokens)
      /\ s \in Seq(Tokens) /\ s # <<>> /\ prompt' = prompt
  BY DEF StreamTypes, Adds, input
<1>2. p \in Seq(Tokens) /\ e \in Seq(Tokens) /\ p \o e = prompt
  BY <1>1, FrontAndLast
<1>3. w = e \o out /\ w \in Seq(Tokens) /\ Said' = w \o s
  BY <1>1, SaidType, ContextAdds DEF Said
<1>4. PrefillIds = p
  BY DEF PrefillIds
<1>5. Context' = p \o Front(w \o s)
  <2>1. Context' = Context \o Fed(s) /\ Fed(s) = <<Last(w)>> \o Front(s)
    BY ContextAdds DEF Fed
  <2>2. Context = Ctx(p, w) /\ w # <<>>
    BY <1>1, <1>4, SaidType
  <2> HIDE DEF p, w
  <2>3. p \in Seq(Tokens) /\ w \in Seq(Tokens) /\ w # <<>> /\ s \in Seq(Tokens) /\ s # <<>>
    BY <1>1, <1>2, <1>3, <2>2
  <2>4. Ctx(p, w \o s) = Ctx(p, w) \o (<<Last(w)>> \o Front(s))
    BY <2>3, ContextGrows
  <2> QED
    BY <2>1, <2>2, <2>4 DEF Ctx
<1> HIDE DEF p, e, w
<1>6. (p \o e) \o out = p \o w
  <2>1. (p \o e) \o out = p \o (e \o out)
    <3>1. p \in Seq(Tokens) /\ e \in Seq(Tokens) /\ out \in Seq(Tokens)
      BY <1>1, <1>2
    <3> QED
      BY <3>1, ConcatTokens
  <2> QED
    BY <1>3, <2>1
<1>7. (p \o w) \o s = p \o (w \o s)
  <2>1. p \in Seq(Tokens) /\ w \in Seq(Tokens) /\ s \in Seq(Tokens)
    BY <1>1, <1>2, <1>3
  <2> QED
    BY <2>1, ConcatTokens
<1>8. prompt \o out \o s = p \o (w \o s)
  BY <1>2, <1>6, <1>7
<1> DEFINE u == w \o s
<1>9. u \in Seq(Tokens) /\ u # <<>>
  BY <1>1, <1>3, ConcatProperties, ConcatEqualIffEmpty
<1> HIDE DEF u
<1>10. Front(p \o u) = p \o Front(u)
  BY <1>2, <1>9, FrontOfConcat
<1> QED
  BY <1>5, <1>8, <1>10 DEF u

LEMMA VerifyCache ==
    ASSUME StreamTypes, BestIsAToken, CacheInv, Verify
    PROVE  CacheInv'
<1>1. PICK d, t, a, s :
         /\ IsWindow(d, t, a, s) /\ Adds(s) /\ ~off
         /\ cache' = Commit(d, a) /\ draft' = DraftAfter(d, a, s)
  BY VerifyAdds
<1>2. /\ pc = "decode" /\ gpu = "none" /\ prev = Last(Said) /\ prev \in Tokens
      /\ cache \in Caches /\ cache.resident = Nothing /\ Attended = Context
      /\ Len(cache.k) = Len(Context) /\ Len(cache.compact) = Len(Context)
  BY <1>1 DEF StreamTypes, CacheInv, Verify
<1>3. /\ prev' = Last(Said') /\ Context' = Context \o Fed(s)
      /\ Context \in Seq(Tokens) /\ Fed(s) \in Seq(Tokens) /\ Len(Fed(s)) = Len(s)
      /\ Len(Context') = Len(Context) + Len(s)
  BY <1>1, <1>2, ContextAdds
<1>4. pc' \in {"decode", "done"} /\ gpu' = gpu /\ drafter' = drafter /\ prompt' = prompt
  BY <1>1, AddsTypes
<1>5. Projected(First(Fed(d), Least(Len(d), a + 1))) = Fed(s)
  <2>1. First(Fed(d), Least(Len(d), a + 1)) = Fed(s)
    BY <1>1, <1>2, CommittedAreStreamed
  <2>2. gpu # "required"
    BY <1>2
  <2> QED
    BY <1>3, <2>1, <2>2, ProjectedType
<1>6. /\ cache'.k = cache.k \o Fed(s) /\ cache'.compact = cache.compact \o Fed(s)
      /\ cache'.resident = Nothing
  BY <1>1, <1>2, <1>5, CommitFields
<1>7. Attended' = Context'
  BY <1>2, <1>3, <1>6 DEF Attended
<1>8. Len(cache'.k) = Len(Context') /\ Len(cache'.compact) = Len(Context')
  <2> DEFINE f == Fed(s)
  <2>1. f \in Seq(Cells) /\ Len(f) = Len(s)
    BY <1>3, SeqMonotonic DEF Cells
  <2> DEFINE x == cache.k
  <2> DEFINE y == cache.compact
  <2>2. x \in Seq(Cells) /\ y \in Seq(Cells)
    BY <1>2 DEF Caches
  <2> HIDE DEF f, x, y
  <2>3. Len(x \o f) = Len(x) + Len(f) /\ Len(y \o f) = Len(y) + Len(f)
    BY <2>1, <2>2, ConcatProperties
  <2> QED
    BY <1>2, <1>3, <1>6, <2>1, <2>3 DEF f, x, y
<1>9. DraftFollows'
  <2> SUFFICES ASSUME drafter = "qwen", Len(prompt) > 1 PROVE draft' = Context'
    BY <1>4 DEF DraftFollows
  <2>1. CASE a < Len(d)
    <3>1. draft' = Front(prompt \o out \o s)
      BY <1>1, <2>1 DEF DraftAfter
    <3> QED
      BY <1>1, <1>2, <3>1, DraftRebuilt
  <2>2. CASE ~(a < Len(d))
    <3>1. draft' = draft \o Fed(d)
      BY <1>1, <2>2 DEF DraftAfter
    <3>2. d = s
      BY <2>2, <1>1 DEF IsWindow
    <3>3. draft = Context
      BY <1>1, <1>2 DEF CacheInv, DraftFollows
    <3> QED
      BY <1>3, <3>1, <3>2, <3>3
  <2> QED
    BY <2>1, <2>2
<1>10. cache'.resident \in Seq(Tokens)
  BY <1>6, EmptySeq DEF Nothing
<1> QED
  BY <1>2, <1>3, <1>4, <1>6, <1>7, <1>8, <1>9, <1>10 DEF CacheInv

LEMMA DecodeCache ==
    ASSUME StreamTypes, CacheInv, Decode
    PROVE  CacheInv'
<1>1. PICK u \in Tokens :
         /\ Adds(<<u>>) /\ off /\ off' = off
         /\ cache' = [k |-> cache.k \o Projected(<<prev>>),
                      compact |-> cache.compact \o Projected(<<prev>>),
                      resident |-> IF gpu = "required" THEN Resident ELSE Nothing]
  BY DecodeAdds
<1> DEFINE s == <<u>>
<1> DEFINE e == <<prev>>
<1> DEFINE row == Projected(e)
<1>2. /\ pc = "decode" /\ gpu \in {"none", "required"} /\ prev = Last(Said) /\ prev \in Tokens
      /\ cache \in Caches /\ cache.resident \in Seq(Tokens) /\ Attended = Context
      /\ Len(cache.k) = Len(Context) /\ Len(cache.compact) = Len(Context)
      /\ gpu = "none" => cache.resident = Nothing
  BY DEF StreamTypes, CacheInv, Decode
<1>3. Adds(s) /\ Len(s) = 1 /\ Fed(s) = e /\ e \in Seq(Tokens)
  <2>1. Front(s) = <<>>
    <3>1. s \in Seq(Tokens) /\ Len(s) = 1
      OBVIOUS
    <3> HIDE DEF s
    <3>2. 0 \in 0..Len(s) /\ Front(s) = First(s, 0)
      BY <3>1 DEF Front, First
    <3>3. First(s, 0) \in Seq(Tokens) /\ Len(First(s, 0)) = 0
      BY <3>1, <3>2, FirstElements
    <3> QED
      BY <3>2, <3>3, EmptySeq
  <2>2. e \in Seq(Tokens)
    BY <1>2
  <2>3. e \o <<>> = e
    BY <2>2, ConcatEmptySeq
  <2> QED
    BY <1>1, <2>1, <2>2, <2>3 DEF Fed
<1>4. cache'.k = cache.k \o row /\ cache'.compact = cache.compact \o row
      /\ cache'.resident = IF gpu = "required" THEN Resident ELSE Nothing
  BY <1>1
<1> HIDE DEF s
<1>5. /\ prev' = Last(Said') /\ Context' = Context \o e
      /\ Context \in Seq(Tokens) /\ Len(Context') = Len(Context) + 1
  BY <1>2, <1>3, ContextAdds
<1>6. pc' \in {"decode", "done"} /\ gpu' = gpu /\ drafter' = drafter /\ prompt' = prompt
  BY <1>3, AddsTypes
<1>7. row \in Seq(Cells) /\ Len(row) = 1 /\ (gpu = "none" => row = e)
  <2>1. Len(e) = 1
    OBVIOUS
  <2> HIDE DEF e
  <2> QED
    BY <1>3, <2>1, ProjectedType
<1> HIDE DEF e, row
<1>8. Len(cache'.k) = Len(Context') /\ Len(cache'.compact) = Len(Context')
  <2> DEFINE x == cache.k
  <2> DEFINE y == cache.compact
  <2>1. x \in Seq(Cells) /\ y \in Seq(Cells)
    BY <1>2 DEF Caches
  <2> HIDE DEF x, y
  <2>2. Len(x \o row) = Len(x) + Len(row) /\ Len(y \o row) = Len(y) + Len(row)
    BY <1>7, <2>1, ConcatProperties
  <2> QED
    BY <1>2, <1>4, <1>5, <1>7, <2>2 DEF x, y
<1>9. CASE gpu = "none"
  <2>1. cache'.resident = Nothing /\ Nothing \in Seq(Tokens)
    BY <1>4, <1>9, EmptySeq DEF Nothing
  <2>2. cache.compact = Context
    BY <1>2, <1>9 DEF Attended
  <2>3. Attended' = Context'
    BY <1>4, <1>5, <1>7, <1>9, <2>1, <2>2 DEF Attended
  <2>4. DraftFollows'
    BY <1>1 DEF DraftFollows
  <2> QED
    BY <1>1, <1>5, <1>6, <1>8, <1>9, <2>1, <2>3, <2>4 DEF CacheInv
<1>10. CASE gpu = "required"
  <2> DEFINE c == Context
  <2> DEFINE r == Append(c, prev)
  <2>1. Resident = r
    BY <1>2 DEF Resident, Attended
  <2>2. c \in Seq(Tokens) /\ prev \in Tokens
    BY <1>2, <1>5
  <2> HIDE DEF c
  <2>3. r \in Seq(Tokens) /\ r # <<>> /\ r = c \o <<prev>>
    BY <2>2, AppendProperties, AppendIsConcat
  <2> HIDE DEF r
  <2>4. cache'.resident = r /\ Attended' = r
    BY <1>4, <1>10, <2>1, <2>3 DEF Attended, Nothing
  <2>5. r = Context'
    BY <1>5, <2>3 DEF c, e
  <2>6. DraftFollows'
    BY <1>1 DEF DraftFollows
  <2> QED
    BY <1>1, <1>5, <1>6, <1>8, <1>10, <2>3, <2>4, <2>5, <2>6 DEF CacheInv
<1> QED
  BY <1>2, <1>9, <1>10

LEMMA CacheStep ==
    ASSUME StreamTypes, BestIsAToken, CacheInv, [Next]_vars
    PROVE  CacheInv'
<1>1. CASE Prefill
  BY <1>1, PrefillCache
<1>2. CASE Verify
  BY <1>2, VerifyCache
<1>3. CASE Decode
  BY <1>3, DecodeCache
<1>4. CASE UNCHANGED vars
  BY <1>4 DEF CacheInv, Said, Attended, Context, PrefillIds, DraftFollows, vars, input
<1> QED
  BY <1>1, <1>2, <1>3, <1>4 DEF Next, Done

-----------------------------------------------------------------------------
(* The answer is the target's.                                             *)

LEMMA FirstGrows ==
    ASSUME NEW T, NEW s \in Seq(T), NEW n \in 1..Len(s)
    PROVE  Append(First(s, n - 1), s[n]) = First(s, n)
<1> DEFINE f == First(s, n - 1)
<1> DEFINE e == s[n]
<1>1. n - 1 \in 0..Len(s) /\ n \in Nat \ {0}
  BY LenProperties
<1>2. f \in Seq(T) /\ e \in T
  BY <1>1, FirstElements, ElementOfSeq
<1>3. First(s, n) = f \o <<e>>
  <2>1. 1 \in 1..Len(s) /\ n \in 1..Len(s)
    BY <1>1, LenProperties
  <2>2. SubSeq(s, 1, n) = SubSeq(s, 1, n - 1) \o <<s[n]>>
    BY <1>1, <2>1, SubSeqRecursiveSecond
  <2> QED
    BY <2>2 DEF First
<1> HIDE DEF f, e
<1>4. Append(f, e) = f \o <<e>>
  BY <1>2, AppendIsConcat
<1> QED
  BY <1>3, <1>4 DEF f, e

\* What was fed up to a token that goes on: the newest token of the text and
\* the ones before that token.
LEMMA FedBefore ==
    ASSUME NEW s \in Seq(Tokens), s # <<>>, prev \in Tokens, NEW j \in 1..Len(s)
    PROVE  First(Fed(s), j) = <<prev>> \o First(s, j - 1)
<1> DEFINE f == Front(s)
<1> DEFINE e == <<prev>>
<1> DEFINE k == j - 1
<1>0. /\ f \in Seq(Tokens) /\ Len(f) = Len(s) - 1 /\ Len(s) \in Nat \ {0}
      /\ f = First(s, Len(s) - 1)
  BY FrontAndLast
<1>1. /\ f \in Seq(Tokens) /\ Len(f) = Len(s) - 1 /\ e \in Seq(Tokens) /\ Len(e) = 1
      /\ Len(s) \in Nat \ {0} /\ f = First(s, Len(s) - 1)
  BY <1>0
<1>2. k \in 0..Len(f) /\ k \in 0..(Len(s) - 1) /\ Len(s) - 1 \in 0..Len(s) /\ j = 1 + k
  BY <1>1
<1>3. Fed(s) = e \o f
  BY DEF Fed
<1> HIDE DEF k, e, f
<1>4. First(e \o f, Len(e) + k) = e \o First(f, k)
  <2>1. e \in Seq(Tokens) /\ f \in Seq(Tokens) /\ k \in 0..Len(f)
    BY <1>1, <1>2
  <2> QED
    BY <2>1, FirstOfConcat, SMTT(60)
<1>5. First(f, k) = First(s, k)
  <2> DEFINE m == Len(s) - 1
  <2>1. m \in 0..Len(s) /\ k \in 0..m /\ f = First(s, m)
    BY <1>1, <1>2
  <2> HIDE DEF m
  <2>2. First(First(s, m), k) = First(s, k)
    BY <2>1, FirstOfFirst
  <2> QED
    BY <2>1, <2>2
<1> QED
  BY <1>1, <1>2, <1>3, <1>4, <1>5 DEF e, k

\* The rows before the j-th choice that goes on are the text before it.
LEMMA RowsAreText ==
    ASSUME StreamTypes, CacheInv, NEW d, NEW t, NEW a, NEW s, IsWindow(d, t, a, s),
           pc = "decode", ~off, NEW j \in 1..Len(s)
    PROVE  RowsBefore(d, j) = PrefillIds \o (Said \o First(s, j - 1))
<1>1. /\ gpu # "required" /\ prev = Last(Said) /\ prev \in Tokens
      /\ prompt \in Seq(Tokens) /\ prompt # <<>> /\ out \in Seq(Tokens)
      /\ d \in Seq(Tokens) /\ s \in Seq(Tokens)
  BY DEF StreamTypes, CacheInv, IsWindow
<1>2. /\ First(Fed(d), Least(Len(d), a + 1)) = Fed(s) /\ Len(s) = Least(Len(d), a + 1)
      /\ Fed(d) \in Seq(Tokens) /\ Len(Fed(d)) = Len(d) /\ s # <<>> /\ Len(s) \in 1..Len(d)
  <2>1. Len(s) = Least(Len(d), a + 1)
    BY DEF IsWindow
  <2> QED
    BY <1>1, <2>1, CommittedAreStreamed
<1>3. cache.compact = Context
  BY <1>1 DEF StreamTypes, CacheInv, Attended
<1> DEFINE f == Fed(d)
<1> DEFINE u == First(s, j - 1)
<1> DEFINE n == Len(s)
<1>4. f \in Seq(Tokens) /\ n \in 0..Len(f) /\ j \in 1..Len(f) /\ j \in 0..n /\ j - 1 \in 0..Len(f)
      /\ j - 1 \in 0..Len(s) /\ First(f, n) = Fed(s)
  BY <1>1, <1>2, LenProperties
<1> HIDE DEF f, n
<1>5. First(f, j) = First(Fed(s), j)
  <2>1. First(First(f, n), j) = First(f, j)
    BY <1>4, FirstOfFirst
  <2> QED
    BY <1>4, <2>1
<1>6. First(Fed(s), j) = <<prev>> \o u
  BY <1>1, <1>2, FedBefore
<1>7. Append(First(f, j - 1), f[j]) = First(f, j)
  BY <1>4, FirstGrows
<1>8. Projected(First(f, j - 1)) = First(f, j - 1)
  <2> DEFINE g == First(f, j - 1)
  <2> DEFINE k == j - 1
  <2>1. g \in Seq(Tokens)
    <3>1. k \in 0..Len(f) /\ g = First(f, k)
      BY <1>4
    <3> HIDE DEF k, g
    <3> QED
      BY <1>4, <3>1, FirstElements
  <2> HIDE DEF g, k
  <2>2. Projected(g) = g
    BY <1>1, <2>1, ProjectedType
  <2> QED
    BY <2>2 DEF g
<1>9. RowsBefore(d, j) = Context \o (<<prev>> \o u)
  BY <1>3, <1>5, <1>6, <1>7, <1>8 DEF RowsBefore, f
<1>10. u \in Seq(Tokens)
  BY <1>1, <1>4, FirstElements
<1> DEFINE p == PrefillIds
<1> DEFINE w == Said
<1> HIDE DEF u
<1>11. p \in Seq(Tokens) /\ w \in Seq(Tokens) /\ w # <<>> /\ Context = Ctx(p, w)
  BY <1>1, SaidType
<1> HIDE DEF p, w
<1>12. Ctx(p, w) \o (<<Last(w)>> \o u) = p \o (w \o u)
  BY <1>10, <1>11, ContextBefore
<1> QED
  BY <1>1, <1>9, <1>11, <1>12 DEF p, w, u

\* The text that the abstract specification gives the target.
LEMMA TextBefore ==
    ASSUME StreamTypes, NEW s, Adds(s), NEW j \in 1..Len(s)
    PROVE  Append(PrefillIds, Last(prompt)) \o First(out', Len(out) + (j - 1))
              = PrefillIds \o (Said \o First(s, j - 1))
<1> DEFINE p == PrefillIds
<1> DEFINE e == <<Last(prompt)>>
<1> DEFINE u == First(s, j - 1)
<1>1. /\ prompt \in Seq(Tokens) /\ prompt # <<>> /\ out \in Seq(Tokens)
      /\ s \in Seq(Tokens) /\ out' = out \o s
  BY DEF StreamTypes, Adds, Extend
<1>2. p \in Seq(Tokens) /\ e \in Seq(Tokens) /\ Last(prompt) \in Tokens
  BY <1>1, SaidType, PrefillType
<1>3. Append(p, Last(prompt)) = p \o e
  BY <1>2, AppendIsConcat
<1>4. Said = e \o out
  BY DEF Said
<1>5. j - 1 \in 0..Len(s)
  BY <1>1, LenProperties
<1>6. First(out', Len(out) + (j - 1)) = out \o u /\ u \in Seq(Tokens)
  <2> DEFINE k == j - 1
  <2>1. k \in 0..Len(s)
    BY <1>5
  <2> HIDE DEF k
  <2>2. First(out \o s, Len(out) + k) = out \o First(s, k)
    BY <1>1, <2>1, FirstOfConcat
  <2>3. First(s, k) \in Seq(Tokens)
    BY <1>1, <2>1, FirstElements
  <2> QED
    BY <1>1, <2>2, <2>3 DEF k
<1> HIDE DEF p, e, u
<1> DEFINE v == out \o u
<1>7. /\ p \in Seq(Tokens) /\ e \in Seq(Tokens) /\ out \in Seq(Tokens) /\ u \in Seq(Tokens)
      /\ v \in Seq(Tokens)
  BY <1>1, <1>2, <1>6, ConcatProperties
<1>8. e \o (out \o u) = (e \o out) \o u
  <2>1. e \in Seq(Tokens) /\ out \in Seq(Tokens) /\ u \in Seq(Tokens)
    BY <1>7
  <2> QED
    BY <2>1, ConcatTokens
<1> HIDE DEF v
<1>9. (p \o e) \o v = p \o (e \o v)
  <2>1. p \in Seq(Tokens) /\ e \in Seq(Tokens) /\ v \in Seq(Tokens)
    BY <1>7
  <2> QED
    BY <2>1, ConcatTokens
<1> QED
  BY <1>3, <1>4, <1>6, <1>8, <1>9 DEF v, p, u

\* The input of the abstract specification stays.
LEMMA SameInput ==
    ASSUME prompt' = prompt, seed' = seed, limit' = limit
    PROVE  Answer!input' = Answer!input
<1>1. PrefillIds' = PrefillIds
  BY DEF PrefillIds
<1> QED
  BY <1>1 DEF Answer!input

\* Every token of a verified window is the target's choice for the text before it.
LEMMA VerifyIsGreedyRun ==
    ASSUME StreamTypes, BestIsAToken, CacheInv, Verify
    PROVE  Answer!Next
<1>1. PICK d, t, a, s :
         /\ IsWindow(d, t, a, s) /\ Len(d) <= Window /\ t = Targets(d)
         /\ Adds(s) /\ ~off /\ off' \in BOOLEAN
  BY VerifyAdds
<1>2. /\ out \in Seq(Tokens) /\ s \in Seq(Tokens) /\ d \in Seq(Tokens) /\ prev \in Tokens
      /\ pc = "decode" /\ out' = out \o s
  BY <1>1 DEF StreamTypes, IsWindow, Adds, Extend
<1>3. Len(s) \in 1..Len(d) /\ Len(d) \in Nat \ {0} /\ Len(out) \in Nat /\ d # <<>>
  <2>1. Len(s) \in 1..Len(d)
    BY <1>1, <1>2, CommittedAreStreamed
  <2>2. Len(d) \in Nat \ {0}
    BY <1>1 DEF IsWindow
  <2> QED
    BY <1>2, <2>1, <2>2, EmptySeq, LenProperties
<1>4. Len(out') = Len(out) + Len(s) /\ Len(out') <= limit
      /\ prompt' = prompt /\ seed' = seed /\ limit' = limit
  BY <1>1, AddsTypes
<1>5. Len(out') - Len(out) \in 1..Window
  BY <1>1, <1>3, <1>4, WindowIsPositive
<1>6. Answer!IsPrefix(out, out')
  <2>1. First(out \o s, Len(out) + 0) = out \o First(s, 0)
    <3>1. 0 \in 0..Len(s)
      BY <1>3
    <3> QED
      BY <1>2, <3>1, FirstOfConcat
  <2>2. First(s, 0) = <<>>
    BY <1>2, FirstNone
  <2>3. First(out \o s, Len(out)) = out
    <3>1. Len(out) + 0 = Len(out)
      BY <1>3
    <3>2. out \o <<>> = out
      BY <1>2, ConcatEmptySeq
    <3> QED
      BY <2>1, <2>2, <3>1, <3>2
  <2>4. First(out, Len(out)) = out
    BY <1>2, FirstAll
  <2>5. Len(out) <= Len(out')
    BY <1>3, <1>4
  <2> QED
    BY <1>2, <2>3, <2>4, <2>5 DEF Answer!IsPrefix, First
<1>7. \A i \in (Len(out) + 1)..Len(out') :
         out'[i] = Best(seed, "target",
                        Append(PrefillIds, Last(prompt)) \o SubSeq(out', 1, i - 1), Banned(out))
  <2> SUFFICES ASSUME NEW i \in (Len(out) + 1)..Len(out')
               PROVE  out'[i] = Best(seed, "target",
                          Append(PrefillIds, Last(prompt)) \o SubSeq(out', 1, i - 1), Banned(out))
    OBVIOUS
  <2> DEFINE j == i - Len(out)
  <2>1. /\ j \in 1..Len(s) /\ j \in 1..Len(d) /\ i - 1 = Len(out) + (j - 1)
        /\ i \in 1..(Len(out) + Len(s)) /\ ~(i <= Len(out))
    BY <1>3, <1>4
  <2>2. out'[i] = s[j]
    <3>1. \A k \in 1..(Len(out) + Len(s)) :
             (out \o s)[k] = IF k <= Len(out) THEN out[k] ELSE s[k - Len(out)]
      BY <1>2, ConcatProperties
    <3> QED
      BY <1>2, <2>1, <3>1
  <2> HIDE DEF j
  <2>3. s[j] = Targets(d)[j]
    BY <1>1, <2>1 DEF IsWindow
  <2>4. Targets(d)[j] = Best(seed, "target", RowsBefore(d, j), Banned(out))
    BY <1>2, <1>3, <2>1, TargetType
  <2>5. RowsBefore(d, j) = PrefillIds \o (Said \o First(s, j - 1))
    BY <1>1, <1>2, <2>1, RowsAreText, SMTT(30)
  <2>6. Append(PrefillIds, Last(prompt)) \o First(out', Len(out) + (j - 1))
          = PrefillIds \o (Said \o First(s, j - 1))
    BY <1>1, <2>1, TextBefore
  <2>7. First(out', Len(out) + (j - 1)) = SubSeq(out', 1, i - 1)
    BY <2>1 DEF First
  <2> QED
    BY <2>2, <2>3, <2>4, <2>5, <2>6, <2>7
<1>8. Answer!GreedyRun
  BY <1>1, <1>4, <1>5, <1>6, <1>7 DEF Answer!GreedyRun
<1>9. UNCHANGED Answer!input
  BY <1>4, SameInput
<1> QED
  BY <1>8, <1>9 DEF Answer!Next

LEMMA DecodeIsSample ==
    ASSUME StreamTypes, Decode
    PROVE  Answer!Next
<1>1. PICK u \in Tokens : u \notin Banned(out) /\ Adds(<<u>>) /\ off /\ off' = off
  BY DecodeAdds
<1> DEFINE s == <<u>>
<1>2. Adds(s)
  BY <1>1
<1>3. out' = out \o s /\ out \in Seq(Tokens) /\ Len(out) < limit
  BY <1>1 DEF Adds, Extend, StreamTypes
<1>4. out' = Append(out, u)
  BY <1>3, AppendIsConcat
<1> HIDE DEF s
<1>5. prompt' = prompt /\ seed' = seed /\ limit' = limit
  BY <1>2, AddsTypes
<1>6. UNCHANGED Answer!input
  BY <1>5, SameInput
<1>7. Answer!Sample
  BY <1>1, <1>3, <1>4 DEF Answer!Sample
<1> QED
  BY <1>6, <1>7 DEF Answer!Next

\* A prefill, and a stream that is done, change nothing that was promised.
LEMMA OthersAreStutters ==
    ASSUME Prefill \/ Done \/ UNCHANGED vars
    PROVE  UNCHANGED Answer!vars
<1>1. UNCHANGED <<prompt, seed, limit, out, off>>
  BY DEF Prefill, Done, vars, input
<1>2. Answer!input' = Answer!input
  BY <1>1, SameInput
<1> QED
  BY <1>1, <1>2 DEF Answer!vars

-----------------------------------------------------------------------------
(* Theorems.                                                               *)

\* Every step keeps the types of the loop.
LEMMA StreamTypesHold == ASSUME BestIsAToken PROVE Spec => []StreamTypes
<1>1. Init => StreamTypes
  BY InitTypes
<1>2. StreamTypes /\ [Next]_vars => StreamTypes'
  BY TypesStep
<1> QED
  BY <1>1, <1>2, PTL DEF Spec

\* The caches follow the text, where drafts are verified on the CPU.
LEMMA CachesHold == ASSUME BestIsAToken, DraftsOnCpu PROVE Spec => []CacheInv
<1>1. StreamTypes /\ Init => CacheInv
  BY InitCache
<1>2. StreamTypes /\ CacheInv /\ [Next]_vars => CacheInv'
  BY CacheStep
<1>3. Spec => []StreamTypes
  BY StreamTypesHold
<1> QED
  BY <1>1, <1>2, <1>3, PTL DEF Spec

\* The reader gets what was generated up to the stop marker and nothing behind
\* it, however the windows fall (the output filter of streamChat).
THEOREM MarkerEndsAnswer == ASSUME BestIsAToken PROVE Spec => []ShownIsAnswer
<1>1. Init => ShownInv
  BY InitShown
<1>2. StreamTypes /\ ShownInv /\ [Next]_vars => ShownInv'
  BY ShownStep
<1>3. ShownInv => ShownIsAnswer
  BY DEF ShownInv
<1>4. Spec => []StreamTypes
  BY StreamTypesHold
<1> QED
  BY <1>1, <1>2, <1>3, <1>4, PTL DEF Spec

\* After any mix of accepted, partly accepted and rejected windows and of plain
\* decodes both models attend to the rows of the text fed so far
\* (commitSpeculativeContinuation, createQwenPrefixDraftState).
THEOREM RollbackIsExact == ASSUME BestIsAToken, DraftsOnCpu PROVE Spec => []CachesFollow
<1>1. CacheInv => CachesFollow
  BY DEF CacheInv, CachesFollow, CacheIsContext, Said
<1>2. Spec => []CacheInv
  BY CachesHold
<1> QED
  BY <1>1, <1>2, PTL

\* Types: the caches hold tokens and rows of zeros, the resident copies tokens
\* only, what is shown no stop marker, and the answer keeps to its budget.
THEOREM StreamIsTyped == ASSUME BestIsAToken, DraftsOnCpu PROVE Spec => []TypeOK
<1>1. StreamTypes /\ ShownIsAnswer /\ CacheInv => TypeOK
  <2> SUFFICES ASSUME StreamTypes, ShownIsAnswer, CacheInv PROVE TypeOK
    OBVIOUS
  <2>1. shown \in Seq(Tokens) /\ Stop \notin ToSet(shown)
    BY DEF StreamTypes, ShownIsAnswer
  <2>2. Len(shown) \in Nat /\ DOMAIN shown = 1..Len(shown) /\ shown \in [1..Len(shown) -> Tokens]
    BY <2>1, LenProperties
  <2>3. \A i \in 1..Len(shown) : shown[i] \in Tokens \ {Stop}
    BY <2>1, <2>2 DEF ToSet
  <2>4. shown \in [1..Len(shown) -> Tokens \ {Stop}]
    BY <2>2, <2>3
  <2>5. shown \in Seq(Tokens \ {Stop})
    BY <2>2, <2>4, SeqDef
  <2>6. cache.k \in Seq(Cells) /\ cache.compact \in Seq(Cells)
    BY DEF StreamTypes, Caches
  <2>7. cache.resident \in Seq(Tokens)
    BY DEF CacheInv
  <2> QED
    BY <2>5, <2>6, <2>7 DEF TypeOK, StreamTypes, Cells
<1>2. Spec => []StreamTypes
  BY StreamTypesHold
<1>3. Spec => []CacheInv
  BY CachesHold
<1>4. Spec => []ShownIsAnswer
  BY MarkerEndsAnswer
<1> QED
  BY <1>1, <1>2, <1>3, <1>4, PTL

\* The loop implements TargetText: whatever is drafted, the answer is made of
\* the target's own choices (decodeSpeculativeStep, verifySpeculativeDraft).
THEOREM DraftsChangeNothing == ASSUME BestIsAToken, DraftsOnCpu PROVE Spec => AnswerIsTargets
<1>1. Init => Answer!Init
  BY DEF Init, Answer!Init
<1>2. StreamTypes /\ CacheInv /\ [Next]_vars => [Answer!Next]_(Answer!vars)
  <2> SUFFICES ASSUME StreamTypes, CacheInv, [Next]_vars PROVE [Answer!Next]_(Answer!vars)
    OBVIOUS
  <2>1. CASE Verify
    BY <2>1, VerifyIsGreedyRun
  <2>2. CASE Decode
    BY <2>2, DecodeIsSample
  <2>3. CASE Prefill \/ Done \/ UNCHANGED vars
    BY <2>3, OthersAreStutters
  <2> QED
    BY <2>1, <2>2, <2>3 DEF Next
<1>3. Spec => []StreamTypes
  BY StreamTypesHold
<1>4. Spec => []CacheInv
  BY CachesHold
<1> QED
  BY <1>1, <1>2, <1>3, <1>4, PTL DEF Spec, AnswerIsTargets, Answer!Spec
=============================================================================
