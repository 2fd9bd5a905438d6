--------------------------- MODULE KvReuse_proof ---------------------------
(***************************************************************************)
(* Why a stream may start from persisted blocks.  A stream's cache holds   *)
(* the rows of all it was fed, and that begins with its prompt; a cache    *)
(* that waits to be serialized may be half of a decode further in some of  *)
(* its layers, but every layer still begins with the rows of the prompt.   *)
(* The blocks are cut inside the prompt, so they are true of the prompt    *)
(* and the weights they name, and whole layers of them join to the rows of *)
(* a prefill.                                                              *)
(***************************************************************************)
EXTENDS KvReuse, FiniteSetTheorems, SequenceTheorems, TLAPS

Row == Versions \X Seq(Tokens)

Cache == [prompt : Prompts, fed : Seq(Tokens), version : Versions, reused : BOOLEAN,
          rows : [Layers -> Seq(Row)], covered : SUBSET Layers]

\* Every layer begins with the rows of the prompt.
IsPrefilled(x) ==
    /\ x.prompt \in Prompts
    /\ x.version \in Versions
    /\ x.covered \subseteq Layers
    /\ \A l \in Layers :
          /\ x.rows[l] \in Seq(Row)
          /\ Len(x.prompt) <= Len(x.rows[l])
          /\ \A i \in 1..Len(x.prompt) : x.rows[l][i] = <<x.version, First(x.prompt, i)>>

\* What was fed begins with the prompt, and every layer has its rows.
IsStream(x) ==
    /\ x \in Cache
    /\ Len(x.prompt) <= Len(x.fed)
    /\ \A i \in 1..Len(x.prompt) : x.fed[i] = x.prompt[i]
    /\ \A l \in Layers : x.rows[l] = Rows(x.version, x.fed)

IsBlock(b) ==
    /\ b.version \in Versions /\ b.prompt \in Prompts /\ b.layer \in Layers
    /\ b.from \in Nat /\ b.to \in Nat /\ b.from < b.to /\ b.to <= Len(b.prompt)
    /\ b.rows = SubSeq(Rows(b.version, b.prompt), b.from + 1, b.to)

OneForEachId(blocks) == \A b, d \in blocks : b.id = d.id => b = d

CollectionOK(blocks) == (\A b \in blocks : IsBlock(b)) /\ OneForEachId(blocks)

ReuseInv ==
    /\ stage \in {"off", "idle", "streaming"}
    /\ version \in Versions
    /\ scheduled \in BOOLEAN
    /\ CollectionOK(store)
    /\ CollectionOK(hydrated)
    /\ stage = "streaming" => IsStream(cache) /\ cache.version = version
    /\ slot = None \/ IsPrefilled(slot)

-----------------------------------------------------------------------------
(* Prefixes and rows.                                                      *)

\* The first n elements of a sequence.
LEMMA FirstElements ==
    ASSUME NEW T, NEW s \in Seq(T), NEW n \in 0..Len(s)
    PROVE  /\ First(s, n) \in Seq(T)
           /\ Len(First(s, n)) = n
           /\ \A i \in 1..n : First(s, n)[i] = s[i]
BY SubSeqProperties, LenProperties DEF First

\* All of a sequence.
LEMMA FirstAll ==
    ASSUME NEW T, NEW s \in Seq(T)
    PROVE  First(s, Len(s)) = s
<1>1. Len(s) \in 0..Len(s)
  BY LenProperties
<1>2. First(s, Len(s)) \in Seq(T) /\ Len(First(s, Len(s))) = Len(s)
      /\ \A i \in 1..Len(s) : First(s, Len(s))[i] = s[i]
  BY <1>1, FirstElements
<1> QED
  BY <1>2, SeqEqual

\* Two sequences that begin alike have the same prefixes there.
LEMMA SamePrefix ==
    ASSUME NEW T, NEW s \in Seq(T), NEW p \in Seq(T), NEW n \in Nat,
           n <= Len(s), n <= Len(p), \A i \in 1..n : s[i] = p[i], NEW k \in 1..n
    PROVE  First(s, k) = First(p, k)
<1>1. k \in 0..Len(s) /\ k \in 0..Len(p)
  BY LenProperties
<1>2. /\ First(s, k) \in Seq(T) /\ Len(First(s, k)) = k
      /\ \A i \in 1..k : First(s, k)[i] = s[i]
  BY <1>1, FirstElements
<1>3. /\ First(p, k) \in Seq(T) /\ Len(First(p, k)) = k
      /\ \A i \in 1..k : First(p, k)[i] = p[i]
  BY <1>1, FirstElements
<1>4. \A i \in 1..k : First(s, k)[i] = First(p, k)[i]
  BY <1>2, <1>3
<1> QED
  BY <1>2, <1>3, <1>4, SeqEqual

\* There is a row for each token.
LEMMA RowsOfText ==
    ASSUME NEW v \in Versions, NEW text \in Seq(Tokens)
    PROVE  /\ Rows(v, text) \in Seq(Row)
           /\ Len(Rows(v, text)) = Len(text)
           /\ \A i \in 1..Len(text) : Rows(v, text)[i] = <<v, First(text, i)>>
<1>1. \A i \in 1..Len(text) : <<v, First(text, i)>> \in Row
  <2> SUFFICES ASSUME NEW i \in 1..Len(text) PROVE First(text, i) \in Seq(Tokens)
    BY DEF Row
  <2>1. i \in 0..Len(text)
    BY LenProperties
  <2> QED
    BY <2>1, FirstElements
<1>2. Len(text) \in Nat
  BY LenProperties
<1>3. Rows(v, text) \in [1..Len(text) -> Row]
  BY <1>1 DEF Rows
<1>4. Rows(v, text) \in Seq(Row)
  BY <1>2, <1>3, SeqDef
<1>5. Len(Rows(v, text)) = Len(text)
  BY <1>2, <1>3, <1>4, LenProperties
<1> QED
  BY <1>4, <1>5 DEF Rows

\* A token that is fed adds the row of all the text.
LEMMA RowsOfLongerText ==
    ASSUME NEW v \in Versions, NEW text \in Seq(Tokens), NEW t \in Tokens
    PROVE  /\ Append(text, t) \in Seq(Tokens)
           /\ <<v, Append(text, t)>> \in Row
           /\ Rows(v, Append(text, t)) = Append(Rows(v, text), <<v, Append(text, t)>>)
<1> DEFINE longer == Append(text, t)
<1> DEFINE n == Len(text)
<1>1. /\ n \in Nat /\ longer \in Seq(Tokens) /\ Len(longer) = n + 1
      /\ \A i \in 1..n : longer[i] = text[i]
  BY AppendProperties, LenProperties
<1>2. <<v, longer>> \in Row
  BY <1>1 DEF Row
<1>3. /\ Rows(v, text) \in Seq(Row) /\ Len(Rows(v, text)) = n
      /\ \A i \in 1..n : Rows(v, text)[i] = <<v, First(text, i)>>
  BY RowsOfText
<1>4. /\ Rows(v, longer) \in Seq(Row) /\ Len(Rows(v, longer)) = n + 1
      /\ \A i \in 1..(n + 1) : Rows(v, longer)[i] = <<v, First(longer, i)>>
  BY <1>1, RowsOfText
<1> DEFINE appended == Append(Rows(v, text), <<v, longer>>)
<1>5. /\ appended \in Seq(Row) /\ Len(appended) = n + 1
      /\ \A i \in 1..n : appended[i] = Rows(v, text)[i]
      /\ appended[n + 1] = <<v, longer>>
  BY <1>2, <1>3, AppendProperties
<1>6. \A i \in 1..n : First(longer, i) = First(text, i)
  <2> SUFFICES ASSUME NEW i \in 1..n PROVE First(longer, i) = First(text, i)
    OBVIOUS
  <2>1. n <= Len(longer) /\ n <= Len(text)
    BY <1>1
  <2> HIDE DEF longer, n
  <2> QED
    BY <1>1, <2>1, SamePrefix DEF n
<1>7. First(longer, n + 1) = longer
  BY <1>1, FirstAll
<1>8. \A i \in 1..(n + 1) : Rows(v, longer)[i] = appended[i]
  <2> SUFFICES ASSUME NEW i \in 1..(n + 1) PROVE Rows(v, longer)[i] = appended[i]
    OBVIOUS
  <2> HIDE DEF longer, n, appended
  <2>1. CASE i \in 1..n
    BY <2>1, <1>3, <1>4, <1>5, <1>6
  <2>2. CASE i = n + 1
    BY <2>2, <1>4, <1>5, <1>7
  <2> QED
    BY <1>1, <2>1, <2>2
<1>9. Rows(v, longer) = appended
  BY <1>4, <1>5, <1>8, SeqEqual
<1> QED
  BY <1>1, <1>2, <1>9
-----------------------------------------------------------------------------
(* Blocks.                                                                 *)

\* Every layer of a stream begins with the rows of its prompt.
LEMMA StreamIsPrefilled ==
    ASSUME NEW x, IsStream(x)
    PROVE  IsPrefilled(x)
<1>1. /\ x.prompt \in Seq(Tokens) /\ x.prompt \in Prompts /\ x.version \in Versions
      /\ x.covered \subseteq Layers /\ x.fed \in Seq(Tokens)
  BY PrefillsAreTokens DEF IsStream, Cache
<1> DEFINE n == Len(x.prompt)
<1>2. n \in Nat /\ n <= Len(x.fed) /\ \A i \in 1..n : x.fed[i] = x.prompt[i]
  BY <1>1, LenProperties DEF IsStream
<1>3. \A i \in 1..n : First(x.fed, i) = First(x.prompt, i)
  BY <1>1, <1>2, SamePrefix, SMTT(30)
<1>4. /\ Rows(x.version, x.fed) \in Seq(Row) /\ Len(Rows(x.version, x.fed)) = Len(x.fed)
      /\ \A i \in 1..Len(x.fed) : Rows(x.version, x.fed)[i] = <<x.version, First(x.fed, i)>>
  BY <1>1, RowsOfText
<1>5. \A i \in 1..n : i \in 1..Len(x.fed)
  BY <1>1, <1>2, LenProperties
<1>6. \A l \in Layers : x.rows[l] = Rows(x.version, x.fed)
  BY DEF IsStream
<1> HIDE DEF n
<1>7. \A l \in Layers :
          /\ x.rows[l] \in Seq(Row)
          /\ n <= Len(x.rows[l])
          /\ \A i \in 1..n : x.rows[l][i] = <<x.version, First(x.prompt, i)>>
  BY <1>2, <1>3, <1>4, <1>5, <1>6
<1> QED
  BY <1>1, <1>7 DEF IsPrefilled, n

\* A slice of the rows of a prefilled cache, inside the prompt, is the slice of
\* the prompt's own rows.
LEMMA SliceIsTrue ==
    ASSUME NEW x, IsPrefilled(x), NEW l \in Layers, NEW m \in Nat, NEW n \in Nat,
           n <= Len(x.prompt)
    PROVE  SubSeq(x.rows[l], m + 1, n) = SubSeq(Rows(x.version, x.prompt), m + 1, n)
<1> DEFINE p == x.prompt
<1> DEFINE r == x.rows[l]
<1> DEFINE true == Rows(x.version, p)
<1>1. p \in Seq(Tokens) /\ x.version \in Versions /\ Len(p) \in Nat
  BY PrefillsAreTokens, LenProperties DEF IsPrefilled
<1>2. /\ r \in Seq(Row) /\ Len(p) <= Len(r)
      /\ \A i \in 1..Len(p) : r[i] = <<x.version, First(p, i)>>
  BY DEF IsPrefilled
<1>3. /\ true \in Seq(Row) /\ Len(true) = Len(p)
      /\ \A i \in 1..Len(p) : true[i] = <<x.version, First(p, i)>>
  BY <1>1, RowsOfText
<1> HIDE DEF p, r, true
<1>0. n <= Len(p)
  BY DEF p
<1>4. \A i \in (m + 1)..n : i \in 1..Len(p) /\ r[i] = true[i]
  <2>1. \A i \in (m + 1)..n : i \in 1..Len(p)
    BY <1>0, <1>1
  <2> QED
    BY <2>1, <1>2, <1>3
<1>5. \A i \in (m + 1)..n : r[i] \in Row /\ true[i] \in Row
  BY <1>1, <1>2, <1>3, <1>4, LenProperties, ElementOfSeq
<1>6. m + 1 \in Int /\ n \in Int
  OBVIOUS
<1>7. /\ SubSeq(r, m + 1, n) \in Seq(Row)
      /\ Len(SubSeq(r, m + 1, n)) = IF m + 1 <= n THEN n - (m + 1) + 1 ELSE 0
      /\ \A i \in 1..(n - (m + 1) + 1) : SubSeq(r, m + 1, n)[i] = r[(m + 1) + i - 1]
  BY <1>5, <1>6, SubSeqProperties
<1>8. /\ SubSeq(true, m + 1, n) \in Seq(Row)
      /\ Len(SubSeq(true, m + 1, n)) = IF m + 1 <= n THEN n - (m + 1) + 1 ELSE 0
      /\ \A i \in 1..(n - (m + 1) + 1) : SubSeq(true, m + 1, n)[i] = true[(m + 1) + i - 1]
  BY <1>5, <1>6, SubSeqProperties
<1>9. \A i \in 1..Len(SubSeq(r, m + 1, n)) : SubSeq(r, m + 1, n)[i] = SubSeq(true, m + 1, n)[i]
  BY <1>4, <1>7, <1>8
<1> QED
  BY <1>7, <1>8, <1>9, SeqEqual DEF p, r, true

\* The blocks of a prefilled cache are true, and one for each id.
LEMMA SerializedAreTrue ==
    ASSUME NEW x, IsPrefilled(x)
    PROVE  CollectionOK(Serialized(x))
<1> DEFINE last == Len(x.prompt)
<1> DEFINE starts == {i \in 0..(last - 1) : i % BlockSize = 0}
<1> DEFINE Ends(i) == IF i + BlockSize < last THEN i + BlockSize ELSE last
<1> DEFINE Block(l, i) ==
        [id |-> <<Hash(x.prompt), l, i>>, version |-> x.version, prompt |-> x.prompt,
         layer |-> l, from |-> i, to |-> Ends(i), rows |-> SubSeq(x.rows[l], i + 1, Ends(i))]
<1>1. Serialized(x) = {Block(l, i) : l \in x.covered, i \in starts}
  BY DEF Serialized, PrefillLength
<1>2. x.prompt \in Prompts /\ x.version \in Versions /\ x.covered \subseteq Layers /\ last \in Nat
  BY PrefillsAreTokens, LenProperties DEF IsPrefilled
<1>3. \A i \in starts : i \in Nat /\ Ends(i) \in Nat /\ i < Ends(i) /\ Ends(i) <= last
  BY <1>2, BlocksHoldTokens
<1>4. ASSUME NEW b \in Serialized(x) PROVE IsBlock(b)
  <2>1. PICK l \in x.covered, i \in starts : b = Block(l, i)
    BY <1>1, <1>4
  <2>2. SubSeq(x.rows[l], i + 1, Ends(i)) = SubSeq(Rows(x.version, x.prompt), i + 1, Ends(i))
    <3>1. l \in Layers /\ i \in Nat /\ Ends(i) \in Nat /\ Ends(i) <= Len(x.prompt)
      BY <1>2, <1>3
    <3> HIDE DEF Ends
    <3> QED
      BY <3>1, SliceIsTrue
  <2>3. /\ b.version = x.version /\ b.prompt = x.prompt /\ b.layer = l /\ b.from = i
        /\ b.to = Ends(i) /\ b.rows = SubSeq(x.rows[l], i + 1, Ends(i))
    BY <2>1
  <2> QED
    BY <1>2, <1>3, <2>2, <2>3 DEF IsBlock
<1>5. OneForEachId(Serialized(x))
  <2> SUFFICES ASSUME NEW b \in Serialized(x), NEW d \in Serialized(x), b.id = d.id
               PROVE  b = d
    BY DEF OneForEachId
  <2> HIDE DEF starts
  <2>1. PICK l \in x.covered, i \in starts : b = Block(l, i)
    BY <1>1
  <2>2. PICK k \in x.covered, j \in starts : d = Block(k, j)
    BY <1>1
  <2>3. b.id = <<Hash(x.prompt), l, i>>
    BY <2>1
  <2>4. d.id = <<Hash(x.prompt), k, j>>
    BY <2>2
  <2>5. <<Hash(x.prompt), l, i>> = <<Hash(x.prompt), k, j>>
    BY <2>3, <2>4
  <2>6. l = k /\ i = j
    BY <2>5
  <2> HIDE DEF Block
  <2> QED
    BY <2>1, <2>2, <2>6
<1> QED
  BY <1>4, <1>5 DEF CollectionOK

\* Merging keeps one block for each id.
LEMMA MergedIsOK ==
    ASSUME NEW blocks, NEW newer, CollectionOK(blocks), CollectionOK(newer)
    PROVE  CollectionOK(Merged(blocks, newer))
BY DEF CollectionOK, OneForEachId, Merged

LEMMA FewerAreOK ==
    ASSUME NEW blocks, NEW fewer, CollectionOK(blocks), fewer \subseteq blocks
    PROVE  CollectionOK(fewer)
BY DEF CollectionOK, OneForEachId

\* Whole layers of true blocks of a prompt join to the rows of the prompt.
LEMMA WholeJoins ==
    ASSUME NEW blocks, NEW v \in Versions, NEW p \in Prompts, NEW l \in Layers,
           \A b \in blocks : IsBlock(b) /\ b.version = v /\ b.prompt = p, Whole(blocks, p)
    PROVE  JoinedRows(blocks, l, p) = Rows(v, p)
<1> DEFINE Has(b, i) == b.layer = l /\ b.from < i /\ i <= b.to
<1> DEFINE Of(i) == CHOOSE b \in blocks : Has(b, i)
<1>0. p \in Seq(Tokens) /\ Len(p) \in Nat
  BY PrefillsAreTokens, LenProperties
<1>1. ASSUME NEW i \in 1..Len(p) PROVE Of(i) \in blocks /\ Has(Of(i), i)
  <2> DEFINE there == {b \in {c \in blocks : c.layer = l} : b.from < i /\ i <= b.to}
  <2>1. Cardinality(there) = 1
    BY DEF Whole, Covers
  <2>2. there # {}
    <3> HIDE DEF there
    <3>1. Cardinality({}) = 0
      BY FS_EmptySet
    <3>2. ASSUME there = {} PROVE Cardinality({}) = 1
      BY <2>1, <3>2, Zenon
    <3>3. Cardinality({}) # 1
      BY <3>1
    <3> QED
      BY <3>2, <3>3
  <2>3. \E b \in blocks : Has(b, i)
    BY <2>2
  <2> QED
    BY <2>3
<1>2. /\ Rows(v, p) \in Seq(Row) /\ Len(Rows(v, p)) = Len(p)
      /\ \A i \in 1..Len(p) : Rows(v, p)[i] \in Row
  BY <1>0, RowsOfText, ElementOfSeq
<1>3. ASSUME NEW i \in 1..Len(p)
      PROVE  Of(i).rows[i - Of(i).from] = Rows(v, p)[i]
  <2> DEFINE b == Of(i)
  <2>1. b \in blocks /\ Has(b, i) /\ IsBlock(b) /\ b.version = v /\ b.prompt = p
    BY <1>1
  <2> HIDE DEF b
  <2>2. /\ b.from \in Nat /\ b.to \in Nat /\ b.from < i /\ i <= b.to /\ b.to <= Len(p)
        /\ b.rows = SubSeq(Rows(v, p), b.from + 1, b.to)
    BY <2>1 DEF IsBlock
  <2>3. \A k \in (b.from + 1)..b.to : Rows(v, p)[k] \in Row
    BY <1>0, <1>2, <2>2
  <2>4. b.from + 1 \in Int /\ b.to \in Int
    BY <2>2
  <2>5. \A k \in 1..(b.to - (b.from + 1) + 1) : b.rows[k] = Rows(v, p)[(b.from + 1) + k - 1]
    <3> DEFINE m == b.from + 1
    <3> DEFINE n == b.to
    <3> DEFINE s == Rows(v, p)
    <3>1. /\ m \in Int /\ n \in Int /\ \A k \in m..n : s[k] \in Row
          /\ b.rows = SubSeq(s, m, n)
      BY <2>2, <2>3, <2>4
    <3> HIDE DEF m, n, s
    <3>2. \A k \in 1..(n - m + 1) : SubSeq(s, m, n)[k] = s[m + k - 1]
      BY <3>1, SubSeqProperties
    <3> QED
      BY <3>1, <3>2 DEF m, n, s
  <2>6. /\ i - b.from \in 1..(b.to - (b.from + 1) + 1)
        /\ (b.from + 1) + (i - b.from) - 1 = i
    <3>1. i \in Nat /\ b.from \in Nat /\ b.to \in Nat /\ b.from < i /\ i <= b.to
      BY <1>0, <2>2
    <3> QED
      BY <3>1, SMTT(30)
  <2>7. b.rows[i - b.from] = Rows(v, p)[i]
    BY <2>5, <2>6
  <2> QED
    BY <2>7 DEF b
<1>4. Rows(v, p) = [i \in 1..Len(p) |-> Rows(v, p)[i]]
  BY DEF Rows
<1>5. JoinedRows(blocks, l, p) = [i \in 1..Len(p) |-> Of(i).rows[i - Of(i).from]]
  BY DEF JoinedRows
<1> HIDE DEF Of
<1> QED
  BY <1>3, <1>4, <1>5
-----------------------------------------------------------------------------
(* The life of a client.                                                   *)

\* What a token makes of a stream's cache.
LEMMA FedFields ==
    ASSUME NEW t \in NewTokens, NEW reached \in SUBSET Layers, cache \in Cache
    PROVE  /\ Fed(t, reached).prompt = cache.prompt
           /\ Fed(t, reached).version = cache.version
           /\ Fed(t, reached).reused = cache.reused
           /\ Fed(t, reached).fed = Append(cache.fed, t)
           /\ Fed(t, reached).covered = reached
           /\ \A l \in Layers :
                 Fed(t, reached).rows[l] =
                    IF l \in reached THEN Append(cache.rows[l], <<version, Append(cache.fed, t)>>)
                    ELSE cache.rows[l]
BY Zenon DEF Fed, Cache

\* However far a decode got, its cache still begins with the prompt's rows.
LEMMA FedIsPrefilled ==
    ASSUME NEW t \in NewTokens, NEW reached \in SUBSET Layers,
           IsStream(cache), cache.version = version
    PROVE  IsPrefilled(Fed(t, reached))
<1> DEFINE new == Fed(t, reached)
<1> DEFINE row == <<version, Append(cache.fed, t)>>
<1>1. cache \in Cache /\ IsPrefilled(cache)
  BY StreamIsPrefilled DEF IsStream
<1>2. /\ new.prompt = cache.prompt /\ new.version = cache.version /\ new.covered = reached
      /\ \A l \in Layers :
            new.rows[l] = IF l \in reached THEN Append(cache.rows[l], row) ELSE cache.rows[l]
  BY <1>1, FedFields
<1>3. row \in Row
  <2>1. version \in Versions /\ cache.fed \in Seq(Tokens) /\ t \in Tokens
    BY <1>1, PrefillsAreTokens DEF Cache, IsStream
  <2> QED
    BY <2>1, RowsOfLongerText
<1>4. cache.prompt \in Seq(Tokens) /\ Len(cache.prompt) \in Nat
  BY <1>1, PrefillsAreTokens, LenProperties DEF IsPrefilled
<1> HIDE DEF new, row
<1>5. ASSUME NEW l \in Layers
      PROVE  /\ new.rows[l] \in Seq(Row)
             /\ Len(cache.prompt) <= Len(new.rows[l])
             /\ \A i \in 1..Len(cache.prompt) : new.rows[l][i] = <<cache.version, First(cache.prompt, i)>>
  <2> DEFINE r == cache.rows[l]
  <2> DEFINE n == Len(cache.prompt)
  <2>1. /\ r \in Seq(Row) /\ n <= Len(r) /\ n \in Nat /\ Len(r) \in Nat
        /\ \A i \in 1..n : r[i] = <<cache.version, First(cache.prompt, i)>>
    BY <1>1, <1>4, LenProperties DEF IsPrefilled
  <2>2. new.rows[l] = IF l \in reached THEN Append(r, row) ELSE r
    BY <1>2
  <2> HIDE DEF r, n
  <2>3. CASE l \in reached
    <3>1. /\ Append(r, row) \in Seq(Row) /\ Len(Append(r, row)) = Len(r) + 1
          /\ \A i \in 1..Len(r) : Append(r, row)[i] = r[i]
      BY <1>3, <2>1, AppendProperties
    <3>2. \A i \in 1..n : i \in 1..Len(r)
      BY <2>1
    <3> QED
      BY <2>1, <2>2, <2>3, <3>1, <3>2 DEF n
  <2>4. CASE l \notin reached
    BY <2>1, <2>2, <2>4 DEF n
  <2> QED
    BY <2>3, <2>4
<1> QED
  BY <1>1, <1>2, <1>5 DEF IsPrefilled, new

\* A decode that completes leaves a stream.
LEMMA FedIsStream ==
    ASSUME NEW t \in NewTokens, IsStream(cache), cache.version = version
    PROVE  IsStream(Fed(t, Layers)) /\ Fed(t, Layers).version = version
<1> DEFINE new == Fed(t, Layers)
<1> DEFINE text == Append(cache.fed, t)
<1>1. /\ cache \in Cache /\ version \in Versions /\ cache.fed \in Seq(Tokens) /\ t \in Tokens
      /\ cache.prompt \in Prompts /\ cache.reused \in BOOLEAN
  BY PrefillsAreTokens DEF IsStream, Cache
<1>2. /\ new.prompt = cache.prompt /\ new.version = cache.version /\ new.fed = text
      /\ \A l \in Layers : new.rows[l] = Append(cache.rows[l], <<version, text>>)
  <2>1. Layers \in SUBSET Layers
    OBVIOUS
  <2>2. /\ new.prompt = cache.prompt /\ new.version = cache.version /\ new.fed = text
        /\ \A l \in Layers :
              new.rows[l] = IF l \in Layers THEN Append(cache.rows[l], <<version, text>>)
                            ELSE cache.rows[l]
    BY <1>1, <2>1, FedFields
  <2> HIDE DEF new, text
  <2> QED
    BY <2>2
<1>3. /\ text \in Seq(Tokens) /\ Len(text) = Len(cache.fed) + 1
      /\ \A i \in 1..Len(cache.fed) : text[i] = cache.fed[i]
  BY <1>1, AppendProperties
<1>4. Len(cache.prompt) \in Nat /\ Len(cache.fed) \in Nat
  BY <1>1, PrefillsAreTokens, LenProperties
<1>5. Len(cache.prompt) <= Len(cache.fed) /\ \A i \in 1..Len(cache.prompt) : cache.fed[i] = cache.prompt[i]
  BY DEF IsStream
<1>6. /\ Rows(version, text) = Append(Rows(version, cache.fed), <<version, text>>)
      /\ Rows(version, text) \in Seq(Row)
  BY <1>1, <1>3, RowsOfLongerText, RowsOfText
<1>7. \A l \in Layers : new.rows[l] = Rows(version, text)
  BY <1>2, <1>6 DEF IsStream
<1>8. new \in Cache
  <2> DEFINE longer == [l \in Layers |-> IF l \in Layers
                          THEN Append(cache.rows[l], <<version, text>>) ELSE cache.rows[l]]
  <2>1. longer \in [Layers -> Seq(Row)]
    BY <1>2, <1>6, <1>7
  <2>2. new = [cache EXCEPT !.fed = text, !.covered = Layers, !.rows = longer]
    BY Zenon DEF Fed
  <2> HIDE DEF new, text, longer
  <2> QED
    BY <1>1, <1>3, <2>1, <2>2, Zenon DEF Cache
<1> HIDE DEF new, text
<1>9. Len(new.prompt) <= Len(new.fed) /\ \A i \in 1..Len(new.prompt) : new.fed[i] = new.prompt[i]
  BY <1>2, <1>3, <1>4, <1>5
<1> QED
  BY <1>2, <1>7, <1>8, <1>9 DEF IsStream, new

\* A stream begins with the rows of its prompt, computed or joined.
LEMMA BeginIsStream ==
    ASSUME ReuseInv, NEW p \in Prompts, Begin(p)
    PROVE  IsStream(cache') /\ cache'.version = version
<1> DEFINE found == {b \in hydrated : Candidate(b, version, p)}
<1> DEFINE reused == found # {} /\ Whole(found, p)
<1> DEFINE begun == [l \in Layers |-> IF reused THEN JoinedRows(found, l, p) ELSE Rows(version, p)]
<1>1. cache' = [prompt |-> p, fed |-> p, version |-> version, reused |-> reused,
                rows |-> begun, covered |-> Layers]
  BY DEF Begin
<1>2. /\ version \in Versions /\ p \in Seq(Tokens)
      /\ \A b \in found : IsBlock(b) /\ b.version = version /\ b.prompt = p
  BY PrefillsAreTokens DEF ReuseInv, CollectionOK, Candidate
<1> HIDE DEF found
<1>3. ASSUME NEW l \in Layers PROVE begun[l] = Rows(version, p)
  BY <1>2, WholeJoins
<1>4. Rows(version, p) \in Seq(Row) /\ Len(p) \in Nat
  BY <1>2, RowsOfText, LenProperties
<1>5. reused \in BOOLEAN
  OBVIOUS
<1>6. begun \in [Layers -> Seq(Row)]
  BY <1>3, <1>4
<1> HIDE DEF reused, begun
<1> QED
  BY <1>1, <1>2, <1>3, <1>4, <1>5, <1>6 DEF IsStream, Cache

\* What another tab persists is a prefill.
LEMMA PrefillIsPrefilled ==
    ASSUME NEW v \in Versions, NEW p \in Prompts, NEW x,
           x = [prompt |-> p, fed |-> p, version |-> v,
                rows |-> [l \in Layers |-> Rows(v, p)], covered |-> Layers]
    PROVE  IsPrefilled(x)
<1>1. p \in Seq(Tokens)
  BY PrefillsAreTokens
<1>2. /\ Rows(v, p) \in Seq(Row) /\ Len(Rows(v, p)) = Len(p) /\ Len(p) \in Nat
      /\ \A i \in 1..Len(p) : Rows(v, p)[i] = <<v, First(p, i)>>
  BY <1>1, RowsOfText, LenProperties
<1>3. /\ x.prompt = p /\ x.version = v /\ x.covered = Layers
      /\ \A l \in Layers : x.rows[l] = Rows(v, p)
  OBVIOUS
<1> QED
  BY <1>2, <1>3 DEF IsPrefilled

\* A store or a copy that gets a flush's or a prefetch's blocks is one again.
LEMMA InitReuse == Init => ReuseInv
BY DEF Init, ReuseInv, CollectionOK, OneForEachId

LEMMA NextReuse == ReuseInv /\ [Next]_vars => ReuseInv'
<1> SUFFICES ASSUME ReuseInv, [Next]_vars PROVE ReuseInv'
  OBVIOUS
<1>1. CollectionOK({})
  BY DEF CollectionOK, OneForEachId
<1>2. CASE Start
  BY <1>1, <1>2 DEF Start, ReuseInv
<1>3. CASE Stop
  BY <1>1, <1>3 DEF Stop, ReuseInv
<1>4. ASSUME NEW p \in Prompts, Begin(p) PROVE ReuseInv'
  <2>1. IsStream(cache') /\ cache'.version = version
    BY <1>4, BeginIsStream
  <2>2. /\ stage' = "streaming" /\ store' = store /\ version' = version /\ hydrated' = hydrated
        /\ slot' = slot /\ scheduled' = scheduled
    BY <1>4 DEF Begin
  <2> QED
    BY <2>1, <2>2 DEF ReuseInv
<1>5. ASSUME NEW t \in NewTokens, Decode(t) PROVE ReuseInv'
  <2>1. IsStream(cache) /\ cache.version = version
    BY <1>5 DEF Decode, ReuseInv
  <2>2. /\ IsStream(Fed(t, Layers)) /\ Fed(t, Layers).version = version
        /\ IsPrefilled(Fed(t, Layers))
    BY <2>1, FedIsStream, FedIsPrefilled
  <2>3. /\ cache' = Fed(t, Layers) /\ slot' \in {slot, Fed(t, Layers)}
        /\ stage' = stage /\ store' = store /\ version' = version /\ hydrated' = hydrated
        /\ scheduled' = scheduled
    BY <1>5 DEF Decode
  <2> QED
    BY <2>2, <2>3 DEF ReuseInv
<1>6. ASSUME NEW t \in NewTokens, NEW n \in Layers, DecodeFails(t, n) PROVE ReuseInv'
  <2> DEFINE reached == {l \in Layers : l < n}
  <2>1. IsPrefilled(Fed(t, reached))
    <3>1. IsStream(cache) /\ cache.version = version /\ reached \in SUBSET Layers
      BY <1>6 DEF DecodeFails, ReuseInv
    <3> HIDE DEF reached
    <3> QED
      BY <3>1, FedIsPrefilled
  <2>2. /\ stage' = "idle" /\ slot' \in {slot, Fed(t, reached)} /\ scheduled' = FALSE
        /\ store' = store /\ version' = version /\ hydrated' = hydrated
    BY <1>6 DEF DecodeFails
  <2> QED
    BY <2>1, <2>2 DEF ReuseInv
<1>7. CASE Show \/ End
  <2>1. IsPrefilled(cache)
    BY <1>7, StreamIsPrefilled DEF Show, End, ReuseInv
  <2>2. slot' \in {slot, cache}
    BY <1>7 DEF Show, End, Schedule
  <2>3. CASE Show
    BY <2>1, <2>2, <2>3 DEF Show, ReuseInv
  <2>4. CASE End
    BY <2>1, <2>2, <2>4 DEF End, ReuseInv
  <2> QED
    BY <1>7, <2>3, <2>4
<1>8. CASE Flush
  <2>1. CollectionOK(Serialized(slot))
    BY <1>8, SerializedAreTrue DEF Flush, ReuseInv
  <2>2. /\ CollectionOK(Merged(store, Serialized(slot)))
        /\ CollectionOK(Merged(hydrated, Serialized(slot)))
    BY <2>1, MergedIsOK DEF ReuseInv
  <2> QED
    BY <1>8, <2>2 DEF Flush, ReuseInv
<1>9. CASE Clear
  BY <1>1, <1>9 DEF Clear, ReuseInv
<1>10. ASSUME NEW v \in Versions, NEW p \in Prompts, OtherTabPersists(v, p) PROVE ReuseInv'
  <2> DEFINE x == [prompt |-> p, fed |-> p, version |-> v,
                   rows |-> [l \in Layers |-> Rows(v, p)], covered |-> Layers]
  <2>1. CollectionOK(Serialized(x))
    BY PrefillIsPrefilled, SerializedAreTrue
  <2>2. CollectionOK(Merged(store, Serialized(x)))
    BY <2>1, MergedIsOK DEF ReuseInv
  <2>3. /\ store' = Merged(store, Serialized(x))
        /\ stage' = stage /\ version' = version /\ hydrated' = hydrated /\ cache' = cache
        /\ slot' = slot /\ scheduled' = scheduled
    BY <1>10 DEF OtherTabPersists
  <2> HIDE DEF x
  <2> QED
    BY <2>2, <2>3 DEF ReuseInv
<1>11. ASSUME NEW b \in store, Prefetch(b) PROVE ReuseInv'
  <2>1. CollectionOK({b})
    BY DEF ReuseInv, CollectionOK, OneForEachId
  <2>2. CollectionOK(Merged(hydrated, {b}))
    BY <2>1, MergedIsOK DEF ReuseInv
  <2> QED
    BY <1>11, <2>2 DEF Prefetch, ReuseInv
<1>12. ASSUME NEW b \in store, Evict(b) PROVE ReuseInv'
  <2>1. CollectionOK(store \ {b})
    BY FewerAreOK DEF ReuseInv
  <2> QED
    BY <1>12, <2>1 DEF Evict, ReuseInv
<1>13. CASE UNCHANGED vars
  BY <1>13 DEF vars, ReuseInv
<1> QED
  BY <1>2, <1>3, <1>4, <1>5, <1>6, <1>7, <1>8, <1>9, <1>10, <1>11, <1>12, <1>13 DEF Next

LEMMA ReuseInvariant == Spec => []ReuseInv
BY InitReuse, NextReuse, PTL DEF Spec

-----------------------------------------------------------------------------
(* Theorems.                                                               *)

\* A collection of blocks, persisted or hydrated, holds one block for each id:
\* the writes of a flush, of a prefetch and of another tab replace by id
\* (mergeSerializedKvBlocks), and one serialization cuts no two alike.
THEOREM ReuseTypes == Spec => []TypeOK
<1>1. ReuseInv => TypeOK
  BY DEF ReuseInv, TypeOK, CollectionOK, OneForEachId, IsBlock
<1> QED
  BY <1>1, ReuseInvariant, PTL

\* A persisted block has the rows of the prompt and the weights it names, for
\* every block size, number of layers and length of a stream, also when its
\* cache had grown since or a decode had left it half done
\* (serializeKvCacheBlocks).
THEOREM PersistedAreTrue == Spec => []BlocksAreTrue
<1>1. ReuseInv => BlocksAreTrue
  BY DEF ReuseInv, BlocksAreTrue, CollectionOK, IsBlock
<1> QED
  BY <1>1, ReuseInvariant, PTL

\* A stream that skipped its prefill attends to exactly the rows its weights
\* would have computed, whatever the hash function and whatever evictions,
\* other tabs and other weights left of the blocks
\* (buildReusedKvCacheHandle, mergeLayerRowsForReuse).
THEOREM ReusedIsComputed == Spec => []ReuseIsExact
<1>1. ReuseInv => ReuseIsExact
  BY DEF ReuseInv, ReuseIsExact, IsStream
<1> QED
  BY <1>1, ReuseInvariant, PTL
=============================================================================
