----------------------- MODULE LanceMemoryStore_proof -----------------------
(***************************************************************************)
(* Theorems about LanceMemoryStore, for any calls that are well formed and *)
(* any number of requests, in flight at once, and of faults.               *)
(*                                                                         *)
(* The argument.  Which requests have power over a row is told by their    *)
(* calls alone (Apart), so what a row's writer and the others do is        *)
(* followed one request at a time.  Every row is what a request wrote in a *)
(* step it has come to (Origin); while its writer adds, the keys it has    *)
(* purged stay free (Purges); what it has written stays (AreKept), also in *)
(* the face of a request that will drop the memory table, which has seen   *)
(* the row or will, or cannot come to the drop (AreSaved).  A deletion has *)
(* at each point found, seen or removed what is due to it (Follows): no    *)
(* one adds rows of a request that has ended.                              *)
(*                                                                         *)
(* For each action, XDoes says what it does to the state, field by field;  *)
(* the lemmas on the parts of the invariant speak of that only.            *)
(***************************************************************************)
EXTENDS LanceMemoryStore, FiniteSetTheorems, TLAPS

-----------------------------------------------------------------------------
(* The invariant.                                                          *)

AllCalls == Calls \cup {Earlier}
Rows0 == RowType({0})
Kept  == RowType(Requests)

WriteStages == {"look", "found", "create", "purge", "add", "read", "backup", "drop", "dropped"}
Stages(op) ==
    {"done", "failed", "lost"} \cup
    CASE op = "write"  -> WriteStages
      [] op = "delete" -> {"look", "found", "list", "count", "erase", "query"}
      [] op = "clear"  -> {"drop", "dropped"}
      [] OTHER         -> {"open", "repair", "read", "backup", "drop", "dropped"}

Handles == {Unset} \cup ({"table"} \X (Nat \ {0}))

AllStages ==
    {"done", "failed", "lost", "look", "found", "create", "purge", "add", "read", "backup", "drop",
     "dropped", "list", "count", "erase", "query", "open", "repair"}

RequestType ==
    [call : AllCalls, handle : Handles, row : Nat \ {0}, found : SUBSET Kept, at : Nat,
     seen : [1..2 -> SUBSET Kept], before : SUBSET Nat, pc : AllStages]

\* Where a request can be.
Standing(r) ==
    /\ req[r].pc \in Stages(Call(r).op)
    /\ IsWrite(r) => req[r].at \in DOMAIN Call(r).writes
    /\ Call(r).op = "delete" => req[r].at \in 0..4
    /\ Call(r).op \in {"clear", "repair"} => req[r].at = 0
    /\ req[r].pc \in {"look", "found", "query"} => req[r].row = 1
    /\ req[r].pc = "purge" => req[r].row \in DOMAIN Rows(r)
    /\ req[r].pc = "add" => req[r].row > Len(Rows(r))
    /\ req[r].pc \in {"list", "count"} => req[r].at = 0
    /\ req[r].pc = "query" => req[r].at \in 1..2
    /\ req[r].pc = "erase" => req[r].at \in {0, 3, 4}
    /\ req[r].pc \in {"read", "backup", "drop", "dropped"} =>
          Call(r).op = "clear" \/ (old # 0 /\ Table(r) = "memory")
    /\ req[r].pc = "found" /\ req[r].handle # Unset => req[r].handle[2] <= disk[Table(r)].gen

Types ==
    /\ req \in Seq(RequestType) /\ Len(req) \in 1..MaxRequests
    /\ disk \in [Tables -> [on : BOOLEAN, gen : Nat, rows : SUBSET Kept]]
    /\ backups \subseteq Kept
    /\ old \in {0, 1}
    /\ cached \in [Tables -> Handles \cup ({"createdBy"} \X Started)]
    /\ made \in [Requests -> [Tables -> Handles \cup {Failed}]]
    /\ faults \in 0..MaxFaults
    /\ alone \subseteq Started

Standings == \A r \in Started : Standing(r)

StoreOK ==
    /\ \A t \in Tables : disk[t].on => disk[t].gen # 0
    /\ \A t \in Tables : ~disk[t].on => disk[t].rows = {}
    /\ \A t \in Tables : \A g : cached[t] = TableOf(g) => g <= disk[t].gen
    /\ \A r \in Requests, t \in Tables : \A g : made[r][t] = TableOf(g) => g <= disk[t].gen
    /\ \A r \in Requests \ Started : \A t \in Tables : made[r][t] = Unset

\* No running request has power over what one of `alone` writes.
Apart ==
    \A a \in alone, q \in InFlight : q # a => ~Threatens(Call(q), Call(a), a \in InFlight)

Wrote(a, i, k) == Stamped(a, Call(a).writes[i].rows[k])

\* Every row is what a request wrote in a step it has come to.
Origin ==
    \A t \in Tables : \A x \in disk[t].rows :
        /\ x.from \in Started
        /\ \E i \in DOMAIN Call(x.from).writes :
              /\ Call(x.from).writes[i].table = t
              /\ i <= req[x.from].at
              /\ \E k \in DOMAIN Call(x.from).writes[i].rows : x = Wrote(x.from, i, k)

Complete(a, i) == IsWrite(a) /\ i \in DOMAIN Call(a).writes /\ (i < req[a].at \/ req[a].pc = "done")

IsIn(t, x) == x \in disk[t].rows \/ (t = "memory" /\ x \in backups)

AreKept ==
    \A a \in alone : \A i : Complete(a, i) =>
        \A k \in DOMAIN Call(a).writes[i].rows : IsIn(Call(a).writes[i].table, Wrote(a, i, k))

\* What a request that will drop the memory table has seen of a written row.
Saved(a, q, x) ==
    /\ req[q].pc = "read" /\ IsWrite(q) => cached["memory"] # Unset \/ x \in backups
    /\ req[q].pc = "backup" => x \in req[q].found \cup backups
    /\ req[q].pc \in {"drop", "dropped"} => x \in backups

AreSaved ==
    \A a \in alone, q \in InFlight : q # a =>
        \A i : Complete(a, i) /\ Call(a).writes[i].table = "memory" =>
            \A k \in DOMAIN Call(a).writes[i].rows : Saved(a, q, Wrote(a, i, k))

\* What a request in `alone` has purged stays away.
Purges ==
    \A a \in alone : req[a].pc \in {"purge", "add"} =>
        \A k \in DOMAIN Rows(a) : k < req[a].row =>
            \A y \in disk[Table(a)].rows : ~SameKey(y, Rows(a)[k])

\* The rows a deletion must delete.
Due(q, t, x) == x \in disk[t].rows /\ x.from \in req[q].before /\ Matches(x, Call(q))

DueTagged(q, x) == Due(q, "memory", x) /\ Tagged(x, Call(q))

Deletes == {q \in alone : Call(q).op = "delete"}

\* How far a deletion has come: what it has to delete it has found, seen and
\* deleted, and it starts with nothing.
Follows(q) ==
    /\ req[q].pc = "found" /\ req[q].handle = Unset =>
          \A x \in disk[Table(q)].rows : x.from \notin req[q].before
    /\ req[q].pc \in {"count", "erase"} /\ req[q].at = 0 =>
          \A x : DueTagged(q, x) => x \in req[q].found
    /\ req[q].at > 0 \/ req[q].pc = "done" => \A x : ~DueTagged(q, x)
    /\ \A k \in 1..2 : req[q].at > k => \A x : Due(q, GacTables[k], x) => x \in req[q].seen[k]
    /\ \A k \in 1..2 : req[q].at > k + 2 \/ (req[q].at = k + 2 /\ req[q].pc = "done") =>
          \A x : Due(q, GacTables[k], x) =>
              x.raw \notin RawIds(q) /\ x.rep \notin Representatives(q) \ {""}
    /\ req[q].at = 0 /\ req[q].pc \in {"look", "found", "list", "done"} => req[q].found = {}
    /\ \A k \in 1..2 : req[q].at <= k => req[q].seen[k] = {}
    /\ req[q].pc = "done" => req[q].at \in {0, 4}

Deletions ==
    /\ \A q \in Started : \A b \in req[q].before : b \in Started \ InFlight
    /\ \A q \in Deletes : Follows(q)

\* What a deletion found can be named by it.
FoundRows ==
    \A q \in Started : Call(q).op = "delete" => \A x \in req[q].found :
        /\ Matches(x, Call(q)) /\ Tagged(x, Call(q))
        /\ \E m \in Memories : m.id = x.id /\ Matches(m, Call(q)) /\ Tagged(m, Call(q))

Makers ==
    /\ \A r \in InFlight : IsWrite(r) => \A i \in DOMAIN Call(r).writes :
          i >= req[r].at => made[r][Call(r).writes[i].table] = Unset
    /\ \A t \in Tables : made[1][t] = Unset
    /\ 1 \notin InFlight
    /\ \A t \in Tables : \A g \in 1..disk[t].gen :
          (g = 1 /\ t = "memory") \/ \E r \in Started : made[r][t] = TableOf(g)

LanceInv ==
    Types /\ Standings /\ StoreOK /\ Apart /\ Origin /\ AreKept /\ AreSaved /\ Purges
    /\ NoDuplicates /\ Deletions /\ FoundRows /\ Makers
-----------------------------------------------------------------------------
(* Facts about the constants.                                              *)

LEMMA TwoTables ==
    /\ Len(GacTables) = 2
    /\ GacTables[1] = "memory_representative" /\ GacTables[2] = "memory_lineage"
    /\ Tables = {"memory", "memory_representative", "memory_lineage"}
  BY DEF GacTables, Tables, ToSet

LEMMA HandleFacts ==
    ASSUME NEW g, NEW r
    PROVE  /\ Unset # Failed /\ TableOf(g) # Unset /\ TableOf(g) # Failed
           /\ CreatedBy(r) # Unset /\ CreatedBy(r) # Failed /\ CreatedBy(r) # TableOf(g)
           /\ TableOf(g)[1] = "table" /\ TableOf(g)[2] = g
           /\ CreatedBy(r)[1] = "createdBy" /\ CreatedBy(r)[2] = r
           /\ Failed[1] = "failed"
  BY DEF Unset, Failed, TableOf, CreatedBy

LEMMA HandlesAre ==
    ASSUME NEW h \in Handles
    PROVE  h = Unset \/ (h = TableOf(h[2]) /\ h[2] \in Nat \ {0} /\ h[1] = "table" /\ h # Unset)
  BY DEF Handles, Unset, TableOf

LEMMA ElementOfSeq ==
    ASSUME NEW S, NEW s \in Seq(S)
    PROVE  /\ Len(s) \in Nat /\ DOMAIN s = 1..Len(s)
           /\ \A i \in DOMAIN s : s[i] \in S
  OBVIOUS

LEMMA CallFacts ==
    ASSUME NEW c \in AllCalls
    PROVE  /\ c \in CallType
           /\ c.op = "write" <=> c.writes # <<>>
           /\ \A i \in DOMAIN c.writes :
                 /\ c.writes[i].table \in Tables
                 /\ c.writes[i].rows \in Seq(Rows0) /\ c.writes[i].rows # <<>>
           /\ \A i, j \in DOMAIN c.writes : c.writes[i].table = c.writes[j].table => i = j
           /\ \A i \in DOMAIN c.writes : c.writes[i].table = "memory" =>
                 \A k, l \in DOMAIN c.writes[i].rows :
                    SameKey(c.writes[i].rows[k], c.writes[i].rows[l]) => k = l
  <1>1. WellFormed(c)
    BY CallsAreWellFormed DEF AllCalls
  <1> DEFINE W == [table : Tables, rows : Seq(Rows0)]
             s == c.writes
  <1>2. s \in Seq(W)
    BY <1>1 DEF WellFormed, CallType, Rows0
  <1> HIDE DEF W, s
  <1>3. \A i \in DOMAIN s : s[i] \in W
    BY <1>2, ElementOfSeq
  <1> USE DEF W, s
  <1> QED
    BY <1>1, <1>3 DEF WellFormed

\* The lineage of a representative comes before it.
LEMMA LineageFirst ==
    ASSUME NEW c \in AllCalls, NEW i \in DOMAIN c.writes, c.writes[i].table = "memory_representative",
           NEW k \in DOMAIN c.writes[i].rows
    PROVE  \E j \in DOMAIN c.writes : j < i /\ c.writes[j].table = "memory_lineage"
              /\ \E l \in DOMAIN c.writes[j].rows :
                    /\ c.writes[j].rows[l].rep = c.writes[i].rows[k].id
                    /\ c.writes[j].rows[l].scope = c.writes[i].rows[k].scope
  <1>1. WellFormed(c) /\ c.writes \in Seq([table : Tables, rows : Seq(Rows0)])
    BY CallsAreWellFormed, CallFacts DEF AllCalls, CallType, Rows0
  <1>2. c.writes[i].rows[k] \in ToSet(c.writes[i].rows)
    BY DEF ToSet
  <1>3. PICK j \in 1..i - 1 :
           /\ c.writes[j].table = "memory_lineage"
           /\ \E y \in ToSet(c.writes[j].rows) :
                 y.rep = c.writes[i].rows[k].id /\ y.scope = c.writes[i].rows[k].scope
    BY <1>1, <1>2 DEF WellFormed
  <1>4. j \in DOMAIN c.writes /\ j < i
    BY <1>1
  <1> QED
    BY <1>3, <1>4 DEF ToSet

LEMMA WritesAre ==
    ASSUME NEW c, NEW t
    PROVE  \A row : row \in Writes(c, t) <=>
              \E i \in DOMAIN c.writes : c.writes[i].table = t
                 /\ \E k \in DOMAIN c.writes[i].rows : row = c.writes[i].rows[k]
  BY DEF Writes, ToSet

LEMMA StampedFacts ==
    ASSUME NEW r \in Requests, NEW row \in Rows0
    PROVE  /\ Stamped(r, row) \in Kept
           /\ Stamped(r, row).from = r
           /\ Stamped(r, row).id = row.id /\ Stamped(r, row).scope = row.scope
           /\ Stamped(r, row).session = row.session /\ Stamped(r, row).tag = row.tag
           /\ Stamped(r, row).raw = row.raw /\ Stamped(r, row).rep = row.rep
  BY DEF Stamped, Rows0, Kept, RowType

-----------------------------------------------------------------------------
(* Requests and how a step changes them.                                   *)

LEMMA RequestFacts ==
    ASSUME Types
    PROVE  /\ Started = 1..Len(req) /\ Len(req) \in Nat /\ Started \subseteq Requests
           /\ \A r \in Started : req[r] \in RequestType
           /\ InFlight \subseteq Started
  <1>1. req \in Seq(RequestType) /\ Len(req) \in 1..MaxRequests
    BY DEF Types
  <1>2. Len(req) \in Nat /\ DOMAIN req = 1..Len(req) /\ \A r \in DOMAIN req : req[r] \in RequestType
    BY <1>1, ElementOfSeq
  <1> QED
    BY <1>1, <1>2, BoundsAreNaturals DEF Started, InFlight, Requests

LEMMA SetRequest ==
    ASSUME Types, NEW r \in Started, NEW x \in RequestType, req' = [req EXCEPT ![r] = x]
    PROVE  /\ req' \in Seq(RequestType) /\ Len(req') = Len(req) /\ Started' = Started
           /\ req'[r] = x
           /\ \A q \in Started : q # r => req'[q] = req[q]
  BY RequestFacts DEF Types, Started

\* What is left of a request that has ended.
LEMMA EndedFacts ==
    ASSUME NEW x \in RequestType, NEW p \in {"done", "failed", "lost"}
    PROVE  /\ Ended(x, p) \in RequestType
           /\ Ended(x, p).call = x.call /\ Ended(x, p).at = x.at /\ Ended(x, p).pc = p
           /\ Ended(x, p).handle = Unset /\ Ended(x, p).row = 1
           /\ p = "done" /\ x.call.op = "delete" =>
                 /\ Ended(x, p).found = x.found /\ Ended(x, p).before = x.before
                 /\ Ended(x, p).seen = x.seen
           /\ ~(p = "done" /\ x.call.op = "delete") =>
                 /\ Ended(x, p).found = {} /\ Ended(x, p).before = {}
                 /\ \A k \in 1..2 : Ended(x, p).seen[k] = {}
  <1>0. p \in AllStages /\ Unset \in Handles /\ 1 \in Nat \ {0}
    BY DEF AllStages, Handles
  <1>1. CASE p = "done" /\ x.call.op = "delete"
    <2> DEFINE y == Ended(x, p)
    <2>1. y = [x EXCEPT !.pc = p, !.handle = Unset, !.row = 1]
      BY <1>1 DEF Ended
    <2> HIDE DEF y
    <2>2. y \in RequestType
      BY <1>0, <2>1 DEF RequestType
    <2>3. /\ y.call = x.call /\ y.at = x.at /\ y.pc = p /\ y.handle = Unset /\ y.row = 1
          /\ y.found = x.found /\ y.before = x.before /\ y.seen = x.seen
      BY <1>0, <2>1 DEF RequestType
    <2> QED
      BY <1>1, <2>2, <2>3 DEF y
  <1>2. CASE ~(p = "done" /\ x.call.op = "delete")
    <2> DEFINE y == Ended(x, p)
               e == [i \in DOMAIN x.seen |-> {}]
    <2>1. y = [x EXCEPT !.pc = p, !.handle = Unset, !.row = 1, !.found = {}, !.before = {}, !.seen = e]
      BY <1>2 DEF Ended
    <2>2. e \in [1..2 -> SUBSET Kept] /\ \A k \in 1..2 : e[k] = {}
      BY DEF RequestType
    <2> HIDE DEF y, e
    <2>3. y \in RequestType
      BY <1>0, <2>1, <2>2 DEF RequestType
    <2>4. /\ y.call = x.call /\ y.at = x.at /\ y.pc = p /\ y.handle = Unset /\ y.row = 1
          /\ y.found = {} /\ y.before = {} /\ y.seen = e
      BY <1>0, <2>1, <2>2 DEF RequestType
    <2> QED
      BY <1>2, <2>2, <2>3, <2>4 DEF y
  <1> QED
    BY <1>1, <1>2

\* The request r ends.
Ends(r, p) == req' = [req EXCEPT ![r] = Ended(req[r], p)]

LEMMA EndsFacts ==
    ASSUME Types, NEW r \in Started, NEW p \in {"done", "failed", "lost"}, Ends(r, p)
    PROVE  /\ req' \in Seq(RequestType) /\ Len(req') = Len(req) /\ Started' = Started
           /\ req'[r] = Ended(req[r], p)
           /\ \A q \in Started : q # r => req'[q] = req[q]
  <1> DEFINE x == Ended(req[r], p)
  <1>1. x \in RequestType
    BY RequestFacts, EndedFacts
  <1>2. req' = [req EXCEPT ![r] = x]
    BY DEF Ends
  <1> HIDE DEF x
  <1>3. /\ req' \in Seq(RequestType) /\ Len(req') = Len(req) /\ Started' = Started
        /\ req'[r] = x
        /\ \A q \in Started : q # r => req'[q] = req[q]
    BY <1>1, <1>2, SetRequest
  <1> QED
    BY <1>3 DEF x

\* The step of a request changes that request alone, and never its call.
Only(r) ==
    /\ req' \in Seq(RequestType) /\ Len(req') = Len(req) /\ Started' = Started
    /\ req'[r].call = req[r].call
    /\ \A q \in Started : q # r => req'[q] = req[q]

SamePlace(r) == req'[r].at = req[r].at /\ req'[r].row = req[r].row
SameHandle(r) == req'[r].handle = req[r].handle
SameFound(r) == req'[r].found = req[r].found /\ req'[r].before = req[r].before
SameData(r) == SameFound(r) /\ req'[r].seen = req[r].seen

\* The request is at p.
IsAt(r, p) == Only(r) /\ req'[r].pc = p

\* The request has ended.
HasEnded(r, p) ==
    /\ IsAt(r, p) /\ req'[r].at = req[r].at
    /\ p = "done" /\ Call(r).op = "delete" => SameData(r)
    /\ ~(p = "done" /\ Call(r).op = "delete") =>
          req'[r].found = {} /\ req'[r].before = {} /\ \A k \in 1..2 : req'[r].seen[k] = {}

\* The request goes on with the next table, or has ended with the last.
HasNext(r) ==
    /\ req[r].at = LastOf(r) => HasEnded(r, "done")
    /\ req[r].at # LastOf(r) =>
          /\ IsAt(r, "look") /\ SameHandle(r) /\ SameData(r)
          /\ req'[r].at = req[r].at + 1 /\ req'[r].row = 1

LEMMA HasEndedFacts ==
    ASSUME Types, NEW r \in Started, NEW p \in {"done", "failed", "lost"}, Ends(r, p)
    PROVE  HasEnded(r, p)
  <1>1. req[r] \in RequestType
    BY RequestFacts
  <1>2. req'[r] = Ended(req[r], p)
    BY EndsFacts
  <1> DEFINE y == Ended(req[r], p)
  <1>3. /\ y.call = req[r].call /\ y.at = req[r].at /\ y.pc = p
        /\ p = "done" /\ req[r].call.op = "delete" =>
              y.found = req[r].found /\ y.before = req[r].before /\ y.seen = req[r].seen
        /\ ~(p = "done" /\ req[r].call.op = "delete") =>
              y.found = {} /\ y.before = {} /\ \A k \in 1..2 : y.seen[k] = {}
    BY <1>1, EndedFacts
  <1> HIDE DEF y
  <1>4. Only(r)
    BY <1>2, <1>3, EndsFacts DEF Only, y
  <1> QED
    BY <1>2, <1>3, <1>4 DEF HasEnded, IsAt, SameData, SameFound, Call, y

LEMMA FinishFacts == ASSUME Types, NEW r \in Started, Finish(r) PROVE HasEnded(r, "done")
  BY HasEndedFacts DEF Finish, Ends

LEMMA FailFacts == ASSUME Types, NEW r \in Started, Fail(r) PROVE HasEnded(r, "failed")
  BY HasEndedFacts DEF Fail, Ends

LEMMA GotoFacts ==
    ASSUME Types, NEW r \in Started, NEW p \in AllStages, Goto(r, p)
    PROVE  IsAt(r, p) /\ SamePlace(r) /\ SameHandle(r) /\ SameData(r)
  <1> DEFINE x == [req[r] EXCEPT !.pc = p]
  <1>1. req[r] \in RequestType
    BY RequestFacts
  <1>2. /\ x \in RequestType /\ x.call = req[r].call /\ x.pc = p
        /\ x.at = req[r].at /\ x.row = req[r].row /\ x.handle = req[r].handle
        /\ x.found = req[r].found /\ x.before = req[r].before /\ x.seen = req[r].seen
    BY <1>1 DEF RequestType
  <1>3. req' = [req EXCEPT ![r] = x]
    BY DEF Goto
  <1> HIDE DEF x
  <1>4. Only(r) /\ req'[r] = x
    BY <1>2, <1>3, SetRequest DEF Only
  <1> QED
    BY <1>2, <1>4 DEF IsAt, SamePlace, SameHandle, SameData, SameFound

LEMMA NextTableFacts ==
    ASSUME Types, NEW r \in Started, NextTable(r)
    PROVE  HasNext(r)
  <1>1. CASE req[r].at = LastOf(r)
    BY <1>1, FinishFacts DEF NextTable, HasNext
  <1>2. CASE req[r].at # LastOf(r)
    <2> DEFINE n == req[r].at + 1
               x == [req[r] EXCEPT !.at = n, !.pc = "look", !.row = 1]
    <2>1. req[r] \in RequestType /\ "look" \in AllStages
      BY RequestFacts DEF AllStages
    <2>2. n \in Nat /\ 1 \in Nat \ {0}
      BY <2>1 DEF RequestType
    <2>3. req' = [req EXCEPT ![r] = x]
      BY <1>2 DEF NextTable
    <2> HIDE DEF n
    <2>4. /\ x \in RequestType /\ x.call = req[r].call /\ x.pc = "look"
          /\ x.at = n /\ x.row = 1 /\ x.handle = req[r].handle
          /\ x.found = req[r].found /\ x.before = req[r].before /\ x.seen = req[r].seen
      BY <2>1, <2>2 DEF RequestType
    <2> HIDE DEF x
    <2>5. Only(r) /\ req'[r] = x
      BY <2>3, <2>4, SetRequest DEF Only
    <2> QED
      BY <1>2, <2>4, <2>5 DEF HasNext, IsAt, SameHandle, SameData, SameFound, n
  <1> QED
    BY <1>1, <1>2

LEMMA OpenedFacts ==
    ASSUME Types, NEW r \in Started, NEW handle \in Handles, Opened(r, handle)
    PROVE  /\ IsAt(r, UseOf(r, handle)) /\ SamePlace(r) /\ SameData(r)
           /\ req'[r].handle = handle
  <1> DEFINE p == UseOf(r, handle)
             x == [req[r] EXCEPT !.handle = handle, !.pc = p]
  <1>1. p \in AllStages
    BY DEF UseOf, AllStages
  <1>2. req[r] \in RequestType
    BY RequestFacts
  <1>3. req' = [req EXCEPT ![r] = x]
    BY DEF Opened
  <1> HIDE DEF p
  <1>4. /\ x \in RequestType /\ x.call = req[r].call /\ x.pc = p
        /\ x.at = req[r].at /\ x.row = req[r].row /\ x.handle = handle
        /\ x.found = req[r].found /\ x.before = req[r].before /\ x.seen = req[r].seen
    BY <1>1, <1>2 DEF RequestType
  <1> HIDE DEF x
  <1>5. Only(r) /\ req'[r] = x
    BY <1>3, <1>4, SetRequest DEF Only
  <1> QED
    BY <1>4, <1>5 DEF IsAt, SamePlace, SameData, SameFound, p

-----------------------------------------------------------------------------
(* What the steps do.                                                      *)

\* The table of a request, of its call and place alone.
TableAt(x) ==
    CASE x.call.op = "write" -> x.call.writes[x.at].table
      [] x.call.op # "write" /\ x.at = 0 -> "memory"
      [] OTHER -> GacTables[((x.at - 1) % 2) + 1]

LEMMA TableAtFacts ==
    ASSUME NEW x
    PROVE  /\ x.call.op = "write" => TableAt(x) = x.call.writes[x.at].table
           /\ x.call.op # "write" /\ x.at = 0 => TableAt(x) = "memory"
           /\ x.call.op # "write" /\ x.at \in {1, 3} => TableAt(x) = GacTables[1]
           /\ x.call.op # "write" /\ x.at \in {2, 4} => TableAt(x) = GacTables[2]
  BY DEF TableAt

LEMMA TableIs == ASSUME NEW r PROVE Table(r) = TableAt(req[r]) /\ Table(r)' = TableAt(req'[r])
  BY TwoTables DEF Table, TableAt, IsWrite

LEMMA TableFacts ==
    ASSUME NEW r
    PROVE  /\ IsWrite(r) => Table(r) = Call(r).writes[req[r].at].table
           /\ ~IsWrite(r) /\ req[r].at = 0 => Table(r) = "memory"
           /\ ~IsWrite(r) /\ req[r].at \in {1, 3} => Table(r) = GacTables[1]
           /\ ~IsWrite(r) /\ req[r].at \in {2, 4} => Table(r) = GacTables[2]
           /\ Rows(r) = Call(r).writes[req[r].at].rows
  <1>1. Rows(r) = Call(r).writes[req[r].at].rows
    BY DEF Rows, Call
  <1> QED
    BY <1>1, TableIs, TableAtFacts DEF IsWrite, Call

Good == Types /\ Standings /\ StoreOK

LEMMA RequestIs ==
    ASSUME Good, NEW r \in Started
    PROVE  /\ req[r] \in RequestType /\ Call(r) \in AllCalls /\ Standing(r)
           /\ r \in Requests /\ r \in Nat
           /\ Table(r) \in Tables
           /\ IsWrite(r) => /\ req[r].at \in DOMAIN Call(r).writes
                            /\ Rows(r) \in Seq(Rows0) /\ Rows(r) # <<>>
           /\ IsWrite(r) <=> Call(r).op = "write"
           /\ Call(r).op \in {"write", "delete", "clear", "repair"}
  <1>1. req[r] \in RequestType /\ Standing(r) /\ r \in Requests /\ r \in Nat
    BY RequestFacts DEF Good, Standings
  <1>2. Call(r) \in AllCalls /\ (IsWrite(r) <=> Call(r).op = "write")
    BY <1>1 DEF RequestType, Call, IsWrite
  <1>3. Call(r).op \in {"write", "delete", "clear", "repair"}
    BY <1>2, CallFacts DEF CallType
  <1>4. IsWrite(r) => req[r].at \in DOMAIN Call(r).writes /\ Rows(r) \in Seq(Rows0) /\ Rows(r) # <<>>
    BY <1>1, <1>2, CallFacts, TableFacts DEF Standing
  <1>5. Table(r) \in Tables
    <2>1. CASE IsWrite(r)
      BY <2>1, <1>2, <1>4, CallFacts, TableFacts
    <2>2. CASE ~IsWrite(r)
      <3>1. req[r].at \in 0..4
        BY <1>1, <1>2, <1>3, <2>2 DEF Standing
      <3> QED
        BY <2>2, <3>1, TableFacts, TwoTables
    <2> QED
      BY <2>1, <2>2
  <1> QED
    BY <1>1, <1>2, <1>3, <1>4, <1>5

\* Who is not at work keeps all it has.
LEMMA OthersKeep ==
    ASSUME NEW r \in Started, Only(r)
    PROVE  /\ \A q \in Started : Call(q)' = Call(q) /\ (IsWrite(q)' <=> IsWrite(q))
           /\ \A q \in Started : q # r =>
                 /\ Table(q)' = Table(q) /\ Rows(q)' = Rows(q)
                 /\ RawIds(q)' = RawIds(q) /\ Representatives(q)' = Representatives(q)
                 /\ (q \in InFlight <=> q \in InFlight')
           /\ req'[r].at = req[r].at => Table(r)' = Table(r) /\ Rows(r)' = Rows(r)
  <1>1. \A q \in Started : Call(q)' = Call(q) /\ (IsWrite(q)' <=> IsWrite(q))
    BY DEF Only, Call, IsWrite
  <1>2. ASSUME NEW q \in Started, q # r
        PROVE  /\ Table(q)' = Table(q) /\ Rows(q)' = Rows(q)
               /\ RawIds(q)' = RawIds(q) /\ Representatives(q)' = Representatives(q)
               /\ (q \in InFlight <=> q \in InFlight')
    <2>1. req'[q] = req[q] /\ Started' = Started
      BY <1>2 DEF Only
    <2>2. Table(q)' = Table(q) /\ Rows(q)' = Rows(q)
      BY <2>1, TableIs DEF Rows
    <2>3. RawIds(q)' = RawIds(q)
      BY <2>1 DEF RawIds
    <2>4. Representatives(q)' = Representatives(q)
      BY <2>1 DEF Representatives, RefersToRaw, RawIds, Call
    <2>5. q \in InFlight <=> q \in InFlight'
      BY <2>1 DEF InFlight
    <2> QED
      BY <2>2, <2>3, <2>4, <2>5
  <1>3. req'[r].at = req[r].at => Table(r)' = Table(r) /\ Rows(r)' = Rows(r)
    <2>1. req'[r].at = req[r].at => TableAt(req'[r]) = TableAt(req[r])
      BY DEF TableAt, Only
    <2> QED
      BY <2>1, TableIs DEF Rows, Only
  <1> QED
    BY <1>1, <1>2, <1>3

LEMMA SettledType ==
    ASSUME Types, NEW t \in Tables
    PROVE  Settled(t) \in Handles \cup {Failed}
  <1>1. cached[t] \in Handles \cup ({"createdBy"} \X Started)
    BY DEF Types
  <1>2. CASE cached[t] \in Handles
    <2>1. cached[t] = Unset \/ cached[t][1] = "table"
      BY <1>2, HandlesAre
    <2> QED
      BY <1>2, <2>1 DEF Settled
  <1>3. CASE cached[t] \in {"createdBy"} \X Started
    <2>1. cached[t][1] = "createdBy" /\ cached[t][2] \in Requests
      BY <1>3, RequestFacts
    <2>2. made[cached[t][2]][t] \in Handles \cup {Failed}
      BY <2>1 DEF Types
    <2>3. cached[t] # Unset
      BY <1>3 DEF Unset
    <2> QED
      BY <2>1, <2>2, <2>3 DEF Settled
  <1> QED
    BY <1>1, <1>2, <1>3

LEMMA SetTable ==
    ASSUME Types, NEW t \in Tables, NEW x \in [on : BOOLEAN, gen : Nat, rows : SUBSET Kept],
           disk' = [disk EXCEPT ![t] = x]
    PROVE  /\ disk' \in [Tables -> [on : BOOLEAN, gen : Nat, rows : SUBSET Kept]]
           /\ disk'[t] = x
           /\ \A u \in Tables : u # t => disk'[u] = disk[u]
  BY DEF Types

\* The rows of t become S.
SetsRows(t, S) ==
    /\ disk' \in [Tables -> [on : BOOLEAN, gen : Nat, rows : SUBSET Kept]]
    /\ disk'[t].rows = S /\ disk'[t].gen = disk[t].gen
    /\ \A u \in Tables : u # t => disk'[u] = disk[u]

LEMMA SetRows ==
    ASSUME Types, NEW t \in Tables, NEW S \in SUBSET Kept, disk' = [disk EXCEPT ![t].rows = S]
    PROVE  SetsRows(t, S) /\ disk'[t].on = disk[t].on
  BY DEF Types, SetsRows

\* What a write adds to its table.
New(r) == {Stamped(r, row) : row \in ToSet(Rows(r))}

LEMMA NewFacts ==
    ASSUME Good, NEW r \in Started, IsWrite(r)
    PROVE  /\ New(r) \subseteq Kept
           /\ \A x : x \in New(r) <=> \E k \in DOMAIN Rows(r) : x = Stamped(r, Rows(r)[k])
           /\ \A k \in DOMAIN Rows(r) : Rows(r)[k] \in Rows0
  <1>1. \A k \in DOMAIN Rows(r) : Rows(r)[k] \in Rows0
    BY RequestIs, ElementOfSeq
  <1>2. \A x : x \in New(r) <=> \E k \in DOMAIN Rows(r) : x = Stamped(r, Rows(r)[k])
    BY DEF New, ToSet
  <1>3. r \in Requests
    BY RequestIs
  <1> QED
    BY <1>1, <1>2, <1>3, StampedFacts

LEMMA TableGenIs ==
    ASSUME Types, StoreOK, NEW t \in Tables
    PROVE  disk[t].gen \in Nat /\ (disk[t].on => disk[t].gen \in Nat \ {0})
  BY DEF Types, StoreOK

-----------------------------------------------------------------------------
HasOpened(r, h) ==
    /\ h \in Handles \ {Unset}
    /\ IsAt(r, UseOf(r, h)) /\ SamePlace(r) /\ SameData(r) /\ req'[r].handle = h

Keeps == disk' = disk /\ backups' = backups /\ made' = made
Calm == old' = old /\ faults' = faults /\ alone' = alone

LookDoes(r) ==
    /\ req[r].pc = "look" /\ cached[Table(r)] # Unset
    /\ Keeps /\ Calm /\ cached' = cached
    /\ HasEnded(r, "failed") \/ HasOpened(r, Settled(Table(r)))

LEMMA LookFacts == ASSUME Good, NEW r \in Started, Look(r) PROVE LookDoes(r)
  <1> DEFINE h == Settled(Table(r))
  <1>1. Types /\ Table(r) \in Tables
    BY RequestIs DEF Good
  <1>2. h \in Handles \cup {Failed}
    BY <1>1, SettledType
  <1>3. /\ req[r].pc = "look" /\ cached[Table(r)] # Unset /\ Keeps /\ Calm /\ cached' = cached
        /\ h # Unset /\ IF h = Failed THEN Fail(r) ELSE Opened(r, h)
    BY DEF Look, Keeps, Calm
  <1> HIDE DEF h
  <1>4. h = Failed => HasEnded(r, "failed")
    BY <1>1, <1>3, FailFacts
  <1>5. h # Failed => HasOpened(r, h)
    BY <1>1, <1>2, <1>3, OpenedFacts DEF HasOpened
  <1> QED
    BY <1>3, <1>4, <1>5 DEF LookDoes, h

OpenDoes(r) ==
    /\ req[r].pc \in {"look", "open"}
    /\ Keeps /\ Calm /\ cached' = cached
    /\ IsAt(r, IF req[r].pc = "open" THEN "repair" ELSE "found") /\ SamePlace(r) /\ SameData(r)
    /\ disk[Table(r)].on => req'[r].handle = TableOf(disk[Table(r)].gen)
    /\ ~disk[Table(r)].on => req'[r].handle = Unset

LEMMA OpenFacts == ASSUME Good, NEW r \in Started, Open(r) PROVE OpenDoes(r)
  <1> DEFINE h == IF disk[Table(r)].on THEN TableOf(disk[Table(r)].gen) ELSE Unset
             p == IF req[r].pc = "open" THEN "repair" ELSE "found"
             x == [req[r] EXCEPT !.handle = h, !.pc = p]
  <1>1. Types /\ req[r] \in RequestType /\ Table(r) \in Tables /\ StoreOK
    BY RequestIs DEF Good
  <1>2. h \in Handles
    BY <1>1, TableGenIs DEF Handles, TableOf
  <1>3. p \in AllStages
    BY DEF AllStages
  <1>4. req[r].pc \in {"look", "open"} /\ Keeps /\ Calm /\ cached' = cached
    BY DEF Open, MustAsk, Keeps, Calm
  <1>5. req' = [req EXCEPT ![r] = x]
    BY <1>1 DEF Open, RequestType
  <1>6. p = IF req[r].pc = "open" THEN "repair" ELSE "found"
    OBVIOUS
  <1>7. (disk[Table(r)].on => h = TableOf(disk[Table(r)].gen)) /\ (~disk[Table(r)].on => h = Unset)
    OBVIOUS
  <1> HIDE DEF p, h
  <1>8. /\ x \in RequestType /\ x.call = req[r].call /\ x.pc = p
        /\ x.at = req[r].at /\ x.row = req[r].row /\ x.handle = h
        /\ x.found = req[r].found /\ x.before = req[r].before /\ x.seen = req[r].seen
    BY <1>1, <1>2, <1>3 DEF RequestType
  <1> HIDE DEF x
  <1>9. Only(r) /\ req'[r] = x
    BY <1>1, <1>5, <1>8, SetRequest DEF Only
  <1> QED
    BY <1>4, <1>6, <1>7, <1>8, <1>9 DEF OpenDoes, IsAt, SamePlace, SameData, SameFound

FoundDoes(r) ==
    /\ req[r].pc = "found"
    /\ Keeps /\ Calm /\ cached' = CacheAfter(r)
    /\ req[r].handle # Unset => HasOpened(r, req[r].handle)
    /\ req[r].handle = Unset /\ IsWrite(r) =>
          IsAt(r, "create") /\ SamePlace(r) /\ SameHandle(r) /\ SameData(r)
    /\ req[r].handle = Unset /\ ~IsWrite(r) => HasNext(r)

LEMMA FoundFacts == ASSUME Good, NEW r \in Started, Found(r) PROVE FoundDoes(r)
  <1> DEFINE h == req[r].handle
  <1>1. Types /\ h \in Handles /\ "create" \in AllStages
    BY RequestIs DEF Good, RequestType, AllStages
  <1>2. req[r].pc = "found" /\ Keeps /\ Calm /\ cached' = CacheAfter(r)
    BY DEF Found, Keeps, Calm
  <1>3. IF h # Unset THEN Opened(r, h) ELSE IF IsWrite(r) THEN Goto(r, "create") ELSE NextTable(r)
    BY DEF Found
  <1> HIDE DEF h
  <1>4. h # Unset => HasOpened(r, h)
    BY <1>1, <1>3, OpenedFacts DEF HasOpened
  <1>5. h = Unset /\ IsWrite(r) =>
           IsAt(r, "create") /\ SamePlace(r) /\ SameHandle(r) /\ SameData(r)
    BY <1>1, <1>3, GotoFacts
  <1>6. h = Unset /\ ~IsWrite(r) => HasNext(r)
    BY <1>1, <1>3, NextTableFacts
  <1> QED
    BY <1>2, <1>4, <1>5, <1>6 DEF FoundDoes, h

\* What r made of its table is h.
Makes(r, h) ==
    /\ made' \in [Requests -> [Tables -> Handles \cup {Failed}]]
    /\ made'[r][Table(r)] = h
    /\ \A q \in Requests, u \in Tables : q # r \/ u # Table(r) => made'[q][u] = made[q][u]

LEMMA MakesFacts ==
    ASSUME Good, NEW r \in Started, NEW h \in Handles \cup {Failed},
           made' = [made EXCEPT ![r][Table(r)] = h]
    PROVE  Makes(r, h)
  <1> DEFINE t == Table(r)
  <1>1. t \in Tables /\ r \in Requests /\ made \in [Requests -> [Tables -> Handles \cup {Failed}]]
    BY RequestIs DEF Good, Types
  <1>2. made' = [made EXCEPT ![r][t] = h]
    OBVIOUS
  <1> HIDE DEF t
  <1> DEFINE m == [made[r] EXCEPT ![t] = h]
  <1>3. /\ m \in [Tables -> Handles \cup {Failed}] /\ m[t] = h
        /\ \A u \in Tables : u # t => m[u] = made[r][u]
    BY <1>1
  <1>4. made' = [made EXCEPT ![r] = m]
    BY <1>2
  <1> HIDE DEF m
  <1>5. /\ made' \in [Requests -> [Tables -> Handles \cup {Failed}]] /\ made'[r] = m
        /\ \A q \in Requests : q # r => made'[q] = made[q]
    BY <1>1, <1>3, <1>4
  <1> QED
    BY <1>3, <1>5 DEF Makes, t

CreateDoes(r) ==
    /\ req[r].pc = "create"
    /\ backups' = backups /\ Calm /\ cached' = cached
    /\ disk[Table(r)].on => HasEnded(r, "failed") /\ disk' = disk /\ Makes(r, Failed)
    /\ ~disk[Table(r)].on =>
          /\ HasNext(r)
          /\ Makes(r, TableOf(disk[Table(r)].gen + 1))
          /\ disk' \in [Tables -> [on : BOOLEAN, gen : Nat, rows : SUBSET Kept]]
          /\ disk'[Table(r)] = [on |-> TRUE, gen |-> disk[Table(r)].gen + 1, rows |-> New(r)]
          /\ \A u \in Tables : u # Table(r) => disk'[u] = disk[u]

LEMMA CreateFacts == ASSUME Good, NEW r \in Started, Create(r) PROVE CreateDoes(r)
  <1> DEFINE t == Table(r)
             g == disk[t].gen + 1
             fresh == [on |-> TRUE, gen |-> g, rows |-> New(r)]
  <1>1. Types /\ t \in Tables /\ req[r].pc = "create" /\ backups' = backups /\ Calm /\ cached' = cached
    BY RequestIs DEF Good, Create, Calm
  <1>2. disk[t].on => made' = [made EXCEPT ![r][t] = Failed] /\ Fail(r) /\ disk' = disk
    BY DEF Create
  <1>3. ~disk[t].on => /\ made' = [made EXCEPT ![r][t] = TableOf(g)]
                       /\ disk' = [disk EXCEPT ![t] = fresh] /\ NextTable(r)
    BY DEF Create, New
  <1>4. IsWrite(r)
    BY <1>1, RequestIs DEF Standing, Stages, WriteStages
  <1>5. g \in Nat \ {0} /\ disk[t].gen \in Nat
    BY <1>1 DEF Types
  <1>6. fresh \in [on : BOOLEAN, gen : Nat, rows : SUBSET Kept]
    BY <1>4, <1>5, NewFacts
  <1>7. TableOf(g) \in Handles
    BY <1>5 DEF TableOf, Handles
  <1> HIDE DEF g, fresh
  <1>8. CASE disk[t].on
    <2>1. HasEnded(r, "failed") /\ disk' = disk
      BY <1>1, <1>2, <1>8, FailFacts
    <2>2. Makes(r, Failed)
      BY <1>1, <1>2, <1>8, MakesFacts
    <2> QED
      BY <1>1, <1>8, <2>1, <2>2 DEF CreateDoes
  <1>9. CASE ~disk[t].on
    <2>1. HasNext(r)
      BY <1>1, <1>3, <1>9, NextTableFacts
    <2>2. Makes(r, TableOf(g))
      BY <1>1, <1>3, <1>7, <1>9, MakesFacts
    <2> HIDE DEF t
    <2>3. /\ disk' \in [Tables -> [on : BOOLEAN, gen : Nat, rows : SUBSET Kept]]
          /\ disk'[t] = fresh
          /\ \A u \in Tables : u # t => disk'[u] = disk[u]
      BY <1>1, <1>3, <1>6, <1>9, SetTable
    <2> QED
      BY <1>1, <1>9, <2>1, <2>2, <2>3 DEF CreateDoes, fresh, g, t
  <1> QED
    BY <1>8, <1>9

PurgeDoes(r) ==
    /\ req[r].pc = "purge"
    /\ backups' = backups /\ made' = made /\ Calm /\ cached' = cached
    /\ \/ /\ HasEnded(r, "failed") /\ disk' = disk
       \/ /\ SetsRows(Table(r), Purged(disk[Table(r)].rows, Rows(r)[req[r].row]))
          /\ disk'[Table(r)].on = disk[Table(r)].on
          /\ IsAt(r, IF req[r].row = Len(Rows(r)) THEN "add" ELSE "purge")
          /\ req'[r].at = req[r].at /\ req'[r].row = req[r].row + 1
          /\ SameHandle(r) /\ SameData(r)

LEMMA PurgeFacts == ASSUME Good, NEW r \in Started, Purge(r) PROVE PurgeDoes(r)
  <1> DEFINE t == Table(r)
             i == req[r].row
             n == i + 1
             p == IF i = Len(Rows(r)) THEN "add" ELSE "purge"
             S == Purged(disk[t].rows, Rows(r)[i])
             x == [req[r] EXCEPT !.row = n, !.pc = p]
  <1>1. Types /\ t \in Tables /\ req[r] \in RequestType
    BY RequestIs DEF Good
  <1>2. req[r].pc = "purge" /\ backups' = backups /\ made' = made /\ Calm /\ cached' = cached
    BY DEF Purge, Calm
  <1>3. CASE Valid(t, req[r].handle)
    <2>1. disk' = [disk EXCEPT ![t].rows = S] /\ req' = [req EXCEPT ![r].row = n, ![r].pc = p]
      BY <1>3 DEF Purge, On
    <2>2. S \in SUBSET Kept
      BY <1>1 DEF Types, Purged
    <2>3. p \in AllStages /\ n \in Nat \ {0}
      BY <1>1 DEF AllStages, RequestType
    <2>4. req' = [req EXCEPT ![r] = x]
      BY <2>1
    <2>5. i = req[r].row /\ n = req[r].row + 1
      OBVIOUS
    <2> HIDE DEF S, n, p
    <2>6. /\ x \in RequestType /\ x.call = req[r].call /\ x.pc = p
          /\ x.at = req[r].at /\ x.row = n /\ x.handle = req[r].handle
          /\ x.found = req[r].found /\ x.before = req[r].before /\ x.seen = req[r].seen
      BY <1>1, <2>3 DEF RequestType
    <2> HIDE DEF x, t
    <2>7. Only(r) /\ req'[r] = x
      BY <1>1, <2>4, <2>6, SetRequest DEF Only
    <2>8. SetsRows(t, S) /\ disk'[t].on = disk[t].on
      BY <1>1, <2>1, <2>2, SetRows
    <2>9. IsAt(r, p) /\ SameHandle(r) /\ SameData(r) /\ req'[r].at = req[r].at /\ req'[r].row = n
      BY <2>6, <2>7 DEF IsAt, SameHandle, SameData, SameFound
    <2> QED
      BY <1>2, <2>5, <2>8, <2>9 DEF PurgeDoes, p, S, n, t
  <1>4. CASE ~Valid(t, req[r].handle)
    <2>1. Fail(r) /\ disk' = disk
      BY <1>4 DEF Purge, On
    <2>2. HasEnded(r, "failed")
      BY <1>1, <2>1, FailFacts
    <2> QED
      BY <1>2, <2>1, <2>2 DEF PurgeDoes
  <1> QED
    BY <1>3, <1>4

AddDoes(r) ==
    /\ req[r].pc = "add"
    /\ backups' = backups /\ made' = made /\ Calm /\ cached' = cached
    /\ \/ HasEnded(r, "failed") /\ disk' = disk
       \/ /\ HasNext(r)
          /\ SetsRows(Table(r), disk[Table(r)].rows \cup New(r))
          /\ disk'[Table(r)].on /\ disk[Table(r)].on

LEMMA AddFacts == ASSUME Good, NEW r \in Started, Add(r) PROVE AddDoes(r)
  <1> DEFINE t == Table(r)
             S == disk[t].rows \cup New(r)
  <1>1. Types /\ t \in Tables /\ req[r] \in RequestType
    BY RequestIs DEF Good
  <1>2. req[r].pc = "add" /\ backups' = backups /\ made' = made /\ Calm /\ cached' = cached
    BY DEF Add, Calm
  <1>3. IsWrite(r)
    BY <1>2, RequestIs DEF Standing, Stages, WriteStages
  <1>4. CASE Valid(t, req[r].handle)
    <2>1. disk' = [disk EXCEPT ![t].rows = S] /\ NextTable(r) /\ disk[t].on
      BY <1>4 DEF Add, On, New, Valid
    <2>2. S \in SUBSET Kept
      BY <1>1, <1>3, NewFacts DEF Types
    <2>3. HasNext(r)
      BY <1>1, <2>1, NextTableFacts
    <2> HIDE DEF S, t
    <2>4. SetsRows(t, S) /\ disk'[t].on = disk[t].on
      BY <1>1, <2>1, <2>2, SetRows
    <2> QED
      BY <1>2, <2>1, <2>3, <2>4 DEF AddDoes, S, t
  <1>5. CASE ~Valid(t, req[r].handle)
    <2>1. Fail(r) /\ disk' = disk
      BY <1>5 DEF Add, On
    <2>2. HasEnded(r, "failed")
      BY <1>1, <2>1, FailFacts
    <2> QED
      BY <1>2, <2>1, <2>2 DEF AddDoes
  <1> QED
    BY <1>4, <1>5

HasGone(r, p) == IsAt(r, p) /\ SamePlace(r) /\ SameHandle(r) /\ SameData(r)

RepairDoes(r) ==
    /\ req[r].pc = "repair"
    /\ Keeps /\ Calm /\ cached' = cached
    /\ HasEnded(r, "done") \/ (req[r].handle = TableOf(old) /\ req[r].handle # Unset /\ HasGone(r, "read"))

LEMMA RepairFacts == ASSUME Good, NEW r \in Started, Repair(r) PROVE RepairDoes(r)
  <1>1. Types /\ "read" \in AllStages
    BY DEF Good, AllStages
  <1> QED
    BY <1>1, FinishFacts, GotoFacts DEF Repair, RepairDoes, Keeps, Calm, HasGone

ReadDoes(r) ==
    /\ req[r].pc = "read"
    /\ Keeps /\ Calm /\ cached' = cached
    /\ \/ IsWrite(r) /\ cached["memory"] = Unset /\ HasGone(r, "drop")
       \/ HasEnded(r, "failed")
       \/ /\ req'[r].found = disk["memory"].rows
          /\ IsAt(r, IF disk["memory"].rows = {} THEN "drop" ELSE "backup")
          /\ SamePlace(r) /\ SameHandle(r) /\ req'[r].before = req[r].before /\ req'[r].seen = req[r].seen

LEMMA ReadFacts == ASSUME Good, NEW r \in Started, Read(r) PROVE ReadDoes(r)
  <1> DEFINE h == IF IsWrite(r) THEN Settled("memory") ELSE req[r].handle
             rows == disk["memory"].rows
             p == IF rows = {} THEN "drop" ELSE "backup"
             x == [req[r] EXCEPT !.found = rows, !.pc = p]
  <1>1. Types /\ "drop" \in AllStages /\ req[r] \in RequestType
    BY RequestIs DEF Good, AllStages
  <1>2. req[r].pc = "read" /\ Keeps /\ Calm /\ cached' = cached
    BY DEF Read, Keeps, Calm
  <1>3. \/ IsWrite(r) /\ cached["memory"] = Unset /\ Goto(r, "drop")
        \/ Fail(r)
        \/ req' = [req EXCEPT ![r].found = rows, ![r].pc = p]
    BY DEF Read
  <1>4. CASE IsWrite(r) /\ cached["memory"] = Unset /\ Goto(r, "drop")
    BY <1>1, <1>2, <1>4, GotoFacts DEF ReadDoes, HasGone
  <1>5. CASE Fail(r)
    BY <1>1, <1>2, <1>5, FailFacts DEF ReadDoes
  <1>6. CASE req' = [req EXCEPT ![r].found = rows, ![r].pc = p]
    <2>1. p \in AllStages
      BY DEF AllStages
    <2>2. rows \in SUBSET Kept
      BY <1>1, TwoTables DEF Types
    <2>3. req' = [req EXCEPT ![r] = x]
      BY <1>6
    <2> HIDE DEF p, rows
    <2>4. /\ x \in RequestType /\ x.call = req[r].call /\ x.pc = p
          /\ x.at = req[r].at /\ x.row = req[r].row /\ x.handle = req[r].handle
          /\ x.found = rows /\ x.before = req[r].before /\ x.seen = req[r].seen
      BY <1>1, <2>1, <2>2 DEF RequestType
    <2> HIDE DEF x
    <2>5. Only(r) /\ req'[r] = x
      BY <1>1, <2>3, <2>4, SetRequest DEF Only
    <2> QED
      BY <1>2, <2>4, <2>5 DEF ReadDoes, IsAt, SamePlace, SameHandle, p, rows
  <1> QED
    BY <1>3, <1>4, <1>5, <1>6

BackupDoes(r) ==
    /\ req[r].pc = "backup"
    /\ disk' = disk /\ made' = made /\ Calm /\ cached' = cached
    /\ backups' = backups \cup req[r].found
    /\ HasGone(r, "drop")

LEMMA BackupFacts == ASSUME Good, NEW r \in Started, Backup(r) PROVE BackupDoes(r)
  <1>1. Types /\ "drop" \in AllStages
    BY DEF Good, AllStages
  <1> QED
    BY <1>1, GotoFacts DEF Backup, BackedUp, BackupDoes, Calm, HasGone

DropDoes(r) ==
    /\ req[r].pc = "drop"
    /\ backups' = backups /\ made' = made /\ Calm /\ cached' = cached
    /\ \/ HasEnded(r, "failed") /\ disk' = disk
       \/ SetsRows("memory", {}) /\ ~disk'["memory"].on /\ HasGone(r, "dropped")

LEMMA DropFacts == ASSUME Good, NEW r \in Started, Drop(r) PROVE DropDoes(r)
  <1> DEFINE x == [disk["memory"] EXCEPT !.on = FALSE, !.rows = {}]
  <1>1. Types /\ "dropped" \in AllStages /\ "memory" \in Tables
    BY TwoTables DEF Good, AllStages
  <1>2. req[r].pc = "drop" /\ backups' = backups /\ made' = made /\ Calm /\ cached' = cached
    BY DEF Drop, Calm
  <1>3. \/ disk' = [disk EXCEPT !["memory"].on = FALSE, !["memory"].rows = {}] /\ Goto(r, "dropped")
        \/ Fail(r) /\ disk' = disk
    BY DEF Drop
  <1>4. CASE Fail(r) /\ disk' = disk
    BY <1>1, <1>2, <1>4, FailFacts DEF DropDoes
  <1>5. CASE disk' = [disk EXCEPT !["memory"].on = FALSE, !["memory"].rows = {}] /\ Goto(r, "dropped")
    <2>1. HasGone(r, "dropped")
      BY <1>1, <1>5, GotoFacts DEF HasGone
    <2>2. disk' = [disk EXCEPT !["memory"] = x]
      BY <1>5
    <2>3. /\ x \in [on : BOOLEAN, gen : Nat, rows : SUBSET Kept]
          /\ x.on = FALSE /\ x.rows = {} /\ x.gen = disk["memory"].gen
      BY <1>1 DEF Types
    <2> HIDE DEF x
    <2>4. SetsRows("memory", {}) /\ ~disk'["memory"].on
      BY <1>1, <2>2, <2>3, SetTable DEF SetsRows
    <2> QED
      BY <1>2, <2>1, <2>4 DEF DropDoes
  <1> QED
    BY <1>3, <1>4, <1>5

DroppedDoes(r) ==
    /\ req[r].pc = "dropped"
    /\ Keeps /\ Calm
    /\ cached' = [cached EXCEPT !["memory"] = IF IsWrite(r) THEN CreatedBy(r) ELSE Unset]
    /\ IsWrite(r) => HasGone(r, "create")
    /\ ~IsWrite(r) => HasEnded(r, "done")

LEMMA DroppedFacts == ASSUME Good, NEW r \in Started, Dropped(r) PROVE DroppedDoes(r)
  <1>1. Types /\ "create" \in AllStages
    BY DEF Good, AllStages
  <1> QED
    BY <1>1, FinishFacts, GotoFacts DEF Dropped, DroppedDoes, Calm, Keeps, HasGone

Listed(r) == {x \in disk["memory"].rows : Matches(x, Call(r)) /\ Tagged(x, Call(r))}

ListDoes(r) ==
    /\ req[r].pc = "list"
    /\ Keeps /\ Calm /\ cached' = cached
    /\ \/ HasEnded(r, "failed")
       \/ Listed(r) = {} /\ Call(r).tag # NoFilter /\ HasEnded(r, "done")
       \/ /\ IsAt(r, IF Call(r).tag = NoFilter THEN "count" ELSE "erase")
          /\ req'[r].found = Listed(r) /\ SamePlace(r) /\ SameHandle(r)
          /\ req'[r].before = req[r].before /\ req'[r].seen = req[r].seen

LEMMA ListFacts == ASSUME Good, NEW r \in Started, List(r) PROVE ListDoes(r)
  <1> DEFINE rows == Listed(r)
             p == IF Call(r).tag = NoFilter THEN "count" ELSE "erase"
             x == [req[r] EXCEPT !.found = rows, !.pc = p]
  <1>1. Types /\ req[r] \in RequestType
    BY RequestIs DEF Good
  <1>2. req[r].pc = "list" /\ Keeps /\ Calm /\ cached' = cached
    BY DEF List, Keeps, Calm
  <1>3. \/ Fail(r)
        \/ rows = {} /\ Call(r).tag # NoFilter /\ Finish(r)
        \/ req' = [req EXCEPT ![r].found = rows, ![r].pc = p]
    BY DEF List, Listed
  <1>4. CASE Fail(r)
    BY <1>1, <1>2, <1>4, FailFacts DEF ListDoes
  <1>5. CASE rows = {} /\ Call(r).tag # NoFilter /\ Finish(r)
    BY <1>1, <1>2, <1>5, FinishFacts DEF ListDoes
  <1>6. CASE req' = [req EXCEPT ![r].found = rows, ![r].pc = p]
    <2>1. p \in AllStages
      BY DEF AllStages
    <2>2. rows \in SUBSET Kept
      BY <1>1, TwoTables DEF Types, Listed
    <2>3. req' = [req EXCEPT ![r] = x]
      BY <1>6
    <2> HIDE DEF p, rows
    <2>4. /\ x \in RequestType /\ x.call = req[r].call /\ x.pc = p
          /\ x.at = req[r].at /\ x.row = req[r].row /\ x.handle = req[r].handle
          /\ x.found = rows /\ x.before = req[r].before /\ x.seen = req[r].seen
      BY <1>1, <2>1, <2>2 DEF RequestType
    <2> HIDE DEF x
    <2>5. Only(r) /\ req'[r] = x
      BY <1>1, <2>3, <2>4, SetRequest DEF Only
    <2> QED
      BY <1>2, <2>4, <2>5 DEF ListDoes, IsAt, SamePlace, SameHandle, p, rows
  <1> QED
    BY <1>3, <1>4, <1>5, <1>6

CountDoes(r) ==
    /\ req[r].pc = "count"
    /\ Keeps /\ Calm /\ cached' = cached
    /\ \/ HasEnded(r, "failed")
       \/ HasGone(r, "erase")
       \/ (\A x \in disk["memory"].rows : ~Matches(x, Call(r))) /\ HasNext(r)

LEMMA CountFacts == ASSUME Good, NEW r \in Started, Count(r) PROVE CountDoes(r)
  <1>1. Types /\ "erase" \in AllStages
    BY DEF Good, AllStages
  <1> QED
    BY <1>1, FailFacts, GotoFacts, NextTableFacts DEF Count, CountDoes, Calm, Keeps, HasGone

Queried(r) == {x \in disk[Table(r)].rows : Matches(x, Call(r))}

QueryDoes(r) ==
    /\ req[r].pc = "query"
    /\ Keeps /\ Calm /\ cached' = cached
    /\ IsAt(r, "look") /\ SameHandle(r) /\ SameFound(r) /\ req'[r].row = req[r].row
    /\ req'[r].at = req[r].at + 1
    /\ req'[r].seen[req[r].at] = Queried(r)
    /\ \A k \in 1..2 : k # req[r].at => req'[r].seen[k] = req[r].seen[k]

LEMMA QueryFacts == ASSUME Good, NEW r \in Started, Query(r) PROVE QueryDoes(r)
  <1> DEFINE k == req[r].at
             n == k + 1
             rows == Queried(r)
             s == [req[r].seen EXCEPT ![k] = rows]
             x == [req[r] EXCEPT !.seen = s, !.at = n, !.pc = "look"]
  <1>1. Types /\ req[r] \in RequestType /\ "look" \in AllStages /\ Table(r) \in Tables
    BY RequestIs DEF Good, AllStages
  <1>2. req[r].pc = "query" /\ Keeps /\ Calm /\ cached' = cached
    BY DEF Query, Keeps, Calm
  <1>3. k \in 1..2 /\ n \in Nat
    BY <1>2, RequestIs DEF Standing
  <1>4. rows \in SUBSET Kept
    BY <1>1 DEF Types, Queried
  <1>5. req' = [req EXCEPT ![r].seen[k] = rows, ![r].at = @ + 1, ![r].pc = "look"]
    BY DEF Query, Queried
  <1>6. req' = [req EXCEPT ![r] = x]
    BY <1>1, <1>5 DEF RequestType
  <1>7. req[r].seen \in [1..2 -> SUBSET Kept]
    BY <1>1 DEF RequestType
  <1> HIDE DEF rows
  <1>8. s \in [1..2 -> SUBSET Kept] /\ s[k] = rows /\ \A j \in 1..2 : j # k => s[j] = req[r].seen[j]
    BY <1>3, <1>4, <1>7
  <1> HIDE DEF s, n
  <1>9. /\ x \in RequestType /\ x.call = req[r].call /\ x.pc = "look"
        /\ x.at = n /\ x.row = req[r].row /\ x.handle = req[r].handle
        /\ x.found = req[r].found /\ x.before = req[r].before /\ x.seen = s
    BY <1>1, <1>3, <1>8 DEF RequestType
  <1> HIDE DEF x
  <1>10. Only(r) /\ req'[r] = x
    BY <1>1, <1>6, <1>9, SetRequest DEF Only
  <1> QED
    BY <1>2, <1>8, <1>9, <1>10 DEF QueryDoes, IsAt, SameHandle, SameFound, n, rows

EraseDoes(r) ==
    /\ req[r].pc = "erase"
    /\ backups' = backups /\ made' = made /\ Calm /\ cached' = cached
    /\ \/ HasEnded(r, "failed") /\ disk' = disk
       \/ /\ HasNext(r)
          /\ SetsRows(Table(r), {x \in disk[Table(r)].rows : ~Erased(r, x)})
          /\ disk'[Table(r)].on = disk[Table(r)].on

LEMMA EraseFacts == ASSUME Good, NEW r \in Started, Erase(r) PROVE EraseDoes(r)
  <1> DEFINE t == Table(r)
             S == {x \in disk[t].rows : ~Erased(r, x)}
  <1>1. Types /\ t \in Tables /\ req[r] \in RequestType
    BY RequestIs DEF Good
  <1>2. req[r].pc = "erase" /\ backups' = backups /\ made' = made /\ Calm /\ cached' = cached
    BY DEF Erase, Calm
  <1>4. CASE Valid(t, req[r].handle)
    <2>1. disk' = [disk EXCEPT ![t].rows = S] /\ NextTable(r)
      BY <1>1, <1>4 DEF Erase, On, Types
    <2>2. S \in SUBSET Kept
      BY <1>1 DEF Types
    <2>3. HasNext(r)
      BY <1>1, <2>1, NextTableFacts
    <2> HIDE DEF S, t
    <2>4. SetsRows(t, S) /\ disk'[t].on = disk[t].on
      BY <1>1, <2>1, <2>2, SetRows
    <2> QED
      BY <1>2, <2>3, <2>4 DEF EraseDoes, S, t
  <1>5. CASE ~Valid(t, req[r].handle)
    <2>1. Fail(r) /\ disk' = disk
      BY <1>5 DEF Erase, On
    <2>2. HasEnded(r, "failed")
      BY <1>1, <2>1, FailFacts
    <2> QED
      BY <1>2, <2>1, <2>2 DEF EraseDoes
  <1> QED
    BY <1>4, <1>5

FaultDoes(r) ==
    /\ disk' = disk /\ backups' = backups /\ old' = old /\ cached' = cached
    /\ faults' \in 0..MaxFaults
    /\ \/ /\ req[r].pc = "look" /\ made' = made /\ alone' = alone \ {r}
          /\ IsAt(r, "found") /\ SamePlace(r) /\ SameData(r) /\ req'[r].handle = Unset
       \/ /\ req[r].pc = "drop" /\ Call(r).op = "clear" /\ made' = made /\ alone' = alone
          /\ HasGone(r, "dropped")
       \/ /\ req[r].pc # "create" /\ req[r].pc \in AllStages \ {"done", "failed", "lost"}
          /\ made' = made /\ alone' = alone /\ HasEnded(r, "failed")
       \/ req[r].pc = "create" /\ Makes(r, Failed) /\ alone' = alone /\ HasEnded(r, "failed")

LEMMA FaultFacts == ASSUME Good, NEW r \in Started, Fault(r) PROVE FaultDoes(r)
  <1> DEFINE x == [req[r] EXCEPT !.handle = Unset, !.pc = "found"]
  <1>1. Types /\ req[r] \in RequestType /\ "found" \in AllStages /\ "dropped" \in AllStages
        /\ Unset \in Handles /\ Failed \in Handles \cup {Failed}
    BY RequestIs DEF Good, AllStages, Handles
  <1>2. disk' = disk /\ backups' = backups /\ old' = old /\ cached' = cached
    BY DEF Fault
  <1>3. faults' \in 0..MaxFaults
    BY <1>1, BoundsAreNaturals DEF Fault, Types
  <1>4. made' = IF req[r].pc = "create" THEN [made EXCEPT ![r][Table(r)] = Failed] ELSE made
    BY DEF Fault
  <1>5. CASE /\ req[r].pc = "look" /\ alone' = alone \ {r}
             /\ req' = [req EXCEPT ![r].handle = Unset, ![r].pc = "found"]
    <2>1. req' = [req EXCEPT ![r] = x]
      BY <1>5
    <2>2. /\ x \in RequestType /\ x.call = req[r].call /\ x.pc = "found"
          /\ x.at = req[r].at /\ x.row = req[r].row /\ x.handle = Unset
          /\ x.found = req[r].found /\ x.before = req[r].before /\ x.seen = req[r].seen
      BY <1>1 DEF RequestType
    <2> HIDE DEF x
    <2>3. Only(r) /\ req'[r] = x
      BY <1>1, <2>1, <2>2, SetRequest DEF Only
    <2> QED
      BY <1>2, <1>3, <1>4, <1>5, <2>2, <2>3 DEF FaultDoes, IsAt, SamePlace, SameData, SameFound
  <1>6. CASE req[r].pc = "drop" /\ Call(r).op = "clear" /\ Goto(r, "dropped") /\ alone' = alone
    BY <1>1, <1>2, <1>3, <1>4, <1>6, GotoFacts DEF FaultDoes, HasGone
  <1>7. CASE /\ req[r].pc \in {"open", "create", "purge", "add", "read", "backup", "drop",
                               "list", "count", "query", "erase"}
             /\ Fail(r) /\ alone' = alone
    <2>1. HasEnded(r, "failed") /\ req[r].pc \in AllStages \ {"done", "failed", "lost"}
      BY <1>1, <1>7, FailFacts DEF AllStages
    <2>2. req[r].pc = "create" => Makes(r, Failed)
      BY <1>1, <1>4, MakesFacts
    <2> QED
      BY <1>2, <1>3, <1>4, <1>7, <2>1, <2>2 DEF FaultDoes
  <1> QED
    BY <1>5, <1>6, <1>7 DEF Fault

Does(r) ==
    \/ LookDoes(r) \/ OpenDoes(r) \/ FoundDoes(r)
    \/ CreateDoes(r) \/ PurgeDoes(r) \/ AddDoes(r)
    \/ RepairDoes(r) \/ ReadDoes(r) \/ BackupDoes(r) \/ DropDoes(r) \/ DroppedDoes(r)
    \/ ListDoes(r) \/ CountDoes(r) \/ QueryDoes(r) \/ EraseDoes(r)
    \/ FaultDoes(r)

\* What a step does, action by action.
LEMMA StepDoes == ASSUME Good, NEW r \in Started, Step(r) PROVE Does(r)
  BY LookFacts, OpenFacts, FoundFacts, CreateFacts, PurgeFacts, AddFacts, RepairFacts, ReadFacts,
     BackupFacts, DropFacts, DroppedFacts, ListFacts, CountFacts, QueryFacts, EraseFacts, FaultFacts
     DEF Step, Does

-----------------------------------------------------------------------------
(* What all steps have in common.                                          *)

Moves(r) ==
    /\ Only(r) /\ r \in InFlight
    /\ old' = old /\ alone' \subseteq alone /\ backups \subseteq backups'
    /\ req'[r].at \in {req[r].at, req[r].at + 1}

LEMMA StepMoves == ASSUME Good, NEW r \in Started, Does(r) PROVE Moves(r)
  <1>1. req[r].pc \notin {"done", "failed", "lost"} => r \in InFlight
    BY DEF InFlight
  <1>2. HasNext(r) => Only(r) /\ req'[r].at \in {req[r].at, req[r].at + 1}
    BY DEF HasNext, HasEnded, IsAt
  <1>3. \A p : HasEnded(r, p) \/ HasGone(r, p) \/ HasOpened(r, p) => Only(r) /\ req'[r].at = req[r].at
    BY DEF HasEnded, HasGone, HasOpened, IsAt, SamePlace
  <1>4. ASSUME Keeps \/ backups' = backups PROVE backups \subseteq backups'
    BY <1>4 DEF Keeps
  <1>5. CASE LookDoes(r) \/ FoundDoes(r) \/ CreateDoes(r)
    BY <1>1, <1>2, <1>3, <1>4, <1>5 DEF LookDoes, FoundDoes, CreateDoes, Calm, Moves, IsAt, SamePlace
  <1>10. CASE PurgeDoes(r) \/ AddDoes(r)
    BY <1>1, <1>2, <1>3, <1>4, <1>10 DEF PurgeDoes, AddDoes, Calm, Moves, IsAt
  <1>6. CASE RepairDoes(r) \/ BackupDoes(r) \/ DropDoes(r) \/ DroppedDoes(r)
    BY <1>1, <1>3, <1>4, <1>6 DEF RepairDoes, BackupDoes, DropDoes, DroppedDoes, Calm, Moves
  <1>7. CASE ReadDoes(r) \/ ListDoes(r) \/ OpenDoes(r)
    BY <1>1, <1>3, <1>4, <1>7 DEF ReadDoes, ListDoes, OpenDoes, Calm, Moves, IsAt, SamePlace
  <1>8. CASE CountDoes(r) \/ QueryDoes(r) \/ EraseDoes(r)
    BY <1>1, <1>2, <1>3, <1>4, <1>8 DEF CountDoes, QueryDoes, EraseDoes, Calm, Moves, IsAt
  <1>9. CASE FaultDoes(r)
    BY <1>1, <1>3, <1>9 DEF FaultDoes, Moves, IsAt, SamePlace
  <1> QED
    BY <1>5, <1>6, <1>7, <1>8, <1>9, <1>10 DEF Does

\* r has written the rows of a step.
Adding(r) ==
    /\ req[r].pc \in {"create", "add"} /\ IsWrite(r) /\ HasNext(r)
    /\ \A x \in New(r) : x \in disk'[Table(r)].rows
    /\ req[r].pc = "create" => disk'[Table(r)].rows = New(r)
    /\ backups' = backups /\ alone' = alone /\ cached' = cached

Removing(r, t, x) ==
    \/ req[r].pc = "purge" /\ t = Table(r) /\ SameKey(x, Rows(r)[req[r].row])
    \/ req[r].pc = "erase" /\ t = Table(r) /\ Erased(r, x)
    \/ req[r].pc = "drop" /\ t = "memory"

Shape(r) ==
    /\ \A t \in Tables : disk[t].gen \in Nat /\ disk'[t].gen \in Nat /\ disk'[t].gen >= disk[t].gen
    /\ \A t \in Tables : \A x \in disk'[t].rows : x \notin disk[t].rows =>
          Adding(r) /\ t = Table(r) /\ x \in New(r)
    /\ \A t \in Tables : \A x \in disk[t].rows : x \notin disk'[t].rows => Removing(r, t, x)

LEMMA StepShape == ASSUME Good, NEW r \in Started, Does(r) PROVE Shape(r)
  <1>1. Table(r) \in Tables /\ "memory" \in Tables /\ \A t \in Tables : disk[t].gen \in Nat
    BY RequestIs, TwoTables DEF Good, Types
  <1>2. CASE disk' = disk
    BY <1>1, <1>2 DEF Shape
  <1>3. CASE CreateDoes(r) /\ disk' # disk
    <2>1. IsWrite(r)
      BY <1>3, RequestIs DEF CreateDoes, Standing, Stages, WriteStages
    <2>2. ~disk[Table(r)].on /\ HasNext(r) /\ backups' = backups /\ Calm /\ cached' = cached
      BY <1>3 DEF CreateDoes
    <2>3. /\ disk'[Table(r)].rows = New(r) /\ disk'[Table(r)].gen = disk[Table(r)].gen + 1
          /\ \A u \in Tables : u # Table(r) => disk'[u] = disk[u]
      BY <1>3, <2>2 DEF CreateDoes
    <2>4. disk[Table(r)].rows = {}
      BY <1>1, <2>2 DEF Good, StoreOK
    <2>5. Adding(r)
      BY <1>3, <2>1, <2>2, <2>3 DEF Adding, Calm, CreateDoes
    <2> QED
      BY <1>1, <2>3, <2>4, <2>5 DEF Shape
  <1>4. CASE AddDoes(r) /\ disk' # disk
    <2>1. IsWrite(r)
      BY <1>4, RequestIs DEF AddDoes, Standing, Stages, WriteStages
    <2>2. /\ disk'[Table(r)].rows = disk[Table(r)].rows \cup New(r)
          /\ disk'[Table(r)].gen = disk[Table(r)].gen
          /\ \A u \in Tables : u # Table(r) => disk'[u] = disk[u]
      BY <1>4 DEF AddDoes, SetsRows
    <2>3. Adding(r)
      BY <1>4, <2>1, <2>2 DEF Adding, Calm, AddDoes
    <2> QED
      BY <1>1, <2>2, <2>3 DEF Shape
  <1>5. CASE PurgeDoes(r) /\ disk' # disk
    <2>1. /\ disk'[Table(r)].rows = Purged(disk[Table(r)].rows, Rows(r)[req[r].row])
          /\ disk'[Table(r)].gen = disk[Table(r)].gen
          /\ \A u \in Tables : u # Table(r) => disk'[u] = disk[u]
      BY <1>5 DEF PurgeDoes, SetsRows
    <2> QED
      BY <1>1, <1>5, <2>1 DEF Shape, Removing, Purged, PurgeDoes
  <1>6. CASE EraseDoes(r) /\ disk' # disk
    <2>1. /\ disk'[Table(r)].rows = {x \in disk[Table(r)].rows : ~Erased(r, x)}
          /\ disk'[Table(r)].gen = disk[Table(r)].gen
          /\ \A u \in Tables : u # Table(r) => disk'[u] = disk[u]
      BY <1>6 DEF EraseDoes, SetsRows
    <2> QED
      BY <1>1, <1>6, <2>1 DEF Shape, Removing, EraseDoes
  <1>7. CASE DropDoes(r) /\ disk' # disk
    <2>1. /\ disk'["memory"].rows = {} /\ disk'["memory"].gen = disk["memory"].gen
          /\ \A u \in Tables : u # "memory" => disk'[u] = disk[u]
      BY <1>7 DEF DropDoes, SetsRows
    <2> QED
      BY <1>1, <1>7, <2>1 DEF Shape, Removing, DropDoes
  <1>8. Keeps => disk' = disk
    BY DEF Keeps
  <1>9. disk' # disk => CreateDoes(r) \/ AddDoes(r) \/ PurgeDoes(r) \/ EraseDoes(r) \/ DropDoes(r)
    BY <1>8 DEF Does, LookDoes, OpenDoes, FoundDoes, RepairDoes, ReadDoes, BackupDoes, DroppedDoes,
                ListDoes, CountDoes, QueryDoes, FaultDoes
  <1> QED
    BY <1>2, <1>3, <1>4, <1>5, <1>6, <1>7, <1>9

\* A step of a write is complete when its rows have been written.
LEMMA StepCompletes ==
    ASSUME Good, NEW r \in Started, Does(r), IsWrite(r)
    PROVE  \/ req'[r].at = req[r].at /\ req'[r].pc # "done"
           \/ Adding(r)
  <1>1. req[r].pc \in {"done", "failed", "lost"} \cup WriteStages
    BY RequestIs DEF Standing, Stages
  <1>2. HasEnded(r, "failed") => req'[r].at = req[r].at /\ req'[r].pc # "done"
    BY DEF HasEnded, IsAt
  <1>3. \A p : HasGone(r, p) /\ p # "done" => req'[r].at = req[r].at /\ req'[r].pc # "done"
    BY DEF HasGone, IsAt, SamePlace
  <1>4. \A h : HasOpened(r, h) => req'[r].at = req[r].at /\ req'[r].pc # "done"
    BY DEF HasOpened, IsAt, SamePlace, UseOf
  <1>5. CASE LookDoes(r) \/ FoundDoes(r)
    BY <1>2, <1>4, <1>5 DEF LookDoes, FoundDoes, IsAt, SamePlace
  <1>6. CASE OpenDoes(r) \/ ReadDoes(r)
    BY <1>2, <1>3, <1>6 DEF OpenDoes, ReadDoes, IsAt, SamePlace
  <1>7. CASE CreateDoes(r)
    <2>1. CASE disk[Table(r)].on
      BY <1>2, <1>7, <2>1 DEF CreateDoes
    <2>2. CASE ~disk[Table(r)].on
      BY <1>7, <2>2 DEF CreateDoes, Adding, Calm
    <2> QED
      BY <2>1, <2>2
  <1>8. CASE AddDoes(r)
    <2>1. CASE HasEnded(r, "failed")
      BY <1>2, <2>1
    <2>2. CASE ~HasEnded(r, "failed")
      BY <1>8, <2>2 DEF AddDoes, Adding, Calm, SetsRows
    <2> QED
      BY <2>1, <2>2
  <1>9. CASE PurgeDoes(r) \/ BackupDoes(r) \/ DropDoes(r) \/ DroppedDoes(r)
    BY <1>2, <1>3, <1>9 DEF PurgeDoes, BackupDoes, DropDoes, DroppedDoes, IsAt
  <1>10. CASE RepairDoes(r) \/ ListDoes(r) \/ CountDoes(r) \/ QueryDoes(r) \/ EraseDoes(r)
    BY <1>1, <1>10 DEF RepairDoes, ListDoes, CountDoes, QueryDoes, EraseDoes, WriteStages
  <1>11. CASE FaultDoes(r)
    BY <1>2, <1>3, <1>11 DEF FaultDoes, IsAt, SamePlace
  <1> QED
    BY <1>5, <1>6, <1>7, <1>8, <1>9, <1>10, <1>11 DEF Does

\* Which steps touch what.
LEMMA StepTouches ==
    ASSUME NEW r \in Started, Does(r)
    PROVE  /\ disk' # disk => CreateDoes(r) \/ AddDoes(r) \/ PurgeDoes(r) \/ EraseDoes(r) \/ DropDoes(r)
           /\ made' # made => CreateDoes(r) \/ FaultDoes(r)
           /\ cached' # cached => FoundDoes(r) \/ DroppedDoes(r)
           /\ backups' # backups => BackupDoes(r)
           /\ faults' # faults \/ alone' # alone => FaultDoes(r)
  BY DEF Does, LookDoes, OpenDoes, FoundDoes, CreateDoes, PurgeDoes, AddDoes, RepairDoes, ReadDoes, BackupDoes,
         DropDoes, DroppedDoes, ListDoes, CountDoes, QueryDoes, EraseDoes, FaultDoes, Keeps, Calm

LEMMA CacheFacts ==
    ASSUME Good, NEW r \in Started, FoundDoes(r) \/ DroppedDoes(r)
    PROVE  /\ cached' \in [Tables -> Handles \cup ({"createdBy"} \X Started)]
           /\ \A t \in Tables : \A g : cached'[t] = TableOf(g) => g <= disk[t].gen
  <1> DEFINE u == IF req[r].pc = "found" THEN Table(r) ELSE "memory"
             C == Handles \cup ({"createdBy"} \X Started)
  <1>1. /\ cached \in [Tables -> C] /\ u \in Tables
        /\ \A t \in Tables : \A g : cached[t] = TableOf(g) => g <= disk[t].gen
    BY RequestIs, TwoTables DEF Good, Types, StoreOK
  <1>2. cached' = cached \/ \E h \in {req[r].handle, CreatedBy(r), Unset} :
           /\ cached' = [cached EXCEPT ![u] = h]
           /\ h \in {CreatedBy(r), Unset} \/ req[r].pc = "found"
    <2>1. CASE FoundDoes(r)
      BY <2>1 DEF FoundDoes, CacheAfter
    <2>2. CASE DroppedDoes(r)
      BY <2>2 DEF DroppedDoes
    <2> QED
      BY <2>1, <2>2
  <1>3. CreatedBy(r) \in C /\ Unset \in C /\ req[r].handle \in C
    BY RequestIs DEF CreatedBy, Handles, RequestType
  <1>4. \A g : CreatedBy(r) # TableOf(g) /\ Unset # TableOf(g) /\ TableOf(g)[2] = g
    BY HandleFacts
  <1>5. req[r].handle # Unset /\ req[r].pc = "found" => req[r].handle[2] <= disk[u].gen
    BY RequestIs DEF Standing
  <1> HIDE DEF u, C
  <1>6. CASE cached' = cached
    BY <1>1, <1>6 DEF C
  <1>7. ASSUME NEW h \in {req[r].handle, CreatedBy(r), Unset}, cached' = [cached EXCEPT ![u] = h],
               h \in {CreatedBy(r), Unset} \/ req[r].pc = "found"
        PROVE  cached' \in [Tables -> C] /\ \A t \in Tables : \A g : cached'[t] = TableOf(g) => g <= disk[t].gen
    <2>1. cached' \in [Tables -> C] /\ cached'[u] = h /\ \A t \in Tables : t # u => cached'[t] = cached[t]
      BY <1>1, <1>3, <1>7
    <2>2. \A g : h = TableOf(g) => g <= disk[u].gen
      BY <1>4, <1>5, <1>7
    <2> QED
      BY <1>1, <2>1, <2>2
  <1> QED
    BY <1>2, <1>6, <1>7 DEF C

LEMMA StepTypes == ASSUME Good, NEW r \in Started, Does(r) PROVE Types'
  <1> DEFINE D == [Tables -> [on : BOOLEAN, gen : Nat, rows : SUBSET Kept]]
             M == [Requests -> [Tables -> Handles \cup {Failed}]]
  <1>1. /\ Types /\ Len(req) \in 1..MaxRequests /\ disk \in D /\ made \in M
        /\ backups \subseteq Kept /\ old \in {0, 1} /\ faults \in 0..MaxFaults /\ alone \subseteq Started
        /\ cached \in [Tables -> Handles \cup ({"createdBy"} \X Started)]
    BY DEF Good, Types
  <1>2. req' \in Seq(RequestType) /\ Len(req') = Len(req) /\ Started' = Started /\ old' = old /\ alone' \subseteq alone
    BY StepMoves DEF Moves, Only
  <1>3. disk' \in D
    BY <1>1, StepTouches DEF CreateDoes, AddDoes, PurgeDoes, EraseDoes, DropDoes, SetsRows
  <1>4. made' \in M
    BY <1>1, StepTouches DEF CreateDoes, FaultDoes, Makes
  <1>5. cached' \in [Tables -> Handles \cup ({"createdBy"} \X Started)]
    BY <1>1, StepTouches, CacheFacts
  <1>6. backups' \subseteq Kept
    <2>1. req[r].found \subseteq Kept
      BY RequestIs DEF RequestType
    <2> QED
      BY <1>1, <2>1, StepTouches DEF BackupDoes
  <1>7. faults' \in 0..MaxFaults
    BY <1>1, StepTouches DEF FaultDoes
  <1> QED
    BY <1>1, <1>2, <1>3, <1>4, <1>5, <1>6, <1>7 DEF Types

LEMMA StepStoreOK == ASSUME Good, NEW r \in Started, Does(r) PROVE StoreOK'
  <1>1. Table(r) \in Tables /\ "memory" \in Tables /\ Started' = Started /\ r \in Requests
    BY RequestIs, TwoTables, StepMoves DEF Moves, Only
  <1>2. \A t \in Tables : disk[t].gen \in Nat /\ disk'[t].gen \in Nat /\ disk'[t].gen >= disk[t].gen
    BY StepShape DEF Shape
  <1>3. /\ \A t \in Tables : disk[t].on => disk[t].gen # 0
        /\ \A t \in Tables : ~disk[t].on => disk[t].rows = {}
        /\ \A t \in Tables : \A g : cached[t] = TableOf(g) => g <= disk[t].gen
        /\ \A q \in Requests, t \in Tables : \A g : made[q][t] = TableOf(g) => g <= disk[t].gen
        /\ \A q \in Requests \ Started : \A t \in Tables : made[q][t] = Unset
    BY DEF Good, StoreOK
  <1>4. \A t \in Tables : (disk'[t].on => disk'[t].gen # 0) /\ (~disk'[t].on => disk'[t].rows = {})
    <2>1. CASE disk' = disk
      BY <1>3, <2>1
    <2>2. CASE disk' # disk /\ CreateDoes(r)
      BY <1>1, <1>2, <1>3, <2>2 DEF CreateDoes
    <2>3. CASE disk' # disk /\ DropDoes(r)
      BY <1>1, <1>3, <2>3 DEF DropDoes, SetsRows
    <2>4. CASE disk' # disk /\ AddDoes(r)
      BY <1>1, <1>3, <2>4 DEF AddDoes, SetsRows
    <2>5. CASE disk' # disk /\ PurgeDoes(r)
      BY <1>1, <1>3, <2>5 DEF PurgeDoes, SetsRows, Purged
    <2>6. CASE disk' # disk /\ EraseDoes(r)
      BY <1>1, <1>3, <2>6 DEF EraseDoes, SetsRows
    <2> QED
      BY <2>1, <2>2, <2>3, <2>4, <2>5, <2>6, StepTouches
  <1>5. \A t \in Tables : \A g : cached'[t] = TableOf(g) => g <= disk[t].gen
    BY <1>3, StepTouches, CacheFacts
  <1>6. \A t \in Tables : \A g : cached'[t] = TableOf(g) => g <= disk'[t].gen
    <2> SUFFICES ASSUME NEW t \in Tables, NEW g, cached'[t] = TableOf(g) PROVE g <= disk'[t].gen
      OBVIOUS
    <2>1. g <= disk[t].gen /\ cached'[t] \in Handles \cup ({"createdBy"} \X Started)
      BY <1>1, <1>5, StepTypes DEF Types
    <2>2. g \in Nat
      <3>1. TableOf(g)[1] = "table" /\ TableOf(g)[2] = g /\ TableOf(g) # Unset
        BY HandleFacts
      <3>2. TableOf(g) \notin {"createdBy"} \X Started
        BY <3>1
      <3> QED
        BY <2>1, <3>1, <3>2, HandlesAre
    <2> QED
      BY <1>2, <2>1, <2>2
  <1>7. \A q \in Requests, t \in Tables : \A g : made'[q][t] = TableOf(g) => g <= disk'[t].gen
    <2> SUFFICES ASSUME NEW q \in Requests, NEW t \in Tables, NEW g, made'[q][t] = TableOf(g)
                 PROVE g <= disk'[t].gen
      OBVIOUS
    <2>1. g \in Nat
      <3>1. TableOf(g)[2] = g /\ TableOf(g) # Unset /\ TableOf(g) # Failed
        BY HandleFacts
      <3>2. made'[q][t] \in Handles \cup {Failed}
        BY StepTypes DEF Types
      <3> QED
        BY <3>1, <3>2, HandlesAre
    <2>2. CASE made'[q][t] = made[q][t]
      <3>1. made[q][t] = TableOf(g)
        BY <2>2
      <3>2. g <= disk[t].gen
        BY <1>3, <3>1
      <3> QED
        BY <1>2, <2>1, <3>2
    <2>3. CASE made'[q][t] # made[q][t]
      <3>1. CreateDoes(r) \/ FaultDoes(r)
        BY <2>3, StepTouches
      <3>2. \A h : Makes(r, h) => q = r /\ t = Table(r) /\ h = TableOf(g)
        BY <2>3 DEF Makes
      <3>3. TableOf(g) # Failed
        BY HandleFacts
      <3>4. CreateDoes(r) /\ ~disk[Table(r)].on
        BY <2>3, <3>1, <3>2, <3>3 DEF CreateDoes, FaultDoes
      <3>5. TableOf(disk[t].gen + 1) = TableOf(g) /\ disk'[t].gen = disk[t].gen + 1
        BY <3>2, <3>4 DEF CreateDoes
      <3>6. g = disk[t].gen + 1
        BY <3>5, HandleFacts
      <3> QED
        BY <1>2, <3>5, <3>6
    <2> QED
      BY <2>2, <2>3
  <1>8. \A q \in Requests \ Started : \A t \in Tables : made'[q][t] = Unset
    <2>1. \A h : Makes(r, h) => \A q \in Requests \ Started, t \in Tables : made'[q][t] = made[q][t]
      BY DEF Makes
    <2>2. made' = made \/ \E h : Makes(r, h)
      BY StepTouches DEF CreateDoes, FaultDoes
    <2> QED
      BY <1>3, <2>1, <2>2
  <1> QED
    BY <1>1, <1>4, <1>6, <1>7, <1>8 DEF StoreOK

\* An ended request stands anywhere; the next table is one of the chain.
LEMMA EndedStands ==
    ASSUME Good, NEW r \in Started, NEW p \in {"done", "failed", "lost"}, HasEnded(r, p), old' = old
    PROVE  Standing(r)'
  <1>1. /\ req'[r].pc = p /\ req'[r].at = req[r].at /\ Only(r)
        /\ Call(r)' = Call(r) /\ (IsWrite(r)' <=> IsWrite(r))
    BY OthersKeep DEF HasEnded, IsAt
  <1>2. p \in Stages(Call(r).op)
    BY DEF Stages
  <1>3. Standing(r)
    BY RequestIs
  <1> QED
    BY <1>1, <1>2, <1>3 DEF Standing

LEMMA NextStands ==
    ASSUME Good, NEW r \in Started, HasNext(r), old' = old, Call(r).op \in {"write", "delete"}
    PROVE  Standing(r)'
  <1>1. CASE req[r].at = LastOf(r)
    BY <1>1, EndedStands DEF HasNext
  <1>2. CASE req[r].at # LastOf(r)
    <2>1. req'[r].pc = "look" /\ req'[r].at = req[r].at + 1 /\ req'[r].row = 1 /\ Only(r)
      BY <1>2 DEF HasNext, IsAt
    <2>2. Call(r)' = Call(r) /\ (IsWrite(r)' <=> IsWrite(r)) /\ (IsWrite(r) <=> Call(r).op = "write")
      BY <2>1, OthersKeep, RequestIs
    <2>3. Standing(r)
      BY RequestIs
    <2>4. CASE Call(r).op = "write"
      <3> DEFINE s == Call(r).writes
      <3>1. s \in Seq([table : Tables, rows : Seq(Rows0)])
        BY RequestIs, CallFacts DEF CallType, Rows0
      <3>2. DOMAIN s = 1..Len(s) /\ Len(s) \in Nat
        BY <3>1
      <3>3. req[r].at \in DOMAIN s /\ LastOf(r) = Len(s)
        BY <2>2, <2>3, <2>4 DEF Standing, LastOf, Call
      <3>4. req[r].at + 1 \in DOMAIN s
        BY <1>2, <3>2, <3>3
      <3> QED
        BY <2>1, <2>2, <2>4, <3>4 DEF Standing, Stages, WriteStages
    <2>5. CASE Call(r).op = "delete"
      <3>1. req[r].at \in 0..4 /\ LastOf(r) = 4
        BY <2>2, <2>3, <2>5, TwoTables DEF Standing, LastOf
      <3>2. req[r].at + 1 \in 0..4
        BY <1>2, <3>1
      <3> QED
        BY <2>1, <2>2, <2>5, <3>2 DEF Standing, Stages
    <2> QED
      BY <2>4, <2>5
  <1> QED
    BY <1>1, <1>2

LEMMA OpenedStands ==
    ASSUME Good, NEW r \in Started, NEW h, HasOpened(r, h), old' = old, req[r].pc \in {"look", "found"}
    PROVE  Standing(r)'
  <1>1. /\ req'[r].pc = UseOf(r, h) /\ req'[r].at = req[r].at /\ req'[r].row = req[r].row /\ Only(r)
        /\ h \in Handles /\ h # Unset
    BY DEF HasOpened, IsAt, SamePlace
  <1>2. /\ Call(r)' = Call(r) /\ (IsWrite(r)' <=> IsWrite(r)) /\ (IsWrite(r) <=> Call(r).op = "write")
        /\ Rows(r)' = Rows(r) /\ Table(r)' = Table(r)
    BY <1>1, OthersKeep, RequestIs
  <1>3. /\ Call(r).op \in {"write", "delete"} /\ req[r].row = 1
        /\ IsWrite(r) => req[r].at \in DOMAIN Call(r).writes
        /\ Call(r).op = "delete" => req[r].at \in 0..4
    BY RequestIs DEF Standing, Stages
  <1>4. CASE IsWrite(r) /\ UseOf(r, h) = "read"
    <2>1. Table(r) = "memory" /\ h = TableOf(old)
      BY <1>4 DEF UseOf
    <2>2. old # 0
      BY <1>1, <2>1, HandlesAre, HandleFacts
    <2> QED
      BY <1>1, <1>2, <1>3, <1>4, <2>1, <2>2 DEF Standing, Stages, WriteStages
  <1>5. CASE IsWrite(r) /\ UseOf(r, h) # "read"
    <2>1. UseOf(r, h) = "purge"
      BY <1>5 DEF UseOf
    <2>2. 1 \in DOMAIN Rows(r)
      <3> DEFINE s == Rows(r)
      <3>1. s \in Seq(Rows0) /\ s # <<>>
        BY <1>5, RequestIs
      <3> HIDE DEF s
      <3>2. 1 \in DOMAIN s
        BY <3>1
      <3> QED
        BY <3>2 DEF s
    <2> QED
      BY <1>1, <1>2, <1>3, <1>5, <2>1, <2>2 DEF Standing, Stages, WriteStages
  <1>6. CASE ~IsWrite(r)
    <2>1. /\ UseOf(r, h) \in {"list", "query", "erase"}
          /\ UseOf(r, h) = "list" => req[r].at = 0
          /\ UseOf(r, h) = "query" => req[r].at \in 1..2
          /\ UseOf(r, h) = "erase" => req[r].at \notin 0..2
      BY <1>6, TwoTables DEF UseOf
    <2>2. UseOf(r, h) = "erase" => req[r].at \in {0, 3, 4}
      BY <1>2, <1>3, <1>6, <2>1
    <2> QED
      BY <1>1, <1>2, <1>3, <1>6, <2>1, <2>2 DEF Standing, Stages
  <1> QED
    BY <1>4, <1>5, <1>6

LEMMA OthersStand ==
    ASSUME Good, NEW r \in Started, Does(r), NEW q \in Started, q # r
    PROVE  Standing(q)'
  <1>1. Only(r) /\ old' = old /\ req'[q] = req[q]
    BY StepMoves DEF Moves, Only
  <1>2. /\ Call(q)' = Call(q) /\ (IsWrite(q)' <=> IsWrite(q)) /\ Table(q)' = Table(q) /\ Rows(q)' = Rows(q)
    BY <1>1, OthersKeep
  <1>3. Standing(q) /\ Table(q) \in Tables /\ req[q] \in RequestType
    BY RequestIs
  <1>4. disk[Table(q)].gen \in Nat /\ disk'[Table(q)].gen \in Nat /\ disk'[Table(q)].gen >= disk[Table(q)].gen
    BY <1>3, StepShape DEF Shape
  <1>5. req[q].pc = "found" /\ req[q].handle # Unset => req[q].handle[2] <= disk'[Table(q)].gen
    <2>1. req[q].handle # Unset => req[q].handle[2] \in Nat
      BY <1>3, HandlesAre DEF RequestType
    <2> QED
      BY <1>3, <1>4, <2>1 DEF Standing
  <1> QED
    BY <1>1, <1>2, <1>3, <1>5 DEF Standing

LEMMA StepStands == ASSUME Good, NEW r \in Started, Does(r) PROVE Standing(r)'
  <1>1. Standing(r) /\ Only(r) /\ old' = old
    BY RequestIs, StepMoves DEF Moves
  <1>2. /\ Call(r)' = Call(r) /\ (IsWrite(r)' <=> IsWrite(r)) /\ (IsWrite(r) <=> Call(r).op = "write")
        /\ Call(r).op \in {"write", "delete", "clear", "repair"}
        /\ req'[r].at = req[r].at => Table(r)' = Table(r) /\ Rows(r)' = Rows(r)
    BY <1>1, OthersKeep, RequestIs
  <1>3. \A p \in {"done", "failed", "lost"} : HasEnded(r, p) => Standing(r)'
    BY <1>1, EndedStands
  <1>4. HasNext(r) /\ Call(r).op \in {"write", "delete"} => Standing(r)'
    BY <1>1, NextStands
  <1>5. \A h : HasOpened(r, h) /\ req[r].pc \in {"look", "found"} => Standing(r)'
    BY <1>1, OpenedStands
  <1>6. CASE LookDoes(r)
    BY <1>3, <1>5, <1>6 DEF LookDoes
  <1>7. CASE OpenDoes(r)
    <2>1. /\ req'[r].at = req[r].at /\ req'[r].row = req[r].row
          /\ req'[r].pc = IF req[r].pc = "open" THEN "repair" ELSE "found"
          /\ req[r].pc \in {"look", "open"} /\ disk' = disk
      BY <1>7 DEF OpenDoes, IsAt, SamePlace, Keeps
    <2>2. req'[r].handle # Unset => req'[r].handle[2] <= disk'[Table(r)].gen
      <3>1. disk[Table(r)].gen \in Nat
        BY RequestIs DEF Good, Types
      <3>2. TableOf(disk[Table(r)].gen)[2] = disk[Table(r)].gen
        BY HandleFacts
      <3> QED
        BY <1>7, <2>1, <3>1, <3>2 DEF OpenDoes
    <2>3. CASE req[r].pc = "open"
      BY <1>1, <1>2, <2>1, <2>3 DEF Standing, Stages, WriteStages
    <2>4. CASE req[r].pc = "look"
      BY <1>1, <1>2, <2>1, <2>2, <2>4 DEF Standing, Stages, WriteStages
    <2> QED
      BY <2>1, <2>3, <2>4
  <1>8. CASE FoundDoes(r)
    <2>1. req[r].pc = "found" /\ Call(r).op \in {"write", "delete"}
      BY <1>1, <1>2, <1>8 DEF FoundDoes, Standing, Stages
    <2>2. IsAt(r, "create") /\ SamePlace(r) /\ IsWrite(r) => Standing(r)'
      BY <1>1, <1>2 DEF IsAt, SamePlace, Standing, Stages, WriteStages
    <2> QED
      BY <1>4, <1>5, <1>8, <2>1, <2>2 DEF FoundDoes
  <1>9. CASE CreateDoes(r) \/ AddDoes(r)
    <2>1. Call(r).op = "write"
      BY <1>1, <1>2, <1>9 DEF CreateDoes, AddDoes, Standing, Stages
    <2> QED
      BY <1>3, <1>4, <1>9, <2>1 DEF CreateDoes, AddDoes
  <1>10. CASE PurgeDoes(r) /\ ~HasEnded(r, "failed")
    <2>1. /\ req'[r].at = req[r].at /\ req'[r].row = req[r].row + 1 /\ req[r].pc = "purge"
          /\ req'[r].pc = IF req[r].row = Len(Rows(r)) THEN "add" ELSE "purge"
      BY <1>10 DEF PurgeDoes, IsAt
    <2>2. IsWrite(r)
      BY <1>1, <1>2, <2>1 DEF Standing, Stages
    <2>3. Rows(r) \in Seq(Rows0) /\ req[r].row \in DOMAIN Rows(r)
      BY <1>1, <2>1, <2>2, RequestIs DEF Standing
    <2>4. IF req[r].row = Len(Rows(r)) THEN req[r].row + 1 > Len(Rows(r)) ELSE req[r].row + 1 \in DOMAIN Rows(r)
      BY <2>3
    <2> QED
      BY <1>1, <1>2, <2>1, <2>2, <2>4 DEF Standing, Stages, WriteStages
  <1>11. CASE RepairDoes(r)
    <2>1. Call(r).op = "repair" /\ req[r].at = 0
      BY <1>1, <1>2, <1>11 DEF RepairDoes, Standing, Stages, WriteStages
    <2>2. Table(r) = "memory"
      BY <1>2, <2>1, TableFacts
    <2>3. req[r].handle = TableOf(old) /\ req[r].handle # Unset => old # 0
      BY RequestIs, HandlesAre, HandleFacts DEF RequestType
    <2>4. HasGone(r, "read") /\ old # 0 => Standing(r)'
      BY <1>1, <1>2, <2>1, <2>2 DEF HasGone, IsAt, SamePlace, Standing, Stages
    <2> QED
      BY <1>3, <1>11, <2>3, <2>4 DEF RepairDoes
  <1>12. CASE ReadDoes(r) /\ ~HasEnded(r, "failed")
    <2>1. req'[r].at = req[r].at /\ req'[r].pc \in {"drop", "backup"} /\ req[r].pc = "read"
      BY <1>12 DEF ReadDoes, HasGone, IsAt, SamePlace
    <2> QED
      BY <1>1, <1>2, <2>1 DEF Standing, Stages, WriteStages
  <1>13. CASE BackupDoes(r)
    BY <1>1, <1>2, <1>13 DEF BackupDoes, HasGone, IsAt, SamePlace, Standing, Stages, WriteStages
  <1>14. CASE DropDoes(r) /\ ~HasEnded(r, "failed")
    BY <1>1, <1>2, <1>14 DEF DropDoes, HasGone, IsAt, SamePlace, Standing, Stages, WriteStages
  <1>15. CASE DroppedDoes(r)
    <2>1. HasGone(r, "create") /\ IsWrite(r) => Standing(r)'
      BY <1>1, <1>2 DEF HasGone, IsAt, SamePlace, Standing, Stages, WriteStages
    <2> QED
      BY <1>3, <1>15, <2>1 DEF DroppedDoes
  <1>16. CASE ListDoes(r) \/ CountDoes(r) \/ QueryDoes(r) \/ EraseDoes(r)
    <2>1. Call(r).op = "delete"
      BY <1>1, <1>2, <1>16 DEF ListDoes, CountDoes, QueryDoes, EraseDoes, Standing, Stages, WriteStages
    <2>2. CASE ListDoes(r) /\ ~HasEnded(r, "failed") /\ ~HasEnded(r, "done")
      <3>1. req'[r].at = req[r].at /\ req'[r].pc \in {"count", "erase"} /\ req[r].at = 0
        BY <1>1, <2>2 DEF ListDoes, IsAt, SamePlace, Standing
      <3> QED
        BY <1>1, <1>2, <2>1, <3>1 DEF Standing, Stages
    <2>3. CASE CountDoes(r)
      <3>1. req[r].at = 0
        BY <1>1, <2>3 DEF CountDoes, Standing
      <3>2. HasGone(r, "erase") => Standing(r)'
        BY <1>1, <1>2, <2>1, <3>1 DEF HasGone, IsAt, SamePlace, Standing, Stages
      <3> QED
        BY <1>3, <1>4, <2>1, <2>3, <3>2 DEF CountDoes
    <2>4. CASE QueryDoes(r)
      <3>1. /\ req'[r].at = req[r].at + 1 /\ req[r].at \in 1..2 /\ req'[r].pc = "look" /\ req'[r].row = 1
        BY <1>1, <2>4 DEF QueryDoes, IsAt, Standing
      <3> QED
        BY <1>1, <1>2, <2>1, <3>1 DEF Standing, Stages
    <2>5. CASE EraseDoes(r)
      BY <1>3, <1>4, <2>1, <2>5 DEF EraseDoes
    <2> QED
      BY <1>3, <1>16, <2>2, <2>3, <2>4, <2>5
  <1>17. CASE FaultDoes(r)
    <2>1. CASE /\ req[r].pc = "look" /\ IsAt(r, "found") /\ SamePlace(r) /\ req'[r].handle = Unset
      BY <1>1, <1>2, <2>1 DEF IsAt, SamePlace, Standing, Stages, WriteStages
    <2>2. CASE req[r].pc = "drop" /\ Call(r).op = "clear" /\ HasGone(r, "dropped")
      BY <1>1, <1>2, <2>2 DEF HasGone, IsAt, SamePlace, Standing, Stages, WriteStages
    <2> QED
      BY <1>3, <1>17, <2>1, <2>2 DEF FaultDoes
  <1> QED
    BY <1>3, <1>6, <1>7, <1>8, <1>9, <1>10, <1>11, <1>12, <1>13, <1>14, <1>15, <1>16, <1>17 DEF Does

LEMMA StepGood == ASSUME Good, NEW r \in Started, Does(r) PROVE Good'
  <1>1. Started' = Started
    BY StepMoves DEF Moves, Only
  <1>2. \A q \in Started : Standing(q)'
    BY OthersStand, StepStands
  <1>3. Standings'
    BY <1>1, <1>2 DEF Standings
  <1> QED
    BY <1>3, StepTypes, StepStoreOK DEF Good

-----------------------------------------------------------------------------
(* What Apart says of rows.                                                *)

LEMMA MemoriesAre ==
    \A c \in AllCalls : \A row \in Writes(c, "memory") : row \in Memories
  BY DEF Memories, AllCalls

\* What a request writes in a step, with its own name on it.
LEMMA WroteFacts ==
    ASSUME Good, NEW a \in Started, NEW i \in DOMAIN Call(a).writes, NEW k \in DOMAIN Call(a).writes[i].rows
    PROVE  /\ Call(a).writes[i].rows[k] \in Rows0
           /\ Call(a).writes[i].rows[k] \in Writes(Call(a), Call(a).writes[i].table)
           /\ Call(a).writes[i].table \in Tables
           /\ Wrote(a, i, k) \in Kept /\ Wrote(a, i, k).from = a
           /\ Wrote(a, i, k).id = Call(a).writes[i].rows[k].id
           /\ Wrote(a, i, k).scope = Call(a).writes[i].rows[k].scope
           /\ Wrote(a, i, k).session = Call(a).writes[i].rows[k].session
           /\ Wrote(a, i, k).tag = Call(a).writes[i].rows[k].tag
           /\ Wrote(a, i, k).raw = Call(a).writes[i].rows[k].raw
           /\ Wrote(a, i, k).rep = Call(a).writes[i].rows[k].rep
  <1> DEFINE s == Call(a).writes[i].rows
             row == s[k]
  <1>1. Call(a) \in AllCalls /\ a \in Requests
    BY RequestIs
  <1>2. s \in Seq(Rows0) /\ Call(a).writes[i].table \in Tables
    BY <1>1, CallFacts
  <1>3. row \in Writes(Call(a), Call(a).writes[i].table)
    BY WritesAre
  <1>4. Wrote(a, i, k) = Stamped(a, row)
    BY DEF Wrote
  <1>5. row \in Rows0
    <2> HIDE DEF s
    <2>1. k \in DOMAIN s
      BY DEF s
    <2> QED
      BY <1>2, <2>1, ElementOfSeq
  <1> HIDE DEF row
  <1> QED
    BY <1>1, <1>2, <1>3, <1>4, <1>5, StampedFacts DEF row

LEMMA ApartFacts ==
    ASSUME Good, Apart, NEW a \in alone, NEW q \in InFlight, q # a,
           NEW i \in DOMAIN Call(a).writes, NEW k \in DOMAIN Call(a).writes[i].rows
    PROVE  /\ \A j \in DOMAIN Call(q).writes : Call(q).writes[j].table = Call(a).writes[i].table =>
                 \A l \in DOMAIN Call(q).writes[j].rows : ~SameKey(Wrote(a, i, k), Call(q).writes[j].rows[l])
           /\ Call(q).op = "delete" => ~MayName(Call(q), Call(a).writes[i].table, Wrote(a, i, k))
           /\ Call(q).op = "clear" => Call(a).writes[i].table # "memory"
           /\ a \in InFlight /\ old # 0 /\ (Call(q).op = "repair" \/ Writes(Call(q), "memory") # {}) =>
                 Call(a).writes[i].table # "memory"
  <1> DEFINE t == Call(a).writes[i].table
             row == Call(a).writes[i].rows[k]
             x == Wrote(a, i, k)
  <1>1. a \in Started /\ q \in Started
    BY RequestFacts DEF Good, Types
  <1>2. t \in Tables /\ row \in Writes(Call(a), t)
    BY <1>1, WroteFacts
  <1>3. x.id = row.id /\ x.scope = row.scope /\ x.session = row.session
    BY <1>1, WroteFacts
  <1>4. ~Threatens(Call(q), Call(a), a \in InFlight)
    BY DEF Apart
  <1> HIDE DEF x
  <1>5. /\ \A other \in Writes(Call(q), t) : ~SameKey(row, other)
        /\ ~(Call(q).op = "delete" /\ MayName(Call(q), t, row))
        /\ ~(Call(q).op = "clear" /\ t = "memory")
        /\ ~(a \in InFlight /\ old # 0 /\ t = "memory" /\ (Call(q).op = "repair" \/ Writes(Call(q), "memory") # {}))
    BY <1>2, <1>4 DEF Threatens
  <1> HIDE DEF row
  <1>6. ASSUME NEW j \in DOMAIN Call(q).writes, Call(q).writes[j].table = t, NEW l \in DOMAIN Call(q).writes[j].rows
        PROVE  ~SameKey(x, Call(q).writes[j].rows[l])
    <2>1. Call(q).writes[j].rows[l] \in Writes(Call(q), t)
      BY <1>6, WritesAre
    <2> QED
      BY <1>3, <1>5, <2>1 DEF SameKey
  <1>7. MayName(Call(q), t, x) => MayName(Call(q), t, row)
    BY <1>3 DEF MayName, Matches
  <1> QED
    BY <1>5, <1>6, <1>7 DEF x

\* A row is some request's, of a step it has come to.
LEMMA OriginFacts ==
    ASSUME Good, Origin, NEW t \in Tables, NEW x \in disk[t].rows
    PROVE  /\ x.from \in Started /\ IsWrite(x.from)
           /\ \E i \in DOMAIN Call(x.from).writes :
                 /\ Call(x.from).writes[i].table = t /\ i <= req[x.from].at
                 /\ \E k \in DOMAIN Call(x.from).writes[i].rows : x = Wrote(x.from, i, k)
           /\ t = "memory" => \E m \in Memories :
                 m.id = x.id /\ m.scope = x.scope /\ m.session = x.session /\ m.tag = x.tag
  <1> DEFINE a == x.from
  <1>1. a \in Started
    BY DEF Origin
  <1>2. PICK i \in DOMAIN Call(a).writes :
           /\ Call(a).writes[i].table = t /\ i <= req[a].at
           /\ \E k \in DOMAIN Call(a).writes[i].rows : x = Wrote(a, i, k)
    BY DEF Origin
  <1> HIDE DEF a
  <1>3. Call(a) \in AllCalls /\ Call(a).writes # <<>> /\ IsWrite(a)
    BY <1>1, <1>2, RequestIs, CallFacts
  <1>4. PICK k \in DOMAIN Call(a).writes[i].rows : x = Wrote(a, i, k)
    BY <1>2
  <1> DEFINE m == Call(a).writes[i].rows[k]
  <1>5. /\ m \in Writes(Call(a), Call(a).writes[i].table)
        /\ Wrote(a, i, k).id = m.id /\ Wrote(a, i, k).scope = m.scope
        /\ Wrote(a, i, k).session = m.session /\ Wrote(a, i, k).tag = m.tag
    BY <1>1, WroteFacts
  <1> HIDE DEF m
  <1>6. t = "memory" => m \in Memories
    BY <1>2, <1>3, <1>5, MemoriesAre
  <1> QED
    BY <1>1, <1>2, <1>3, <1>4, <1>5, <1>6 DEF a

\* What a deletion erases it can name.
LEMMA EraseNames ==
    ASSUME Good, Origin, FoundRows, NEW r \in Started, req[r].pc = "erase",
           NEW x \in disk[Table(r)].rows, Erased(r, x)
    PROVE  Call(r).op = "delete" /\ MayName(Call(r), Table(r), x)
  <1>1. Call(r).op = "delete" /\ ~IsWrite(r) /\ req[r].at \in {0, 3, 4} /\ Table(r) \in Tables
    BY RequestIs DEF Standing, Stages, WriteStages
  <1>2. Matches(x, Call(r))
    BY DEF Erased
  <1>3. ASSUME Table(r) = "memory"
        PROVE  \E m \in Memories : m.id = x.id /\ Matches(m, Call(r)) /\ Tagged(m, Call(r))
    <2>1. req[r].at = 0
      BY <1>1, <1>3, TableFacts, TwoTables
    <2>2. CASE Call(r).tag = NoFilter
      <3>1. PICK m \in Memories : m.id = x.id /\ m.scope = x.scope /\ m.session = x.session
        BY <1>1, <1>3, OriginFacts
      <3> QED
        BY <1>2, <2>2, <3>1 DEF Matches, Tagged
    <2>3. CASE Call(r).tag # NoFilter
      <3>1. PICK y \in req[r].found : y.id = x.id
        BY <2>1, <2>3 DEF Erased, RawIds
      <3> QED
        BY <1>1, <3>1 DEF FoundRows
    <2> QED
      BY <2>2, <2>3
  <1> QED
    BY <1>1, <1>2, <1>3 DEF MayName

-----------------------------------------------------------------------------
LEMMA ThreatensLess ==
    ASSUME NEW c, NEW d, NEW o \in BOOLEAN, NEW p \in BOOLEAN, p => o, ~Threatens(c, d, o)
    PROVE  ~Threatens(c, d, p)
  BY DEF Threatens

LEMMA StepApart == ASSUME Good, Apart, NEW r \in Started, Does(r) PROVE Apart'
  <1>1. Only(r) /\ r \in InFlight /\ old' = old /\ alone' \subseteq alone
    BY StepMoves DEF Moves
  <1>2. \A q \in InFlight' : q \in InFlight /\ q \in Started
    BY <1>1, OthersKeep DEF InFlight, Only
  <1>3. \A q \in Started : Call(q)' = Call(q)
    BY <1>1, OthersKeep
  <1>4. alone \subseteq Started
    BY DEF Good, Types
  <1>5. ASSUME NEW a \in alone', NEW q \in InFlight', q # a
        PROVE  ~Threatens(Call(q), Call(a), a \in InFlight)'
    <2> DEFINE c == Call(q)
               d == Call(a)
               o == a \in InFlight
               p == a \in InFlight'
    <2>1. a \in alone /\ q \in InFlight /\ c' = c /\ d' = d
      BY <1>1, <1>2, <1>3, <1>4
    <2>2. ~Threatens(c, d, o)
      BY <1>5, <2>1 DEF Apart
    <2>3. (p => o) /\ p \in BOOLEAN /\ o \in BOOLEAN
      BY <1>2
    <2>4. ~Threatens(c, d, p)
      <3> HIDE DEF c, d, o, p
      <3> QED
        BY <2>2, <2>3, ThreatensLess
    <2> QED
      BY <1>1, <2>1, <2>4 DEF Threatens
  <1> QED
    BY <1>5 DEF Apart

LEMMA StepOrigin == ASSUME Good, Origin, NEW r \in Started, Does(r) PROVE Origin'
  <1>1. Only(r) /\ r \in InFlight /\ Started' = Started /\ req'[r].at \in {req[r].at, req[r].at + 1}
    BY StepMoves DEF Moves, Only
  <1>2. \A q \in Started : Call(q)' = Call(q)
    BY <1>1, OthersKeep
  <1>3. \A q \in Started : req[q].at \in Nat /\ req'[q].at \in Nat /\ req[q].at <= req'[q].at
    <2> SUFFICES ASSUME NEW q \in Started
                 PROVE  req[q].at \in Nat /\ req'[q].at \in Nat /\ req[q].at <= req'[q].at
      OBVIOUS
    <2>1. req[q].at \in Nat
      BY RequestIs DEF RequestType
    <2>2. req'[q].at \in {req[q].at, req[q].at + 1}
      BY <1>1 DEF Only
    <2> QED
      BY <2>1, <2>2
  <1>4. ASSUME NEW t \in Tables, NEW x \in disk'[t].rows
        PROVE  /\ x.from \in Started'
               /\ \E i \in DOMAIN Call(x.from)'.writes :
                     /\ Call(x.from)'.writes[i].table = t
                     /\ i <= req'[x.from].at
                     /\ \E k \in DOMAIN Call(x.from)'.writes[i].rows : x = Wrote(x.from, i, k)'
    <2>1. CASE x \in disk[t].rows
      <3> DEFINE a == x.from
      <3>1. a \in Started
        BY <2>1, OriginFacts
      <3>2. PICK i \in DOMAIN Call(a).writes :
               /\ Call(a).writes[i].table = t /\ i <= req[a].at
               /\ \E k \in DOMAIN Call(a).writes[i].rows : x = Wrote(a, i, k)
        BY <2>1, OriginFacts
      <3>3. Call(a)' = Call(a) /\ \A k : Wrote(a, i, k)' = Wrote(a, i, k)
        BY <1>2, <3>1 DEF Wrote
      <3>4. i \in Nat
        BY <3>1, <3>2, RequestIs, CallFacts DEF CallType
      <3>5. i <= req'[a].at
        BY <1>3, <3>1, <3>2, <3>4
      <3> QED
        BY <1>1, <3>1, <3>2, <3>3, <3>5
    <2>2. CASE x \notin disk[t].rows
      <3>1. Adding(r) /\ t = Table(r) /\ x \in New(r)
        BY <2>2, StepShape DEF Shape
      <3>2. IsWrite(r) /\ req[r].at \in DOMAIN Call(r).writes
        BY <3>1, RequestIs DEF Adding
      <3>3. PICK k \in DOMAIN Rows(r) : x = Stamped(r, Rows(r)[k]) /\ Rows(r)[k] \in Rows0
        BY <3>1, <3>2, NewFacts
      <3>4. x.from = r
        BY <3>3, RequestIs, StampedFacts
      <3>5. Table(r) = Call(r).writes[req[r].at].table /\ Rows(r) = Call(r).writes[req[r].at].rows
        BY <3>2, TableFacts
      <3>6. x = Wrote(r, req[r].at, k)
        BY <3>3, <3>5 DEF Wrote
      <3>7. Call(r)' = Call(r) /\ \A i : Wrote(r, i, k)' = Wrote(r, i, k)
        BY <1>2 DEF Wrote
      <3>8. PICK i \in DOMAIN Call(r).writes : i = req[r].at
        BY <3>2
      <3>9. /\ i \in DOMAIN Call(r)'.writes /\ Call(r)'.writes[i].table = t
            /\ k \in DOMAIN Call(r)'.writes[i].rows /\ x = Wrote(r, i, k)'
        BY <3>1, <3>3, <3>5, <3>6, <3>7, <3>8
      <3>10. i <= req'[r].at
        BY <1>3, <3>8
      <3> QED
        BY <1>1, <3>4, <3>9, <3>10
    <2> QED
      BY <2>1, <2>2
  <1> QED
    BY <1>4 DEF Origin

LEMMA StepFoundRows == ASSUME Good, Origin, FoundRows, NEW r \in Started, Does(r) PROVE FoundRows'
  <1> DEFINE Named(q, x) ==
               /\ Matches(x, Call(q)) /\ Tagged(x, Call(q))
               /\ \E m \in Memories : m.id = x.id /\ Matches(m, Call(q)) /\ Tagged(m, Call(q))
  <1>1. Only(r) /\ Started' = Started
    BY StepMoves DEF Moves, Only
  <1>2. \A q \in Started : Call(q)' = Call(q)
    BY <1>1, OthersKeep
  <1>3. \A q \in Started : Call(q).op = "delete" => \A x \in req[q].found : Named(q, x)
    BY DEF FoundRows
  <1>4. req'[r].found = req[r].found \/ req'[r].found = {} \/ req'[r].found = Listed(r) \/ Call(r).op # "delete"
    <2>1. \A p : HasEnded(r, p) => req'[r].found = req[r].found \/ req'[r].found = {}
      BY DEF HasEnded, SameData, SameFound
    <2>2. HasNext(r) => req'[r].found = req[r].found \/ req'[r].found = {}
      BY <2>1 DEF HasNext, SameData, SameFound
    <2>3. \A p : HasGone(r, p) \/ HasOpened(r, p) => req'[r].found = req[r].found
      BY DEF HasGone, HasOpened, SameData, SameFound
    <2>4. ReadDoes(r) => Call(r).op # "delete"
      BY RequestIs DEF ReadDoes, Standing, Stages
    <2>5. CASE LookDoes(r) \/ OpenDoes(r) \/ FoundDoes(r)
      BY <2>1, <2>2, <2>3, <2>5 DEF LookDoes, OpenDoes, FoundDoes, SameData, SameFound
    <2>6. CASE CreateDoes(r) \/ AddDoes(r) \/ EraseDoes(r)
      BY <2>1, <2>2, <2>6 DEF CreateDoes, AddDoes, EraseDoes
    <2>7. CASE PurgeDoes(r)
      BY <2>1, <2>7 DEF PurgeDoes, SameData, SameFound
    <2>8. CASE RepairDoes(r) \/ BackupDoes(r) \/ DropDoes(r) \/ DroppedDoes(r) \/ CountDoes(r)
      BY <2>1, <2>2, <2>3, <2>8 DEF RepairDoes, BackupDoes, DropDoes, DroppedDoes, CountDoes
    <2>9. CASE ListDoes(r) \/ QueryDoes(r)
      BY <2>1, <2>9 DEF ListDoes, QueryDoes, SameFound
    <2>10. CASE FaultDoes(r)
      BY <2>1, <2>3, <2>10 DEF FaultDoes, SameData, SameFound
    <2> QED
      BY <2>4, <2>5, <2>6, <2>7, <2>8, <2>9, <2>10 DEF Does
  <1>5. \A x \in Listed(r) : Named(r, x)
    <2> SUFFICES ASSUME NEW x \in Listed(r) PROVE Named(r, x)
      OBVIOUS
    <2>1. x \in disk["memory"].rows /\ Matches(x, Call(r)) /\ Tagged(x, Call(r))
      BY DEF Listed
    <2>2. PICK m \in Memories : m.id = x.id /\ m.scope = x.scope /\ m.session = x.session /\ m.tag = x.tag
      BY <2>1, OriginFacts, TwoTables
    <2>3. Matches(m, Call(r)) /\ Tagged(m, Call(r))
      BY <2>1, <2>2 DEF Matches, Tagged
    <2> QED
      BY <2>1, <2>2, <2>3
  <1>6. \A q \in Started : q # r => req'[q] = req[q]
    BY <1>1 DEF Only
  <1>7. \A q \in Started : \A x : Named(q, x)' <=> Named(q, x)
    BY <1>2
  <1>8. ASSUME NEW q \in Started, Call(q).op = "delete", NEW x \in req'[q].found
        PROVE  Named(q, x)
    <2> HIDE DEF Named
    <2>1. CASE q # r
      BY <1>3, <1>6, <1>8, <2>1
    <2>2. CASE q = r
      BY <1>3, <1>4, <1>5, <1>8, <2>2
    <2> QED
      BY <2>1, <2>2
  <1> QED
    BY <1>1, <1>2, <1>8 DEF FoundRows

-----------------------------------------------------------------------------
\* The steps complete after r is done with one.
LEMMA StepComplete ==
    ASSUME Good, NEW r \in Started, Does(r), NEW a \in Started, NEW i, Complete(a, i)'
    PROVE  /\ IsWrite(a) /\ i \in DOMAIN Call(a).writes /\ i \in Nat
           /\ Complete(a, i) \/ (a = r /\ i = req[r].at /\ Adding(r))
  <1>1. Only(r)
    BY StepMoves DEF Moves
  <1>2. Call(a)' = Call(a) /\ (IsWrite(a)' <=> IsWrite(a))
    BY <1>1, OthersKeep
  <1>3. IsWrite(a) /\ i \in DOMAIN Call(a).writes
    BY <1>2 DEF Complete
  <1> DEFINE s == Call(a).writes
  <1>4. s \in Seq([table : Tables, rows : Seq(Rows0)])
    BY RequestIs, CallFacts DEF CallType, Rows0
  <1>5. DOMAIN s = 1..Len(s) /\ Len(s) \in Nat /\ i \in Nat
    <2> HIDE DEF s
    <2>1. i \in DOMAIN s
      BY <1>3 DEF s
    <2> QED
      BY <1>4, <2>1
  <1>6. CASE a # r
    BY <1>1, <1>2, <1>3, <1>5, <1>6 DEF Complete, Only
  <1>7. CASE a = r /\ req'[r].at = req[r].at /\ req'[r].pc # "done"
    BY <1>2, <1>3, <1>5, <1>7 DEF Complete
  <1>8. CASE a = r /\ Adding(r)
    <2>1. HasNext(r) /\ LastOf(r) = Len(s) /\ req[r].at \in DOMAIN s
      BY <1>8, RequestIs DEF Adding, LastOf, Call
    <2>2. CASE req[r].at = LastOf(r)
      <3>1. i < req[r].at \/ i = req[r].at
        BY <1>3, <1>5, <2>1, <2>2
      <3> QED
        BY <1>3, <1>5, <1>8, <3>1 DEF Complete
    <2>3. CASE req[r].at # LastOf(r)
      <3>1. req'[r].at = req[r].at + 1 /\ req'[r].pc = "look"
        BY <2>1, <2>3 DEF HasNext, IsAt
      <3>2. i < req[r].at + 1
        BY <1>8, <3>1 DEF Complete
      <3>3. i < req[r].at \/ i = req[r].at
        BY <1>5, <2>1, <3>2
      <3> QED
        BY <1>3, <1>5, <1>8, <3>3 DEF Complete
    <2> QED
      BY <2>2, <2>3
  <1> QED
    BY <1>3, <1>6, <1>7, <1>8, StepCompletes

\* What an adding request has written is there.
LEMMA AddedFacts ==
    ASSUME Good, NEW r \in Started, Adding(r)
    PROVE  /\ IsWrite(r) /\ req[r].at \in DOMAIN Call(r).writes /\ r \in InFlight
           /\ Table(r) = Call(r).writes[req[r].at].table
           /\ Rows(r) = Call(r).writes[req[r].at].rows
           /\ \A k \in DOMAIN Call(r).writes[req[r].at].rows :
                 Wrote(r, req[r].at, k) \in New(r) /\ Wrote(r, req[r].at, k) \in disk'[Table(r)].rows
           /\ \A x \in New(r) : \E k \in DOMAIN Call(r).writes[req[r].at].rows : x = Wrote(r, req[r].at, k)
  <1>1. IsWrite(r) /\ req[r].at \in DOMAIN Call(r).writes /\ r \in InFlight
    BY RequestIs DEF Adding, InFlight
  <1>2. Table(r) = Call(r).writes[req[r].at].table /\ Rows(r) = Call(r).writes[req[r].at].rows
    BY <1>1, TableFacts
  <1>3. \A x : x \in New(r) <=> \E k \in DOMAIN Rows(r) : x = Stamped(r, Rows(r)[k])
    BY <1>1, NewFacts
  <1>4. \A k : Wrote(r, req[r].at, k) = Stamped(r, Rows(r)[k])
    BY <1>2 DEF Wrote
  <1>5. \A x \in New(r) : x \in disk'[Table(r)].rows
    BY DEF Adding
  <1> QED
    BY <1>1, <1>2, <1>3, <1>4, <1>5

\* A completed row is removed by no one, unless it has been saved.
LEMMA CompleteStays ==
    ASSUME Good, Apart, Origin, AreSaved, FoundRows, NEW r \in Started, Does(r),
           NEW a \in alone, NEW i, Complete(a, i), NEW k \in DOMAIN Call(a).writes[i].rows,
           Wrote(a, i, k) \in disk[Call(a).writes[i].table].rows
    PROVE  IsIn(Call(a).writes[i].table, Wrote(a, i, k))'
  <1> DEFINE t == Call(a).writes[i].table
             x == Wrote(a, i, k)
  <1>1. a \in Started /\ IsWrite(a) /\ i \in DOMAIN Call(a).writes /\ (i < req[a].at \/ req[a].pc = "done")
    BY DEF Good, Types, Complete
  <1>2. Call(a)' = Call(a) /\ Only(r) /\ backups \subseteq backups' /\ r \in InFlight
    BY <1>1, StepMoves, OthersKeep DEF Moves
  <1>3. t' = t /\ x' = x
    BY <1>2 DEF Wrote
  <1>4. t \in Tables
    BY <1>1, WroteFacts
  <1>5. /\ IsWrite(r) => /\ req[r].at \in DOMAIN Call(r).writes
                         /\ Table(r) = Call(r).writes[req[r].at].table
                         /\ Rows(r) = Call(r).writes[req[r].at].rows
        /\ Standing(r) /\ Call(r) \in AllCalls
    BY RequestIs, TableFacts
  <1>6. r = a => req[r].pc # "done" /\ Table(r) # t
    <2> SUFFICES ASSUME r = a, Table(r) = t PROVE FALSE
      BY <1>2 DEF InFlight
    <2>1. i < req[r].at /\ IsWrite(r)
      BY <1>1, <1>2 DEF InFlight
    <2>2. req[r].at = i
      BY <1>1, <1>5, <2>1, CallFacts
    <2>3. i \in Nat
      BY <1>1, <1>5, CallFacts DEF CallType
    <2> QED
      BY <2>1, <2>2, <2>3
  <1>7. CASE x \in disk'[t].rows
    BY <1>3, <1>7 DEF IsIn
  <1>8. CASE x \notin disk'[t].rows
    <2>1. Removing(r, t, x)
      BY <1>4, <1>8, StepShape DEF Shape
    <2>2. CASE req[r].pc = "purge" /\ t = Table(r) /\ SameKey(x, Rows(r)[req[r].row])
      <3>1. IsWrite(r) /\ req[r].row \in DOMAIN Rows(r)
        BY <2>2, RequestIs DEF Standing, Stages
      <3>2. r # a
        BY <1>6, <2>2
      <3> HIDE DEF x, t
      <3>3. /\ req[r].at \in DOMAIN Call(r).writes /\ Call(r).writes[req[r].at].table = t
            /\ req[r].row \in DOMAIN Call(r).writes[req[r].at].rows
            /\ SameKey(x, Call(r).writes[req[r].at].rows[req[r].row])
        BY <1>5, <2>2, <3>1
      <3> USE DEF x, t
      <3> QED
        BY <1>1, <1>2, <3>2, <3>3, ApartFacts
    <2>3. CASE req[r].pc = "erase" /\ t = Table(r) /\ Erased(r, x)
      <3>1. Call(r).op = "delete" /\ MayName(Call(r), t, x)
        BY <2>3, EraseNames
      <3>2. r # a
        BY <1>6, <2>3
      <3> QED
        BY <1>1, <1>2, <3>1, <3>2, ApartFacts
    <2>4. CASE req[r].pc = "drop" /\ t = "memory"
      <3>1. r # a
        <4>1. r = a => Table(r) = "memory"
          BY <1>1, <1>5, <2>4, RequestIs DEF Standing
        <4> QED
          BY <1>6, <2>4, <4>1
      <3>2. Saved(a, r, x)
        BY <1>2, <2>4, <3>1 DEF AreSaved
      <3> QED
        BY <1>2, <1>3, <2>4, <3>2 DEF Saved, IsIn
    <2> QED
      BY <2>1, <2>2, <2>3, <2>4 DEF Removing
  <1> QED
    BY <1>7, <1>8

LEMMA StepAreKept ==
    ASSUME Good, Apart, Origin, AreKept, AreSaved, FoundRows, NEW r \in Started, Does(r)
    PROVE  AreKept'
  <1>1. /\ Only(r) /\ alone' \subseteq alone /\ alone \subseteq Started /\ backups \subseteq backups'
    BY StepMoves DEF Moves, Good, Types
  <1>2. \A q \in Started : Call(q)' = Call(q)
    BY <1>1, OthersKeep
  <1>3. ASSUME NEW a \in alone', NEW i, Complete(a, i)', NEW k \in DOMAIN Call(a)'.writes[i].rows
        PROVE  IsIn(Call(a).writes[i].table, Wrote(a, i, k))'
    <2>1. a \in alone /\ a \in Started /\ Call(a)' = Call(a) /\ k \in DOMAIN Call(a).writes[i].rows
      BY <1>1, <1>2, <1>3
    <2>2. Wrote(a, i, k)' = Wrote(a, i, k)
      BY <2>1 DEF Wrote
    <2>3. CASE Complete(a, i)
      <3>1. IsIn(Call(a).writes[i].table, Wrote(a, i, k))
        BY <2>1, <2>3 DEF AreKept
      <3>2. CASE Wrote(a, i, k) \in disk[Call(a).writes[i].table].rows
        BY <2>1, <2>3, <3>2, CompleteStays
      <3>3. CASE Call(a).writes[i].table = "memory" /\ Wrote(a, i, k) \in backups
        BY <1>1, <2>1, <2>2, <3>3 DEF IsIn
      <3> QED
        BY <3>1, <3>2, <3>3 DEF IsIn
    <2>4. CASE a = r /\ i = req[r].at /\ Adding(r)
      <3>1. Wrote(a, i, k) \in disk'[Call(a).writes[i].table].rows
        BY <2>1, <2>4, AddedFacts
      <3> QED
        BY <2>1, <2>2, <3>1 DEF IsIn
    <2> QED
      BY <1>3, <2>1, <2>3, <2>4, StepComplete
  <1> QED
    BY <1>3 DEF AreKept

-----------------------------------------------------------------------------
(* Replacing the memory table loses nothing that was written.              *)

\* Who may drop the table is kept from the rows that r is adding.
LEMMA AddingApart ==
    ASSUME Good, Apart, NEW r \in alone, Adding(r), Table(r) = "memory", NEW q \in InFlight, q # r
    PROVE  req[q].pc \notin {"read", "backup", "drop", "dropped"}
  <1> DEFINE i == req[r].at
  <1>1. r \in Started /\ q \in Started
    BY RequestFacts DEF Good, Types
  <1>2. IsWrite(r) /\ i \in DOMAIN Call(r).writes /\ r \in InFlight /\ Call(r).writes[i].table = "memory"
    BY <1>1, AddedFacts
  <1>3. 1 \in DOMAIN Call(r).writes[i].rows
    <2> DEFINE s == Call(r).writes[i].rows
    <2>1. s \in Seq(Rows0) /\ s # <<>>
      BY <1>1, <1>2, RequestIs, CallFacts
    <2> HIDE DEF s
    <2>2. 1 \in DOMAIN s
      BY <2>1
    <2> QED
      BY <2>2 DEF s
  <1> HIDE DEF i
  <1>4. /\ Call(q).op # "clear"
        /\ old # 0 => Call(q).op # "repair" /\ Writes(Call(q), "memory") = {}
    BY <1>2, <1>3, ApartFacts
  <1>5. SUFFICES ASSUME req[q].pc \in {"read", "backup", "drop", "dropped"} PROVE FALSE
    OBVIOUS
  <1>6. old # 0 /\ Table(q) = "memory" /\ Call(q).op \in {"write", "repair"}
    BY <1>1, <1>4, <1>5, RequestIs DEF Standing, Stages
  <1>7. IsWrite(q)
    BY <1>1, <1>4, <1>6, RequestIs
  <1>8. Writes(Call(q), "memory") # {}
    <2> DEFINE j == req[q].at
               s == Call(q).writes[j].rows
    <2>1. j \in DOMAIN Call(q).writes /\ Call(q).writes[j].table = "memory" /\ s \in Seq(Rows0) /\ s # <<>>
      BY <1>1, <1>6, <1>7, RequestIs, TableFacts
    <2> HIDE DEF s
    <2>2. 1 \in DOMAIN s
      BY <2>1
    <2> USE DEF s
    <2> HIDE DEF j
    <2>3. Call(q).writes[j].rows[1] \in Writes(Call(q), "memory")
      BY <2>1, <2>2, WritesAre
    <2> QED
      BY <2>3
  <1> QED
    BY <1>4, <1>6, <1>8

\* The promise of the memory table is forgotten only by who has dropped it.
LEMMA ForgottenCache ==
    ASSUME Good, NEW r \in Started, Does(r), cached["memory"] # Unset, cached'["memory"] = Unset
    PROVE  req[r].pc = "dropped" /\ Call(r).op \in {"clear", "repair"}
  <1>1. "memory" \in Tables /\ Table(r) \in Tables /\ cached \in [Tables -> Handles \cup ({"createdBy"} \X Started)]
    BY RequestIs, TwoTables DEF Good, Types
  <1>2. FoundDoes(r) \/ DroppedDoes(r)
    BY StepTouches
  <1>3. CreatedBy(r) # Unset
    BY HandleFacts
  <1>4. ~FoundDoes(r)
    <2> SUFFICES ASSUME FoundDoes(r) PROVE FALSE
      OBVIOUS
    <2>1. cached' = CacheAfter(r)
      BY DEF FoundDoes
    <2> QED
      BY <1>1, <1>3, <2>1 DEF CacheAfter
  <1>5. req[r].pc = "dropped" /\ ~IsWrite(r)
    BY <1>1, <1>2, <1>3, <1>4 DEF DroppedDoes
  <1> QED
    BY <1>5, RequestIs DEF Standing, Stages

LEMMA OthersSave ==
    ASSUME Good, Apart, AreSaved, NEW r \in Started, Does(r),
           NEW a \in alone, NEW q \in InFlight, q # a, q # r,
           NEW i, Complete(a, i), Call(a).writes[i].table = "memory",
           NEW k \in DOMAIN Call(a).writes[i].rows
    PROVE  Saved(a, q, Wrote(a, i, k))'
  <1> DEFINE x == Wrote(a, i, k)
  <1>1. a \in Started /\ q \in Started /\ IsWrite(a) /\ i \in DOMAIN Call(a).writes
    BY RequestFacts DEF Good, Types, Complete
  <1>2. Only(r) /\ backups \subseteq backups' /\ r \in InFlight /\ req'[q] = req[q]
    BY <1>1, StepMoves DEF Moves, Only
  <1>3. Call(a)' = Call(a) /\ (IsWrite(q)' <=> IsWrite(q))
    BY <1>1, <1>2, OthersKeep
  <1>4. x' = x
    BY <1>3 DEF Wrote
  <1>5. Saved(a, q, x)
    BY DEF AreSaved
  <1>6. cached["memory"] # Unset => cached'["memory"] # Unset \/ x \in backups
    <2> SUFFICES ASSUME cached["memory"] # Unset, cached'["memory"] = Unset PROVE x \in backups
      OBVIOUS
    <2>1. req[r].pc = "dropped" /\ Call(r).op \in {"clear", "repair"}
      BY ForgottenCache
    <2>2. r # a
      BY <1>1, <2>1, RequestIs
    <2>3. Call(r).op # "clear"
      BY <1>1, <1>2, <2>2, ApartFacts
    <2>4. Saved(a, r, x)
      BY <1>2, <2>2 DEF AreSaved
    <2> QED
      BY <2>1, <2>4 DEF Saved
  <1> HIDE DEF x
  <1>7. Saved(a, q, x)'
    BY <1>2, <1>3, <1>4, <1>5, <1>6 DEF Saved
  <1> QED
    BY <1>7 DEF x

LEMMA SelfSaves ==
    ASSUME Good, Apart, AreKept, AreSaved, NEW r \in Started, Does(r), NEW a \in alone, r # a,
           NEW i, Complete(a, i), Call(a).writes[i].table = "memory",
           NEW k \in DOMAIN Call(a).writes[i].rows
    PROVE  Saved(a, r, Wrote(a, i, k))'
  <1> DEFINE x == Wrote(a, i, k)
  <1>1. a \in Started /\ IsWrite(a) /\ i \in DOMAIN Call(a).writes
    BY RequestFacts DEF Good, Types, Complete
  <1>2. Only(r) /\ backups \subseteq backups' /\ r \in InFlight
    BY StepMoves DEF Moves
  <1>3. Call(a)' = Call(a) /\ (IsWrite(r)' <=> IsWrite(r))
    BY <1>1, <1>2, OthersKeep
  <1>4. x' = x
    BY <1>3 DEF Wrote
  <1>5. /\ req[r].pc = "read" /\ IsWrite(r) => cached["memory"] # Unset \/ x \in backups
        /\ req[r].pc = "backup" => x \in req[r].found \cup backups
        /\ req[r].pc \in {"drop", "dropped"} => x \in backups
        /\ x \in disk["memory"].rows \/ x \in backups
    <2>1. Saved(a, r, x) /\ IsIn("memory", x)
      BY <1>2 DEF AreSaved, AreKept
    <2> QED
      BY <2>1 DEF Saved, IsIn
  <1> DEFINE Safe == /\ req'[r].pc = "read" /\ IsWrite(r) => cached'["memory"] # Unset \/ x \in backups'
                     /\ req'[r].pc = "backup" => x \in req'[r].found \cup backups'
                     /\ req'[r].pc \in {"drop", "dropped"} => x \in backups'
  <1>0. SUFFICES Safe
    BY <1>3, <1>4 DEF Saved
  <1> HIDE DEF x, Safe
  <1>6. \A p \in {"done", "failed", "lost"} : HasEnded(r, p) => Safe
    BY DEF HasEnded, IsAt, Safe
  <1>7. HasNext(r) => Safe
    BY <1>6 DEF HasNext, IsAt, Safe
  <1>8. \A h : HasOpened(r, h) /\ (IsWrite(r) /\ Table(r) = "memory" => cached'["memory"] # Unset) => Safe
    <2> SUFFICES ASSUME NEW h, HasOpened(r, h), IsWrite(r) /\ Table(r) = "memory" => cached'["memory"] # Unset
                 PROVE  Safe
      OBVIOUS
    <2>1. req'[r].pc = UseOf(r, h)
      BY DEF HasOpened, IsAt
    <2>2. UseOf(r, h) \in {"read", "purge", "list", "query", "erase"}
          /\ (UseOf(r, h) = "read" => IsWrite(r) /\ Table(r) = "memory")
      BY DEF UseOf
    <2> QED
      BY <1>3, <2>1, <2>2 DEF Safe
  <1>9. CASE LookDoes(r)
    BY <1>6, <1>8, <1>9 DEF LookDoes
  <1>10. CASE FoundDoes(r)
    <2>1. IsAt(r, "create") => Safe
      BY DEF IsAt, Safe
    <2>2. req[r].handle # Unset /\ Table(r) = "memory" => cached'["memory"] # Unset
      <3>1. "memory" \in Tables /\ cached \in [Tables -> Handles \cup ({"createdBy"} \X Started)]
        BY TwoTables DEF Good, Types
      <3>2. cached' = CacheAfter(r)
        BY <1>10 DEF FoundDoes
      <3> QED
        BY <3>1, <3>2 DEF CacheAfter
    <2> QED
      BY <1>7, <1>8, <1>10, <2>1, <2>2 DEF FoundDoes
  <1>11. CASE OpenDoes(r) \/ PurgeDoes(r) \/ QueryDoes(r)
    <2>1. req'[r].pc \in {"found", "repair", "failed", "add", "purge", "look"}
      BY <1>11 DEF OpenDoes, PurgeDoes, QueryDoes, HasEnded, IsAt
    <2> QED
      BY <2>1 DEF Safe
  <1>12. CASE CreateDoes(r) \/ AddDoes(r) \/ EraseDoes(r)
    BY <1>6, <1>7, <1>12 DEF CreateDoes, AddDoes, EraseDoes
  <1>13. CASE RepairDoes(r)
    <2>1. ~IsWrite(r)
      BY <1>13, RequestIs DEF RepairDoes, Standing, Stages, WriteStages
    <2>2. HasGone(r, "read") => Safe
      BY <1>3, <2>1 DEF HasGone, IsAt, Safe
    <2> QED
      BY <1>6, <1>13, <2>2 DEF RepairDoes
  <1>14. CASE ReadDoes(r)
    <2>1. IsWrite(r) /\ cached["memory"] = Unset /\ HasGone(r, "drop") => Safe
      BY <1>2, <1>4, <1>5, <1>14 DEF ReadDoes, HasGone, IsAt, Safe
    <2>2. ASSUME /\ req'[r].found = disk["memory"].rows
                 /\ IsAt(r, IF disk["memory"].rows = {} THEN "drop" ELSE "backup")
          PROVE  Safe
      <3>1. disk["memory"].rows = {} => x \in backups /\ req'[r].pc = "drop"
        BY <1>5, <2>2 DEF IsAt
      <3>2. disk["memory"].rows # {} => req'[r].pc = "backup" /\ x \in req'[r].found \cup backups
        BY <1>5, <2>2 DEF IsAt
      <3> QED
        BY <1>2, <1>4, <3>1, <3>2 DEF Safe
    <2> QED
      BY <1>6, <1>14, <2>1, <2>2 DEF ReadDoes
  <1>15. CASE BackupDoes(r)
    BY <1>4, <1>5, <1>15 DEF BackupDoes, HasGone, IsAt, Safe
  <1>16. CASE DropDoes(r)
    <2>1. HasGone(r, "dropped") => Safe
      BY <1>2, <1>4, <1>5, <1>16 DEF DropDoes, HasGone, IsAt, Safe
    <2> QED
      BY <1>6, <1>16, <2>1 DEF DropDoes
  <1>17. CASE DroppedDoes(r)
    <2>1. HasGone(r, "create") => Safe
      BY DEF HasGone, IsAt, Safe
    <2> QED
      BY <1>6, <1>17, <2>1 DEF DroppedDoes
  <1>18. CASE ListDoes(r) \/ CountDoes(r)
    <2>1. IsAt(r, "erase") \/ IsAt(r, "count") \/ HasGone(r, "erase") => Safe
      BY DEF HasGone, IsAt, Safe
    <2> QED
      BY <1>6, <1>7, <1>18, <2>1 DEF ListDoes, CountDoes
  <1>19. CASE FaultDoes(r)
    <2>1. IsAt(r, "found") => Safe
      BY DEF IsAt, Safe
    <2>2. req[r].pc = "drop" /\ HasGone(r, "dropped") => Safe
      BY <1>2, <1>4, <1>5 DEF HasGone, IsAt, Safe
    <2> QED
      BY <1>6, <1>19, <2>1, <2>2 DEF FaultDoes
  <1> QED
    BY <1>9, <1>10, <1>11, <1>12, <1>13, <1>14, <1>15, <1>16, <1>17, <1>18, <1>19 DEF Does

LEMMA StepAreSaved ==
    ASSUME Good, Apart, AreKept, AreSaved, NEW r \in Started, Does(r)
    PROVE  AreSaved'
  <1>1. /\ Only(r) /\ alone' \subseteq alone /\ alone \subseteq Started /\ backups \subseteq backups' /\ r \in InFlight
    BY StepMoves DEF Moves, Good, Types
  <1>2. \A q \in Started : Call(q)' = Call(q)
    BY <1>1, OthersKeep
  <1>3. \A q \in InFlight' : q \in InFlight
    BY <1>1, OthersKeep DEF InFlight, Only
  <1>4. ASSUME NEW a \in alone', NEW q \in InFlight', q # a, NEW i, Complete(a, i)',
               Call(a)'.writes[i].table = "memory", NEW k \in DOMAIN Call(a)'.writes[i].rows
        PROVE  Saved(a, q, Wrote(a, i, k))'
    <2>1. /\ a \in alone /\ a \in Started /\ q \in InFlight
          /\ Call(a).writes[i].table = "memory" /\ k \in DOMAIN Call(a).writes[i].rows
      BY <1>1, <1>2, <1>3, <1>4
    <2>2. CASE Complete(a, i) /\ q # r
      BY <1>4, <2>1, <2>2, OthersSave
    <2>3. CASE Complete(a, i) /\ q = r
      BY <1>4, <2>1, <2>3, SelfSaves
    <2>4. CASE a = r /\ i = req[r].at /\ Adding(r)
      <3>1. Table(r) = "memory"
        BY <2>1, <2>4, AddedFacts
      <3>2. req[q].pc \notin {"read", "backup", "drop", "dropped"}
        BY <1>4, <2>1, <2>4, <3>1, AddingApart
      <3>3. req'[q] = req[q]
        BY <1>1, <1>4, <2>1, <2>4 DEF Only, InFlight
      <3> QED
        BY <3>2, <3>3 DEF Saved
    <2> QED
      BY <1>4, <2>1, <2>2, <2>3, <2>4, StepComplete
  <1> QED
    BY <1>4 DEF AreSaved

-----------------------------------------------------------------------------
(* One row per id and scope.                                               *)

LEMMA StepPurges ==
    ASSUME Good, Apart, Purges, NEW r \in Started, Does(r)
    PROVE  Purges'
  <1>1. /\ Only(r) /\ alone' \subseteq alone /\ alone \subseteq Started /\ r \in InFlight /\ Standing(r)'
    BY StepMoves, StepStands DEF Moves, Good, Types
  <1>2. ASSUME NEW a \in alone', req'[a].pc \in {"purge", "add"},
               NEW k \in DOMAIN Rows(a)', k < req'[a].row, NEW y \in disk'[Table(a)'].rows
        PROVE  ~SameKey(y, Rows(a)'[k])
    <2>1. a \in alone /\ a \in Started
      BY <1>1
    <2>2. CASE a # r
      <3>1. req'[a] = req[a] /\ Table(a)' = Table(a) /\ Rows(a)' = Rows(a)
        BY <1>1, <2>1, <2>2, OthersKeep DEF Only
      <3>2. IsWrite(a)
        BY <1>2, <2>1, <3>1, RequestIs DEF Standing, Stages
      <3>3. CASE y \in disk[Table(a)].rows
        BY <1>2, <2>1, <3>1, <3>3 DEF Purges
      <3>4. CASE y \notin disk[Table(a)].rows
        <4> DEFINE i == req[a].at
                   j == req[r].at
        <4>1. Adding(r) /\ Table(a) = Table(r) /\ y \in New(r)
          BY <1>2, <2>1, <3>1, <3>4, RequestIs, StepShape DEF Shape
        <4>2. /\ j \in DOMAIN Call(r).writes /\ Table(r) = Call(r).writes[j].table
              /\ \E l \in DOMAIN Call(r).writes[j].rows : y = Wrote(r, j, l)
          BY <4>1, AddedFacts
        <4>3. /\ i \in DOMAIN Call(a).writes /\ Table(a) = Call(a).writes[i].table
              /\ Rows(a) = Call(a).writes[i].rows
          BY <2>1, <3>2, RequestIs, TableFacts
        <4> HIDE DEF i, j
        <4>4. PICK l \in DOMAIN Call(r).writes[j].rows : y = Wrote(r, j, l)
          BY <4>2
        <4>5. ~SameKey(Wrote(a, i, k), Call(r).writes[j].rows[l])
          BY <1>1, <1>2, <2>1, <2>2, <3>1, <4>1, <4>2, <4>3, ApartFacts
        <4>6. /\ Wrote(a, i, k).id = Rows(a)[k].id /\ Wrote(a, i, k).scope = Rows(a)[k].scope
              /\ y.id = Call(r).writes[j].rows[l].id /\ y.scope = Call(r).writes[j].rows[l].scope
          BY <1>2, <2>1, <3>1, <4>2, <4>3, <4>4, WroteFacts
        <4> QED
          BY <3>1, <4>5, <4>6 DEF SameKey
      <3> QED
        BY <3>3, <3>4
    <2>3. CASE a = r
      <3>1. \A p : HasEnded(r, p) => req'[r].pc = p
        BY DEF HasEnded, IsAt
      <3>2. HasNext(r) => req'[r].pc \in {"done", "look"}
        BY <3>1 DEF HasNext, IsAt
      <3>3. CASE PurgeDoes(r)
        <4>1. /\ req'[r].at = req[r].at /\ req'[r].row = req[r].row + 1 /\ req[r].pc = "purge"
              /\ disk'[Table(r)].rows = Purged(disk[Table(r)].rows, Rows(r)[req[r].row])
          BY <1>2, <2>3, <3>1, <3>3 DEF PurgeDoes, SetsRows
        <4>2. Table(r)' = Table(r) /\ Rows(r)' = Rows(r)
          BY <1>1, <4>1, OthersKeep
        <4>3. y \in disk[Table(r)].rows /\ ~SameKey(y, Rows(r)[req[r].row])
          BY <1>2, <2>3, <4>1, <4>2 DEF Purged
        <4>4. k < req[r].row \/ k = req[r].row
          <5>1. IsWrite(r)
            BY <4>1, RequestIs DEF Standing, Stages
          <5>2. Rows(r) \in Seq(Rows0) /\ k \in DOMAIN Rows(r) /\ req[r].row \in DOMAIN Rows(r)
            BY <1>2, <2>3, <4>1, <4>2, <5>1, RequestIs DEF Standing
          <5>3. k \in Nat /\ req[r].row \in Nat
            BY <5>2
          <5> QED
            BY <1>2, <2>3, <4>1, <5>3
        <4>5. CASE k < req[r].row
          BY <1>2, <2>1, <2>3, <4>1, <4>2, <4>3, <4>5 DEF Purges
        <4>6. CASE k = req[r].row
          BY <4>2, <4>3, <4>6, <2>3
        <4> QED
          BY <4>4, <4>5, <4>6
      <3>4. CASE LookDoes(r) \/ FoundDoes(r)
        <4>1. req'[r].row = req[r].row /\ req[r].row = 1
          BY <1>2, <2>3, <3>1, <3>2, <3>4, RequestIs
             DEF LookDoes, FoundDoes, HasOpened, IsAt, SamePlace, Standing
        <4>2. IsWrite(r)'
          BY <1>1, <1>2, <2>3 DEF Standing, Stages, IsWrite, Call
        <4>3. IsWrite(r) /\ req'[r].at = req[r].at
          BY <1>1, <1>2, <2>3, <3>1, <3>2, <3>4, <4>2, OthersKeep
             DEF LookDoes, FoundDoes, HasOpened, IsAt, SamePlace
        <4>4. k \in Nat /\ k # 0
          <5>1. Rows(r) \in Seq(Rows0) /\ Rows(r)' = Rows(r)
            BY <1>1, <4>3, RequestIs, OthersKeep
          <5> QED
            BY <1>2, <2>3, <5>1
        <4> QED
          BY <1>2, <2>3, <4>1, <4>4
      <3>5. req'[r].pc \in {"purge", "add"} => PurgeDoes(r) \/ LookDoes(r) \/ FoundDoes(r)
        BY <3>1, <3>2 DEF Does, OpenDoes, CreateDoes, AddDoes, RepairDoes, ReadDoes,
             BackupDoes, DropDoes, DroppedDoes, ListDoes, CountDoes, QueryDoes, EraseDoes, FaultDoes,
             HasGone, IsAt
      <3> QED
        BY <1>2, <2>3, <3>3, <3>4, <3>5
    <2> QED
      BY <2>2, <2>3
  <1> QED
    BY <1>2 DEF Purges

\* A request does not write one memory twice.
LEMMA WroteOnce ==
    ASSUME Good, NEW a \in Started, NEW i \in DOMAIN Call(a).writes, Call(a).writes[i].table = "memory",
           NEW k \in DOMAIN Call(a).writes[i].rows, NEW l \in DOMAIN Call(a).writes[i].rows,
           SameKey(Wrote(a, i, k), Wrote(a, i, l))
    PROVE  k = l
  <1>1. SameKey(Call(a).writes[i].rows[k], Call(a).writes[i].rows[l])
    BY WroteFacts DEF SameKey
  <1> QED
    BY <1>1, RequestIs, CallFacts

LEMMA StepNoDuplicates ==
    ASSUME Good, Apart, Origin, Purges, NoDuplicates, NEW r \in Started, Does(r)
    PROVE  NoDuplicates'
  <1>1. /\ Only(r) /\ alone' \subseteq alone /\ alone \subseteq Started /\ r \in InFlight
    BY StepMoves DEF Moves, Good, Types
  <1> DEFINE j == req[r].at
  <1>2. ASSUME NEW t \in Tables, NEW x \in disk'[t].rows, x \notin disk[t].rows
        PROVE  /\ Adding(r) /\ t = Table(r) /\ j \in DOMAIN Call(r).writes /\ t = Call(r).writes[j].table
               /\ \E k \in DOMAIN Call(r).writes[j].rows : x = Wrote(r, j, k)
               /\ x.from = r
    <2>1. Adding(r) /\ t = Table(r) /\ x \in New(r)
      BY <1>2, StepShape DEF Shape
    <2>2. /\ j \in DOMAIN Call(r).writes /\ t = Call(r).writes[j].table
          /\ \E k \in DOMAIN Call(r).writes[j].rows : x = Wrote(r, j, k)
      BY <2>1, AddedFacts
    <2> HIDE DEF j
    <2>3. x.from = r
      BY <2>2, WroteFacts
    <2> QED
      BY <2>1, <2>2, <2>3
  <1>3. ASSUME NEW t \in Tables, NEW x \in disk[t].rows, x \in disk'[t].rows, x.from \in alone,
               NEW y \in disk'[t].rows, y \notin disk[t].rows, SameKey(x, y)
        PROVE  x = y \/ (t # "memory" /\ x.from = y.from)
    <2> DEFINE a == x.from
    <2>1. a \in Started
      BY <1>3, OriginFacts
    <2>2. PICK i \in DOMAIN Call(a).writes :
             /\ Call(a).writes[i].table = t
             /\ \E k \in DOMAIN Call(a).writes[i].rows : x = Wrote(a, i, k)
      BY <1>3, OriginFacts
    <2>3. PICK l \in DOMAIN Call(r).writes[j].rows : y = Wrote(r, j, l)
      BY <1>2, <1>3
    <2>4. j \in DOMAIN Call(r).writes /\ t = Call(r).writes[j].table /\ y.from = r
      BY <1>2, <1>3
    <2> HIDE DEF a, j
    <2>5. PICK k \in DOMAIN Call(a).writes[i].rows : x = Wrote(a, i, k)
      BY <2>2
    <2>6. CASE a = r
      <3>1. i = j
        BY <2>1, <2>2, <2>4, <2>6, RequestIs, CallFacts
      <3>2. t = "memory" => k = l
        BY <1>3, <2>1, <2>2, <2>3, <2>4, <2>5, <2>6, <3>1, WroteOnce
      <3> QED
        BY <2>3, <2>4, <2>5, <2>6, <3>1, <3>2 DEF a
    <2>7. CASE a # r
      <3>1. ~SameKey(Wrote(a, i, k), Call(r).writes[j].rows[l])
        BY <1>1, <1>3, <2>2, <2>3, <2>4, <2>7, ApartFacts DEF a
      <3>2. y.id = Call(r).writes[j].rows[l].id /\ y.scope = Call(r).writes[j].rows[l].scope
        BY <2>3, <2>4, WroteFacts
      <3> QED
        BY <1>3, <2>5, <3>1, <3>2 DEF SameKey
    <2> QED
      BY <2>6, <2>7
  <1>4. ASSUME NEW t \in Tables, NEW x \in disk'[t].rows, x \notin disk[t].rows, x.from \in alone,
               NEW y \in disk'[t].rows, y \in disk[t].rows, SameKey(x, y)
        PROVE  FALSE
    <2>1. Adding(r) /\ t = Table(r) /\ x.from = r
      BY <1>2, <1>4
    <2>2. PICK k \in DOMAIN Call(r).writes[j].rows : x = Wrote(r, j, k)
      BY <1>2, <1>4
    <2>3. j \in DOMAIN Call(r).writes /\ Rows(r) = Call(r).writes[j].rows /\ IsWrite(r)
      BY <2>1, AddedFacts
    <2>4. CASE req[r].pc = "create"
      <3>1. disk'[t].rows = New(r)
        BY <2>1, <2>4 DEF Adding
      <3>2. y.from = r /\ \E l \in DOMAIN Call(r).writes[j].rows : y = Wrote(r, j, l)
        <4>1. PICK l \in DOMAIN Call(r).writes[j].rows : y = Wrote(r, j, l)
          BY <1>4, <2>1, <3>1, AddedFacts
        <4> HIDE DEF j
        <4> QED
          BY <2>3, <4>1, WroteFacts
      <3>3. ~disk[t].on
        <4>1. CreateDoes(r) \/ FaultDoes(r)
          BY <2>4 DEF Does, LookDoes, OpenDoes, FoundDoes, PurgeDoes, AddDoes, RepairDoes, ReadDoes,
             BackupDoes, DropDoes, DroppedDoes, ListDoes, CountDoes, QueryDoes, EraseDoes
        <4>2. disk' # disk
          BY <1>4
        <4> QED
          BY <2>1, <4>1, <4>2 DEF CreateDoes, FaultDoes
      <3> QED
        BY <1>4, <3>3 DEF Good, StoreOK
    <2>5. CASE req[r].pc = "add"
      <3> HIDE DEF j
      <3>1. k < req[r].row
        <4>1. Rows(r) \in Seq(Rows0) /\ req[r].row > Len(Rows(r)) /\ req[r].row \in Nat
          BY <2>3, <2>5, RequestIs DEF Standing, RequestType
        <4>2. k \in 1..Len(Rows(r)) /\ Len(Rows(r)) \in Nat
          BY <2>3, <4>1
        <4> QED
          BY <4>1, <4>2
      <3>2. ~SameKey(y, Rows(r)[k])
        BY <1>4, <2>1, <2>3, <2>5, <3>1 DEF Purges
      <3>3. x.id = Rows(r)[k].id /\ x.scope = Rows(r)[k].scope
        BY <2>2, <2>3, WroteFacts
      <3> QED
        BY <1>4, <3>2, <3>3 DEF SameKey
    <2> QED
      BY <2>1, <2>4, <2>5 DEF Adding
  <1>5. ASSUME NEW t \in Tables, NEW x \in disk'[t].rows, x \notin disk[t].rows,
               NEW y \in disk'[t].rows, y \notin disk[t].rows, SameKey(x, y)
        PROVE  x = y \/ (t # "memory" /\ x.from = y.from)
    <2>1. PICK k \in DOMAIN Call(r).writes[j].rows : x = Wrote(r, j, k)
      BY <1>2, <1>5
    <2>2. PICK l \in DOMAIN Call(r).writes[j].rows : y = Wrote(r, j, l)
      BY <1>2, <1>5
    <2>3. j \in DOMAIN Call(r).writes /\ t = Call(r).writes[j].table /\ x.from = y.from
      BY <1>2, <1>5
    <2> HIDE DEF j
    <2>4. t = "memory" => k = l
      BY <1>5, <2>1, <2>2, <2>3, WroteOnce
    <2> QED
      BY <2>1, <2>2, <2>3, <2>4
  <1>6. ASSUME NEW t \in Tables, NEW x \in disk'[t].rows, NEW y \in disk'[t].rows, x.from \in alone', SameKey(x, y)
        PROVE  x = y \/ (t # "memory" /\ x.from = y.from)
    <2>1. x.from \in alone
      BY <1>1, <1>6
    <2>2. CASE x \in disk[t].rows /\ y \in disk[t].rows
      BY <1>6, <2>1, <2>2 DEF NoDuplicates
    <2> QED
      BY <1>3, <1>4, <1>5, <1>6, <2>1, <2>2
  <1> QED
    BY <1>6 DEF NoDuplicates

-----------------------------------------------------------------------------
(* Which request made which table.                                         *)

LEMMA StepMakers == ASSUME Good, Makers, NEW r \in Started, Does(r) PROVE Makers'
  <1>1. Only(r) /\ r \in InFlight /\ Started' = Started /\ r # 1 /\ r \in Requests
    BY StepMoves, RequestIs DEF Moves, Only, Makers
  <1>2. \A q \in InFlight' : q \in InFlight /\ q \in Started
    BY <1>1, OthersKeep DEF InFlight, Only
  <1>3. \A q \in Started : Call(q)' = Call(q) /\ (IsWrite(q)' <=> IsWrite(q))
    BY <1>1, OthersKeep
  <1>4. Table(r) \in Tables
    BY RequestIs
  <1>5. \/ made' = made
        \/ \E h : Makes(r, h) /\ req[r].pc = "create" /\ (r \in InFlight' => req'[r].at = req[r].at + 1)
    <2>1. \A p \in {"done", "failed"} : HasEnded(r, p) => r \notin InFlight'
      BY <1>1 DEF HasEnded, IsAt, InFlight
    <2>2. HasNext(r) => (r \in InFlight' => req'[r].at = req[r].at + 1)
      BY <2>1 DEF HasNext
    <2> QED
      BY <2>1, <2>2, StepTouches DEF CreateDoes, FaultDoes
  <1>6. req[r].pc = "create" => /\ IsWrite(r) /\ req[r].at \in DOMAIN Call(r).writes
                                /\ Call(r).writes[req[r].at].table = Table(r)
                                /\ made[r][Table(r)] = Unset
    <2> SUFFICES ASSUME req[r].pc = "create" PROVE /\ IsWrite(r) /\ req[r].at \in DOMAIN Call(r).writes
                                                   /\ Call(r).writes[req[r].at].table = Table(r)
                                                   /\ made[r][Table(r)] = Unset
      OBVIOUS
    <2>1. IsWrite(r) /\ req[r].at \in DOMAIN Call(r).writes /\ req[r].at \in Nat
      BY RequestIs DEF Standing, Stages, RequestType
    <2>2. Table(r) = Call(r).writes[req[r].at].table
      BY <2>1, TableFacts
    <2> QED
      BY <1>1, <2>1, <2>2 DEF Makers
  <1>7. \A h : Makes(r, h) => \A q \in Requests, u \in Tables : q # r \/ u # Table(r) => made'[q][u] = made[q][u]
    BY DEF Makes
  <1>8. ASSUME NEW q \in InFlight', IsWrite(q)', NEW i \in DOMAIN Call(q)'.writes, i >= req'[q].at
        PROVE  made'[q][Call(q)'.writes[i].table] = Unset
    <2> DEFINE t == Call(q).writes[i].table
    <2>1. q \in InFlight /\ q \in Started /\ IsWrite(q) /\ i \in DOMAIN Call(q).writes /\ Call(q)' = Call(q)
          /\ q \in Requests
      BY <1>2, <1>3, <1>8, RequestIs
    <2>2. i \in Nat /\ req[q].at \in Nat /\ t \in Tables
      <3> DEFINE s == Call(q).writes
      <3>1. s \in Seq([table : Tables, rows : Seq(Rows0)]) /\ t \in Tables /\ req[q].at \in Nat
        BY <2>1, RequestIs, CallFacts DEF CallType, RequestType, Rows0
      <3> HIDE DEF s, t
      <3>2. \A n \in DOMAIN s : n \in Nat
        BY <3>1
      <3>3. i \in DOMAIN s
        BY <2>1 DEF s
      <3> QED
        BY <3>1, <3>2, <3>3
    <2>3. i >= req[q].at
      <3>1. q = r => req'[q].at \in {req[q].at, req[q].at + 1}
        BY StepMoves DEF Moves
      <3>2. q # r => req'[q].at = req[q].at
        BY <1>1, <2>1 DEF Only
      <3> QED
        BY <1>8, <2>2, <3>1, <3>2
    <2>4. made[q][t] = Unset
      BY <2>1, <2>3 DEF Makers
    <2>5. CASE made' = made
      BY <2>1, <2>4, <2>5
    <2>6. ASSUME NEW h, Makes(r, h), req[r].pc = "create", r \in InFlight' => req'[r].at = req[r].at + 1
          PROVE  made'[q][t] = Unset
      <3>1. CASE q # r
        BY <1>7, <2>1, <2>2, <2>4, <2>6, <3>1
      <3>2. CASE q = r
        <4>1. i # req[r].at
          BY <1>8, <2>2, <2>6, <3>2
        <4>2. t # Table(r)
          BY <1>6, <2>1, <2>6, <3>2, <4>1, RequestIs, CallFacts
        <4> QED
          BY <1>7, <2>1, <2>2, <2>4, <2>6, <3>2, <4>2
      <3> QED
        BY <3>1, <3>2
    <2> QED
      BY <1>5, <2>1, <2>5, <2>6
  <1>9. \A t \in Tables : made'[1][t] = Unset
    <2>1. 1 \in Requests
      BY BoundsAreNaturals DEF Good, Types, Requests
    <2> QED
      BY <1>1, <1>5, <1>7, <2>1 DEF Makers
  <1>10. 1 \notin InFlight'
    BY <1>2 DEF Makers
  <1>11. ASSUME NEW t \in Tables, NEW g \in 1..disk'[t].gen
         PROVE  (g = 1 /\ t = "memory") \/ \E q \in Started : made'[q][t] = TableOf(g)
    <2>1. disk[t].gen \in Nat /\ disk'[t].gen \in Nat
      BY StepShape DEF Shape
    <2>2. CASE g <= disk[t].gen
      <3>1. CASE g = 1 /\ t = "memory"
        BY <3>1
      <3>2. CASE ~(g = 1 /\ t = "memory")
        <4>1. PICK q \in Started : made[q][t] = TableOf(g)
          BY <2>1, <2>2, <3>2 DEF Makers
        <4>2. q = r /\ t = Table(r) => req[r].pc # "create"
          BY <1>6, <4>1, HandleFacts
        <4>3. made'[q][t] = made[q][t]
          BY <1>5, <1>7, <4>2, RequestIs
        <4> QED
          BY <4>1, <4>3
      <3> QED
        BY <3>1, <3>2
    <2>3. CASE ~(g <= disk[t].gen)
      <3>1. disk'[t].gen # disk[t].gen
        BY <2>1, <2>3
      <3>2. CreateDoes(r) /\ t = Table(r) /\ disk' # disk
        BY <3>1, StepTouches, TwoTables DEF CreateDoes, AddDoes, PurgeDoes, EraseDoes, DropDoes, SetsRows
      <3>3. disk'[t].gen = disk[t].gen + 1 /\ made'[r][t] = TableOf(disk[t].gen + 1)
        BY <3>2 DEF CreateDoes, Makes
      <3>4. g = disk[t].gen + 1
        BY <2>1, <2>3, <3>3
      <3> QED
        BY <3>3, <3>4
    <2> QED
      BY <2>2, <2>3
  <1> QED
    BY <1>1, <1>8, <1>9, <1>10, <1>11 DEF Makers

\* Every table but the one the server may start with is some request's, and a
\* request makes a table once.
LEMMA GensAreFew == ASSUME Good, Makers, NEW t \in Tables PROVE disk[t].gen \in 0..MaxRequests
  <1> DEFINE G == 1..disk[t].gen
             R == 1..Len(req)
             maker == [g \in G |-> IF g = 1 /\ t = "memory" THEN 1
                                   ELSE CHOOSE r \in Started : made[r][t] = TableOf(g)]
  <1>1. /\ Started = R /\ Len(req) \in Nat /\ Len(req) <= MaxRequests /\ 1 \in R /\ disk[t].gen \in Nat
        /\ MaxRequests \in Nat
    BY RequestFacts, BoundsAreNaturals DEF Good, Types
  <1>2. ASSUME NEW g \in G
        PROVE  /\ maker[g] \in R
               /\ (g = 1 /\ t = "memory") => maker[g] = 1
               /\ ~(g = 1 /\ t = "memory") => made[maker[g]][t] = TableOf(g)
    <2>1. CASE g = 1 /\ t = "memory"
      BY <1>1, <2>1
    <2>2. CASE ~(g = 1 /\ t = "memory")
      <3>1. \E r \in Started : made[r][t] = TableOf(g)
        BY <2>2 DEF Makers
      <3>2. maker[g] = CHOOSE r \in Started : made[r][t] = TableOf(g)
        BY <2>2
      <3> QED
        BY <1>1, <2>2, <3>1, <3>2
    <2> QED
      BY <2>1, <2>2
  <1>3. maker \in [G -> R]
    BY <1>2
  <1> HIDE DEF maker
  <1>4. ASSUME NEW g \in G, NEW h \in G, maker[g] = maker[h] PROVE g = h
    <2>1. made[1][t] = Unset
      BY DEF Makers
    <2>2. TableOf(g)[2] = g /\ TableOf(h)[2] = h /\ TableOf(g) # Unset /\ TableOf(h) # Unset
      BY HandleFacts
    <2> QED
      BY <1>2, <1>4, <2>1, <2>2
  <1>5. disk[t].gen <= Len(req)
    <2>1. IsFiniteSet(G) /\ Cardinality(G) = disk[t].gen /\ IsFiniteSet(R) /\ Cardinality(R) = Len(req)
      <3>1. \A n \in Nat : IsFiniteSet(1..n) /\ Cardinality(1..n) = n
        <4> SUFFICES ASSUME NEW n \in Nat PROVE IsFiniteSet(1..n) /\ Cardinality(1..n) = n
          OBVIOUS
        <4>1. 1 \in Int /\ n \in Int
          OBVIOUS
        <4>2. IsFiniteSet(1..n) /\ Cardinality(1..n) = IF 1 > n THEN 0 ELSE n - 1 + 1
          BY <4>1, FS_Interval
        <4> QED
          BY <4>2
      <3> QED
        BY <1>1, <3>1
    <2>2. maker \in Injection(G, R)
      BY <1>3, <1>4 DEF Injection, IsInjective
    <2> HIDE DEF G, R
    <2>3. Cardinality(G) <= Cardinality(R)
      BY <2>1, <2>2, FS_Injection DEF ExistsInjection
    <2> QED
      BY <2>1, <2>3
  <1> QED
    BY <1>1, <1>5

-----------------------------------------------------------------------------
(* What a deletion leaves.                                                 *)

\* A request comes after no more than it came after.
LEMMA StepBefore ==
    ASSUME Good, NEW r \in Started, Does(r), NEW q \in Started PROVE req'[q].before \subseteq req[q].before
  <1>10. Only(r)
    BY StepMoves DEF Moves
  <1>1. \A p : HasEnded(r, p) => req'[r].before \subseteq req[r].before
    BY DEF HasEnded, SameData, SameFound
  <1>2. HasNext(r) => req'[r].before \subseteq req[r].before
    BY <1>1 DEF HasNext, SameData, SameFound
  <1>3. \A p : HasGone(r, p) \/ HasOpened(r, p) => req'[r].before \subseteq req[r].before
    BY DEF HasGone, HasOpened, SameData, SameFound
  <1>4. CASE LookDoes(r) \/ OpenDoes(r) \/ FoundDoes(r)
    BY <1>10, <1>1, <1>2, <1>3, <1>4 DEF LookDoes, OpenDoes, FoundDoes, SameData, SameFound, Only
  <1>5. CASE CreateDoes(r) \/ AddDoes(r) \/ EraseDoes(r)
    BY <1>10, <1>1, <1>2, <1>5 DEF CreateDoes, AddDoes, EraseDoes, Only
  <1>6. CASE PurgeDoes(r)
    BY <1>10, <1>1, <1>6 DEF PurgeDoes, SameData, SameFound, Only
  <1>7. CASE RepairDoes(r) \/ BackupDoes(r) \/ DropDoes(r) \/ DroppedDoes(r) \/ CountDoes(r)
    BY <1>10, <1>1, <1>2, <1>3, <1>7 DEF RepairDoes, BackupDoes, DropDoes, DroppedDoes, CountDoes, Only
  <1>8. CASE ListDoes(r) \/ QueryDoes(r) \/ ReadDoes(r)
    BY <1>10, <1>1, <1>3, <1>8 DEF ListDoes, QueryDoes, ReadDoes, SameFound, Only
  <1>9. CASE FaultDoes(r)
    BY <1>10, <1>1, <1>3, <1>9 DEF FaultDoes, SameData, SameFound, Only
  <1> QED
    BY <1>4, <1>5, <1>6, <1>7, <1>8, <1>9 DEF Does

\* No one adds rows of a request that has ended: what is due is what was due.
LEMMA DueBefore ==
    ASSUME Good, Deletions, NEW r \in Started, Does(r), NEW q \in Started, NEW t \in Tables, NEW x,
           x \in disk'[t].rows, x.from \in req'[q].before
    PROVE  x \in disk[t].rows /\ x.from \in req[q].before /\ x.from # r
  <1>1. Only(r) /\ r \in InFlight
    BY StepMoves DEF Moves
  <1>2. req'[q].before \subseteq req[q].before
    BY StepBefore
  <1>3. x.from # r
    BY <1>1, <1>2 DEF Deletions
  <1>4. x \in disk[t].rows
    <2> SUFFICES ASSUME x \notin disk[t].rows PROVE FALSE
      OBVIOUS
    <2>1. Adding(r) /\ x \in New(r)
      BY StepShape DEF Shape
    <2>2. PICK k \in DOMAIN Rows(r) : x = Stamped(r, Rows(r)[k]) /\ Rows(r)[k] \in Rows0
      BY <2>1, NewFacts DEF Adding
    <2> QED
      BY <1>3, <2>2, RequestIs, StampedFacts
  <1> QED
    BY <1>2, <1>3, <1>4

WillBeDue(r, t, x) == x \in disk'[t].rows /\ x.from \in req'[r].before /\ Matches(x, Call(r))

\* What a deletion has then: the request as it will be, the tables as they will be.
Comes(r) ==
    /\ req'[r].pc = "found" /\ req'[r].handle = Unset =>
          \A x \in disk'[TableAt(req'[r])].rows : x.from \notin req'[r].before
    /\ req'[r].pc \in {"count", "erase"} /\ req'[r].at = 0 =>
          \A x : WillBeDue(r, "memory", x) /\ Tagged(x, Call(r)) => x \in req'[r].found
    /\ req'[r].at > 0 \/ req'[r].pc = "done" =>
          \A x : ~(WillBeDue(r, "memory", x) /\ Tagged(x, Call(r)))
    /\ \A k \in 1..2 : req'[r].at > k => \A x : WillBeDue(r, GacTables[k], x) => x \in req'[r].seen[k]
    /\ \A k \in 1..2 : req'[r].at > k + 2 \/ (req'[r].at = k + 2 /\ req'[r].pc = "done") =>
          \A x : WillBeDue(r, GacTables[k], x) =>
              x.raw \notin RawIds(r)' /\ x.rep \notin Representatives(r)' \ {""}
    /\ req'[r].at = 0 /\ req'[r].pc \in {"look", "found", "list", "done"} => req'[r].found = {}
    /\ \A k \in 1..2 : req'[r].at <= k => req'[r].seen[k] = {}
    /\ req'[r].pc = "done" => req'[r].at \in {0, 4}

LEMMA ComesFollows ==
    ASSUME NEW r, Call(r)' = Call(r), Comes(r) PROVE Follows(r)'
  <1>1. Table(r)' = TableAt(req'[r])
    BY TableIs
  <1> QED
    BY <1>1 DEF Comes, Follows, DueTagged, Due, WillBeDue

LEMMA OthersFollow ==
    ASSUME Good, Deletions, NEW r \in Started, Does(r), NEW q \in Deletes, q # r
    PROVE  Follows(q)'
  <1>1. q \in Started /\ Follows(q) /\ Call(q).op = "delete"
    BY DEF Deletions, Deletes, Good, Types
  <1>2. req'[q] = req[q]
    BY <1>1, StepMoves DEF Moves, Only
  <1>3. /\ Table(q)' = Table(q) /\ RawIds(q)' = RawIds(q) /\ Representatives(q)' = Representatives(q)
        /\ Call(q)' = Call(q)
    BY <1>1, StepMoves, OthersKeep DEF Moves
  <1>4. \A t \in Tables : \A x : x \in disk'[t].rows /\ x.from \in req[q].before => x \in disk[t].rows
    BY <1>1, <1>2, DueBefore
  <1>5. \A t \in Tables : \A x : WillBeDue(q, t, x) => Due(q, t, x)
    BY <1>2, <1>4 DEF Due, WillBeDue
  <1>6. \A x : WillBeDue(q, "memory", x) => Due(q, "memory", x)
    BY <1>5, TwoTables
  <1>7. \A k \in 1..2 : \A x : WillBeDue(q, GacTables[k], x) => Due(q, GacTables[k], x)
    BY <1>5, TwoTables
  <1>8. req[q].pc = "found" /\ req[q].handle = Unset =>
           \A x \in disk'[TableAt(req[q])].rows : x.from \notin req[q].before
    BY <1>1, <1>4, RequestIs, TableIs DEF Follows
  <1>9. req[q].pc \in {"count", "erase"} /\ req[q].at = 0 =>
           \A x : WillBeDue(q, "memory", x) /\ Tagged(x, Call(q)) => x \in req[q].found
    BY <1>1, <1>6 DEF Follows, DueTagged
  <1>10. req[q].at > 0 \/ req[q].pc = "done" =>
           \A x : ~(WillBeDue(q, "memory", x) /\ Tagged(x, Call(q)))
    BY <1>1, <1>6 DEF Follows, DueTagged
  <1>11. \A k \in 1..2 : req[q].at > k => \A x : WillBeDue(q, GacTables[k], x) => x \in req[q].seen[k]
    BY <1>1, <1>7 DEF Follows
  <1>12. \A k \in 1..2 : req[q].at > k + 2 \/ (req[q].at = k + 2 /\ req[q].pc = "done") =>
           \A x : WillBeDue(q, GacTables[k], x) =>
              x.raw \notin RawIds(q) /\ x.rep \notin Representatives(q) \ {""}
    BY <1>1, <1>7 DEF Follows
  <1>13. Comes(q)
    BY <1>1, <1>2, <1>3, <1>8, <1>9, <1>10, <1>11, <1>12 DEF Follows, Comes
  <1> QED
    BY <1>3, <1>13, ComesFollows

\* What follows for one deletion of what it has come to.
DueIsOld(r) == \A t \in Tables : \A x : WillBeDue(r, t, x) => Due(r, t, x)

SameFinds(r) == SameData(r) /\ RawIds(r)' = RawIds(r) /\ Representatives(r)' = Representatives(r)

LEMMA SameFindsFacts ==
    ASSUME NEW r \in Started, Only(r), SameData(r) PROVE SameFinds(r)
  <1>1. Call(r)' = Call(r) /\ req'[r].found = req[r].found /\ req'[r].seen = req[r].seen
    BY OthersKeep DEF SameData, SameFound
  <1>2. RawIds(r)' = RawIds(r)
    BY <1>1 DEF RawIds
  <1>3. Representatives(r)' = Representatives(r)
    BY <1>1, <1>2 DEF Representatives, RefersToRaw
  <1> QED
    BY <1>2, <1>3 DEF SameFinds

\* A deletion that fails answers for nothing.
LEMMA FailedComes ==
    ASSUME NEW r \in Started, HasEnded(r, "failed") PROVE Comes(r)
  <1>1. req'[r].pc = "failed" /\ req'[r].before = {} /\ \A k \in 1..2 : req'[r].seen[k] = {}
    BY DEF HasEnded, IsAt
  <1>2. \A t, x : ~WillBeDue(r, t, x)
    BY <1>1 DEF WillBeDue
  <1> QED
    BY <1>1, <1>2 DEF Comes

\* A step of the same table that finds nothing new.
LEMMA StayingComes ==
    ASSUME NEW r \in Started, Follows(r), DueIsOld(r), SameFinds(r), req'[r].at = req[r].at,
           req'[r].pc \in {"found", "list", "query", "count", "erase"},
           req'[r].pc = "found" /\ req'[r].handle = Unset =>
               \A x \in disk'[TableAt(req'[r])].rows : x.from \notin req'[r].before,
           req'[r].pc \in {"count", "erase"} /\ req'[r].at = 0 => req[r].pc \in {"count", "erase"},
           req'[r].pc \in {"found", "list"} => req[r].pc \in {"look", "found", "list"}
    PROVE  Comes(r)
  <1>1. req'[r].found = req[r].found /\ req'[r].seen = req[r].seen /\ req'[r].before = req[r].before
        /\ RawIds(r)' = RawIds(r) /\ Representatives(r)' = Representatives(r)
    BY DEF SameFinds, SameData, SameFound
  <1>2. /\ \A x : WillBeDue(r, "memory", x) => Due(r, "memory", x)
        /\ \A k \in 1..2 : \A x : WillBeDue(r, GacTables[k], x) => Due(r, GacTables[k], x)
    BY TwoTables DEF DueIsOld
  <1>3. req[r].pc \in {"count", "erase"} /\ req[r].at = 0 =>
           \A x : WillBeDue(r, "memory", x) /\ Tagged(x, Call(r)) => x \in req[r].found
    BY <1>2 DEF Follows, DueTagged
  <1>4. req[r].at > 0 => \A x : ~(WillBeDue(r, "memory", x) /\ Tagged(x, Call(r)))
    BY <1>2 DEF Follows, DueTagged
  <1>5. \A k \in 1..2 : req[r].at > k => \A x : WillBeDue(r, GacTables[k], x) => x \in req[r].seen[k]
    BY <1>2 DEF Follows
  <1>6. \A k \in 1..2 : req[r].at > k + 2 =>
           \A x : WillBeDue(r, GacTables[k], x) =>
              x.raw \notin RawIds(r) /\ x.rep \notin Representatives(r) \ {""}
    BY <1>2 DEF Follows
  <1>7. req[r].at = 0 /\ req[r].pc \in {"look", "found", "list"} => req[r].found = {}
    BY DEF Follows
  <1>8. \A k \in 1..2 : req[r].at <= k => req[r].seen[k] = {}
    BY DEF Follows
  <1> QED
    BY <1>1, <1>3, <1>4, <1>5, <1>6, <1>7, <1>8 DEF Comes

\* The table holds nothing any more that the deletion must delete there.
Cleared(r) ==
    /\ req[r].at = 0 => \A x : ~(WillBeDue(r, "memory", x) /\ Tagged(x, Call(r)))
    /\ \A k \in 1..2 : req[r].at = k => \A x : ~WillBeDue(r, GacTables[k], x)
    /\ \A k \in 1..2 : req[r].at = k + 2 => \A x : WillBeDue(r, GacTables[k], x) =>
          x.raw \notin RawIds(r) /\ x.rep \notin Representatives(r) \ {""}

LEMMA ClearedComes ==
    ASSUME NEW r \in Started, Follows(r), DueIsOld(r), HasNext(r), req[r].at \in 0..4, LastOf(r) = 4,
           Call(r).op = "delete", Cleared(r)
    PROVE  Comes(r)
  <1>1. Only(r) /\ SameData(r)
    BY DEF HasNext, HasEnded, IsAt
  <1>2. req'[r].found = req[r].found /\ req'[r].seen = req[r].seen
        /\ RawIds(r)' = RawIds(r) /\ Representatives(r)' = Representatives(r)
    BY <1>1, SameFindsFacts DEF SameFinds, SameData, SameFound
  <1>3. /\ \A x : WillBeDue(r, "memory", x) => Due(r, "memory", x)
        /\ \A k \in 1..2 : \A x : WillBeDue(r, GacTables[k], x) => Due(r, GacTables[k], x)
    BY TwoTables DEF DueIsOld
  <1>4. \A x : ~(WillBeDue(r, "memory", x) /\ Tagged(x, Call(r)))
    <2>1. CASE req[r].at = 0
      BY <2>1 DEF Cleared
    <2>2. CASE req[r].at # 0
      <3>1. \A x : ~DueTagged(r, x)
        <4>1. req[r].at > 0
          BY <2>2
        <4> QED
          BY <4>1 DEF Follows
      <3> QED
        BY <1>3, <3>1 DEF DueTagged
    <2> QED
      BY <2>1, <2>2
  <1>5. ASSUME NEW k \in 1..2, req[r].at >= k, NEW x, WillBeDue(r, GacTables[k], x)
        PROVE  x \in req[r].seen[k]
    <2>1. Due(r, GacTables[k], x)
      BY <1>3, <1>5
    <2>2. req[r].at # k
      BY <1>5 DEF Cleared
    <2>3. req[r].at > k
      BY <1>5, <2>2
    <2> QED
      BY <2>1, <2>3 DEF Follows
  <1>6. ASSUME NEW k \in 1..2, req[r].at >= k + 2, NEW x, WillBeDue(r, GacTables[k], x)
        PROVE  x.raw \notin RawIds(r) /\ x.rep \notin Representatives(r) \ {""}
    <2>1. Due(r, GacTables[k], x)
      BY <1>3, <1>6
    <2>2. CASE req[r].at = k + 2
      BY <1>6, <2>2 DEF Cleared
    <2>3. CASE req[r].at # k + 2
      <3>1. req[r].at > k + 2
        BY <1>6, <2>3
      <3> QED
        BY <2>1, <3>1 DEF Follows
    <2> QED
      BY <2>2, <2>3
  <1>7. \A k \in 1..2 : req[r].at <= k => req[r].seen[k] = {}
    BY DEF Follows
  <1>8. CASE req[r].at = 4
    <2>1. req'[r].pc = "done" /\ req'[r].at = 4
      BY <1>8 DEF HasNext, HasEnded, IsAt
    <2>2. \A k \in 1..2 : \A x : WillBeDue(r, GacTables[k], x) => x \in req[r].seen[k]
      BY <1>5, <1>8
    <2>3. \A k \in 1..2 : \A x : WillBeDue(r, GacTables[k], x) =>
             x.raw \notin RawIds(r) /\ x.rep \notin Representatives(r) \ {""}
      <3>1. \A k \in 1..2 : req[r].at >= k + 2
        BY <1>8
      <3> QED
        BY <1>6, <3>1
    <2>4. 4 # 0 /\ 4 > 0 /\ \A k \in 1..2 : ~(4 <= k)
      OBVIOUS
    <2> QED
      BY <1>2, <1>4, <2>1, <2>2, <2>3, <2>4 DEF Comes
  <1>9. CASE req[r].at # 4
    <2>1. req'[r].pc = "look" /\ req'[r].at = req[r].at + 1
      BY <1>9 DEF HasNext, IsAt
    <2>2. \A k \in 1..2 : req[r].at + 1 > k => \A x : WillBeDue(r, GacTables[k], x) => x \in req[r].seen[k]
      BY <1>5
    <2>3. \A k \in 1..2 : req[r].at + 1 > k + 2 =>
             \A x : WillBeDue(r, GacTables[k], x) =>
                x.raw \notin RawIds(r) /\ x.rep \notin Representatives(r) \ {""}
      <3>1. \A k \in 1..2 : req[r].at + 1 > k + 2 => req[r].at >= k + 2
        OBVIOUS
      <3> QED
        BY <1>6, <3>1
    <2>4. \A k \in 1..2 : req[r].at + 1 <= k => req[r].seen[k] = {}
      BY <1>7
    <2>5. req[r].at + 1 # 0
      OBVIOUS
    <2> QED
      BY <1>2, <1>4, <2>1, <2>2, <2>3, <2>4, <2>5 DEF Comes
  <1> QED
    BY <1>8, <1>9

\* The listing of the memories.
LEMMA ListComes ==
    ASSUME Good, NEW r \in Started, Follows(r), DueIsOld(r), ListDoes(r)
    PROVE  Comes(r)
  <1>1. req[r].at = 0 /\ req[r].pc = "list"
    BY RequestIs DEF ListDoes, Standing
  <1>2. \A x : WillBeDue(r, "memory", x) /\ Tagged(x, Call(r)) => x \in Listed(r)
    BY TwoTables DEF DueIsOld, Due, Listed
  <1>3. \A k \in 1..2 : req[r].seen[k] = {}
    BY <1>1 DEF Follows
  <1>4. CASE Listed(r) = {} /\ HasEnded(r, "done")
    <2>1. Call(r).op = "delete"
      BY <1>1, RequestIs DEF Standing, Stages, WriteStages
    <2>2. req'[r].pc = "done" /\ req'[r].at = 0 /\ req'[r].found = req[r].found /\ req'[r].seen = req[r].seen
      BY <1>1, <1>4, <2>1 DEF HasEnded, IsAt, SameData, SameFound
    <2>3. req[r].found = {}
      BY <1>1 DEF Follows
    <2> QED
      BY <1>2, <1>3, <1>4, <2>2, <2>3 DEF Comes
  <1>5. CASE /\ IsAt(r, IF Call(r).tag = NoFilter THEN "count" ELSE "erase")
             /\ req'[r].found = Listed(r) /\ SamePlace(r) /\ req'[r].seen = req[r].seen
    <2>1. req'[r].pc \in {"count", "erase"} /\ req'[r].at = 0
      BY <1>1, <1>5 DEF IsAt, SamePlace
    <2> QED
      BY <1>2, <1>3, <1>5, <2>1 DEF Comes
  <1> QED
    BY <1>4, <1>5, FailedComes DEF ListDoes

\* The first pass over a table.
LEMMA QueryComes ==
    ASSUME Good, NEW r \in Started, Follows(r), DueIsOld(r), QueryDoes(r)
    PROVE  Comes(r)
  <1>1. /\ req[r].at \in 1..2 /\ req'[r].at = req[r].at + 1 /\ req'[r].pc = "look"
        /\ Table(r) = GacTables[req[r].at]
    <2>1. req[r].at \in 1..2 /\ ~IsWrite(r)
      BY RequestIs DEF QueryDoes, Standing, Stages, WriteStages
    <2> QED
      BY <2>1, TableFacts DEF QueryDoes, IsAt
  <1>2. /\ \A x : WillBeDue(r, "memory", x) => Due(r, "memory", x)
        /\ \A k \in 1..2 : \A x : WillBeDue(r, GacTables[k], x) => Due(r, GacTables[k], x)
    BY TwoTables DEF DueIsOld
  <1>3. \A x : ~(WillBeDue(r, "memory", x) /\ Tagged(x, Call(r)))
    <2>1. \A x : ~DueTagged(r, x)
      <3>1. req[r].at > 0
        BY <1>1
      <3> QED
        BY <3>1 DEF Follows
    <2> QED
      BY <1>2, <2>1 DEF DueTagged
  <1>4. \A k \in 1..2 : req[r].at > k => \A x : WillBeDue(r, GacTables[k], x) => x \in req[r].seen[k]
    BY <1>2 DEF Follows
  <1>5. \A x : WillBeDue(r, GacTables[req[r].at], x) => x \in Queried(r)
    BY <1>1, <1>2 DEF Due, Queried
  <1>6. /\ req'[r].seen[req[r].at] = Queried(r)
        /\ \A k \in 1..2 : k # req[r].at => req'[r].seen[k] = req[r].seen[k]
    BY DEF QueryDoes
  <1>7. \A k \in 1..2 : req[r].at <= k => req[r].seen[k] = {}
    BY DEF Follows
  <1>8. \A k \in 1..2 : req[r].at + 1 > k => \A x : WillBeDue(r, GacTables[k], x) => x \in req'[r].seen[k]
    BY <1>1, <1>4, <1>5, <1>6
  <1>9. \A k \in 1..2 : req[r].at + 1 <= k => req'[r].seen[k] = {}
    BY <1>1, <1>6, <1>7
  <1>10. req[r].at + 1 # 0 /\ \A k \in 1..2 : ~(req[r].at + 1 > k + 2)
    BY <1>1
  <1> QED
    BY <1>1, <1>3, <1>8, <1>9, <1>10 DEF Comes

\* What a deletion must delete its predicates name.
LEMMA EraseComes ==
    ASSUME Good, NEW r \in Started, Follows(r), DueIsOld(r), EraseDoes(r)
    PROVE  Comes(r)
  <1>1. Call(r).op = "delete" /\ ~IsWrite(r) /\ req[r].at \in {0, 3, 4} /\ LastOf(r) = 4 /\ req[r].pc = "erase"
    BY RequestIs, TwoTables DEF EraseDoes, Standing, Stages, WriteStages, LastOf
  <1>2. SUFFICES ASSUME HasNext(r), disk'[Table(r)].rows = {x \in disk[Table(r)].rows : ~Erased(r, x)}
                 PROVE  Comes(r)
    BY FailedComes DEF EraseDoes, SetsRows
  <1>3. \A t \in Tables : \A x : WillBeDue(r, t, x) => Due(r, t, x)
    BY DEF DueIsOld
  <1>4. \A x : WillBeDue(r, Table(r), x) => ~Erased(r, x) /\ Matches(x, Call(r))
    BY <1>2 DEF WillBeDue
  <1>5. req[r].at = 0 => \A x : ~(WillBeDue(r, "memory", x) /\ Tagged(x, Call(r)))
    <2> SUFFICES ASSUME req[r].at = 0, NEW x, WillBeDue(r, "memory", x), Tagged(x, Call(r)) PROVE FALSE
      OBVIOUS
    <2>1. Table(r) = "memory"
      BY <1>1, TableFacts
    <2>2. x \in req[r].found
      BY <1>1, <1>3, TwoTables DEF Follows, DueTagged
    <2>3. x.id \in RawIds(r)
      BY <2>2 DEF RawIds
    <2>4. Erased(r, x)
      BY <1>4, <2>1, <2>3 DEF Erased
    <2> QED
      BY <1>4, <2>1, <2>4
  <1>6. ASSUME NEW k \in 1..2, req[r].at = k + 2, NEW x, WillBeDue(r, GacTables[k], x)
        PROVE  x.raw \notin RawIds(r) /\ x.rep \notin Representatives(r) \ {""}
    <2>1. Table(r) = GacTables[k] /\ GacTables[k] \in Tables
      BY <1>1, <1>6, TableFacts, TwoTables
    <2>2. x \in req[r].seen[k]
      <3>1. Due(r, GacTables[k], x) /\ req[r].at > k
        BY <1>3, <1>6, <2>1
      <3> QED
        BY <3>1 DEF Follows
    <2>3. req[r].at - Len(GacTables) = k /\ req[r].at > 0
      BY <1>6, TwoTables
    <2>4. ~Derived(r, x)
      <3>1. ~Erased(r, x) /\ Matches(x, Call(r))
        BY <1>4, <1>6, <2>1
      <3> QED
        BY <2>2, <2>3, <3>1 DEF Erased
    <2> QED
      BY <2>4 DEF Derived, RefersToRaw
  <1>7. Cleared(r)
    <2>1. \A k \in 1..2 : req[r].at # k
      BY <1>1
    <2> QED
      BY <1>5, <1>6, <2>1 DEF Cleared
  <1>8. req[r].at \in 0..4
    BY <1>1
  <1> QED
    BY <1>1, <1>2, <1>7, <1>8, ClearedComes

LEMMA SelfFollows ==
    ASSUME Good, Deletions, NEW r \in Started, Does(r), r \in Deletes, r \in alone'
    PROVE  Follows(r)'
  <1>1. Follows(r) /\ Call(r).op = "delete"
    BY DEF Deletions, Deletes
  <1>2. Only(r) /\ Call(r)' = Call(r)
    BY StepMoves, OthersKeep DEF Moves
  <1>3. /\ req[r].at \in 0..4 /\ LastOf(r) = 4 /\ ~IsWrite(r) /\ Table(r) \in Tables
        /\ req[r].pc \in {"done", "failed", "lost", "look", "found", "list", "count", "erase", "query"}
    BY <1>1, RequestIs, TwoTables DEF Standing, Stages, LastOf
  <1>4. SUFFICES Comes(r)
    BY <1>2, ComesFollows
  <1>5. DueIsOld(r)
    <2> SUFFICES ASSUME NEW t \in Tables, NEW x, WillBeDue(r, t, x) PROVE Due(r, t, x)
      BY DEF DueIsOld
    <2>1. x \in disk'[t].rows /\ x.from \in req'[r].before /\ Matches(x, Call(r))
      BY DEF WillBeDue
    <2>2. x \in disk[t].rows /\ x.from \in req[r].before
      BY <2>1, DueBefore
    <2> QED
      BY <2>1, <2>2 DEF Due
  <1>6. HasEnded(r, "failed") => Comes(r)
    BY FailedComes
  <1>7. \A h : HasOpened(r, h) /\ req[r].pc \in {"look", "found"} => Comes(r)
    <2> SUFFICES ASSUME NEW h, HasOpened(r, h), req[r].pc \in {"look", "found"} PROVE Comes(r)
      OBVIOUS
    <2>1. req'[r].at = req[r].at /\ req'[r].pc = UseOf(r, h) /\ SameFinds(r)
      BY <1>2, SameFindsFacts DEF HasOpened, IsAt, SamePlace
    <2>2. UseOf(r, h) \in {"list", "query", "erase"} /\ (UseOf(r, h) = "erase" => req[r].at # 0)
      BY <1>3 DEF UseOf
    <2> QED
      BY <1>1, <1>5, <2>1, <2>2, StayingComes
  <1>8. CASE LookDoes(r)
    BY <1>6, <1>7, <1>8 DEF LookDoes
  <1>9. CASE OpenDoes(r)
    <2>1. req[r].pc = "look"
      BY <1>3, <1>9 DEF OpenDoes
    <2>2. req'[r].at = req[r].at /\ req'[r].pc = "found" /\ SameFinds(r)
      BY <1>2, <1>9, <2>1, SameFindsFacts DEF OpenDoes, IsAt, SamePlace
    <2>3. TableAt(req'[r]) = Table(r)
      BY <1>2, <2>2, OthersKeep, TableIs
    <2>4. req'[r].handle = Unset => \A x \in disk'[TableAt(req'[r])].rows : x.from \notin req'[r].before
      <3>1. disk[Table(r)].on => req'[r].handle # Unset
        BY <1>9, HandleFacts DEF OpenDoes
      <3>2. ~disk[Table(r)].on => disk[Table(r)].rows = {}
        BY <1>3 DEF Good, StoreOK
      <3>3. disk' = disk
        BY <1>9 DEF OpenDoes, Keeps
      <3> QED
        BY <2>3, <3>1, <3>2, <3>3
    <2> QED
      BY <1>1, <1>5, <2>1, <2>2, <2>4, StayingComes
  <1>10. CASE FoundDoes(r)
    <2>1. req[r].pc = "found" /\ disk' = disk
      BY <1>10 DEF FoundDoes, Keeps
    <2>2. CASE req[r].handle # Unset
      BY <1>7, <1>10, <2>1, <2>2 DEF FoundDoes
    <2>3. CASE req[r].handle = Unset
      <3>1. HasNext(r)
        BY <1>3, <1>10, <2>3 DEF FoundDoes
      <3>2. \A x : ~WillBeDue(r, Table(r), x)
        <4>1. \A x \in disk[Table(r)].rows : x.from \notin req[r].before
          BY <1>1, <2>1, <2>3 DEF Follows
        <4>2. \A x : WillBeDue(r, Table(r), x) => Due(r, Table(r), x)
          BY <1>3, <1>5 DEF DueIsOld
        <4> QED
          BY <4>1, <4>2 DEF Due
      <3>3. /\ req[r].at = 0 => Table(r) = "memory"
            /\ \A k \in 1..2 : req[r].at = k \/ req[r].at = k + 2 => Table(r) = GacTables[k]
        BY <1>3, TableFacts
      <3>4. Cleared(r)
        BY <3>2, <3>3 DEF Cleared
      <3> QED
        BY <1>1, <1>3, <1>5, <3>1, <3>4, ClearedComes
    <2> QED
      BY <2>2, <2>3
  <1>11. CASE ListDoes(r)
    BY <1>1, <1>5, <1>11, ListComes
  <1>12. CASE CountDoes(r)
    <2>1. req[r].pc = "count" /\ req[r].at = 0 /\ disk' = disk
      BY <1>12, RequestIs DEF CountDoes, Standing, Keeps
    <2>2. CASE HasGone(r, "erase")
      <3>1. req'[r].at = req[r].at /\ req'[r].pc = "erase" /\ SameFinds(r)
        BY <1>2, <2>2, SameFindsFacts DEF HasGone, IsAt, SamePlace
      <3> QED
        BY <1>1, <1>5, <2>1, <3>1, StayingComes
    <2>3. CASE HasNext(r) /\ \A x \in disk["memory"].rows : ~Matches(x, Call(r))
      <3>1. Cleared(r)
        BY <2>1, <2>3 DEF Cleared, WillBeDue
      <3> QED
        BY <1>1, <1>3, <1>5, <2>3, <3>1, ClearedComes
    <2> QED
      BY <1>6, <1>12, <2>2, <2>3 DEF CountDoes
  <1>13. CASE QueryDoes(r)
    BY <1>1, <1>5, <1>13, QueryComes
  <1>14. CASE EraseDoes(r)
    BY <1>1, <1>5, <1>14, EraseComes
  <1>15. CASE FaultDoes(r)
    <2>1. alone' # alone \ {r}
      OBVIOUS
    <2> QED
      BY <1>3, <1>6, <1>15, <2>1 DEF FaultDoes
  <1>16. ~(CreateDoes(r) \/ PurgeDoes(r) \/ AddDoes(r) \/ RepairDoes(r) \/ ReadDoes(r) \/ BackupDoes(r)
             \/ DropDoes(r) \/ DroppedDoes(r))
    BY <1>3 DEF CreateDoes, PurgeDoes, AddDoes, RepairDoes, ReadDoes, BackupDoes, DropDoes, DroppedDoes
  <1> QED
    BY <1>8, <1>9, <1>10, <1>11, <1>12, <1>13, <1>14, <1>15, <1>16 DEF Does

LEMMA StepDeletions ==
    ASSUME Good, Deletions, NEW r \in Started, Does(r)
    PROVE  Deletions'
  <1>1. Only(r) /\ Started' = Started /\ alone' \subseteq alone /\ alone \subseteq Started
    BY StepMoves DEF Moves, Only, Good, Types
  <1>2. \A q \in Started : Call(q)' = Call(q)
    BY <1>1, OthersKeep
  <1>3. \A q \in InFlight' : q \in InFlight
    BY <1>1, OthersKeep, StepMoves DEF InFlight, Moves, Only
  <1>4. ASSUME NEW q \in Started, NEW b \in req'[q].before
        PROVE  b \in Started /\ b \notin InFlight'
    <2>1. b \in req[q].before
      BY <1>4, StepBefore
    <2> QED
      BY <1>3, <2>1 DEF Deletions
  <1>5. ASSUME NEW q \in Deletes' PROVE Follows(q)'
    <2>1. q \in alone' /\ q \in Deletes /\ q \in Started
      BY <1>1, <1>2, <1>5 DEF Deletes
    <2> QED
      BY <2>1, OthersFollow, SelfFollows
  <1> QED
    BY <1>1, <1>4, <1>5 DEF Deletions

-----------------------------------------------------------------------------
(* How it begins.                                                          *)

LEMMA EarlierFacts ==
    /\ Earlier \in AllCalls /\ Earlier.op = "write" /\ DOMAIN Earlier.writes = {1}
    /\ Earlier.writes[1].table = "memory"
    /\ \A row : row \in Writes(Earlier, "memory") <=>
          \E k \in DOMAIN Earlier.writes[1].rows : row = Earlier.writes[1].rows[k]
    /\ \A k \in DOMAIN Earlier.writes[1].rows : Earlier.writes[1].rows[k] \in Rows0
  <1>1. Earlier \in AllCalls
    BY DEF AllCalls
  <1> DEFINE s == Earlier.writes
             rows == Earlier.writes[1].rows
  <1>2. s \in Seq([table : Tables, rows : Seq(Rows0)]) /\ Len(s) = 1 /\ s[1].table = "memory"
    BY <1>1, CallFacts, EarlierIsUpsert DEF CallType, Rows0
  <1>3. DOMAIN s = {1}
    <2> HIDE DEF s
    <2>1. DOMAIN s = 1..1
      BY <1>2
    <2> QED
      BY <2>1
  <1>4. s # <<>>
    BY <1>3
  <1>5. Earlier.op = "write"
    BY <1>1, <1>4, CallFacts
  <1>6. rows \in Seq(Rows0)
    BY <1>1, <1>3, CallFacts
  <1>7. \A k \in DOMAIN rows : rows[k] \in Rows0
    <2> HIDE DEF rows
    <2> QED
      BY <1>6, ElementOfSeq
  <1> QED
    BY <1>1, <1>2, <1>3, <1>5, <1>7, WritesAre

LEMMA InitInv == ASSUME Init PROVE LanceInv
  <1> DEFINE x == [call |-> Earlier, handle |-> Unset, row |-> 1, found |-> {}, at |-> 1,
                   seen |-> [i \in 1..Len(GacTables) |-> {}], before |-> {},
                   pc |-> IF disk["memory"].on THEN "done" ELSE "lost"]
             on == [on |-> TRUE, gen |-> 1, rows |-> {Stamped(1, row) : row \in Writes(Earlier, "memory")}]
             off == [on |-> FALSE, gen |-> 0, rows |-> {}]
  <1>1. PICK table \in {"none", "ours", "old"} :
          /\ old = IF table = "old" THEN 1 ELSE 0
          /\ req = <<[call |-> Earlier, handle |-> Unset, row |-> 1, found |-> {}, at |-> 1,
                      seen |-> [i \in 1..Len(GacTables) |-> {}], before |-> {},
                      pc |-> IF table = "none" THEN "lost" ELSE "done"]>>
          /\ disk = [t \in Tables |->
                        IF t = "memory" /\ table # "none"
                        THEN [on |-> TRUE, gen |-> 1, rows |-> {Stamped(1, row) : row \in Writes(Earlier, t)}]
                        ELSE [on |-> FALSE, gen |-> 0, rows |-> {}]]
    BY DEF Init
  <1>2. /\ backups = {} /\ cached = [t \in Tables |-> Unset]
        /\ made = [r \in Requests |-> [t \in Tables |-> Unset]] /\ faults = 0 /\ alone = {1}
    BY DEF Init
  <1>3. disk["memory"] \in {on, off} /\ \A t \in Tables : t # "memory" => disk[t] = off
    BY <1>1, TwoTables
  <1>4. disk["memory"].on = (table # "none")
    BY <1>1, TwoTables
  <1>5. req = <<x>> /\ old \in {0, 1}
    BY <1>1, <1>4
  <1>6. 1 \in Requests /\ MaxRequests \in Nat /\ MaxRequests >= 1 /\ MaxFaults \in Nat
    BY BoundsAreNaturals DEF Requests
  <1>7. on \in [on : BOOLEAN, gen : Nat, rows : SUBSET Kept] /\ off \in [on : BOOLEAN, gen : Nat, rows : SUBSET Kept]
    BY <1>6, EarlierFacts, StampedFacts
  <1>8. x \in RequestType
    <2>1. x.pc \in AllStages /\ Unset \in Handles /\ Earlier \in AllCalls
      BY EarlierFacts DEF AllStages, Handles
    <2>2. x.seen \in [1..2 -> SUBSET Kept]
      BY TwoTables
    <2> QED
      BY <2>1, <2>2 DEF RequestType
  <1>9. /\ x.call = Earlier /\ x.at = 1 /\ x.pc \in {"done", "lost"} /\ x.before = {} /\ x.found = {}
        /\ (x.pc = "done" => disk["memory"] = on)
    <2>1. off.on = FALSE
      OBVIOUS
    <2>2. disk["memory"] = off => ~disk["memory"].on
      <3> HIDE DEF off
      <3> QED
        BY <2>1
    <2>3. x.pc = IF disk["memory"].on THEN "done" ELSE "lost"
      OBVIOUS
    <2>4. x.call = Earlier /\ x.at = 1 /\ x.before = {} /\ x.found = {}
      OBVIOUS
    <2> HIDE DEF x, on, off
    <2> QED
      BY <1>3, <2>2, <2>3, <2>4
  <1>10. /\ on.on = TRUE /\ on.gen = 1 /\ off.on = FALSE /\ off.gen = 0 /\ off.rows = {}
         /\ \A y : y \in on.rows <=> \E k \in DOMAIN Earlier.writes[1].rows : y = Stamped(1, Earlier.writes[1].rows[k])
    BY EarlierFacts
  <1> HIDE DEF x, on, off
  <1>11. /\ Len(req) = 1 /\ req[1] = x /\ Started = {1} /\ req \in Seq(RequestType)
    BY <1>5, <1>8 DEF Started
  <1>12. InFlight = {} /\ Call(1) = Earlier /\ IsWrite(1)
    BY <1>9, <1>11, EarlierFacts DEF InFlight, Call, IsWrite
  <1>13. Types
    <2>1. disk \in [Tables -> [on : BOOLEAN, gen : Nat, rows : SUBSET Kept]]
      <3>1. \E f : disk = [t \in Tables |-> f[t]]
        <4>1. disk = [t \in Tables |-> disk[t]]
          BY <1>1
        <4> QED
          BY <4>1
      <3> QED
        BY <1>3, <1>7, <3>1
    <2>2. Unset \in Handles
      BY DEF Handles
    <2> QED
      BY <1>2, <1>5, <1>6, <1>11, <2>1, <2>2 DEF Types
  <1>14. Standings
    BY <1>9, <1>11, <1>12, EarlierFacts DEF Standings, Standing, Stages, WriteStages, Call
  <1>15. StoreOK
    BY <1>2, <1>3, <1>10, HandleFacts DEF StoreOK
  <1>16. Good
    BY <1>13, <1>14, <1>15 DEF Good
  <1>17. Apart /\ AreSaved
    BY <1>12 DEF Apart, AreSaved
  <1>18. ASSUME NEW t \in Tables, NEW y \in disk[t].rows
         PROVE  t = "memory" /\ disk[t] = on /\ y.from = 1
                /\ \E k \in DOMAIN Earlier.writes[1].rows : y = Wrote(1, 1, k)
    <2>1. t = "memory" /\ disk[t] = on
      BY <1>3, <1>10, <1>18
    <2>2. PICK k \in DOMAIN Earlier.writes[1].rows : y = Stamped(1, Earlier.writes[1].rows[k])
      BY <1>10, <1>18, <2>1
    <2> QED
      BY <1>6, <1>12, <2>1, <2>2, EarlierFacts, StampedFacts DEF Wrote
  <1>19. Origin
    <2>1. 1 <= req[1].at
      BY <1>9, <1>11
    <2> QED
      BY <1>11, <1>12, <1>18, <2>1, EarlierFacts DEF Origin
  <1>20. AreKept
    <2> SUFFICES ASSUME NEW i, Complete(1, i), NEW k \in DOMAIN Earlier.writes[i].rows
                 PROVE  IsIn(Earlier.writes[i].table, Wrote(1, i, k))
      BY <1>2, <1>12 DEF AreKept
    <2>1. i = 1 /\ req[1].pc = "done"
      BY <1>9, <1>11, <1>12, EarlierFacts DEF Complete
    <2>2. Wrote(1, 1, k) \in on.rows
      BY <1>10, <1>12, <2>1 DEF Wrote
    <2> QED
      BY <1>9, <1>11, <2>1, <2>2, EarlierFacts DEF IsIn
  <1>21. Purges
    BY <1>2, <1>9, <1>11 DEF Purges
  <1>22. NoDuplicates
    <2> SUFFICES ASSUME NEW t \in Tables, NEW y \in disk[t].rows, NEW z \in disk[t].rows, SameKey(y, z)
                 PROVE  y = z
      BY DEF NoDuplicates
    <2>1. PICK k \in DOMAIN Earlier.writes[1].rows : y = Wrote(1, 1, k)
      BY <1>18
    <2>2. PICK l \in DOMAIN Earlier.writes[1].rows : z = Wrote(1, 1, l)
      BY <1>18
    <2>3. 1 \in Started /\ 1 \in DOMAIN Call(1).writes /\ Call(1).writes[1].table = "memory"
      BY <1>11, <1>12, EarlierFacts
    <2>4. k = l
      BY <1>12, <1>16, <2>1, <2>2, <2>3, WroteOnce
    <2> QED
      BY <2>1, <2>2, <2>4
  <1>23. Deletions
    BY <1>2, <1>9, <1>11, <1>12, EarlierFacts DEF Deletions, Deletes
  <1>24. FoundRows
    BY <1>11, <1>12, EarlierFacts DEF FoundRows
  <1>25. Makers
    <2>1. \A t \in Tables : \A g \in 1..disk[t].gen : g = 1 /\ t = "memory"
      BY <1>3, <1>10
    <2> QED
      BY <1>2, <1>6, <1>12, <2>1 DEF Makers
  <1> QED
    BY <1>13, <1>14, <1>15, <1>17, <1>19, <1>20, <1>21, <1>22, <1>23, <1>24, <1>25 DEF LanceInv

-----------------------------------------------------------------------------
(* The other steps: none, the arrival of a request and a restart.          *)

LEMMA SameRequest ==
    ASSUME NEW q, req'[q] = req[q]
    PROVE  /\ Call(q)' = Call(q) /\ (IsWrite(q)' <=> IsWrite(q))
           /\ Table(q)' = Table(q) /\ Rows(q)' = Rows(q)
           /\ RawIds(q)' = RawIds(q) /\ Representatives(q)' = Representatives(q)
  <1>1. Call(q)' = Call(q) /\ (IsWrite(q)' <=> IsWrite(q))
    BY DEF Call, IsWrite
  <1>2. Table(q)' = Table(q) /\ Rows(q)' = Rows(q)
    BY TableIs DEF Rows
  <1>3. RawIds(q)' = RawIds(q)
    BY DEF RawIds
  <1>4. Representatives(q)' = Representatives(q)
    BY DEF Representatives, RefersToRaw, RawIds, Call
  <1> QED
    BY <1>1, <1>2, <1>3, <1>4

LEMMA SameStanding ==
    ASSUME NEW q, req'[q] = req[q], disk' = disk, old' = old, Standing(q)
    PROVE  Standing(q)'
  BY SameRequest DEF Standing

LEMMA SameFollows ==
    ASSUME NEW q, req'[q] = req[q], disk' = disk, Follows(q)
    PROVE  Follows(q)'
  <1>1. /\ Call(q)' = Call(q) /\ RawIds(q)' = RawIds(q) /\ Representatives(q)' = Representatives(q)
        /\ TableAt(req'[q]) = Table(q)
    BY SameRequest, TableIs
  <1>2. \A t, x : WillBeDue(q, t, x) <=> Due(q, t, x)
    BY DEF WillBeDue, Due
  <1>3. req[q].pc = "found" /\ req[q].handle = Unset => \A x \in disk'[TableAt(req'[q])].rows : x.from \notin req[q].before
    BY <1>1 DEF Follows
  <1>4. /\ req[q].pc \in {"count", "erase"} /\ req[q].at = 0 =>
              \A x : WillBeDue(q, "memory", x) /\ Tagged(x, Call(q)) => x \in req[q].found
        /\ req[q].at > 0 \/ req[q].pc = "done" => \A x : ~(WillBeDue(q, "memory", x) /\ Tagged(x, Call(q)))
    BY <1>2 DEF Follows, DueTagged
  <1>5. \A k \in 1..2 : req[q].at > k => \A x : WillBeDue(q, GacTables[k], x) => x \in req[q].seen[k]
    BY <1>2 DEF Follows
  <1>6. \A k \in 1..2 : req[q].at > k + 2 \/ (req[q].at = k + 2 /\ req[q].pc = "done") =>
           \A x : WillBeDue(q, GacTables[k], x) =>
              x.raw \notin RawIds(q) /\ x.rep \notin Representatives(q) \ {""}
    BY <1>2 DEF Follows
  <1>7. Comes(q)
    BY <1>1, <1>3, <1>4, <1>5, <1>6 DEF Follows, Comes
  <1> QED
    BY <1>1, <1>7, ComesFollows

LEMMA SameSaved ==
    ASSUME NEW a, NEW q, NEW i, NEW k, req'[q] = req[q], Call(a)' = Call(a), backups' = backups, cached' = cached,
           Saved(a, q, Wrote(a, i, k))
    PROVE  Saved(a, q, Wrote(a, i, k))'
  BY SameRequest DEF Saved, Wrote

LEMMA StutterInv == ASSUME LanceInv, UNCHANGED vars PROVE LanceInv'
  <1>1. /\ req' = req /\ disk' = disk /\ backups' = backups /\ old' = old /\ cached' = cached
        /\ made' = made /\ faults' = faults /\ alone' = alone
    BY DEF vars
  <1>2. Started' = Started /\ InFlight' = InFlight
    BY <1>1 DEF Started, InFlight
  <1>3. \A q : /\ Call(q)' = Call(q) /\ (IsWrite(q)' <=> IsWrite(q))
               /\ Table(q)' = Table(q) /\ Rows(q)' = Rows(q)
    BY <1>1, SameRequest
  <1>4. Types'
    BY <1>1, <1>2 DEF LanceInv, Types
  <1>5. Standings'
    BY <1>1, <1>2, SameStanding DEF LanceInv, Standings
  <1>6. StoreOK'
    BY <1>1, <1>2 DEF LanceInv, StoreOK
  <1>7. Apart'
    BY <1>1, <1>2, <1>3 DEF LanceInv, Apart, Threatens
  <1>8. Origin'
    BY <1>1, <1>2, <1>3 DEF LanceInv, Origin, Wrote
  <1>9. AreKept'
    BY <1>1, <1>2, <1>3 DEF LanceInv, AreKept, Complete, IsIn, Wrote
  <1>10. AreSaved'
    BY <1>1, <1>2, <1>3 DEF LanceInv, AreSaved, Complete, Wrote, Saved
  <1>11. Purges'
    BY <1>1, <1>2, <1>3 DEF LanceInv, Purges
  <1>12. NoDuplicates'
    BY <1>1 DEF LanceInv, NoDuplicates
  <1>13. Deletions'
    BY <1>1, <1>2, <1>3, SameFollows DEF LanceInv, Deletions, Deletes
  <1>14. FoundRows'
    BY <1>1, <1>2, <1>3 DEF LanceInv, FoundRows
  <1>15. Makers'
    BY <1>1, <1>2, <1>3 DEF LanceInv, Makers
  <1> QED
    BY <1>4, <1>5, <1>6, <1>7, <1>8, <1>9, <1>10, <1>11, <1>12, <1>13, <1>14, <1>15 DEF LanceInv

LEMMA StepInv == ASSUME LanceInv, NEW r \in Started, Step(r) PROVE LanceInv'
  <1>1. /\ Good /\ Apart /\ Origin /\ AreKept /\ AreSaved /\ Purges /\ NoDuplicates /\ Deletions
        /\ FoundRows /\ Makers
    BY DEF LanceInv, Good
  <1>2. Does(r)
    BY <1>1, StepDoes
  <1>3. Good'
    BY <1>1, <1>2, StepGood
  <1>4. Apart' /\ Origin' /\ FoundRows'
    BY <1>1, <1>2, StepApart, StepOrigin, StepFoundRows
  <1>5. AreKept' /\ AreSaved'
    BY <1>1, <1>2, StepAreKept, StepAreSaved
  <1>6. Purges' /\ NoDuplicates'
    BY <1>1, <1>2, StepPurges, StepNoDuplicates
  <1>7. Makers' /\ Deletions'
    BY <1>1, <1>2, StepMakers, StepDeletions
  <1> QED
    BY <1>3, <1>4, <1>5, <1>6, <1>7 DEF LanceInv, Good

\* The request r arrives with call c.
Arrives(r, c) ==
    /\ c \in Calls /\ r \in Requests \ Started /\ r # 1
    /\ req' \in Seq(RequestType) /\ Len(req') \in 1..MaxRequests
    /\ Started' = Started \cup {r} /\ InFlight' = InFlight \cup {r}
    /\ \A q \in Started : req'[q] = req[q]
    /\ req'[r].call = c /\ req'[r].row = 1 /\ req'[r].found = {}
    /\ req'[r].pc = IF c.op = "clear" THEN "drop" ELSE IF c.op = "repair" THEN "open" ELSE "look"
    /\ req'[r].at = IF c.op = "write" THEN 1 ELSE 0
    /\ \A k \in 1..2 : req'[r].seen[k] = {}
    /\ req'[r].before \subseteq Started \ InFlight
    /\ Keeps /\ old' = old /\ cached' = cached /\ faults' = faults
    /\ alone' = {a \in alone : ~Threatens(c, Call(a), a \in InFlight)}
                   \cup IF \E q \in InFlight : Threatens(Call(q), c, TRUE) THEN {} ELSE {r}

LEMMA StartArrives == ASSUME LanceInv, Start PROVE \E c : Arrives(Len(req) + 1, c)
  <1> DEFINE r == Len(req) + 1
             p(c) == IF c.op = "clear" THEN "drop" ELSE IF c.op = "repair" THEN "open" ELSE "look"
  <1>1. Types /\ Started = 1..Len(req) /\ Len(req) \in Nat \ {0} /\ InFlight \subseteq Started /\ MaxRequests \in Nat
    BY RequestFacts, BoundsAreNaturals DEF LanceInv, Types
  <1>2. Len(req) < MaxRequests
    BY DEF Start
  <1>3. r \in Requests \ Started /\ r # 1 /\ 1..r = Started \cup {r} /\ r \in 1..MaxRequests
    BY <1>1, <1>2 DEF Requests
  <1>4. PICK c \in Calls :
          /\ req' = Append(req, Arrived(c, p(c)))
          /\ alone' = {a \in alone : ~Threatens(c, Call(a), a \in InFlight)}
                          \cup IF \E q \in InFlight : Threatens(Call(q), c, TRUE) THEN {} ELSE {r}
    <2>1. PICK c \in Calls :
          /\ req' = Append(req, Arrived(c, CASE c.op = "clear"  -> "drop"
                                             [] c.op = "repair" -> "open"
                                             [] OTHER           -> "look"))
          /\ alone' = {a \in alone : ~Threatens(c, req[a].call, a \in InFlight)}
                          \cup IF \E q \in InFlight : Threatens(req[q].call, c, TRUE) THEN {} ELSE {r}
      BY DEF Start
    <2>2. (CASE c.op = "clear" -> "drop" [] c.op = "repair" -> "open" [] OTHER -> "look") = p(c)
      OBVIOUS
    <2> QED
      BY <2>1, <2>2 DEF Call
  <1>5. Keeps /\ old' = old /\ cached' = cached /\ faults' = faults
    BY DEF Start, Keeps
  <1> DEFINE x == Arrived(c, p(c))
             b == {q \in Started : req[q].pc = "done" /\ c.op = "delete"}
             s == [i \in 1..Len(GacTables) |-> {}]
             n == IF c.op = "write" THEN 1 ELSE 0
  <1>6. x = [call |-> c, handle |-> Unset, row |-> 1, found |-> {}, at |-> n, seen |-> s, before |-> b, pc |-> p(c)]
    BY DEF Arrived
  <1>7. /\ c \in AllCalls /\ Unset \in Handles /\ p(c) \in AllStages /\ n \in Nat /\ b \in SUBSET Nat
        /\ s \in [1..2 -> SUBSET Kept] /\ \A k \in 1..2 : s[k] = {}
    <2>1. c \in AllCalls /\ Unset \in Handles /\ p(c) \in AllStages
      BY DEF AllCalls, Handles, AllStages
    <2>2. s \in [1..2 -> SUBSET Kept] /\ \A k \in 1..2 : s[k] = {}
      BY TwoTables
    <2>3. b \in SUBSET Nat
      BY <1>1
    <2> QED
      BY <2>1, <2>2, <2>3
  <1>8. b \subseteq Started \ InFlight
    BY DEF InFlight
  <1> HIDE DEF b, s, n, p
  <1>9. x \in RequestType
    BY <1>6, <1>7 DEF RequestType
  <1>10. /\ x.call = c /\ x.row = 1 /\ x.found = {} /\ x.pc = p(c) /\ x.at = n /\ x.seen = s /\ x.before = b
    BY <1>6
  <1> HIDE DEF x
  <1>11. req' = Append(req, x) /\ req \in Seq(RequestType)
    BY <1>1, <1>4 DEF x, Types
  <1>12. /\ req' \in Seq(RequestType) /\ Len(req') = r /\ req'[r] = x /\ DOMAIN req' = 1..r
         /\ \A q \in 1..Len(req) : req'[q] = req[q]
    BY <1>9, <1>11
  <1>13. Started' = Started \cup {r}
    BY <1>3, <1>12 DEF Started
  <1>14. x.pc \notin {"done", "failed", "lost"}
    BY <1>10 DEF p
  <1>15. InFlight' = InFlight \cup {r}
    BY <1>1, <1>12, <1>13, <1>14 DEF InFlight
  <1>16. Len(req') \in 1..MaxRequests
    BY <1>3, <1>12
  <1>17. Arrives(r, c)
    <2>1. req'[r].pc = IF c.op = "clear" THEN "drop" ELSE IF c.op = "repair" THEN "open" ELSE "look"
      BY <1>10, <1>12 DEF p
    <2>2. req'[r].at = IF c.op = "write" THEN 1 ELSE 0
      BY <1>10, <1>12 DEF n
    <2>3. req'[r].call = c /\ req'[r].row = 1 /\ req'[r].found = {} /\ req'[r].seen = s /\ req'[r].before = b
      BY <1>10, <1>12
    <2>4. \A k \in 1..2 : req'[r].seen[k] = {}
      BY <1>7, <2>3
    <2>5. req'[r].before \subseteq Started \ InFlight
      BY <1>8, <2>3
    <2> HIDE DEF r
    <2>6. \A q \in Started : req'[q] = req[q]
      BY <1>1, <1>12
    <2> QED
      BY <1>3, <1>4, <1>5, <1>12, <1>13, <1>15, <1>16, <2>1, <2>2, <2>3, <2>4, <2>5, <2>6 DEF Arrives
  <1> QED
    BY <1>17

LEMMA ArrivesGood == ASSUME Good, NEW r, NEW c, Arrives(r, c) PROVE Good'
  <1>1. /\ Types /\ StoreOK /\ Standings /\ disk' = disk /\ backups' = backups /\ made' = made
        /\ old' = old /\ cached' = cached /\ faults' = faults /\ Started' = Started \cup {r}
        /\ \A q \in Started : req'[q] = req[q]
    BY DEF Good, Arrives, Keeps
  <1>2. Types'
    <2>1. alone' \subseteq Started'
      BY <1>1 DEF Arrives, Types
    <2>2. cached \in [Tables -> Handles \cup ({"createdBy"} \X Started')]
      <3>1. cached \in [Tables -> Handles \cup ({"createdBy"} \X Started)]
        BY <1>1 DEF Types
      <3>2. {"createdBy"} \X Started \subseteq {"createdBy"} \X Started'
        BY <1>1
      <3>3. Handles \cup ({"createdBy"} \X Started) \subseteq Handles \cup ({"createdBy"} \X Started')
        BY <3>2
      <3> QED
        BY <3>1, <3>3
    <2>3. req' \in Seq(RequestType) /\ Len(req') \in 1..MaxRequests
      BY DEF Arrives
    <2> QED
      BY <1>1, <2>1, <2>2, <2>3 DEF Types
  <1>3. Standing(r)'
    <2>1. c \in AllCalls /\ c.op \in {"write", "delete", "clear", "repair"}
      BY CallFacts DEF Arrives, AllCalls, CallType
    <2>2. Call(r)' = c /\ (IsWrite(r)' <=> c.op = "write")
      BY DEF Arrives, Call, IsWrite
    <2>3. c.op = "write" => 1 \in DOMAIN c.writes
      <3> DEFINE s == c.writes
      <3>1. c.op = "write" => s \in Seq([table : Tables, rows : Seq(Rows0)]) /\ s # <<>>
        BY <2>1, CallFacts DEF CallType, Rows0
      <3> HIDE DEF s
      <3>2. c.op = "write" => 1 \in DOMAIN s
        BY <3>1
      <3> QED
        BY <3>2 DEF s
    <2>4. /\ req'[r].pc = IF c.op = "clear" THEN "drop" ELSE IF c.op = "repair" THEN "open" ELSE "look"
          /\ req'[r].at = (IF c.op = "write" THEN 1 ELSE 0) /\ req'[r].row = 1
      BY DEF Arrives
    <2>5. CASE c.op = "write"
      BY <2>2, <2>3, <2>4, <2>5 DEF Standing, Stages, WriteStages
    <2>6. CASE c.op \in {"delete", "clear", "repair"}
      BY <2>2, <2>4, <2>6 DEF Standing, Stages, WriteStages
    <2> QED
      BY <2>1, <2>5, <2>6
  <1>4. Standings'
    BY <1>1, <1>3, SameStanding DEF Standings
  <1>5. StoreOK'
    BY <1>1 DEF StoreOK
  <1> QED
    BY <1>2, <1>4, <1>5 DEF Good

\* What it may ruin is not counted from now on.
LEMMA ArrivesApart == ASSUME Good, Apart, NEW r, NEW c, Arrives(r, c) PROVE Apart'
  <1>1. SUFFICES ASSUME NEW a \in alone', NEW q \in InFlight', q # a
                 PROVE  ~Threatens(Call(q), Call(a), a \in InFlight)'
    BY DEF Apart
  <1>2. /\ old' = old /\ InFlight' = InFlight \cup {r} /\ Call(r)' = c /\ r \notin Started
        /\ InFlight \subseteq Started /\ alone \subseteq Started
        /\ \A b \in Started : Call(b)' = Call(b)
    BY SameRequest, RequestFacts DEF Arrives, Call, Good, Types
  <1>3. /\ a # r => a \in alone /\ ~Threatens(c, Call(a), a \in InFlight)
        /\ a = r => \A b \in InFlight : ~Threatens(Call(b), c, TRUE)
    BY <1>2 DEF Arrives
  <1>4. ~Threatens(Call(q)', Call(a)', a \in InFlight')
    <2>1. CASE a = r
      <3>1. ~Threatens(Call(q), c, TRUE)
        BY <1>1, <1>2, <1>3, <2>1
      <3> QED
        BY <1>1, <1>2, <2>1, <3>1, ThreatensLess
    <2>2. CASE a # r /\ q = r
      BY <1>2, <1>3, <2>2
    <2>3. CASE a # r /\ q # r
      BY <1>1, <1>2, <1>3, <2>3 DEF Apart
    <2> QED
      BY <2>1, <2>2, <2>3
  <1> QED
    BY <1>2, <1>4 DEF Threatens

\* It has written nothing yet.
LEMMA ArrivesComplete ==
    ASSUME Good, NEW r, NEW c, Arrives(r, c), NEW a \in alone', NEW i, Complete(a, i)'
    PROVE  a \in alone /\ Complete(a, i) /\ Call(a)' = Call(a)
  <1>1. /\ Call(r)' = c /\ r \notin Started /\ alone \subseteq Started /\ alone' \subseteq alone \cup {r}
        /\ \A b \in Started : Call(b)' = Call(b) /\ (IsWrite(b)' <=> IsWrite(b)) /\ req'[b] = req[b]
    BY SameRequest, RequestFacts DEF Arrives, Call, Good, Types
  <1>2. a # r
    <2>1. CASE a = r
      <3>1. c.op = "write" /\ i \in DOMAIN c.writes /\ req'[r].at = 1 /\ req'[r].pc = "look"
        BY <1>1, <2>1 DEF Complete, IsWrite, Arrives
      <3>2. i < 1
        BY <2>1, <3>1 DEF Complete
      <3>3. \A j \in DOMAIN c.writes : j \in Nat \ {0}
        <4> DEFINE s == c.writes
        <4>1. s \in Seq([table : Tables, rows : Seq(Rows0)])
          BY CallFacts DEF CallType, Rows0, AllCalls, Arrives
        <4> HIDE DEF s
        <4>2. \A j \in DOMAIN s : j \in Nat \ {0}
          BY <4>1
        <4> QED
          BY <4>2 DEF s
      <3> QED
        BY <3>1, <3>2, <3>3
    <2> QED
      BY <2>1
  <1> QED
    BY <1>1, <1>2 DEF Complete

LEMMA ArrivesInv == ASSUME LanceInv, NEW r, NEW c, Arrives(r, c) PROVE LanceInv'
  <1>1. /\ Good /\ Apart /\ Origin /\ AreKept /\ AreSaved /\ Purges /\ NoDuplicates /\ Deletions
        /\ FoundRows /\ Makers
    BY DEF LanceInv, Good
  <1>2. /\ disk' = disk /\ backups' = backups /\ made' = made /\ old' = old /\ cached' = cached
        /\ Started' = Started \cup {r} /\ InFlight' = InFlight \cup {r} /\ r \notin Started
        /\ alone' \subseteq alone \cup {r} /\ alone \subseteq Started /\ InFlight \subseteq Started
        /\ Call(r)' = c
    BY <1>1, RequestFacts DEF Arrives, Keeps, Good, Types, Call
  <1>3. \A q \in Started :
           /\ req'[q] = req[q] /\ Call(q)' = Call(q) /\ (IsWrite(q)' <=> IsWrite(q))
           /\ Table(q)' = Table(q) /\ Rows(q)' = Rows(q)
    BY SameRequest DEF Arrives
  <1>4. Good' /\ Apart'
    BY <1>1, ArrivesGood, ArrivesApart
  <1>5. Origin'
    <2> SUFFICES ASSUME NEW t \in Tables, NEW x \in disk[t].rows
                 PROVE  /\ x.from \in Started'
                        /\ \E i \in DOMAIN Call(x.from)'.writes :
                              /\ Call(x.from)'.writes[i].table = t /\ i <= req'[x.from].at
                              /\ \E k \in DOMAIN Call(x.from)'.writes[i].rows : x = Wrote(x.from, i, k)'
      BY <1>2 DEF Origin
    <2>1. x.from \in Started
      BY <1>1 DEF Origin
    <2> QED
      BY <1>1, <1>2, <1>3, <2>1 DEF Origin, Wrote
  <1>6. AreKept'
    <2> SUFFICES ASSUME NEW a \in alone', NEW i, Complete(a, i)', NEW k \in DOMAIN Call(a)'.writes[i].rows
                 PROVE  IsIn(Call(a).writes[i].table, Wrote(a, i, k))'
      BY DEF AreKept
    <2>1. a \in alone /\ Complete(a, i) /\ Call(a)' = Call(a)
      BY <1>1, ArrivesComplete
    <2>2. IsIn(Call(a).writes[i].table, Wrote(a, i, k))
      BY <1>1, <2>1 DEF AreKept
    <2> QED
      BY <1>2, <2>1, <2>2 DEF IsIn, Wrote
  <1>7. AreSaved'
    <2> SUFFICES ASSUME NEW a \in alone', NEW q \in InFlight', q # a, NEW i, Complete(a, i)',
                        Call(a)'.writes[i].table = "memory", NEW k \in DOMAIN Call(a)'.writes[i].rows
                 PROVE  Saved(a, q, Wrote(a, i, k))'
      BY DEF AreSaved
    <2>1. a \in alone /\ Complete(a, i) /\ Call(a)' = Call(a) /\ a # r
      BY <1>1, <1>2, ArrivesComplete
    <2>2. CASE q = r
      <3>1. ~Threatens(c, Call(a), a \in InFlight)
        BY <2>1 DEF Arrives
      <3>2. Call(a).writes[i].rows[k] \in Writes(Call(a), "memory")
        BY <1>1, <1>2, <2>1, WroteFacts DEF Complete
      <3>3. c.op # "clear"
        BY <3>1, <3>2, TwoTables DEF Threatens
      <3>4. req'[r].pc \in {"open", "look"}
        BY <3>3 DEF Arrives
      <3> QED
        BY <2>2, <3>4 DEF Saved
    <2>3. CASE q # r
      <3>1. q \in InFlight /\ req'[q] = req[q]
        BY <1>2, <1>3, <2>3
      <3>2. Saved(a, q, Wrote(a, i, k))
        BY <1>1, <2>1, <3>1 DEF AreSaved
      <3> QED
        BY <1>2, <2>1, <3>1, <3>2, SameSaved
    <2> QED
      BY <2>2, <2>3
  <1>8. Purges'
    <2>1. req'[r].pc \notin {"purge", "add"}
      BY DEF Arrives
    <2> QED
      BY <1>1, <1>2, <1>3, <2>1 DEF Purges
  <1>9. NoDuplicates'
    <2>1. \A t \in Tables : \A x \in disk[t].rows : x.from \in alone' => x.from \in alone
      BY <1>1, <1>2 DEF Origin
    <2> QED
      BY <1>1, <1>2, <2>1 DEF NoDuplicates
  <1>10. Deletions'
    <2>1. req'[r].before \subseteq Started \ InFlight
      BY DEF Arrives
    <2>2. ASSUME NEW q \in Started', NEW b \in req'[q].before PROVE b \in Started' \ InFlight'
      BY <1>1, <1>2, <1>3, <2>1, <2>2 DEF Deletions
    <2>3. ASSUME Call(r)'.op = "delete" PROVE Follows(r)'
      <3>1. /\ req'[r].at = 0 /\ req'[r].pc = "look" /\ req'[r].found = {}
            /\ \A k \in 1..2 : req'[r].seen[k] = {}
        BY <1>2, <2>3 DEF Arrives
      <3> QED
        BY <3>1 DEF Follows
    <2>4. \A q \in Deletes' : q # r => q \in Deletes
      BY <1>2, <1>3 DEF Deletes
    <2>5. \A q \in Deletes : Follows(q)'
      BY <1>1, <1>2, <1>3, SameFollows DEF Deletions, Deletes
    <2> QED
      BY <2>2, <2>3, <2>4, <2>5 DEF Deletions, Deletes
  <1>11. FoundRows'
    <2>1. req'[r].found = {}
      BY DEF Arrives
    <2> QED
      BY <1>1, <1>2, <1>3, <2>1 DEF FoundRows
  <1>12. Makers'
    <2>1. ASSUME c.op = "write", NEW i \in DOMAIN c.writes PROVE made[r][c.writes[i].table] = Unset
      <3>1. c.writes[i].table \in Tables
        BY <2>1, CallFacts DEF Arrives, AllCalls
      <3> QED
        BY <1>1, <3>1 DEF Arrives, Good, StoreOK
    <2>2. \A q \in InFlight' : IsWrite(q)' => \A i \in DOMAIN Call(q)'.writes :
             i >= req'[q].at => made[q][Call(q)'.writes[i].table] = Unset
      <3>1. IsWrite(r)' => c.op = "write"
        BY <1>2 DEF IsWrite, Call
      <3> QED
        BY <1>1, <1>2, <1>3, <2>1, <3>1 DEF Makers
    <2>3. 1 \notin InFlight'
      BY <1>1, <1>2 DEF Makers, Arrives
    <2> QED
      BY <1>1, <1>2, <2>2, <2>3 DEF Makers
  <1> QED
    BY <1>4, <1>5, <1>6, <1>7, <1>8, <1>9, <1>10, <1>11, <1>12 DEF LanceInv, Good

\* The server has died: who ran is lost, what is on disk is there.
Restarts ==
    /\ req' \in Seq(RequestType) /\ Len(req') = Len(req) /\ Started' = Started /\ InFlight' = {}
    /\ \A q \in Started : req'[q].call = req[q].call /\ req'[q].at = req[q].at
    /\ \A q \in Started \ InFlight : req'[q] = req[q]
    /\ \A q \in InFlight :
          /\ req'[q].pc = "lost" /\ req'[q].row = 1 /\ req'[q].handle = Unset
          /\ req'[q].found = {} /\ req'[q].before = {} /\ \A k \in 1..2 : req'[q].seen[k] = {}
    /\ Keeps /\ old' = old /\ alone' = alone /\ faults' \in 0..MaxFaults
    /\ cached' = [t \in Tables |-> Unset]

LEMMA RestartFacts == ASSUME Types, Restart PROVE Restarts
  <1>1. /\ Started = 1..Len(req) /\ Len(req) \in Nat /\ \A r \in Started : req[r] \in RequestType
        /\ InFlight \subseteq Started
    BY RequestFacts
  <1>2. req' = [r \in Started |-> IF r \in InFlight THEN Ended(req[r], "lost") ELSE req[r]]
    BY DEF Restart
  <1>3. \A r \in InFlight :
           /\ Ended(req[r], "lost") \in RequestType
           /\ Ended(req[r], "lost").call = req[r].call /\ Ended(req[r], "lost").at = req[r].at
           /\ Ended(req[r], "lost").pc = "lost" /\ Ended(req[r], "lost").row = 1
           /\ Ended(req[r], "lost").handle = Unset
           /\ Ended(req[r], "lost").found = {} /\ Ended(req[r], "lost").before = {}
           /\ \A k \in 1..2 : Ended(req[r], "lost").seen[k] = {}
    BY <1>1, EndedFacts
  <1>4. \A r \in 1..Len(req) : req'[r] \in RequestType
    BY <1>1, <1>2, <1>3
  <1>5. req' \in [1..Len(req) -> RequestType] /\ DOMAIN req' = 1..Len(req)
    BY <1>1, <1>2, <1>4
  <1>6. req' \in Seq(RequestType) /\ Len(req') = Len(req)
    BY <1>1, <1>5
  <1>7. Started' = Started
    BY <1>1, <1>5 DEF Started
  <1>8. /\ \A q \in Started \ InFlight : req'[q] = req[q]
        /\ \A q \in InFlight :
          /\ req'[q].pc = "lost" /\ req'[q].row = 1 /\ req'[q].handle = Unset
          /\ req'[q].found = {} /\ req'[q].before = {} /\ \A k \in 1..2 : req'[q].seen[k] = {}
    BY <1>1, <1>2, <1>3
  <1>9. \A q \in Started : req'[q].call = req[q].call /\ req'[q].at = req[q].at
    BY <1>1, <1>2, <1>3
  <1>10. InFlight' = {}
    <2>1. \A q \in Started : req'[q].pc \in {"done", "failed", "lost"}
      BY <1>8 DEF InFlight
    <2> QED
      BY <1>7, <2>1 DEF InFlight
  <1>11. faults' \in 0..MaxFaults
    BY BoundsAreNaturals DEF Types, Restart
  <1>12. Keeps /\ old' = old /\ alone' = alone /\ cached' = [t \in Tables |-> Unset]
    BY DEF Restart, Keeps
  <1> QED
    BY <1>6, <1>7, <1>8, <1>9, <1>10, <1>11, <1>12 DEF Restarts

LEMMA RestartInv == ASSUME LanceInv, Restarts PROVE LanceInv'
  <1>1. /\ Good /\ Apart /\ Origin /\ AreKept /\ AreSaved /\ Purges /\ NoDuplicates /\ Deletions
        /\ FoundRows /\ Makers
    BY DEF LanceInv, Good
  <1>2. /\ disk' = disk /\ backups' = backups /\ made' = made /\ old' = old /\ alone' = alone
        /\ Started' = Started /\ InFlight' = {} /\ alone \subseteq Started
        /\ cached' = [t \in Tables |-> Unset]
    BY <1>1 DEF Restarts, Keeps, Good, Types
  <1>3. \A q \in Started : /\ Call(q)' = Call(q) /\ (IsWrite(q)' <=> IsWrite(q))
                           /\ req'[q].at = req[q].at /\ Rows(q)' = Rows(q)
    BY DEF Restarts, Call, IsWrite, Rows
  <1>4. \A q \in Started : q \notin InFlight => req'[q] = req[q]
    BY DEF Restarts
  <1>5. \A q \in InFlight : req'[q].pc = "lost" /\ req'[q].found = {} /\ req'[q].before = {}
                            /\ \A k \in 1..2 : req'[q].seen[k] = {}
    BY DEF Restarts
  <1>6. Types'
    <2>1. cached' \in [Tables -> Handles \cup ({"createdBy"} \X Started)]
      BY <1>2 DEF Handles
    <2> QED
      BY <1>1, <1>2, <2>1 DEF Good, Types, Restarts
  <1>7. Standings'
    <2> SUFFICES ASSUME NEW q \in Started PROVE Standing(q)'
      BY <1>2 DEF Standings
    <2>1. Standing(q)
      BY <1>1 DEF Good, Standings
    <2>2. CASE q \in InFlight
      <3>1. "lost" \in Stages(Call(q).op)
        BY DEF Stages
      <3> QED
        BY <1>3, <1>5, <2>1, <2>2, <3>1 DEF Standing
    <2>3. CASE q \notin InFlight
      BY <1>2, <1>4, <2>1, <2>3, SameStanding
    <2> QED
      BY <2>2, <2>3
  <1>8. StoreOK'
    BY <1>1, <1>2, HandleFacts DEF Good, StoreOK
  <1>9. Apart' /\ AreSaved'
    BY <1>2 DEF Apart, AreSaved
  <1>10. Origin'
    BY <1>1, <1>2, <1>3 DEF Origin, Wrote
  <1>11. AreKept'
    <2> SUFFICES ASSUME NEW a \in alone, NEW i, Complete(a, i)', NEW k \in DOMAIN Call(a)'.writes[i].rows
                 PROVE  IsIn(Call(a).writes[i].table, Wrote(a, i, k))'
      BY <1>2 DEF AreKept
    <2>1. a \in Started /\ Call(a)' = Call(a)
      BY <1>2, <1>3
    <2>2. req'[a].pc = "done" => req[a].pc = "done"
      BY <1>4, <1>5, <2>1
    <2>3. Complete(a, i)
      BY <1>3, <2>1, <2>2 DEF Complete
    <2>4. IsIn(Call(a).writes[i].table, Wrote(a, i, k))
      BY <1>1, <2>1, <2>3 DEF AreKept
    <2> QED
      BY <1>2, <2>1, <2>4 DEF IsIn, Wrote
  <1>12. Purges'
    <2>1. \A a \in Started : req'[a].pc \notin {"purge", "add"}
      BY <1>2 DEF InFlight
    <2> QED
      BY <1>2, <2>1 DEF Purges
  <1>13. NoDuplicates'
    BY <1>1, <1>2 DEF NoDuplicates
  <1>14. Deletions'
    <2>1. \A q \in Started : req'[q].before \subseteq req[q].before
      BY <1>4, <1>5
    <2>2. \A q \in Started : \A b \in req'[q].before : b \in Started' \ InFlight'
      BY <1>1, <1>2, <2>1 DEF Deletions
    <2>3. ASSUME NEW q \in Deletes PROVE Follows(q)'
      <3>1. q \in Started /\ Call(q)' = Call(q) /\ Follows(q)
        BY <1>1, <1>2, <1>3, <2>3 DEF Deletes, Deletions
      <3>2. CASE q \in InFlight
        <4>1. \A t, x : ~WillBeDue(q, t, x)
          BY <1>5, <3>2 DEF WillBeDue
        <4>2. Comes(q)
          BY <1>5, <3>2, <4>1 DEF Comes
        <4> QED
          BY <3>1, <4>2, ComesFollows
      <3>3. CASE q \notin InFlight
        BY <1>2, <1>4, <3>1, <3>3, SameFollows
      <3> QED
        BY <3>2, <3>3
    <2>4. \A q \in Deletes' : q \in Deletes
      BY <1>2, <1>3 DEF Deletes
    <2> QED
      BY <1>2, <2>2, <2>3, <2>4 DEF Deletions
  <1>15. FoundRows'
    <2>1. \A q \in Started : req'[q].found \subseteq req[q].found
      BY <1>4, <1>5
    <2> QED
      BY <1>1, <1>2, <1>3, <2>1 DEF FoundRows
  <1>16. Makers'
    BY <1>1, <1>2 DEF Makers
  <1> QED
    BY <1>6, <1>7, <1>8, <1>9, <1>10, <1>11, <1>12, <1>13, <1>14, <1>15, <1>16 DEF LanceInv, Good

LEMMA NextInv == ASSUME LanceInv, [Next]_vars PROVE LanceInv'
  <1>1. CASE Start
    BY <1>1, StartArrives, ArrivesInv
  <1>2. CASE \E r \in Started : Step(r)
    BY <1>2, StepInv
  <1>3. CASE Restart
    BY <1>3, RestartFacts, RestartInv DEF LanceInv
  <1>4. CASE UNCHANGED vars
    BY <1>4, StutterInv
  <1> QED
    BY <1>1, <1>2, <1>3, <1>4 DEF Next

\* The invariant of the memory server's store: which rows a request that no
\* other has power over has written and must still find, and how far a deletion
\* has come.
THEOREM Invariant == Spec => []LanceInv
  BY InitInv, NextInv, PTL DEF Spec

-----------------------------------------------------------------------------
(* What follows.                                                           *)

LEMMA InvTypeOK == ASSUME LanceInv PROVE TypeOK
  <1>1. Good /\ Makers /\ Types /\ StoreOK
    BY DEF LanceInv, Good
  <1>2. ASSUME NEW t \in Tables
        PROVE  cached[t] \in {Unset} \cup {TableOf(g) : g \in 1..disk[t].gen} \cup {CreatedBy(r) : r \in Started}
    <2>1. cached[t] \in Handles \cup ({"createdBy"} \X Started)
      BY <1>1 DEF Types
    <2>2. CASE cached[t] \in Handles
      <3>1. cached[t] = Unset \/ (cached[t] = TableOf(cached[t][2]) /\ cached[t][2] \in Nat \ {0})
        BY <2>2, HandlesAre
      <3> DEFINE g == cached[t][2]
      <3>2. disk[t].gen \in Nat
        BY <1>1, TableGenIs
      <3>3. cached[t] = TableOf(g) => g <= disk[t].gen
        BY <1>1 DEF StoreOK
      <3> HIDE DEF g
      <3>4. cached[t] = TableOf(g) /\ g \in Nat \ {0} => g \in 1..disk[t].gen
        BY <3>2, <3>3
      <3> QED
        BY <3>1, <3>4 DEF g
    <2>3. CASE cached[t] \in {"createdBy"} \X Started
      BY <2>3 DEF CreatedBy
    <2> QED
      BY <2>1, <2>2, <2>3
  <1>3. \A t \in Tables : disk[t].on \in BOOLEAN /\ disk[t].gen \in 0..MaxRequests
    BY <1>1, GensAreFew DEF Types
  <1>4. \A t \in Tables : disk[t].rows # {} => disk[t].on
    BY <1>1 DEF StoreOK
  <1> QED
    BY <1>1, <1>2, <1>3, <1>4 DEF TypeOK, Types

LEMMA InvAckedIsKept == ASSUME LanceInv PROVE AckedIsKept
  <1> SUFFICES ASSUME NEW r \in alone, req[r].pc = "done", NEW t \in Tables, NEW row \in Writes(Call(r), t)
               PROVE  IsIn(t, Stamped(r, row))
    BY DEF AckedIsKept, IsIn
  <1>1. Good /\ AreKept /\ r \in Started
    BY DEF LanceInv, Good, Types
  <1>2. PICK i \in DOMAIN Call(r).writes :
           Call(r).writes[i].table = t /\ \E k \in DOMAIN Call(r).writes[i].rows : row = Call(r).writes[i].rows[k]
    BY WritesAre
  <1>3. PICK k \in DOMAIN Call(r).writes[i].rows : row = Call(r).writes[i].rows[k]
    BY <1>2
  <1>4. Complete(r, i)
    <2>1. Call(r).writes # <<>>
      BY <1>2
    <2> QED
      BY <1>1, <2>1, RequestIs, CallFacts DEF Complete
  <1>5. IsIn(t, Wrote(r, i, k))
    BY <1>1, <1>2, <1>4 DEF AreKept
  <1> QED
    BY <1>3, <1>5 DEF Wrote

LEMMA InvTraceable == ASSUME LanceInv PROVE RepresentativesAreTraceable
  <1> SUFFICES ASSUME NEW x \in disk["memory_representative"].rows, x.from \in alone
               PROVE  \E y \in disk["memory_lineage"].rows : y.rep = x.id /\ y.scope = x.scope
    BY DEF RepresentativesAreTraceable
  <1> DEFINE a == x.from
  <1>1. Good /\ AreKept /\ Origin
    BY DEF LanceInv, Good
  <1>2. a \in Started /\ IsWrite(a) /\ Call(a) \in AllCalls /\ req[a].at \in Nat
    BY <1>1, TwoTables, OriginFacts, RequestIs DEF RequestType
  <1>3. PICK i \in DOMAIN Call(a).writes :
           /\ Call(a).writes[i].table = "memory_representative" /\ i <= req[a].at
           /\ \E k \in DOMAIN Call(a).writes[i].rows : x = Wrote(a, i, k)
    BY <1>1, TwoTables DEF Origin
  <1>4. PICK k \in DOMAIN Call(a).writes[i].rows : x = Wrote(a, i, k)
    BY <1>3
  <1> HIDE DEF a
  <1>5. PICK j \in DOMAIN Call(a).writes :
           /\ j < i /\ Call(a).writes[j].table = "memory_lineage"
           /\ \E l \in DOMAIN Call(a).writes[j].rows :
                 /\ Call(a).writes[j].rows[l].rep = Call(a).writes[i].rows[k].id
                 /\ Call(a).writes[j].rows[l].scope = Call(a).writes[i].rows[k].scope
    BY <1>2, <1>3, LineageFirst
  <1>6. PICK l \in DOMAIN Call(a).writes[j].rows :
                 /\ Call(a).writes[j].rows[l].rep = Call(a).writes[i].rows[k].id
                 /\ Call(a).writes[j].rows[l].scope = Call(a).writes[i].rows[k].scope
    BY <1>5
  <1>7. Complete(a, j)
    <2> DEFINE s == Call(a).writes
    <2>1. s \in Seq([table : Tables, rows : Seq(Rows0)])
      BY <1>2, CallFacts DEF CallType, Rows0
    <2>2. i \in Nat /\ j \in Nat
      <3> HIDE DEF s
      <3>1. \A n \in DOMAIN s : n \in Nat
        BY <2>1
      <3> QED
        BY <3>1, <1>3, <1>5 DEF s
    <2>3. j < req[a].at
      BY <1>2, <1>3, <1>5, <2>2
    <2> QED
      BY <1>2, <2>3 DEF Complete
  <1>8. Wrote(a, j, l) \in disk["memory_lineage"].rows
    <2>1. a \in alone
      BY DEF a
    <2> QED
      BY <1>1, <1>5, <1>7, <2>1 DEF AreKept, IsIn
  <1>9. Wrote(a, j, l).rep = x.id /\ Wrote(a, j, l).scope = x.scope
    BY <1>1, <1>2, <1>4, <1>6, WroteFacts
  <1> QED
    BY <1>8, <1>9

LEMMA InvDeletedIsGone == ASSUME LanceInv PROVE DeletedIsGone
  <1> SUFFICES ASSUME NEW q \in alone, Call(q).op = "delete", req[q].pc = "done",
                      NEW t \in Tables, NEW x \in disk[t].rows, x.from \in req[q].before, Matches(x, Call(q))
               PROVE  ~ IF t = "memory" THEN Tagged(x, Call(q))
                        ELSE x.raw \in RawIds(q) \/ x.rep \in Representatives(q) \ {""}
    BY DEF DeletedIsGone
  <1>1. Follows(q) /\ Due(q, t, x)
    BY DEF LanceInv, Deletions, Deletes, Due
  <1>2. CASE t = "memory"
    BY <1>1, <1>2 DEF Follows, DueTagged
  <1>3. ASSUME NEW k \in 1..2, t = GacTables[k], t # "memory"
        PROVE  x.raw \notin RawIds(q) /\ x.rep \notin Representatives(q) \ {""}
    <2>1. req[q].at \in {0, 4}
      BY <1>1 DEF Follows
    <2>2. CASE req[q].at = 4
      <3>1. req[q].at > k + 2 \/ req[q].at = k + 2
        BY <2>2
      <3> QED
        BY <1>1, <1>3, <3>1 DEF Follows
    <2>3. CASE req[q].at = 0
      <3>1. req[q].found = {} /\ req[q].seen[1] = {} /\ req[q].seen[2] = {}
        BY <1>1, <2>3 DEF Follows
      <3>2. RawIds(q) = {}
        BY <3>1 DEF RawIds
      <3>3. \A S \in ToSet(req[q].seen) : S = {}
        <4>1. DOMAIN req[q].seen = 1..2
          BY RequestFacts DEF LanceInv, Types, RequestType
        <4> QED
          BY <3>1, <4>1 DEF ToSet
      <3>4. Representatives(q) = {}
        BY <3>3 DEF Representatives
      <3> QED
        BY <3>2, <3>4
    <2> QED
      BY <2>1, <2>2, <2>3
  <1>4. t = "memory" \/ (t # "memory" /\ t = GacTables[1]) \/ (t # "memory" /\ t = GacTables[2])
    BY TwoTables
  <1>5. 1 \in 1..2 /\ 2 \in 1..2
    OBVIOUS
  <1> QED
    BY <1>2, <1>3, <1>4, <1>5

\* What a step of a request may remove.
Spares(r) ==
    req'[r] # req[r] /\ req[r].pc \in {"purge", "erase"} =>
        \A t \in Tables : \A x \in disk[t].rows \ disk'[t].rows :
            IF IsWrite(r) THEN \E row \in Writes(Call(r), t) : row.scope = x.scope
            ELSE Call(r).scope \in {NoFilter, x.scope}

LEMMA StepSpares == ASSUME Good, NEW s \in Started, Does(s), NEW r \in Started PROVE Spares(r)
  <1> SUFFICES ASSUME req'[r] # req[r], req[r].pc \in {"purge", "erase"},
                      NEW t \in Tables, NEW x \in disk[t].rows, x \notin disk'[t].rows
               PROVE  IF IsWrite(r) THEN \E row \in Writes(Call(r), t) : row.scope = x.scope
                      ELSE Call(r).scope \in {NoFilter, x.scope}
    BY DEF Spares
  <1>1. r = s
    BY StepMoves DEF Moves, Only
  <1>2. Removing(r, t, x)
    BY <1>1, StepShape DEF Shape
  <1>3. CASE req[r].pc = "purge"
    <2>1. IsWrite(r) /\ t = Table(r) /\ SameKey(x, Rows(r)[req[r].row]) /\ req[r].row \in DOMAIN Rows(r)
          /\ req[r].at \in DOMAIN Call(r).writes
      BY <1>2, <1>3, RequestIs DEF Removing, Standing, Stages
    <2>2. Rows(r)[req[r].row] \in Writes(Call(r), t)
      BY <2>1, TableFacts, WritesAre
    <2> QED
      BY <2>1, <2>2 DEF SameKey
  <1>4. CASE req[r].pc = "erase"
    <2>1. ~IsWrite(r) /\ Erased(r, x)
      BY <1>2, <1>4, RequestIs DEF Removing, Standing, Stages, WriteStages
    <2> QED
      BY <2>1 DEF Erased, Matches
  <1> QED
    BY <1>3, <1>4

LEMMA NextSpares == ASSUME LanceInv, [Next]_vars PROVE \A r \in Started : Spares(r)
  <1>1. CASE Start
    BY <1>1, StartArrives DEF Arrives, Spares
  <1>2. CASE \E s \in Started : Step(s)
    BY <1>2, StepDoes, StepSpares DEF LanceInv, Good
  <1>3. CASE Restart \/ UNCHANGED vars
    BY <1>3 DEF Restart, vars, Spares
  <1> QED
    BY <1>1, <1>2, <1>3 DEF Next

\* A table is made once in the name of a request that creates it, and nothing
\* is cached but a table that was made or the promise of a request.
THEOREM TypeCorrect == Spec => []TypeOK
  BY Invariant, InvTypeOK, PTL

\* What a write has been told to be there is there or in a backup, and once: no
\* request removes it that has no power over it by what it asks, whichever
\* operations the two await, fail at or are interrupted in.
THEOREM AcknowledgedRowsAreKeptOnce == Spec => []KeptOnce
  <1>1. LanceInv => KeptOnce
    BY InvAckedIsKept DEF KeptOnce, LanceInv
  <1> QED
    BY <1>1, Invariant, PTL

\* The lineage of a representative is there before it and for as long, whether
\* its write ends, fails or is lost.
THEOREM RepresentativesHaveLineage == Spec => []RepresentativesAreTraceable
  BY Invariant, InvTraceable, PTL

\* An acknowledged deletion leaves nothing of what ended before it came that it
\* names, nor what was derived from that.
THEOREM DeletionsAreComplete == Spec => []DeletedIsGone
  BY Invariant, InvDeletedIsGone, PTL

\* No step of a write or a deletion removes rows of another scope.
THEOREM TenantsAreApart == Spec => ScopesApart
  <1>1. LanceInv /\ [Next]_vars =>
           [\A r \in DOMAIN req : \A t \in Tables :
              /\ req'[r] # req[r]
              /\ req[r].pc \in {"purge", "erase"}
              => \A x \in disk[t].rows \ disk'[t].rows :
                    IF IsWrite(r) THEN \E row \in Writes(Call(r), t) : row.scope = x.scope
                    ELSE Call(r).scope \in {NoFilter, x.scope}]_vars
    BY NextSpares DEF Spares, Started
  <1> QED
    BY <1>1, Invariant, PTL DEF Spec, ScopesApart
=============================================================================
