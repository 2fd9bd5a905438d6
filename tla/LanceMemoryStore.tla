-------------------------- MODULE LanceMemoryStore --------------------------
(***************************************************************************)
(* The memory server's store: requests of several clients on one LanceDB   *)
(* database, each a chain of awaited database operations between which the *)
(* others run.  A table is opened or created once and its promise cached   *)
(* for all.  Replacing a row is a delete and an add; a memory table whose  *)
(* vectors have another dimension is copied to a backup, dropped and made  *)
(* anew; a deletion cascades to the tables derived from memories.          *)
(*                                                                         *)
(* Reading, encoding and the addition of columns leave no trace in this    *)
(* state.  A database operation is atomic and may fail, and one on a table *)
(* dropped since it was opened fails.                                      *)
(***************************************************************************)
EXTENDS Naturals, Sequences, FiniteSets, SequencesExt

CONSTANTS
    Calls,        \* what clients ask
    Earlier,      \* the write that an earlier run of the server ended with
    MaxRequests, MaxInFlight,
    MaxFaults     \* failed operations and server crashes

ASSUME BoundsAreNaturals == MaxRequests \in Nat \ {0} /\ MaxInFlight \in Nat /\ MaxFaults \in Nat

Requests == 1..MaxRequests
NoFilter == "any"

\* Two of GAC_TABLE_NAMES, in its order.
GacTables == <<"memory_representative", "memory_lineage">>
Tables == {"memory"} \cup ToSet(GacTables)

VARIABLES
    disk,     \* per table: [on, gen, rows]; a dropped table's gen is not used again
    backups,  \* rows of the tables <name>_incompatible_<time>
    old,      \* the gen of the memory table whose vectors have another dimension
    cached,   \* tablePromise, gacTablePromises
    made,     \* how the createTable of a request for a table ended
    req,      \* requests, in the order of their arrival
    faults,
    alone     \* history: requests that saw their tables, and writers among them
              \* whose rows no other request had power over

vars == <<disk, backups, old, cached, made, req, faults, alone>>

-----------------------------------------------------------------------------
(* The calls.  A local client names a scope or none; the routes of a remote  *)
(* one put its own there.                                                    *)

CallOf(op, writes, session, tag) ==
    [op |-> op, writes |-> writes, scope |-> NoFilter, session |-> session, tag |-> tag]

Into(table, rows) == <<[table |-> table, rows |-> rows]>>

SameKey(x, y) == x.id = y.id /\ x.scope = y.scope

\* dedupeMemoryRows: of rows with one key the last.
Deduped(rows) ==
    FoldLeft(LAMBDA kept, row : Append(SelectSeq(kept, LAMBDA x : ~SameKey(x, row)), row), <<>>, rows)

Upsert(rows) == CallOf("write", Into("memory", Deduped(rows)), NoFilter, NoFilter)

\* assertRepresentativeLineage admits only what has lineage.
WriteRepresentatives(rows, lineage) ==
    CallOf("write", Into("memory_lineage", lineage) \o Into("memory_representative", rows), NoFilter, NoFilter)

Delete(session, tag) == CallOf("delete", <<>>, session, tag)
Clear == CallOf("clear", <<>>, NoFilter, NoFilter)
RepairDatabase == CallOf("repair", <<>>, NoFilter, NoFilter)

\* scopedDeleteOptions; with neither session nor tag, scopedClearOptions.
Scoped(c, scope) == [c EXCEPT !.scope = scope]

RowType(from) ==
    [scope : STRING, session : STRING, id : STRING, tag : STRING, raw : STRING, rep : STRING, from : from]

CallType ==
    [op : {"write", "delete", "clear", "repair"},
     writes : Seq([table : Tables, rows : Seq(RowType({0}))]),
     scope : STRING, session : STRING, tag : STRING]

\* Every table of a chain has rows to write and comes once, memories are
\* deduped, and a representative follows its lineage.
WellFormed(c) ==
    LET table(i) == c.writes[i].table rows(i) == c.writes[i].rows
    IN /\ c \in CallType
       /\ c.op = "write" <=> c.writes # <<>>
       /\ \A i \in DOMAIN c.writes : rows(i) # <<>>
       /\ \A i, j \in DOMAIN c.writes : table(i) = table(j) => i = j
       /\ \A i \in DOMAIN c.writes : table(i) = "memory" =>
             \A k, l \in DOMAIN rows(i) : SameKey(rows(i)[k], rows(i)[l]) => k = l
       /\ \A i \in DOMAIN c.writes : table(i) = "memory_representative" =>
             \A x \in ToSet(rows(i)) : \E j \in 1..i - 1 :
                /\ table(j) = "memory_lineage"
                /\ \E y \in ToSet(rows(j)) : y.rep = x.id /\ y.scope = x.scope

ASSUME CallsAreWellFormed == \A c \in Calls \cup {Earlier} : WellFormed(c)
ASSUME EarlierIsUpsert == Len(Earlier.writes) = 1 /\ Earlier.writes[1].table = "memory"

-----------------------------------------------------------------------------
\* A promise of a table, or what became of one.
Unset == <<>>
Failed == <<"failed">>
TableOf(gen) == <<"table", gen>>
CreatedBy(r) == <<"createdBy", r>>

Settled(t) ==
    IF cached[t] # Unset /\ cached[t][1] = "createdBy" THEN made[cached[t][2]][t] ELSE cached[t]

\* Whether a handle still is the table.
Valid(t, handle) == disk[t].on /\ handle = TableOf(disk[t].gen)

Started == DOMAIN req
InFlight == {r \in Started : req[r].pc \notin {"done", "failed", "lost"}}

-----------------------------------------------------------------------------
(* What the calls say.                                                     *)

\* buildMemoryFilters, buildGacFilters.
Matches(row, c) ==
    /\ c.session \in {NoFilter, row.session}
    /\ c.scope \in {NoFilter, row.scope}

Tagged(row, c) == c.tag \in {NoFilter, row.tag}

\* deleteEntireScope.
EntireScope(c) == c.scope # NoFilter \/ c.session # NoFilter

Stamped(r, row) == [row EXCEPT !.from = r]

Writes(c, t) == UNION {ToSet(w.rows) : w \in {w \in ToSet(c.writes) : w.table = t}}

\* What may ever be in the memory table.
Memories == UNION {Writes(c, "memory") : c \in Calls \cup {Earlier}}

\* A deletion by tag names the memories by id that it finds tagged, and so a
\* row of that id with another tag: one in another scope, if the deletion has
\* none, or one that replaces the row it has found.
MayName(c, t, row) ==
    /\ Matches(row, c)
    /\ t = "memory" => \E m \in Memories : m.id = row.id /\ Matches(m, c) /\ Tagged(m, c)

\* Whether a request with call c can remove what one with call d writes.
Threatens(c, d, overlap) ==
    \E t \in Tables : \E row \in Writes(d, t) :
        \/ \E other \in Writes(c, t) : SameKey(row, other)
        \/ c.op = "delete" /\ MayName(c, t, row)
        \/ c.op = "clear" /\ t = "memory"
        \/ overlap /\ old # 0 /\ t = "memory" /\ (c.op = "repair" \/ Writes(c, "memory") # {})

-----------------------------------------------------------------------------
(* Where a request is: pc, and the step `at` of a chain of tables: those it *)
(* writes, or for a deletion the memory table, the first pass over the GAC  *)
(* tables and the second one.                                               *)

IsWrite(r) == req[r].call.op = "write"

Table(r) ==
    LET n == Len(GacTables) at == req[r].at
    IN CASE IsWrite(r) -> req[r].call.writes[at].table
         [] at = 0     -> "memory"
         [] OTHER      -> GacTables[((at - 1) % n) + 1]

Rows(r) == req[r].call.writes[req[r].at].rows

Goto(r, pc) == req' = [req EXCEPT ![r].pc = pc]

\* What remains of a request: what an acknowledged deletion found.
Ended(x, pc) ==
    IF pc = "done" /\ x.call.op = "delete" THEN [x EXCEPT !.pc = pc, !.handle = Unset, !.row = 1]
    ELSE [x EXCEPT !.pc = pc, !.handle = Unset, !.row = 1, !.found = {}, !.before = {},
                   !.seen = [i \in DOMAIN @ |-> {}]]

Finish(r) == req' = [req EXCEPT ![r] = Ended(@, "done")]
Fail(r) == req' = [req EXCEPT ![r] = Ended(@, "failed")]

\* The next table of the chain; the answer after the last.
LastOf(r) == IF IsWrite(r) THEN Len(req[r].call.writes) ELSE 2 * Len(GacTables)

NextTable(r) ==
    IF req[r].at = LastOf(r) THEN Finish(r)
    ELSE req' = [req EXCEPT ![r].at = @ + 1, ![r].pc = "look", ![r].row = 1]

Arrived(c, pc) ==
    [call |-> c, handle |-> Unset, row |-> 1, found |-> {},
     at |-> IF c.op = "write" THEN 1 ELSE 0,
     seen |-> [i \in 1..Len(GacTables) |-> {}],
     before |-> {r \in Started : req[r].pc = "done" /\ c.op = "delete"},
     pc |-> pc]

Start ==
    /\ Len(req) < MaxRequests
    /\ Cardinality(InFlight) < MaxInFlight
    /\ \E c \in Calls :
          /\ req' = Append(req, Arrived(c, CASE c.op = "clear"  -> "drop"
                                             [] c.op = "repair" -> "open"
                                             [] OTHER           -> "look"))
          /\ LET r == Len(req) + 1
             IN alone' = {a \in alone : ~Threatens(c, req[a].call, a \in InFlight)}
                          \cup IF \E q \in InFlight : Threatens(req[q].call, c, TRUE) THEN {} ELSE {r}
    /\ UNCHANGED <<disk, backups, old, cached, made, faults>>

-----------------------------------------------------------------------------
(* openTableIfExists and openGacTableIfExists.                             *)

\* What a request does with the table it has.
UseOf(r, handle) ==
    CASE IsWrite(r) -> IF Table(r) = "memory" /\ handle = TableOf(old) THEN "read" ELSE "purge"
      [] ~IsWrite(r) /\ req[r].at = 0 -> "list"
      [] ~IsWrite(r) /\ req[r].at \in 1..Len(GacTables) -> "query"
      [] OTHER -> "erase"

Opened(r, handle) == req' = [req EXCEPT ![r] = [@ EXCEPT !.handle = handle, !.pc = UseOf(r, handle)]]

\* Mutant: a table that could not be made is passed over.
LookPastFailed(r) ==
    /\ req[r].pc = "look"
    /\ cached[Table(r)] # Unset
    /\ Settled(Table(r)) # Unset
    /\ IF Settled(Table(r)) = Failed THEN NextTable(r) ELSE Opened(r, Settled(Table(r)))
    /\ UNCHANGED <<disk, backups, old, cached, made, faults, alone>>

\* Another request may already have the table or be creating it.
Look(r) ==
    /\ req[r].pc = "look"
    /\ cached[Table(r)] # Unset
    /\ Settled(Table(r)) # Unset
    /\ IF Settled(Table(r)) = Failed THEN Fail(r) ELSE Opened(r, Settled(Table(r)))
    /\ UNCHANGED <<disk, backups, old, cached, made, faults, alone>>

\* Else the database is asked, and the code goes on with its answer later.
\* repairMemoryTable always asks.
MustAsk(r) == req[r].pc = "open" \/ (req[r].pc = "look" /\ cached[Table(r)] = Unset)

Open(r) ==
    /\ MustAsk(r)
    /\ req' = [req EXCEPT ![r].handle = IF disk[Table(r)].on THEN TableOf(disk[Table(r)].gen) ELSE Unset,
                          ![r].pc = IF @ = "open" THEN "repair" ELSE "found"]
    /\ UNCHANGED <<disk, backups, old, cached, made, faults, alone>>

\* A missing GAC table also clears what another request may have cached since.
CacheAfter(r) ==
    IF req[r].handle # Unset THEN [cached EXCEPT ![Table(r)] = req[r].handle]
    ELSE IF IsWrite(r) THEN [cached EXCEPT ![Table(r)] = CreatedBy(r)]
    ELSE IF Table(r) # "memory" THEN [cached EXCEPT ![Table(r)] = Unset]
    ELSE cached

\* With no table a writer calls createTable at once, and a deletion goes on to
\* the next one.
Found(r) ==
    /\ req[r].pc = "found"
    /\ cached' = CacheAfter(r)
    /\ IF req[r].handle # Unset THEN Opened(r, req[r].handle)
       ELSE IF IsWrite(r) THEN Goto(r, "create")
       ELSE NextTable(r)
    /\ UNCHANGED <<disk, backups, old, made, faults, alone>>

-----------------------------------------------------------------------------
(* Writing: ensureTable, recreateMemoryTable, deleteExisting...Rows, add.  *)

\* createTable is given the rows, and fails where the table exists.  Its
\* promise stays cached in either case.
Create(r) ==
    /\ req[r].pc = "create"
    /\ LET t == Table(r)
           fresh == [on |-> TRUE, gen |-> disk[t].gen + 1, rows |-> {Stamped(r, row) : row \in ToSet(Rows(r))}]
       IN IF disk[t].on
          THEN made' = [made EXCEPT ![r][t] = Failed] /\ Fail(r) /\ UNCHANGED disk
          ELSE /\ made' = [made EXCEPT ![r][t] = TableOf(fresh.gen)]
               /\ disk' = [disk EXCEPT ![t] = fresh]
               /\ NextTable(r)
    /\ UNCHANGED <<backups, old, cached, faults, alone>>

\* Mutant: a dropped table takes part in what comes after it.
OnAny(r, op) == op

\* An operation on the table of the handle.
On(r, op) == IF Valid(Table(r), req[r].handle) THEN op ELSE Fail(r) /\ UNCHANGED disk

\* buildScopedMemoryIdPredicate, buildScopedGacIdPredicate.
Purged(rows, row) == {x \in rows : ~SameKey(x, row)}

\* Row by row.
Purge(r) ==
    /\ req[r].pc = "purge"
    /\ LET t == Table(r) i == req[r].row
       IN On(r, /\ disk' = [disk EXCEPT ![t].rows = Purged(@, Rows(r)[i])]
                /\ req' = [req EXCEPT ![r].row = i + 1, ![r].pc = IF i = Len(Rows(r)) THEN "add" ELSE "purge"])
    /\ UNCHANGED <<backups, old, cached, made, faults, alone>>

Add(r) ==
    /\ req[r].pc = "add"
    /\ On(r, /\ disk' = [disk EXCEPT ![Table(r)].rows = @ \cup {Stamped(r, row) : row \in ToSet(Rows(r))}]
             /\ NextTable(r))
    /\ UNCHANGED <<backups, old, cached, made, faults, alone>>

\* repairMemoryTable.
Repair(r) ==
    /\ req[r].pc = "repair"
    /\ IF req[r].handle # Unset /\ req[r].handle = TableOf(old) THEN Goto(r, "read") ELSE Finish(r)
    /\ UNCHANGED <<disk, backups, old, cached, made, faults, alone>>

\* The rows to keep are those of the table cached by now, if any; a repair has
\* its own.
Read(r) ==
    /\ req[r].pc = "read"
    /\ LET handle == IF IsWrite(r) THEN Settled("memory") ELSE req[r].handle
       IN CASE IsWrite(r) /\ cached["memory"] = Unset -> Goto(r, "drop")
            [] handle = Failed -> Fail(r)
            [] Valid("memory", handle) ->
                  req' = [req EXCEPT ![r].found = disk["memory"].rows,
                                     ![r].pc = IF disk["memory"].rows = {} THEN "drop" ELSE "backup"]
            [] OTHER -> handle # Unset /\ Fail(r)
    /\ UNCHANGED <<disk, backups, old, cached, made, faults, alone>>

\* Mutant: the rows are dropped with their table.
BackupNothing(r) == backups

BackedUp(r) == backups \cup req[r].found

Backup(r) ==
    /\ req[r].pc = "backup"
    /\ backups' = BackedUp(r)
    /\ Goto(r, "drop")
    /\ UNCHANGED <<disk, old, cached, made, faults, alone>>

\* clear() swallows the error of a missing table, recreateMemoryTable does not.
Drop(r) ==
    /\ req[r].pc = "drop"
    /\ IF disk["memory"].on \/ req[r].call.op = "clear"
       THEN disk' = [disk EXCEPT !["memory"].on = FALSE, !["memory"].rows = {}] /\ Goto(r, "dropped")
       ELSE Fail(r) /\ UNCHANGED disk
    /\ UNCHANGED <<backups, old, cached, made, faults, alone>>

Dropped(r) ==
    /\ req[r].pc = "dropped"
    /\ cached' = [cached EXCEPT !["memory"] = IF IsWrite(r) THEN CreatedBy(r) ELSE Unset]
    /\ IF IsWrite(r) THEN Goto(r, "create") ELSE Finish(r)
    /\ UNCHANGED <<disk, backups, old, made, faults, alone>>

-----------------------------------------------------------------------------
(* deleteMemory and deleteGacRecordsForMemoryDelete.                       *)

Call(r) == req[r].call

\* A deletion by tag that finds nothing ends at once; one without a tag first
\* asks how many rows there are.
List(r) ==
    /\ req[r].pc = "list"
    /\ LET rows == {x \in disk["memory"].rows : Matches(x, Call(r)) /\ Tagged(x, Call(r))}
       IN IF ~Valid("memory", req[r].handle) THEN Fail(r)
          ELSE IF rows = {} /\ Call(r).tag # NoFilter THEN Finish(r)
          ELSE req' = [req EXCEPT ![r].found = rows,
                                  ![r].pc = IF Call(r).tag = NoFilter THEN "count" ELSE "erase"]
    /\ UNCHANGED <<disk, backups, old, cached, made, faults, alone>>

Count(r) ==
    /\ req[r].pc = "count"
    /\ IF ~Valid("memory", req[r].handle) THEN Fail(r)
       ELSE IF \E x \in disk["memory"].rows : Matches(x, Call(r)) THEN Goto(r, "erase")
       ELSE NextTable(r)
    /\ UNCHANGED <<disk, backups, old, cached, made, faults, alone>>

Query(r) ==
    /\ req[r].pc = "query"
    /\ LET rows == {x \in disk[Table(r)].rows : Matches(x, Call(r))}
       IN req' = [req EXCEPT ![r].seen[req[r].at] = rows, ![r].at = @ + 1, ![r].pc = "look"]
    /\ UNCHANGED <<disk, backups, old, cached, made, faults, alone>>

\* gacRowReferencesRawMemory, and the representatives of such rows.
RawIds(r) == {x.id : x \in req[r].found}
RefersToRaw(r, x) == x.raw \in RawIds(r) \/ x.id \in RawIds(r)
Representatives(r) ==
    {x.rep : x \in {x \in UNION ToSet(req[r].seen) : EntireScope(Call(r)) \/ RefersToRaw(r, x)}} \ {""}

\* Mutant: what was derived from a memory stays.
OnlyRaw(r, x) == EntireScope(Call(r)) \/ RefersToRaw(r, x)

\* What the second pass deletes of the rows that the first pass saw.
Derived(r, x) ==
    \/ EntireScope(Call(r))
    \/ RefersToRaw(r, x)
    \/ x.rep \in Representatives(r) \/ x.id \in Representatives(r)

\* Mutant: the rows of a deletion by tag are named by id alone.
ErasedById(r, x) ==
    LET c == Call(r) at == req[r].at
    IN IF at > 0 THEN \E y \in req[r].seen[at - Len(GacTables)] : y.id = x.id /\ Derived(r, y)
       ELSE IF c.tag # NoFilter THEN x.id \in RawIds(r)
       ELSE Matches(x, c)

\* The predicates: the filters, and for a deletion by tag or in a GAC table the
\* ids found before.
Erased(r, x) ==
    LET c == Call(r) at == req[r].at
    IN /\ Matches(x, c)
       /\ at = 0 /\ c.tag # NoFilter => x.id \in RawIds(r)
       /\ at > 0 => \E y \in req[r].seen[at - Len(GacTables)] : y.id = x.id /\ Derived(r, y)

Erase(r) ==
    /\ req[r].pc = "erase"
    /\ On(r, /\ disk' = [disk EXCEPT ![Table(r)].rows = {x \in @ : ~Erased(r, x)}]
             /\ NextTable(r))
    /\ UNCHANGED <<backups, old, cached, made, faults, alone>>

-----------------------------------------------------------------------------
(* Failures.                                                               *)

\* A table that cannot be opened is taken to be missing (so a deletion answers
\* that there was nothing to delete) and clear() goes on; any other failed
\* operation ends the request, and a failed createTable stays cached.
Fault(r) ==
    /\ faults < MaxFaults
    /\ faults' = faults + 1
    /\ made' = IF req[r].pc = "create" THEN [made EXCEPT ![r][Table(r)] = Failed] ELSE made
    /\ \/ /\ req[r].pc = "look" /\ MustAsk(r)
          /\ req' = [req EXCEPT ![r].handle = Unset, ![r].pc = "found"]
          /\ alone' = alone \ {r}
       \/ /\ req[r].pc = "drop" /\ Call(r).op = "clear"
          /\ Goto(r, "dropped")
          /\ UNCHANGED alone
       \/ /\ req[r].pc \in {"open", "create", "purge", "add", "read", "backup", "drop",
                            "list", "count", "query", "erase"}
          /\ ~(req[r].pc = "drop" /\ Call(r).op = "clear")
          /\ Fail(r)
          /\ UNCHANGED alone
    /\ UNCHANGED <<disk, backups, old, cached>>

Restart ==
    /\ faults < MaxFaults
    /\ faults' = faults + 1
    /\ InFlight # {}
    /\ req' = [r \in Started |-> IF r \in InFlight THEN Ended(req[r], "lost") ELSE req[r]]
    /\ cached' = [t \in Tables |-> Unset]
    /\ UNCHANGED <<disk, backups, old, made, alone>>

-----------------------------------------------------------------------------
\* The memory table may be that of an earlier run, perhaps one configured with
\* another embedding model; the GAC tables are new.
Init ==
    /\ \E table \in {"none", "ours", "old"} :
          /\ old = IF table = "old" THEN 1 ELSE 0
          /\ req = <<[call |-> Earlier, handle |-> Unset, row |-> 1, found |-> {}, at |-> 1,
                      seen |-> [i \in 1..Len(GacTables) |-> {}], before |-> {},
                      pc |-> IF table = "none" THEN "lost" ELSE "done"]>>
          /\ disk = [t \in Tables |->
                        IF t = "memory" /\ table # "none"
                        THEN [on |-> TRUE, gen |-> 1, rows |-> {Stamped(1, row) : row \in Writes(Earlier, t)}]
                        ELSE [on |-> FALSE, gen |-> 0, rows |-> {}]]
    /\ backups = {}
    /\ cached = [t \in Tables |-> Unset]
    /\ made = [r \in Requests |-> [t \in Tables |-> Unset]]
    /\ faults = 0
    /\ alone = {1}

Step(r) ==
    \/ Look(r) \/ Open(r) \/ Found(r)
    \/ Create(r) \/ Purge(r) \/ Add(r)
    \/ Repair(r) \/ Read(r) \/ Backup(r) \/ Drop(r) \/ Dropped(r)
    \/ List(r) \/ Count(r) \/ Query(r) \/ Erase(r)
    \/ Fault(r)

Next == Start \/ (\E r \in Started : Step(r)) \/ Restart

Spec == Init /\ [][Next]_vars

-----------------------------------------------------------------------------
(* Properties.                                                             *)

TypeOK ==
    /\ \A t \in Tables : disk[t].on \in BOOLEAN /\ disk[t].gen \in 0..MaxRequests
    /\ \A t \in Tables : disk[t].rows # {} => disk[t].on
    /\ \A t \in Tables : cached[t] \in {Unset} \cup {TableOf(g) : g \in 1..disk[t].gen}
                                        \cup {CreatedBy(r) : r \in Started}
    /\ faults \in 0..MaxFaults
    /\ alone \subseteq Started

\* An acknowledged write is in its table, or in a backup, for as long as no
\* other request that may remove its rows runs: not a failed or interrupted
\* request, not one for another tenant's rows of the same id, not a change of
\* the embedding dimension.
AckedIsKept ==
    \A r \in alone : req[r].pc = "done" =>
        \A t \in Tables : \A row \in Writes(Call(r), t) :
            Stamped(r, row) \in disk[t].rows \cup backups

\* A write that no other overlapped on its rows leaves one row per id and
\* scope, whatever writes of the same rows came before it and however they
\* ended.  Only upsert makes sure that it does not name one twice itself.
NoDuplicates ==
    \A t \in Tables : \A x, y \in disk[t].rows :
        x.from \in alone /\ SameKey(x, y) => x = y \/ (t # "memory" /\ x.from = y.from)

\* What upsert promises: an acknowledged row is there, once.
KeptOnce == AckedIsKept /\ NoDuplicates

\* A representative is in its table only after the lineage that the model may
\* ask for, also when the server dies between the two.
RepresentativesAreTraceable ==
    \A x \in disk["memory_representative"].rows :
        x.from \in alone => \E y \in disk["memory_lineage"].rows : y.rep = x.id /\ y.scope = x.scope

\* After an acknowledged deletion nothing that it names and that was written
\* before it is in the memory table, and nothing derived from it in the others,
\* whatever requests run beside it.
DeletedIsGone ==
    \A q \in alone : Call(q).op = "delete" /\ req[q].pc = "done" =>
        \A t \in Tables : \A x \in disk[t].rows :
            ~ /\ x.from \in req[q].before
              /\ Matches(x, Call(q))
              /\ IF t = "memory" THEN Tagged(x, Call(q))
                 ELSE x.raw \in RawIds(q) \/ x.rep \in Representatives(q) \ {""}

\* A request of one tenant and cell removes no row of another.  Only dropping
\* the table does, with what has been backed up.
ScopesApart ==
    [][\A r \in DOMAIN req : \A t \in Tables :
          /\ req'[r] # req[r]
          /\ req[r].pc \in {"purge", "erase"}
          => \A x \in disk[t].rows \ disk'[t].rows :
                IF IsWrite(r) THEN \E row \in Writes(Call(r), t) : row.scope = x.scope
                ELSE Call(r).scope \in {NoFilter, x.scope}]_vars
=============================================================================
