------------------------- MODULE MCLanceMemoryStore -------------------------
EXTENDS LanceMemoryStore

\* Memories m1 and m2 in one session with different tags; another tenant also
\* has an m1, with another tag.
Row(scope, id, tag, raw, rep) ==
    [scope |-> scope, session |-> "s", id |-> id, tag |-> tag, raw |-> raw, rep |-> rep, from |-> 0]

M1 == Row("a", "m1", "x", "", "")
M2 == Row("a", "m2", "y", "", "")
Theirs == Row("b", "m1", "y", "", "")

MCEarlier == Upsert(<<Theirs>>)

MCCalls ==
    {Upsert(<<Row("a", "m2", "x", "", ""), M1, M2>>),
     WriteRepresentatives(<<Row("a", "r1", "", "", "r1")>>, <<Row("a", "r1:m1", "", "m1", "r1")>>),
     Scoped(Delete(NoFilter, NoFilter), "a"), Scoped(Delete("s", "x"), "a"), Delete(NoFilter, "x"),
     Clear, RepairDatabase}
=============================================================================
