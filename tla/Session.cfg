CONSTANTS
    t1 = t1
    Turns = {t1, t2}
    Docs = {d1}
    Clears = {c1}
    Deletes = {x1}
    Fallible <- MCFallible
    MaxPresses = 3
    None = None
SPECIFICATION FairSpec
INVARIANTS TypeOK QueueKeepsCount ClearForgets AnswerFollowsQuestion
PROPERTIES ClearEnds TurnEnds
CHECK_DEADLOCK FALSE
