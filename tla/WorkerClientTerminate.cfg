CONSTANTS
    Requests = {r1, r2, r3}
    None = None
    MaxChunks = 1
    MayCrash = FALSE
SPECIFICATION FairSpec
PROPERTY TerminateRejects
CHECK_DEADLOCK FALSE
