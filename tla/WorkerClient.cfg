\* Three calls: an init or a stream that is abandoned, a stream behind it, and
\* one more that waits.
CONSTANTS
    Requests = {r1, r2, r3}
    None = None
    MaxChunks = 2
    MayCrash = TRUE
SPECIFICATION FairSpec
INVARIANTS TypeOK OneAtATime OwnProof ChunksConserved DoneMeansComplete
PROPERTIES TakeTurns WaitingSettles
CHECK_DEADLOCK FALSE
