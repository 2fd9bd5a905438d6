CONSTANTS
    b1 = b1
    b2 = b2
    b3 = b3
    Blocks = {b1, b2, b3}
    MaxBlocks = 2
    MaxBytes = 2
    Weight <- MCWeight
    Times = {1, 2, 3}
SPECIFICATION LoopSpec
INVARIANT ReturnsAPlan
PROPERTY Returns
CHECK_DEADLOCK FALSE
