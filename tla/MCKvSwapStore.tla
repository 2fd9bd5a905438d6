--------------------------- MODULE MCKvSwapStore ---------------------------
EXTENDS KvSwapStore, FiniteSetsExt
CONSTANTS b1, b2, b3

\* b2 is twice as long as the others, so the two quotas bite differently.
Bytes(b) == IF b = b2 THEN 2 ELSE 1
MCWeight == [S \in SUBSET {b1, b2, b3} |-> MapThenSumSet(Bytes, S)]
=============================================================================
