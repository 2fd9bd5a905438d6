CONSTANTS
    Calls <- MCCalls
    Earlier <- MCEarlier
    MaxRequests = 4
    MaxInFlight = 2
    MaxFaults = 1
SPECIFICATION Spec
INVARIANTS TypeOK KeptOnce RepresentativesAreTraceable DeletedIsGone
PROPERTIES ScopesApart
CHECK_DEADLOCK FALSE
