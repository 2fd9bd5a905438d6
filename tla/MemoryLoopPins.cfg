SPECIFICATION Spec
CONSTANTS
    p = p
    x = x
    y = y
    r = r
    j = j
    Message = message
    Memories <- MCMemories
    Cues <- MCCues
    Source <- MCSource
    Chars <- MCChars
    Jobs <- MCJobs
    Contents <- MCContents
    Stored <- MCStored
    Earlier <- MCEarlier
    Tagged <- MCTagged
    Scores <- MCScores
    Messages <- MCMessages
    Recents <- MCRecents
    MaxPrompt = 42
    MaxMemory = 24
    MaxRecent = 12
    SystemChars = 8
    HeaderChars = 4
    MaxBlocks = 2
    BlockSize = 8
    TopK = 1
    Window = 0
    SafeTokens = 11
    Limit = 2
    MaxTurns = 1
    MaxOthers = 1
INVARIANTS
    PinsBeforeRepresentatives
CHECK_DEADLOCK FALSE
