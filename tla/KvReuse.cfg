CONSTANTS
    v1 = v1
    v2 = v2
    t1 = t1
    t2 = t2
    t3 = t3
    Versions <- MCVersions
    Tokens = {t1, t2, t3}
    Prompts <- MCPrompts
    NewTokens = {t3}
    Layers = {0, 1}
    BlockSize = 1
    Hash <- Len
    MaxFed = 3
SYMMETRY Symmetry
SPECIFICATION Spec
INVARIANTS TypeOK BlocksAreTrue ReuseIsExact
