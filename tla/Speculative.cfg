CONSTANTS
    Tokens <- MCTokens
    Zero = 0
    Stop = 3
    Words = {1, 2}
    Seeds = {1, 2, 3}
    Best <- MCBest
    Setups <- MCSetups
    Blank <- MCBlank
    Window = 3
    MinRate = 30
    Prompts <- MCPrompts
    Limits = {1, 4, 6}
SPECIFICATION Spec
INVARIANTS TypeOK CachesFollow ShownIsAnswer
PROPERTIES AnswerIsTargets
