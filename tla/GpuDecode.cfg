SPECIFICATION Spec
CONSTANTS
    Setups <- MCSetups
    Prompt = 1
    Slack = 1
    MaxTokens = 4
INVARIANT TypeOK RecordedAreLive NothingIsLeft
PROPERTY ReadsAreSound
CHECK_DEADLOCK FALSE
