SPECIFICATION ToolSpec
CONSTANTS
    Programs <- MCPrograms
    Tokens <- MCTokens
    MaxTokens = 3
    MapOf <- MCMapOf
    Existing <- MCExisting
INVARIANTS
    AcceptedIffWellFormed
    ValuesAsTyped
    ReaderWhereBoardAnswers
CHECK_DEADLOCK FALSE
