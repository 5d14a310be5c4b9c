SPECIFICATION LiveSpec
CONSTANTS
    Setups <- MCSetups
    ToolIds <- MCToolIds
    MaxMessages = 2
INVARIANTS
    TypeOK
    AnswerIsWholeTurn
PROPERTIES
    CancelEnds
