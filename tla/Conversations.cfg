CONSTANTS
    HeaderSize = 2
    QuerySize = 4
    MinQuery = 1
    MaxFrame = 4
    Messages <- MCMessages
    MaxSent = 3
    PairLists <- MCPairLists
    Seeds = {1, 3}
    MaxCalls = 2
    MaxLines = 3
SPECIFICATION MCSpec
CHECK_DEADLOCK FALSE
INVARIANTS
    ConversationsTypeOK
    AnswersInOrder
    
    CleanExitShowsOwnPrices
    LinesLagByTimeouts
PROPERTIES
    QueryAnswered
    CallEnds
