SPECIFICATION Spec
CONSTANTS
    Text <- MCText
    BufLen = 10
    Sent <- MCSent
    MaxRequests = 3
    BodyLen = 2
    JunkCap = 1
INVARIANTS
    TypeOK
    OneOpenFile
    FirstRequestWhole
    SplitIndependent
PROPERTIES
    ExchangeSpec
    WholePieceUnderstood
CHECK_DEADLOCK FALSE
