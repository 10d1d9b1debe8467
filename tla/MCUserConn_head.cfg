SPECIFICATION Spec
CONSTANTS
    Text <- MCText
    BufLen = 10
    Sent <- MCFile
    MaxRequests = 1
    BodyLen = 2
    JunkCap = 1
INVARIANTS
    RemainNotNegative
CHECK_DEADLOCK FALSE
