SPECIFICATION Spec
CONSTANTS
    Text <- MCText
    BufLen = 10
    Sent <- MCForm
    MaxRequests = 1
    BodyLen = 2
    JunkCap = 1
INVARIANTS
    RequestWhole
CHECK_DEADLOCK FALSE
