SPECIFICATION FairSpec
CONSTANTS
    Ids = {a, b}
    MaxTime = 2
    MaxCopies = 2
    NoTimer = NoTimer
INVARIANTS
    MapInQueue
    GetTopIsEarliest
PROPERTIES
    PassPurgesPast
    AbsSpec
    EventuallyReported
