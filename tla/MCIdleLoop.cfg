SPECIFICATION Spec
CONSTANTS
    Conns = {c1, c2, c3}
    Cmd = Cmd
    Timeout = 3
    PollTimeout = 1
    MaxEvents = 2
    MaxHandle = 1
    BufferSize = 1
    MaxSent = 1
    MaxTurns = 4
    Counted = {c1}
    Failing = {c1}
    NoTimer = NoTimer
INVARIANTS
    ClosedInTime
    NoBusyLoop
PROPERTIES
    ReadyNotExpired
SYMMETRY ConnSymmetry
