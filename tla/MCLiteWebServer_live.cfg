SPECIFICATION FairSpec
CONSTANTS
    NThread = 2
    PoolMaxNum = 2
    Fds = {f1, f2}
    CmdPipeCap = 1
    CmdBuffLen = 1
    EpollMaxEvents = 2
    EpollEtSrv = FALSE
    Backlog = 1
    MaxConnect = 3
    MaxSignals = 1
    NoFd = NoFd
PROPERTIES
    HandoffServed
    ShutdownCompletes
    PendingAccepted
CHECK_DEADLOCK FALSE
