SPECIFICATION FairSpec
CONSTANTS
    NThread = 2
    PoolMaxNum = 1
    Fds = {f1, f2}
    CmdPipeCap = 2
    CmdBuffLen = 1
    EpollMaxEvents = 2
    EpollEtSrv = FALSE
    Backlog = 2
    MaxConnect = 2
    MaxSignals = 1
    NoFd = NoFd
PROPERTIES
    HandoffServed
CHECK_DEADLOCK FALSE
