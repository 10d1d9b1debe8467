SPECIFICATION FairSpec
CONSTANTS
    NThread = 2
    PoolMaxNum = 2
    Fds = {f1}
    CmdPipeCap = 1
    CmdBuffLen = 1
    EpollMaxEvents = 2
    EpollEtSrv = FALSE
    Backlog = 2
    MaxConnect = 3
    MaxSignals = 2
    NoFd = NoFd
PROPERTIES
    ShutdownCompletes
CHECK_DEADLOCK FALSE
