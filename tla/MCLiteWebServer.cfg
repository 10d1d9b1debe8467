SPECIFICATION Spec
CONSTANTS
    NThread = 2
    PoolMaxNum = 2
    Fds = {f1, f2, f3}
    CmdPipeCap = 2
    CmdBuffLen = 2
    EpollMaxEvents = 2
    EpollEtSrv = FALSE
    Backlog = 2
    MaxConnect = 3
    MaxSignals = 2
    NoFd = NoFd
SYMMETRY Symmetry
INVARIANTS
    TypeOK
    OneOwner
    TablesAgree
    NoSilentConn
    NoLostHandoff
    NoLostEdge
    StopReaches
PROPERTIES
    LifecycleSpec
CHECK_DEADLOCK FALSE
