SPECIFICATION FairSpec
CONSTANTS
    MaxSize = 2
    MaxFiles = 2
    LineSizes = {1, 2}
    MaxFaults = 2
    NoLine = NoLine
    Threads = {main, l1, l2}
    Main = main
    QueueSize = 2
    MaxLines = 4
    Terminate = Terminate
INVARIANTS
    TypeOK
    NoLostWakeup
    FilesInOrder
    FilesBounded
PROPERTIES
    KeeperSpec
    LinesHandled
    LogReturns
    DtorReturns
