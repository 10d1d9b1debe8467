SPECIFICATION FairSpec
CONSTANTS
    Tasks = {k1, k2, k3}
    Threads = {w1, w2, w3}
    IdleNum = 3
    MaxNum = 2
    Dynamic = TRUE
    QueueBusyNum = 1
    QueueIdleNum = 1
    ThreadStatusTimes = 2
    NoTask = NoTask
INVARIANTS
    TypeOK
    NoLostWakeup
    WorkersBounded
PROPERTIES
    StopIsFinal
    PoolSpec
    EveryTaskRuns
    DtorReturns
CHECK_DEADLOCK FALSE
