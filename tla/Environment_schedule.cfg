SPECIFICATION FairSpec
CONSTANTS
    m1 = m1
    m2 = m2
    m3 = m3
    o1 = o1
    w1 = w1
    w2 = w2
    w3 = w3
    Periodic <- ThreeModules
    OnceOnly <- None
    Rank <- RankOf
    QueueSize = 3
    SizeIsText = FALSE
    Unreadable <- OneModule
    MayRaise <- OneModule
    WorkerIds <- ThreeWorkers
    MaxSetups = 0
    MaxFullScans = 0
INVARIANT TypeOK
INVARIANT OneWorkerPerModule
INVARIANT DeadCollectorEndsItsModule
PROPERTY EveryModuleKeepsRunning
CHECK_DEADLOCK FALSE
