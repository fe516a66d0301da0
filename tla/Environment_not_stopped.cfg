SPECIFICATION Spec
CONSTANTS
    m1 = m1
    m2 = m2
    m3 = m3
    o1 = o1
    w1 = w1
    w2 = w2
    w3 = w3
    Periodic <- OneModule
    OnceOnly <- None
    Rank <- RankOf
    QueueSize = 4
    SizeIsText = FALSE
    Unreadable <- None
    MayRaise <- None
    WorkerIds <- TwoWorkers
    MaxSetups = 1
    MaxFullScans = 0
INVARIANT NoCollectorDuringSetup
CHECK_DEADLOCK FALSE
