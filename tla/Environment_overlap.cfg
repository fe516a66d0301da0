SPECIFICATION Spec
CONSTANTS
    m1 = m1
    m2 = m2
    m3 = m3
    o1 = o1
    w1 = w1
    w2 = w2
    w3 = w3
    Periodic <- OneModule
    OnceOnly <- None
    Rank <- RankOf
    QueueSize = 3
    SizeIsText = FALSE
    Unreadable <- OneModule
    MayRaise <- OneModule
    WorkerIds <- TwoWorkers
    MaxSetups = 2
    MaxFullScans = 1
INVARIANT OneSetupAtATime
INVARIANT CrashedSetupBlocks
INVARIANT MeltedOnlyByAnother
CHECK_DEADLOCK FALSE
