SPECIFICATION LSpec
CONSTANTS
    j1 = j1
    j2 = j2
    s1 = s1
    w1 = w1
    w2 = w2
    Jobs = {j1, j2}
    Workers = {w1}
    Scans = {s1}
    NoWorker = NoWorker
    NoScan = NoScan
    NoJob = NoJob
    ScanOf <- OneScan
    DependsOn <- NoDependency
    ScanJobs = {j1}
    ChildJobs = {j1}
    EffectJobs = {j2}
    HeldScans = {}
    MaxRetries = 1
    MaxConcurrency = 2
    MaxEnds = 1
CHECK_DEADLOCK FALSE
INVARIANTS
    NoDeletionUnderChild
    CompletedJobHasScan
    FencedScanIdle
PROPERTIES
    ImplementsQueue
    AckAfterChildDeath
    VerdictsStand
