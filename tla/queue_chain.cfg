SPECIFICATION FairSpec
CONSTANTS
    j1 = j1
    j2 = j2
    j3 = j3
    s1 = s1
    w1 = w1
    w2 = w2
    Jobs = {j1, j2, j3}
    Workers = {w1}
    Scans = {s1}
    NoWorker = NoWorker
    NoScan = NoScan
    NoJob = NoJob
    ScanOf <- ScanOfSecond
    DependsOn <- Chain
    ScanJobs = {j2}
    ChildJobs = {j2, j3}
    EffectJobs = {j1}
    HeldScans = {}
    MaxRetries = 1
    MaxConcurrency = 1
    MaxEnds = 2
CHECK_DEADLOCK FALSE
INVARIANTS
    DependencyOrder
    TypeOK
PROPERTIES
    EveryJobSettles
