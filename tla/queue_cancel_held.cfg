SPECIFICATION FairSpec
CONSTANTS
    j1 = j1
    j2 = j2
    j3 = j3
    s1 = s1
    w1 = w1
    w2 = w2
    Jobs = {j1}
    Workers = {w1}
    Scans = {s1}
    NoWorker = NoWorker
    NoScan = NoScan
    NoJob = NoJob
    ScanOf <- OneScan
    DependsOn <- NoDependency
    ScanJobs = {}
    ChildJobs = {}
    EffectJobs = {j1}
    HeldScans = {s1}
    MaxRetries = 1
    MaxConcurrency = 1
    MaxEnds = 0

CHECK_DEADLOCK FALSE
PROPERTIES
    CancelledJobSettles
