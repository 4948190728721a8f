SPECIFICATION LFairSpec
CONSTANTS
    j1 = j1
    j2 = j2
    s1 = s1
    w1 = w1
    w2 = w2
    Jobs = {j1}
    Workers = {w1, w2}
    Scans = {s1}
    NoWorker = NoWorker
    NoScan = NoScan
    NoJob = NoJob
    ScanOf <- OneScan
    DependsOn <- NoDependency
    ScanJobs = {j1}
    ChildJobs = {j1}
    EffectJobs = {}
    HeldScans = {}
    MaxRetries = 2
    MaxConcurrency = 1
    MaxEnds = 1
CHECK_DEADLOCK FALSE
INVARIANTS
    LTypeOK
    OneLiveChild
    ClaimsAreSound
PROPERTIES
    QueueFences
    CancelledScanGoes
    ScanSettles
