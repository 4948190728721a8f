SPECIFICATION USpec
CONSTANTS
    j1 = j1
    j2 = j2
    s1 = s1
    w1 = w1
    w2 = w2
    a1 = a1
    Jobs = {j1, j2}
    Workers = {w1}
    Scans = {s1}
    NoWorker = NoWorker
    NoScan = NoScan
    NoJob = NoJob
    ScanOf <- OneScan
    DependsOn <- NoDependency
    ScanJobs = {}
    ChildJobs = {}
    EffectJobs = {j1, j2}
    HeldScans = {s1}
    MaxRetries = 2
    MaxConcurrency = 1
    MaxEnds = 1
    Artifacts = {a1}
    ArtifactOf <- OneArtifact
CHECK_DEADLOCK FALSE
INVARIANTS
    UTypeOK
    AtMostOneWrite
    NeverRequeuedAfterSend
    CompletedUploadIsWritten
PROPERTIES
    KeepsPromise
