SPECIFICATION FairSpec
CONSTANTS
    a1 = a1
    a2 = a2
    k1 = k1
    k2 = k2
    c1 = c1
    c2 = c2
    Nobody = Nobody
    Attempts = {a1, a2}
    Jobs = {k1, k2}
    JobMaps <- AllJobMaps
    Cleaners = {c1, c2}
    MaxFaults = 2
CHECK_DEADLOCK FALSE
INVARIANTS
    ATypeOK
    OutputsAreServed
    FilesMatchRows
    ErasedLeavesNothing
PROPERTIES
    FenceOnlyShrinks
    AbandonedStagingGoes
