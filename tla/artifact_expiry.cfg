SPECIFICATION FairSpec
CONSTANTS
    a1 = a1
    a2 = a2
    k1 = k1
    k2 = k2
    c1 = c1
    Nobody = Nobody
    Attempts = {a1}
    Jobs = {k1}
    JobMaps <- OneJobOrNone
    Cleaners = {c1}
    MaxFaults = 0
CHECK_DEADLOCK FALSE
PROPERTIES
    ExpiredArtifactGoes
