SPECIFICATION FairSpec
CONSTANTS
    r1 = r1
    r2 = r2
    h1 = h1
    h2 = h2
    Nobody = Nobody
    Requests = {r1, r2}
    Handlers = {h1, h2}
    MaxAttempts = 2
    MaxFaults = 2
CHECK_DEADLOCK FALSE
INVARIANTS
    WritebackConsistent
PROPERTIES
    ResolutionStands
    
