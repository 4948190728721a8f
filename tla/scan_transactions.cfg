SPECIFICATION Spec
CONSTANTS
    Jobs = {j1, j2, j3}
    LocalJobs = {j1}
    UploadJobs = {j3}
    Nobody = Nobody
CHECK_DEADLOCK FALSE
INVARIANTS
    LocksAreSound
    RacesAreDecided
    LastAckCleansUp
PROPERTIES
    ImplementsAtomic
