SPECIFICATION Spec
CONSTANTS
    Jobs = {j1, j2}
    LocalJobs = {j1}
    UploadJobs = {}
    Nobody = Nobody
CHECK_DEADLOCK FALSE
PROPERTIES
    NoDeletionUnderWork
