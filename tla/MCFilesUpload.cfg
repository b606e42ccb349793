\* Uploads to an agent that reads a body to its end; the client may stall.
SPECIFICATION FairSpec
CONSTANTS
    Requests <- MCRequests
    MaxBytes = 4
    Eager = FALSE
INVARIANTS
    TypeOK
    OnlyAllowedForwarded
    FirstFileAllowed
    SuccessMeansWhole
    RejectionsTruthful
PROPERTIES
    UploadSpec
    PumpExits
    PumpWindsDown
    UploadAnswered
CHECK_DEADLOCK FALSE
