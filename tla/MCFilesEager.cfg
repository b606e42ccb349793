\* An agent that does not wait for the body's end accepts half an upload.
SPECIFICATION Spec
CONSTANTS
    Requests <- MCRequests
    MaxBytes = 4
    Eager = TRUE
INVARIANT SuccessMeansWhole
CHECK_DEADLOCK FALSE
