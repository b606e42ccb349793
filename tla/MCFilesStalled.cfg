\* A stalled client is not told of the timeout.
SPECIFICATION FairSpec
CONSTANTS
    Requests <- MCRequests
    MaxBytes = 4
    Eager = FALSE
PROPERTY TimeoutAnswers
CHECK_DEADLOCK FALSE
