\* The process from start to exit, in good and bad environments.
SPECIFICATION FairSpec
CONSTANTS
    c1 = c1
    c2 = c2
    Conn <- MCConn
    Environments <- MCEnvironments
    ContentTypes <- MCContentTypes
    MaxInt = 127
    Kilo = 4
    DefaultBytes = 100
    DefaultTimeout = 5
    None = None
INVARIANTS
    TypeOK
    ConfigEnforced
    CapAsWritten
    AllowlistMatches
    DrainComplete
    CutOnlyAtDeadline
    LogTruthful
PROPERTY ShutdownEnds
CHECK_DEADLOCK FALSE
