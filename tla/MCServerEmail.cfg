\* An email header set to the empty name is read under its default name.
SPECIFICATION Spec
CONSTANTS
    c1 = c1
    c2 = c2
    Conn <- MCConn
    Environments <- MCEnvironments
    ContentTypes <- MCContentTypes
    MaxInt = 127
    Kilo = 4
    DefaultBytes = 100
    DefaultTimeout = 5
    None = None
INVARIANT EmptyDisablesEmail
CHECK_DEADLOCK FALSE
