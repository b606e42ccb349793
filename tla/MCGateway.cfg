\* The middleware and the handlers, in all modes.
SPECIFICATION FairSpec
CONSTANTS
    r1 = r1
    r2 = r2
    t1 = t1
    t2 = t2
    bad = bad
    u1 = u1
    u2 = u2
    Request <- MCRequest
    Bearer <- MCBearer
    sub <- MCsub
    User <- MCUser
    Configs <- MCConfigs
    Inbound <- MCInbound
    Spoofed = Spoofed
    Opaque = Opaque
    None = None
INVARIANTS
    TypeOK
    IdentityVouched
    BearerVouched
    FailsClosed
    TraceJoined
PROPERTIES
    
    RequestsEnd
    AccessSpec
CHECK_DEADLOCK FALSE
