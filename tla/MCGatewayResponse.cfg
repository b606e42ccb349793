\* A response that has lost its end looks complete.
SPECIFICATION Spec
CONSTANTS
    r1 = r1
    r2 = r2
    t1 = t1
    t2 = t2
    bad = bad
    u1 = u1
    u2 = u2
    Request <- MCRequest
    Bearer <- MCBearer
    sub <- MCsub
    User <- MCUser
    Configs <- MCConfigs
    Inbound <- MCInbound
    Spoofed = Spoofed
    Opaque = Opaque
    None = None
INVARIANT FullResponse
CHECK_DEADLOCK FALSE
