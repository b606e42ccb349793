\* A heartbeat splits an event of two lines.
SPECIFICATION Spec
CONSTANTS
    Kinds <- MCPlainKinds
    EventLines = 2
    PartialLines = FALSE
    MaxLines = 3
    MaxBeats = 1
INVARIANT EventsUnbroken
CHECK_DEADLOCK FALSE
