\* An oversized line ends the stream without a trace.
SPECIFICATION Spec
CONSTANTS
    Kinds <- MCLongKinds
    EventLines = 1
    PartialLines = FALSE
    MaxLines = 4
    MaxBeats = 1
INVARIANT AllEventsRelayed
CHECK_DEADLOCK FALSE
