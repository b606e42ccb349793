\* The relay on broken and unbroken streams, events of one or two lines.
SPECIFICATION FairSpec
CONSTANTS
    Kinds <- MCKinds
    EventLines = 2
    PartialLines = TRUE
    MaxLines = 4
    MaxBeats = 2
INVARIANTS
    TypeOK
    LinesInOrder
    NothingLost
    EventsNeverMerged
    BeatsAloneSplit
PROPERTIES
    FeedSpec
    HandlerReturns
    ReaderExits
CHECK_DEADLOCK FALSE
