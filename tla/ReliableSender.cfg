SPECIFICATION FairSpec
CONSTANTS
    MaxMessages = 3
    MaxStreams = 3
    Capacity = 2
CHECK_DEADLOCK FALSE
INVARIANTS
    ResolvedWasReceived
    NothingLost
    InOrder
    NoUnexpectedAck
PROPERTY
    EventuallyResolved
