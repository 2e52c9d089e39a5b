SPECIFICATION FairStoreSpec
CONSTANTS
    Client = {c1, c2}
    Key = {k1, k2}
    Value = {v1, v2}
    None = None
    ChannelCapacity = 2
    MaxCalls = 3
CHECK_DEADLOCK FALSE
PROPERTIES
    ImplementsAtomicStore
    CallsAnswered
