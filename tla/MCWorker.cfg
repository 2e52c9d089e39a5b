SPECIFICATION MCSpec
CONSTANTS
    Authority = {"a", "b", "d"}
    Byzantine = {"d"}
    Weight <- ThreeWeight
    Maker = {"a"}
    Syncer = {"b"}
    ByzantineBatch <- OneBatch
    gc_depth = 2
    batch_size = 2
    size <- ThreeSizes
    MaxTransactions = 3
    MaxRound = 2
    MaxSync = 3
CHECK_DEADLOCK FALSE
INVARIANTS
    BatchAvailable
    TransactionsKept
    PendingIsWaitedFor
PROPERTIES
    TransactionsReported
    BatchFetched
