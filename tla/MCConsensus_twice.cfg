SPECIFICATION MCSpec
CONSTANTS
    m = m
    n = n
    Authority <- Four
    Byzantine = {"d"}
    Node = {m}
    Weight <- EqualStake
    Header <- LaggingHeader
    author <- LaggingAuthor
    round <- LaggingRound
    parents <- LaggingParents
    Genesis <- FourGenesis
    gc_depth = 50
    leader_of <- LeaderOf
    CommonCoin = FALSE
    MaxLate = 1
INVARIANTS
    NoDoubleCommit
