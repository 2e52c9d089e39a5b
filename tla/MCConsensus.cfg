SPECIFICATION MCSpec
CONSTANTS
    m = m
    n = n
    Authority <- Four
    Byzantine = {"d"}
    Node <- Two
    Weight <- EqualStake
    Header <- SkippedHeader
    author <- SkippedAuthor
    round <- SkippedRound
    parents <- SkippedParents
    Genesis <- FourGenesis
    gc_depth = 2
    leader_of <- LeaderOf
    CommonCoin = TRUE
    MaxLate = 0
SYMMETRY Symmetry
INVARIANTS
    LeaderAgreement
    LeadersKept
    SequenceAgreement
    OutputOnce
    WholeHistory
