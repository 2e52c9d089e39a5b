SPECIFICATION SpecNear
CONSTANTS
    Authority <- ShortfinFour
    Byzantine = {"d"}
    Node = {"a", "c"}
    Weight <- ShortfinStake
    Header <- AnchorsHeader
    author <- AnchorsAuthor
    round <- AnchorsRound
    parents <- AnchorsParents
    Genesis <- ShortfinGenesis
    Certified <- AnchorsCertified
    qc <- AnchorsQc
    voter_round <- AnchorsVoterRound
    digest <- AnchorsDigest
    gc_depth = 3
    leader_of <- LeaderOf
CHECK_DEADLOCK FALSE
INVARIANTS
    SequenceAgreement
