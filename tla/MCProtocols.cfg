SPECIFICATION MCSpec
CONSTANTS
    Authority <- ShortfinFour
    Byzantine = {"d"}
    Node = {"a"}
    Weight <- ShortfinStake
    Header <- SilentHeader
    author <- SilentAuthor
    round <- SilentRound
    parents <- SilentParents
    Genesis <- ShortfinGenesis
    Certified <- SilentCertified
    qc <- SilentQc
    voter_round <- SilentVoterRound
    digest <- SilentDigest
    gc_depth = 3
    leader_of <- LeaderOf
CHECK_DEADLOCK FALSE
INVARIANTS
    UncertifiedOutputOnce
    AuthorOrder
    LeaderNotLost
    CertifiedChain
    MahiAgreement
    MahiNoPanic
    BullsharkProposals
