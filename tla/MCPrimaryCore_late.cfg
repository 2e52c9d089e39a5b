SPECIFICATION LateSpec
CONSTANTS
    Authority = {"a", "b", "d"}
    Byzantine = {"d"}
    Weight <- TwoWeight
    Header <- LateHeader
    author <- LateAuthor
    round <- LateRound
    parents <- LateParents
    Genesis <- TwoGenesis
    gc_depth = 0
    StrayGenesis = {"b0", "d0"}
    WithPayload = {"d1x"}
INVARIANTS
    OneCertificatePerSlot
    CertifiedDataAvailable
    NoPanic
    OneProposalPerRound
    Inv
PROPERTY ImplementsCertifiedDag
CHECK_DEADLOCK FALSE
