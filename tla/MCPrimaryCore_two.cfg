SPECIFICATION CalmSpec
CONSTANTS
    Authority = {"a", "b", "d"}
    Byzantine = {"d"}
    Weight <- TwoWeight
    Header <- TwoHeader
    author <- TwoAuthor
    round <- TwoRound
    parents <- TwoParents
    Genesis <- TwoGenesis
    gc_depth = 2
    StrayGenesis = {"d0"}
    WithPayload = {"a1"}
INVARIANTS
    TypeOK
    CausalDelivery
    QuorumOnce
    ProposalsValid
PROPERTY ProposalsDelivered
