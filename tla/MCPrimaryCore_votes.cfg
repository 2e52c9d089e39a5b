SPECIFICATION Spec
CONSTANTS
    Authority = {"a", "d"}
    Byzantine = {"d"}
    Weight <- OneWeight
    Header <- OneHeader
    author <- OneAuthor
    round <- OneRound
    parents <- OneParents
    Genesis <- OneGenesis
    gc_depth = 0
    StrayGenesis = {}
    WithPayload = {"d1x"}
INVARIANT OneVotePerSlot
