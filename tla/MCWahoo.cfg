SPECIFICATION MCSpec
CONSTANTS
    Authority <- Four
    Byzantine = {"d"}
    Weight <- Stake
    Block = {"h", "k"}
    Origin = {"a", "d"}
    MaxRound = 4
    Coin <- Leaders
    Part = {"broadcast", "node"}
    Scenario <- Scenarios
CHECK_DEADLOCK FALSE
INVARIANTS
    SlotAgreement
    OutputWhole
    LinkedLeaderKept
    NobodyStalls
PROPERTY
    BlockDelivered
