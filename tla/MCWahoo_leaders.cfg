SPECIFICATION MCSpec
CONSTANTS
    Authority <- Four
    Byzantine = {"d"}
    Weight <- Stake
    Block = {"h", "k"}
    Origin = {"a", "d"}
    MaxRound = 4
    Coin <- Leaders
    Part = {"node"}
    Scenario <- LeaderLate
CHECK_DEADLOCK FALSE
INVARIANT
    CommittedLeaderKept
