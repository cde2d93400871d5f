\* Every spread of nine rows over two groups and a cluster.
SPECIFICATION Spec
CONSTANTS
    Sec = {"a", "f"}
    Underlying = {"x"}
    Order = {"o"}
    NoOrder = "none"
    Row <- MixedRows
    Unpriced = {6}
    Group <- Groups2
    NoGroup = NoGroup
    GroupTolerance = 5
    RollTolerance = 60
INVARIANTS
    NetIsLargestExcess
    DrawDownConserves
    NoLotStranded
    GroupsSumToAccount
    WalksAgree
    ContractsAndFeesOnce
    ProfitFollowsBook
    StuckGroupIsPaired
    LegsMatchBook
CHECK_DEADLOCK FALSE
