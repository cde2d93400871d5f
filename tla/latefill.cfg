\* A fill that reaches the ledger after its group was closed.
SPECIFICATION Spec
CONSTANTS
    Sec = {"a", "b", "c", "f"}
    Underlying = {"x"}
    Order = {"o1", "o2", "o3"}
    NoOrder = "none"
    Row <- IntentRows
    Group <- Groups3
    NoGroup = NoGroup
    GroupTolerance = 5
    RollTolerance = 60
    Intent = {"i1"}
    NoIntent = NoIntent
    IntentOf <- HostOpens
    Pass = {p1}
    Overlap = FALSE
    MaxAborts = 0
INVARIANTS
    ClosedIsStamped
