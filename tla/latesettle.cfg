\* The broker's settlement arrives after one was synthesised.
SPECIFICATION OneLateDesk
CONSTANTS
    Sec = {"a"}
    Underlying = {"x"}
    Order = {"o1"}
    NoOrder = "none"
    Row <- LateRows
    Group <- Groups2
    NoGroup = 0
    GroupTolerance = 5
    RollTolerance = 60
    Intent = {}
    NoIntent = NoIntent
    IntentOf <- NoIntents
    Pass = {p1}
    Overlap = FALSE
    MaxAborts = 0
    SettledGroup <- LateLapses
    LapsesAt <- ExpiresA
    Priced = {}
    Command = {}
    Regrouping <- NoRegrouping
    MaxCommands = 0
INVARIANTS
    SettlementHasItsLot
