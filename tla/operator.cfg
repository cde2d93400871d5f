\* Sibling groups whose contract lapses, an operator's command, a crash.
SPECIFICATION InOrderDesk
CONSTANTS
    Sec = {"a"}
    Underlying = {"x"}
    Order = {"o1", "o2"}
    NoOrder = "none"
    Row <- SiblingRows
    Group <- Groups3
    NoGroup = 0
    GroupTolerance = 5
    RollTolerance = 60
    Intent = {}
    NoIntent = NoIntent
    IntentOf <- NoIntents
    Pass = {p1}
    Overlap = FALSE
    MaxAborts = 1
    SettledGroup <- SiblingLapses
    LapsesAt <- ExpiresA
    Priced = {"a"}
    Command = {"regroup", "link", "remap", "dismiss", "unfilled"}
    Regrouping <- Merge
    MaxCommands = 1
INVARIANTS
    NoLotOverdue
PROPERTIES
    RegroupSettles
    FlatGroupsClose
    OverdueLotsSettle
