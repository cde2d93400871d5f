\* Sibling groups that hold one contract in opposite directions when it lapses.
SPECIFICATION InOrderDesk
CONSTANTS
    Sec = {"a"}
    Underlying = {"x"}
    Order = {"o1", "o2"}
    NoOrder = "none"
    Row <- SiblingRows
    Group <- Groups3
    NoGroup = 0
    GroupTolerance = 5
    RollTolerance = 60
    Intent = {}
    NoIntent = NoIntent
    IntentOf <- NoIntents
    Pass = {p1}
    Overlap = FALSE
    MaxAborts = 0
    SettledGroup <- SiblingLapses
    LapsesAt <- ExpiresA
    Priced = {}
    Command = {}
    Regrouping <- NoRegrouping
    MaxCommands = 0
PROPERTIES
    CappedByAccount
