\* An operator regroups a row that a pass under way has taken for a candidate.
SPECIFICATION InOrderDesk
CONSTANTS
    Sec = {"a"}
    Underlying = {"x"}
    Order = {"o1", "o2"}
    NoOrder = "none"
    Row <- SiblingRows
    Group <- Groups3
    NoGroup = 0
    GroupTolerance = 5
    RollTolerance = 60
    Intent = {}
    NoIntent = NoIntent
    IntentOf <- NoIntents
    Pass = {p1}
    Overlap = FALSE
    MaxAborts = 0
    SettledGroup <- SiblingLapses
    LapsesAt <- ExpiresA
    Priced = {}
    Command = {"regroup", "claim"}
    Regrouping <- Split
    MaxCommands = 1
PROPERTIES
    OnlyRegroupMoves
