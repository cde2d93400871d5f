\* Two rolls, an assignment and its delivery, one pass at a time; one order comes
\* after its rows, and one pass may die.
SPECIFICATION InOrderSpec
CONSTANTS
    Sec = {"a", "b", "c", "f"}
    Underlying = {"x"}
    Order = {"o1", "o2", "o3", "o4"}
    NoOrder = "none"
    Row <- RollRows
    Group <- Groups6
    NoGroup = NoGroup
    GroupTolerance = 5
    RollTolerance = 60
    Intent = {}
    NoIntent = NoIntent
    IntentOf <- NoIntents
    Pass = {p1}
    Overlap = FALSE
    MaxAborts = 1
INVARIANTS
    TypeOK
    RollsGoForward
    SettledBooks
PROPERTIES
    ClaimIsFinal
    EveryRowGrouped
