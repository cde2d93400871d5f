\* Two passes at once over one round trip, the host's or not; one of them may die.
SPECIFICATION RaceSpec
CONSTANTS
    Sec = {"a", "b", "c", "f"}
    Underlying = {"x"}
    Order = {"o1", "o2"}
    NoOrder = "none"
    Row <- TripRows
    Group <- Groups3
    NoGroup = NoGroup
    GroupTolerance = 5
    RollTolerance = 60
    Intent = {"i1"}
    NoIntent = NoIntent
    IntentOf <- HostAll
    Pass = {p1, p2}
    Overlap = TRUE
    MaxAborts = 1
INVARIANTS
    NoDoubleCount
    SettledBooks
    OneLossPerDeath
PROPERTIES
    SettledIsStable
    ExitOnce
    StampIsComplete
SYMMETRY PassSymmetry
