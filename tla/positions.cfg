\* Two rebuilds that may overlap, beside a sync or stream and an operator.
SPECIFICATION RaceSpec
CONSTANTS
    Sec = {"a", "b"}
    Underlying = {"x"}
    Order = {"o"}
    NoOrder = "none"
    Row <- AdjustedRows
    Unpriced = {}
    Contract = "a"
    LapsesAt = 10
    LapseDue = 15
    Activity <- AllRows
    Ours = {1, 2, 3, 4}
    Delayed = {2}
    Attributed = {3, 4}
    Replay <- Books
    Holding <- Holdings
    Rebuilder = {r1, r2}
    Writer = {w1}
    MaxLag = 2
    MaxFaults = 1
    None = None
INVARIANTS
    FreshBook
    ClosedStaysTrue
    GroupOfCloser
PROPERTIES
    ClosedOnce
    Settles
