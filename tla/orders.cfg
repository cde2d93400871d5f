\* One order, a sync, the host, the stream, a pass and an operator.
SPECIFICATION Spec
CONSTANTS
    Syncer = {s1}
    Versions = 2
    Deliveries = 1
    MaxEdits = 1
    MaxAborts = 1
    None = None
INVARIANTS
    TypeOK
PROPERTIES
    LinkageKept
    Converges
    CarriesGroup
