\* A sync over a history that grows, and the heartbeat that shares its client.
SPECIFICATION Spec
CONSTANTS
    Syncer = {s1}
    MaxRows = 2
    PerPage = 1
    MaxEpoch = 3
    MaxFaults = 1
INVARIANTS
    TypeOK
    CompleteUnlessFailed
PROPERTIES
    GivenUpOnlyIfRevokedAgain
    EveryFactGrouped
