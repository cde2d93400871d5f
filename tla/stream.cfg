\* Two daemons of one group; the last of three entries is not theirs.
SPECIFICATION Spec
CONSTANTS
    Consumer = {c1, c2}
    Nobody = Nobody
    Ours = {1, 2}
    Length = 3
    BatchCount = 2
    MaxTrim = 1
    MaxFaults = 2
    MaxFailures = 1
PROPERTIES
    Delivers
    SteadyOrder
CHECK_DEADLOCK FALSE
