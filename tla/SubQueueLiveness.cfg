\* Two consumers race, and one of them goes on alone.
CONSTANTS
    Consumers = {c1, c2}
    Modulus = 20
    Start = 19
    MaxElements = 3
    MaxBatch = 2
    MaxReserved = 6
    PermitModes = {FALSE}
SPECIFICATION FairSpec
PROPERTY Drained
CHECK_DEADLOCK FALSE
