\* The queue stops when it has been destroyed.
CONSTANTS
    k1 = k1
    k2 = k2
    k3 = k3
    Tokens <- MCTokens
    Implicit = 1
    MaxProducers = 5
    None = None
    Consumers = {0, 1}
    Casts <- MCCasts
    MaxBatch = 2
    Quota = 1
    Modulus = 8
    Enough = 2
SPECIFICATION FairRotationSpec
INVARIANTS
    Owned
    ProducersReused
    AsksAll
    Spread
PROPERTY
    CallsEnd
CHECK_DEADLOCK FALSE
