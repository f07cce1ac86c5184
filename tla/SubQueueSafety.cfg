\* Three consumers race for three elements; every counter wraps around. Twice
\* as many elements may be reserved as there are, so half of them in vain.
\* Consumers may
\* hold permits for what they ask, and may stop calling.
CONSTANTS
    Consumers = {c1, c2, c3}
    Modulus = 20
    Start = 19
    MaxElements = 3
    MaxBatch = 2
    MaxReserved = 6
    PermitModes = {TRUE, FALSE}
SPECIFICATION Spec
SYMMETRY Symmetry
INVARIANTS
    Balance
    Guaranteed
PROPERTIES
    Refinement
    NeverOvercommits
CHECK_DEADLOCK FALSE
