\* Two consumers, three blocks of two elements and an index of two entries
\* that grows to four; every allocation and constructor may fail.
CONSTANTS
    Consumers = {c1, c2}
    Blocks = {b1, b2, b3}
    BlockSize = 2
    Modulus = 16
    InitialIndexSize = 2
    MaxIndexSize = 4
    MaxBulk = 3
    None = None
SPECIFICATION Spec
SYMMETRY Symmetry
INVARIANTS
    Located
    Indexed
    OnePlace
    DestructorGivesBack
