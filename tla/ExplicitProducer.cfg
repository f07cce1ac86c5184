\* Two consumers, three blocks of two elements and an index of two slots that
\* grows to four.  The allocation of the first index and an insertion of one
\* element may find no memory, and the constructor of this may throw.
CONSTANTS
    Consumers = {c1, c2}
    Blocks = {b1, b2, b3}
    BlockSize = 2
    Modulus = 16
    InitialIndexSize = 2
    MaxIndexes = 2
    MaxBulk = 3
    Unallocated = {"enqueue"}
    Throwing = {"enqueue"}
    None = None
SPECIFICATION Spec
SYMMETRY Symmetry
INVARIANTS
    Located
    Indexed
    Reusable
    DestroysAll
