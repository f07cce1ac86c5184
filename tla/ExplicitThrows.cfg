\* The smallest instance in which a block is taken and its element not made.
CONSTANTS
    Consumers = {c1, c2}
    Blocks = {b1, b2, b3}
    BlockSize = 2
    Modulus = 16
    InitialIndexSize = 2
    MaxIndexes = 2
    MaxBulk = 3
    Unallocated = {}
    Throwing = {"enqueue"}
    None = None
SPECIFICATION Spec
SYMMETRY Symmetry
INVARIANT AvailableNextTime
