\* Three threads and two blocks: a block is taken, freed and put back while
\* another thread has it as the head of the list.
CONSTANTS
    Threads = {t1, t2, t3}
    InitialPoolSize = 1
    MaxBlocks = 2
    SHOULD_BE_ON_FREELIST = 8
SPECIFICATION FairSpec
INVARIANTS
    RefsCounted
    OnePlace
    NoneLost
PROPERTY LockFree
