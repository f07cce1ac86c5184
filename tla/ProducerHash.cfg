\* Three threads whose hashes collide, in the last slot of every table, so that
\* they probe round the end of it; a table of two slots.
CONSTANTS
    Threads = {t1, t2, t3}
    InitialHashSize = 2
    Hashes = {3}
    None = None
SPECIFICATION FairSpec
INVARIANTS
    SlotLeft
    Counted
    Distinct
PROPERTIES
    KeepsProducer
    CallsEnd
