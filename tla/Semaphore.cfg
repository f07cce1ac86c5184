\* Three threads: a sleeper, one whose time runs out, one that posts.
CONSTANTS
    Threads = {t1, t2, t3}
    MaxBatch = 2
    MaxSignal = 2
    MaxPermits = 2
SPECIFICATION FairSpec
INVARIANTS
    Accounting
    NoLostWakeup
PROPERTIES
    ForeverAcquires
    Refinement
    LockFree
\* Threads may all sleep with nobody left to signal.
CHECK_DEADLOCK FALSE
