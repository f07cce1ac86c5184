\* Two workers that share a queue, one caller, tasks that schedule tasks.
CONSTANTS
    Concurrency = 2
    BulkMax = 2
    Callers = {c1}
    Tokens = {}
    MaxTasks = 3
    MaxBulk = 2
SPECIFICATION Spec
INVARIANTS
    TypeOK
    Backed
    OnePlace
    AwaitedIsQuiet
PROPERTIES
    Refinement
    StopEndsAfterBatch
\* The pool may stop: destroyed, never stopped, or terminated.
CHECK_DEADLOCK FALSE
