\* Two workers, a caller that schedules with a token or without.
CONSTANTS
    Concurrency = 2
    BulkMax = 2
    Callers = {c1}
    Tokens = {k1}
    MaxTasks = 2
    MaxBulk = 2
SPECIFICATION FairSpec
PROPERTIES
    TasksRun
    DestructorReturns
CHECK_DEADLOCK FALSE
