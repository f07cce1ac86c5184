\* One worker and one task are enough to show that await() does not wait for it.
CONSTANTS
    Concurrency = 1
    BulkMax = 1
    Callers = {c1}
    Tokens = {}
    MaxTasks = 1
    MaxBulk = 1
SPECIFICATION FairSpec
PROPERTY AwaitCompletes
CHECK_DEADLOCK FALSE
