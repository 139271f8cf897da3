SPECIFICATION MCSpec
CONSTANTS
    None = None
    Priority <- MCPriority
    Period <- MCPeriod
    TriggeredObjects = {x, y}
    Durations = {2}
    CondThreads = {t1, t2}
    CondWaiters = {t1}
    low = k  often = x
    Workers = {u}
    Clients = {c, d}
    Jobs = {i, j, k}
    Kept = {i}
    Handled = {j}
    StopPriorities = {0, 4000}
    LateJobs = FALSE
    AddAgain = FALSE
CHECK_DEADLOCK FALSE
INVARIANTS WorkersKeepTheirJobs NeverOversleeps
PROPERTIES ServesByPriority WorkersServe TriggersServe ConditionsWork
