SPECIFICATION Spec
CONSTANTS
    w1 = w1  w2 = w2  w3 = w3  a = a  b = b  k = k  c1 = c1  c2 = c2
    None = None
    Clients = {c1, c2}
    Workers = {w1, w2}
    Threads = {w1, w2}
    Jobs = {a, b, k}
    Kept = {k}
    Chained = {b}
    Mode = "Fixed"
    InitialMax = 2
    MaxChoices = {1}
    WorkersMin = 0
    IncreaseThreshold = 100
    DecreaseThreshold = 70
    IncreaseSchedule = 0
    DecreaseSchedule = 1
    MaxScheduled = 4
    ShutdownOnlyIdle = TRUE
SYMMETRY WorkerSymmetry
INVARIANTS
    SyncFindsAllIdle
PROPERTIES
    ImplementsJobPool
