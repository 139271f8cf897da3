SPECIFICATION Spec
CONSTANTS
    w1 = w1  w2 = w2  w3 = w3  a = a  b = b  k = k  c1 = c1  c2 = c2
    None = None
    Clients = {c1}
    Workers = {w1, w2, w3}
    Threads = {w1, w2, w3}
    Jobs = {a, b, k}
    Kept = {k}
    Chained = {}
    Mode = "Auto"
    InitialMax = 3
    MaxChoices = {1, 3}
    WorkersMin = 0
    IncreaseThreshold = 200
    DecreaseThreshold = 100
    IncreaseSchedule = 0
    DecreaseSchedule = 1
    MaxScheduled = 4
    ShutdownOnlyIdle = TRUE
SYMMETRY WorkerSymmetry
INVARIANTS
    TypeOK
    CountersConsistent
    MutualExclusion
    WorkAtHand
    EveryLeaverIsNamed
    LastThreadIsTheLast
    JobsAlive
    NoJobIsStranded
PROPERTIES
    ShutdownLeavesNoThread
    WaitForAllIdleIsSound
    PoolStaysWithinMax
