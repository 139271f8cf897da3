SPECIFICATION Spec
CONSTANTS
    w1 = w1  w2 = w2  w3 = w3  a = a  b = b  k = k  c1 = c1  c2 = c2
    None = None
    Clients = {c1}
    Workers = {w1, w2, w3}
    Threads = {w1, w2, w3}
    Jobs = {a, b}
    Kept = {}
    Chained = {}
    Mode = "Auto"
    InitialMax = 3
    MaxChoices = {}
    WorkersMin = 0
    IncreaseThreshold = 100
    DecreaseThreshold = 70
    IncreaseSchedule = 0
    DecreaseSchedule = 1
    MaxScheduled = 2
    ShutdownOnlyIdle = FALSE
PROPERTIES
    ShutdownFinalizesJobs
