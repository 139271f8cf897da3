SPECIFICATION Spec
CONSTANTS
    None = None
    ClientsA = {c1}
    WorkersA = {v1, v2}
    JobsA = {a}
    ClientsB = {c2}
    WorkersB = {w1, w2}
    JobsB = {b}
    Mode = "Fixed"
    InitialMax = 2
    MaxChoices = {1}
    WorkersMin = 0
    IncreaseThreshold = 300
    DecreaseThreshold = 70
    IncreaseSchedule = 0
    DecreaseSchedule = 0
    MaxScheduled = 1
INVARIANT LeaverIsJoinedByItsPool
