SPECIFICATION MCSpec
CONSTANTS
    None = None
    ThreadObjects = {t, u}  SystemObjects = {m, s}  MainObject = m
    NativeIDs = {n1, n2, n3, n4}  FirstID = n1  QtyForeign = 1
    LockThreads = {a, b, e}  MisusingThreads = {f, g}
    Misdeeds = {"nested", "releaseFree", "releaseForeign", "releaseSharedFree"}
    SharedLimit = 2  LockedNesting = 2
    WarnEvery = 3  DepthBound = 4
    PromiseStates = {ok, bad}  unfulfilled = unfulfilled
SYMMETRY Symmetry
CHECK_DEADLOCK FALSE
INVARIANTS LocksKnowTheirOwner  OverlapIsDetected DestructionIsSafe
 
