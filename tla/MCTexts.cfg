SPECIFICATION MCSpec
CONSTANTS
    MonoHeader = 3
    MonoFirstSize = 8
    MonoGrowth = 200
    MonoSelfSize = 2
    MonoSizes = {2, 14}
    MonoAlignments = {1, 2}
    MonoSizeRange = 256
    MaxBuffers = 3
    MaxBlocks = 2
    MaxSnapshots = 2
    PoolSmallest = 2
    PoolHooks = 3
    PoolRequests = {1, 4, 5, 8, 9, 15}
    MaxAllocated = 3
    HandleThreads = {thread1, thread2}
    SharingHandles = {handle1, handle2, handle3}
    SharedContents = {contents1, contents2}
    nullptr = nullptr
    MaxSurplus = 1
    QtyCamps = 3
    CacheKeys = {1, 2, 3, 4, 5}
    CacheHash <- HashOfFiveKeys
    CacheShapes <- ShapesOfCache
    FrameKeys = {1, 2, 3}
    FrameShapes <- ShapesForFrames
    MaxDepth = 3
    exprX = exprX
    exprY = exprY
CHECK_DEADLOCK FALSE
INVARIANTS MemoryIsHandedOutOnce BlocksFitTheirSize LastHandleDestroys CacheKeepsTheMostRecent TableHoldsWhatWasInserted LogsGoWhereTheyShould ExpressionsKeepTheirMeaning StringsHoldAndFindText BitsReadAsWritten TreesHoldWhatWasFound CommandLineIsUnderstood CampsLeanOnLowerOnes
PROPERTIES HighestOfferWins
