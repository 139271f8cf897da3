-------------------------------- MODULE MCData --------------------------------
(* The sequential components on small instances: the allocators, the shared  *)
(* handles, the cache, the hash table, the domains and scopes of a Lox and the *)
(* bootstrap of camps.  A behaviour is one of one component; the others stay  *)
(* as they are.  MCTexts runs them beside what it adds.                       *)
EXTENDS TLC, Naturals, Sequences

CONSTANTS
    MonoHeader, MonoFirstSize, MonoGrowth, MonoSelfSize, MonoSizes, MonoAlignments,
    MonoSizeRange, MaxBuffers, MaxBlocks, MaxSnapshots,                    \* of MonoAllocator
    PoolSmallest, PoolHooks, PoolRequests, MaxAllocated,                   \* of PoolAllocator
    HandleThreads, SharingHandles, SharedContents, nullptr, MaxSurplus,    \* of SharedHandle
    QtyCamps,                                                              \* of Camps
    CacheKeys, CacheHash, CacheShapes,                                     \* of LRUCacheTable
    FrameKeys, FrameShapes, MaxDepth                                       \* of ScopeInfo

VARIABLES component
-----------------------------------------------------------------------------
VARIABLES buffers, chain, recyclables, nextBuffersUsableSize, self, external, blocks, snapshots,
          freed
monoVars == <<buffers, chain, recyclables, nextBuffersUsableSize, self, external, blocks,
              snapshots, freed>>

Mono == INSTANCE MonoAllocator WITH
    Header <- MonoHeader, FirstSize <- MonoFirstSize, Growth <- MonoGrowth,
    SelfSize <- MonoSelfSize, Sizes <- MonoSizes, Alignments <- MonoAlignments,
    SizeRange <- MonoSizeRange
ASSUME MonoAssumption == Mono!MonoAllocatorAssumption
-----------------------------------------------------------------------------
VARIABLES hooks, heap, used
poolVars == <<hooks, heap, used>>

Pool == INSTANCE PoolAllocator WITH
    minimumHookIndex <- PoolSmallest, qtyHooks <- PoolHooks, Requests <- PoolRequests
ASSUME PoolAssumption == Pool!PoolAllocatorAssumption
-----------------------------------------------------------------------------
VARIABLES members, refCount, alive, owner, task, surplus
handleVars == <<members, refCount, alive, owner, task, surplus>>

Handle == INSTANCE SharedHandle WITH
    Threads <- HandleThreads, Handles <- SharingHandles, Contents <- SharedContents
ASSUME HandlesAssumption == Handle!SharedHandleAssumption
-----------------------------------------------------------------------------
VARIABLES campStates, campPools, campConfigs, modulesInitialized, ownPools, ownConfigs,
          campsRunning
campVars == <<campStates, campPools, campConfigs, modulesInitialized, ownPools, ownConfigs,
              campsRunning>>

Starting == INSTANCE Camps WITH
    bootstrapState <- campStates, resourcePool <- campPools, config <- campConfigs,
    NonCampModulesInitialized <- modulesInitialized, running <- campsRunning
ASSUME CampsAssumption == Starting!CampsAssumption
-----------------------------------------------------------------------------
VARIABLES capacityLists, capacityEntries, next, data, nextPoolElement, asked, newer
lruVars == <<capacityLists, capacityEntries, next, data, nextPoolElement, asked, newer>>

LRU == INSTANCE LRUCacheTable WITH
    Keys <- CacheKeys, THash <- CacheHash, Shapes <- CacheShapes
ASSUME CacheAssumption == LRU!LRUCacheTableAssumption

\* The cache of file names, under a stack of log statements.
VARIABLES callStack
Frames == INSTANCE ScopeInfo WITH
    Keys <- FrameKeys, THash <- CacheHash, Shapes <- FrameShapes
ASSUME FramesAssumption == FrameKeys \subseteq CacheKeys /\ FrameShapes \subseteq CacheShapes
-----------------------------------------------------------------------------
VARIABLES bucketCount, buckets, size, sizeLimitToRehash, maxLoadFactor, key, recycled, handle,
          expected
tableVars == <<bucketCount, buckets, size, sizeLimitToRehash, maxLoadFactor, key, recycled,
               handle, expected>>

\* Keys 1 and 3 have the same hash code; key 2 meets them in tables of 2 buckets.
Table == INSTANCE HashTable WITH
    Keys <- {1, 2, 3}, THash <- <<1, 3, 1>>, PRIME_NUMBERS <- <<2, 5, 11>>,
    baseLoadFactor <- 1, LoadFactors <- <<2, 3>>, MaxNodes <- 4, recyclables <- recycled
ASSUME Table!HashTableAssumption
-----------------------------------------------------------------------------
VARIABLES domains, settings, acknowledged, destructed
loxVars == <<domains, settings, acknowledged, destructed>>

\* Two loggers of the same name, and one that is read from configuration.
DomAB == <<"a", "b">>
Logging == INSTANCE Lox WITH
    Loggers <- {"l1", "l2", "l3"}, Name <- [l1 |-> "x", l2 |-> "x", l3 |-> "y"],
    Paths <- [main |-> <<<<>>, <<"a">>, DomAB>>, internal |-> <<<<>>>>],
    Existing <- [main |-> {<<>>}, internal |-> {<<>>}],
    Requests <- [tree : {"main"}, path : {<<>>, DomAB}, verbosity : {1}, priority : {1}]
           \cup [tree : {"main"}, path : {<<>>, DomAB}, verbosity : {2}, priority : {2}]
           \cup [tree : {"internal"}, path : {<<>>}, verbosity : {1}, priority : {1}],
    Config <- [l1 |-> <<[matches |-> {<<"main", <<>>>>, <<"main", DomAB>>}, verbosity |-> 3]>>,
               l2 |-> <<>>, l3 |-> <<>>],
    ConfigPriority <- 2
ASSUME Logging!LoxAssumption
-----------------------------------------------------------------------------
VARIABLES globalStore, languageStore, threadStore, text, walk
scopeVars == <<globalStore, languageStore, threadStore, text, walk>>

Scopes == INSTANCE ScopeStore WITH
    Threads <- {"t1"}, Texts <- {"a"}, LocalText <- "local", MaxValues <- 2,
    Places <- {[dirs |-> <<"p", "q">>, file |-> "f#", method |-> "#m"],
               [dirs |-> <<"p">>, file |-> "f#", method |-> "#m"]}
ASSUME Scopes!ScopeStoreAssumption
-----------------------------------------------------------------------------
\* The variables of a component that is not run.
Idle == "idle"

DataInit ==
    /\ IF component = "MonoAllocator" THEN Mono!Init
       ELSE buffers = Idle /\ chain = Idle /\ recyclables = Idle
            /\ nextBuffersUsableSize = Idle /\ self = Idle /\ external = Idle
            /\ blocks = Idle /\ snapshots = Idle /\ freed = Idle
    /\ IF component = "PoolAllocator" THEN Pool!Init
       ELSE hooks = Idle /\ heap = Idle /\ used = Idle
    /\ IF component = "SharedHandle" THEN Handle!Init
       ELSE members = Idle /\ refCount = Idle /\ alive = Idle /\ owner = Idle /\ task = Idle
            /\ surplus = Idle
    /\ IF component = "LRUCacheTable" THEN LRU!Init
       ELSE IF component = "ScopeInfo" THEN Frames!FramesInit
       ELSE capacityLists = Idle /\ capacityEntries = Idle /\ next = Idle /\ data = Idle
            /\ nextPoolElement = Idle /\ asked = Idle /\ newer = Idle
    /\ IF component = "ScopeInfo" THEN TRUE ELSE callStack = Idle
    /\ IF component = "HashTable" THEN Table!Init
       ELSE bucketCount = Idle /\ buckets = Idle /\ size = Idle /\ sizeLimitToRehash = Idle
            /\ maxLoadFactor = Idle /\ key = Idle /\ recycled = Idle /\ handle = Idle
            /\ expected = Idle
    /\ IF component = "Lox" THEN Logging!Init
       ELSE domains = Idle /\ settings = Idle /\ acknowledged = Idle /\ destructed = Idle
    /\ IF component = "ScopeStore" THEN Scopes!Init
       ELSE globalStore = Idle /\ languageStore = Idle /\ threadStore = Idle /\ text = Idle
            /\ walk = Idle
    /\ IF component = "Camps" THEN Starting!Init
       ELSE campStates = Idle /\ campPools = Idle /\ campConfigs = Idle
            /\ modulesInitialized = Idle /\ ownPools = Idle /\ ownConfigs = Idle
            /\ campsRunning = Idle

Rest(active, own, variables) == IF own = active THEN TRUE ELSE UNCHANGED variables
\* A step of one component leaves the others as they are.
OnlyData(active) ==
    /\ UNCHANGED component
    /\ Rest(active, "MonoAllocator", monoVars)
    /\ Rest(active, "PoolAllocator", poolVars)
    /\ Rest(active, "SharedHandle", handleVars)
    /\ IF active = "ScopeInfo" THEN TRUE
       ELSE UNCHANGED callStack /\ Rest(active, "LRUCacheTable", lruVars)
    /\ Rest(active, "HashTable", tableVars)
    /\ Rest(active, "Lox", loxVars)
    /\ Rest(active, "ScopeStore", scopeVars)
    /\ Rest(active, "Camps", campVars)

DataNext ==
    \/ component = "MonoAllocator" /\ OnlyData("MonoAllocator") /\ Mono!Next
    \/ component = "PoolAllocator" /\ OnlyData("PoolAllocator") /\ Pool!Next
    \/ component = "SharedHandle" /\ OnlyData("SharedHandle") /\ Handle!Next
    \/ component = "LRUCacheTable" /\ OnlyData("LRUCacheTable") /\ LRU!Next
    \/ component = "ScopeInfo" /\ OnlyData("ScopeInfo") /\ Frames!FramesNext
    \/ component = "HashTable" /\ OnlyData("HashTable") /\ Table!Next
    \/ component = "Lox" /\ OnlyData("Lox") /\ Logging!Next
    \/ component = "ScopeStore" /\ OnlyData("ScopeStore") /\ Scopes!Next
    \/ component = "Camps" /\ OnlyData("Camps") /\ Starting!Next

dataVars ==
    <<component, monoVars, poolVars, handleVars, lruVars, callStack, tableVars, loxVars,
      scopeVars, campVars>>

\* Of the specification of MCTexts this is what happens to the components here.
DataSpec == DataInit /\ [][DataNext]_dataVars
-----------------------------------------------------------------------------
(* One property for each component, the conjunction of those of its module.  *)

\* MonoAllocator: memory handed out is aligned, lies in its buffer and is handed
\* out once; each buffer is in use or recyclable, and is freed once.
MemoryIsHandedOutOnce ==
    component = "MonoAllocator" =>
        /\ Mono!TypeOK
        /\ Mono!BlocksLieInTheirBuffer
        /\ Mono!BlocksAreDisjoint
        /\ Mono!BuffersAreListedOnce
        /\ Mono!DestructFreesAll

\* PoolAllocator: each block has one caller or one place among the free ones of its
\* size; what is granted fits, and is not twice as large as needed.  MonoAllocator:
\* the statistics report no less than what is in use.
BlocksFitTheirSize ==
    /\ component = "PoolAllocator" =>
        /\ Pool!TypeOK
        /\ Pool!BlocksHaveOneHolder
        /\ Pool!BlocksFit
        /\ Pool!BlocksAreNotOversized
    /\ component = "MonoAllocator" => Mono!StatisticsCoverBlocks

\* Shared handles: the counter is the number of handles but for lost ones, none
\* points to destroyed contents, and the last one destroys them, once.
LastHandleDestroys ==
    component = "SharedHandle" =>
        /\ Handle!TypeOK
        /\ Handle!HandlesPointToLiving
        /\ Handle!CountIsHandles
        /\ Handle!LastHandleDestroys

\* LRUCacheTable: each list holds the keys asked for last, in this order, and each
\* entry of the pool is in one list; ScopeInfo: a frame on top of such a cache
\* shows its own file while the cache can hold it.
CacheKeepsTheMostRecent ==
    /\ component = "LRUCacheTable" =>
        /\ LRU!TypeOK
        /\ LRU!KeepsTheMostRecent
        /\ LRU!PoolEntriesAreListed
    /\ component = "ScopeInfo" =>
        /\ Frames!TypeOK
        /\ Frames!KeepsTheMostRecent
        /\ Frames!FrameShowsItsFile

\* HashTable: it holds what was inserted and not removed, equal keys side by side;
\* a node is in one bucket, in the handle or recyclable; after an insertion the
\* table is below its limit.
TableHoldsWhatWasInserted ==
    component = "HashTable" =>
        /\ Table!TypeOK
        /\ Table!HoldsWhatWasInserted
        /\ Table!NodesHaveOnePlace
        /\ Table!EqualKeysAreAdjacent
        /\ Table!SizeIsBelowLimit

\* Lox: a verbosity is the latest one of the highest priority set for the domain or
\* one above it; every domain of a tree has the same loggers in the same order; a
\* logger knows whether it is attached.  ScopeStore: a walk returns all values that
\* cover its place, inner ones first; what is allocated is stored, in one place.
LogsGoWhereTheyShould ==
    /\ component = "Lox" =>
        /\ Logging!TypeOK
        /\ Logging!VerbosityIsLatestOfHighest
        /\ Logging!LoggersAreAligned
        /\ Logging!AttachedIsAcknowledged
    /\ component = "ScopeStore" =>
        /\ Scopes!TypeOK
        /\ Scopes!WalkIsInnerToOuter
        /\ Scopes!StoredOnce

\* Camps: a camp is started when all below it are, and stopped when all above it are, with
\* its objects at hand; these come from the camp above unless the program sets others.
CampsLeanOnLowerOnes ==
    component = "Camps" =>
        /\ Starting!TypeOK
        /\ Starting!CampsStartUpwards
        /\ Starting!CampsStopDownwards
        /\ Starting!ObjectsAreKept
        /\ Starting!LowerCampsLastLonger
=============================================================================
