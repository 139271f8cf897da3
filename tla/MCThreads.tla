------------------------------ MODULE MCThreads ------------------------------
(* The classes that threads share, on small instances: the registry of       *)
(* Thread, locks and their asserters, critical sections and promises.  A      *)
(* behaviour is one of one component; the others stay as they are.           *)
EXTENDS TLC

CONSTANTS
    None,
    ThreadObjects, SystemObjects, MainObject, NativeIDs, FirstID, QtyForeign,
    LockThreads, MisusingThreads, Misdeeds, SharedLimit, LockedNesting,
    WarnEvery, DepthBound,
    PromiseStates, unfulfilled

Symmetry == Permutations(LockThreads) \cup Permutations(NativeIDs \ {FirstID})

VARIABLES component
-----------------------------------------------------------------------------
VARIABLES state, nativeID, c11Thread, THREAD_MAP, MAIN_THREAD, nextSystemThreadId,
          runs, used, THIS_THREAD, joining, foreign, erased
threadVars == <<state, nativeID, c11Thread, THREAD_MAP, MAIN_THREAD, nextSystemThreadId,
                runs, used, THIS_THREAD, joining, foreign, erased>>

Th == INSTANCE Thread WITH
    Threads <- ThreadObjects, SystemThreads <- SystemObjects, Main <- MainObject,
    MainID <- FirstID, IDs <- NativeIDs, Foreign <- QtyForeign, ReuseIDs <- FALSE
ASSUME RegistryAssumption == Th!ThreadAssumption
-----------------------------------------------------------------------------
VARIABLES writer, readers, CntAcquirements, CntSharedAcquirements, AcqCI, SAcqCI,
          pc, op, raised, warned, misused,
          DCSWriterCnt, DCSReaderCnt, DCSAcq, at, inside, asserted, met, missed
lockVars == <<writer, readers, CntAcquirements, CntSharedAcquirements, AcqCI, SAcqCI,
              pc, op, raised, warned, misused>>
sectionVars == <<DCSWriterCnt, DCSReaderCnt, DCSAcq, at, inside, asserted, met, missed>>

\* Sections inside a lock that is used as it should be, without a lock, and a
\* lock that is misused, which has no sections.  LockProofs is CriticalSections
\* with lemmas that the proofs about this module cite.
Locked == INSTANCE LockProofs WITH
    Threads <- LockThreads, DbgWarningMaximumShared <- SharedLimit, Misuses <- {},
    Associated <- TRUE, Nesting <- LockedNesting
Open == INSTANCE LockProofs WITH
    Threads <- LockThreads, DbgWarningMaximumShared <- SharedLimit, Misuses <- {},
    Associated <- FALSE, Nesting <- 1
Misused == INSTANCE LockProofs WITH
    Threads <- MisusingThreads, DbgWarningMaximumShared <- SharedLimit, Misuses <- Misdeeds,
    Associated <- FALSE, Nesting <- 0
ASSUME LocksAssumption ==
    Locked!LockedAssumption /\ Open!OpenAssumption /\ Misused!LockAssumption
-----------------------------------------------------------------------------
VARIABLES rOwner, rDepth, rCnt, rAcqCI, rPc, rAsserted, rWarned, rMisused
recursiveVars == <<rOwner, rDepth, rCnt, rAcqCI, rPc, rAsserted, rWarned, rMisused>>

Re == INSTANCE RecursiveLock WITH
    Threads <- LockThreads, RecursionLimit <- WarnEvery, MaxDepth <- DepthBound,
    owner <- rOwner, depth <- rDepth, CntAcquirements <- rCnt, AcqCI <- rAcqCI,
    pc <- rPc, asserted <- rAsserted, warned <- rWarned, misused <- rMisused
ASSUME RecursiveAssumption == Re!RecursiveLockAssumption
-----------------------------------------------------------------------------
VARIABLES value, DbgFulfillCI, DbgWaitCI, given, fulfiller, waiter, result, destroyed, pWarned
promiseVars == <<value, DbgFulfillCI, DbgWaitCI, given, fulfiller, waiter,
                 result, destroyed, pWarned>>

Pr == INSTANCE Promise WITH States <- PromiseStates, Unfulfilled <- unfulfilled, warned <- pWarned
ASSUME PromisesAssumption == Pr!PromiseAssumption
-----------------------------------------------------------------------------
MCInit ==
    /\ component \in {"Thread", "lock", "locked", "open", "misused", "RecursiveLock", "Promise"}
    /\ IF component = "misused" THEN Misused!Init ELSE Locked!Init
    /\ Th!Init /\ Locked!SectionInit /\ Re!Init /\ Pr!Init

Rest(active, cs, variables) == IF active \in cs THEN TRUE ELSE UNCHANGED variables
\* A step of one component leaves the others as they are.
Only(active) ==
    /\ UNCHANGED component
    /\ Rest(active, {"Thread"}, threadVars)
    /\ Rest(active, {"lock", "misused", "locked", "open"}, lockVars)
    /\ Rest(active, {"locked", "open"}, sectionVars)
    /\ Rest(active, {"RecursiveLock"}, recursiveVars)
    /\ Rest(active, {"Promise"}, promiseVars)

MCNext ==
    \/ component = "Thread" /\ Only("Thread") /\ Th!Next
    \/ component = "lock" /\ Only("lock") /\ Locked!Next
    \/ component = "misused" /\ Only("misused") /\ Misused!Next
    \/ component = "locked" /\ Only("locked") /\ Locked!SectionsNext
    \/ component = "open" /\ Only("open") /\ Open!SectionsNext
    \/ component = "RecursiveLock" /\ Only("RecursiveLock") /\ Re!Next
    \/ component = "Promise" /\ Only("Promise") /\ Pr!Next

mcVars == <<component, threadVars, lockVars, sectionVars, recursiveVars, promiseVars>>
MCSpec == MCInit /\ [][MCNext]_mcVars
-----------------------------------------------------------------------------
(* One property for each component, the conjunction of those of its module.  *)

\* Thread: the registry finds the running thread and gives up one entry per thread
\* that is joined, and each thread goes through its states in order.
RegistryFindsTheThread ==
    /\ [](Th!TypeOK /\ Th!GetFindsTheThread /\ Th!OneEntryErased)
    /\ Th!LifecycleInOrder

\* SharedLock: no assertion or warning of a lock that is used as it should be is
\* raised, whatever the order in which the threads test and count, and the owner
\* is tracked.
LocksKnowTheirOwner ==
    /\ component \in {"lock", "locked"} =>
        /\ Locked!SectionsTypeOK
        /\ Locked!NoFalseAlarm
        /\ Locked!OwnerIsTracked
    /\ component = "open" => Open!SectionsTypeOK

\* SharedLock, RecursiveLock: a lock that is misused raises an assertion before a
\* thread waits for itself, releases what it does not own or unlocks for another.
MisuseIsStopped ==
    /\ component = "misused" =>
        /\ Misused!TypeOK
        /\ Misused!RightThreadUnlocks
        /\ Misused!NeverWaitsForItself
    /\ Re!RecursiveMisuseIsStopped
    /\ Re!WillReleaseIsRight

\* CriticalSections: two writers that overlap without a lock are detected, and a
\* use inside the lock that protects the section is silent.
OverlapIsDetected ==
    /\ component = "locked" => Locked!LockedUseIsSilent
    /\ component = "open" => Open!OverlapOfWritersIsDetected

\* Promise: destroyed by the thread that awaited it, it is not touched any more.
DestructionIsSafe == Pr!DestructionIsSafe
=============================================================================
