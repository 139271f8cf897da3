----------------------------- MODULE ThreadsProofs -----------------------------
(* Proofs about the classes that threads share: what MCThreads states of the  *)
(* registry of Thread, locks, critical sections and promises holds for every  *)
(* number of threads, limits and results, and at every depth.                 *)
EXTENDS MCThreads, FiniteSetTheorems, TLAPS

\* A step is one of one component.
LEMMA OneComponentSteps ==
    ASSUME [MCNext]_mcVars
    PROVE  /\ component' = component
           /\ (component = "Thread" /\ Th!Next) \/ UNCHANGED threadVars
           /\ \/ component = "lock" /\ Locked!Next /\ UNCHANGED sectionVars
              \/ component = "locked" /\ Locked!SectionsNext
              \/ component = "open" /\ Open!SectionsNext
              \/ component = "misused" /\ Misused!Next /\ UNCHANGED sectionVars
              \/ UNCHANGED <<lockVars, sectionVars>>
           /\ (component = "RecursiveLock" /\ Re!Next) \/ UNCHANGED recursiveVars
           /\ (component = "Promise" /\ Pr!Next) \/ UNCHANGED promiseVars
BY DEF MCNext, mcVars, Only, Rest
-----------------------------------------------------------------------------
(* Promise                                                                  *)

PromiseInv ==
    /\ fulfiller \in {"begin", "first", "second", "end"}
    /\ value # "none" => value = given /\ fulfiller = "end"
    /\ fulfiller \in {"second", "end"} => DbgFulfillCI
    /\ waiter = "got" => DbgWaitCI /\ value # "none" /\ result = value
    /\ destroyed => waiter = "got" /\ ~pWarned

LEMMA InitPromise == ASSUME Pr!Init PROVE PromiseInv
BY DEF Pr!Init, PromiseInv

LEMMA StepKeepsPromise ==
    ASSUME PromiseInv, [MCNext]_mcVars PROVE PromiseInv'
<1> USE DEF PromiseInv
<1>1. CASE UNCHANGED promiseVars
  BY <1>1 DEF promiseVars
<1>2. ASSUME NEW r \in PromiseStates, Pr!Fulfill(r) PROVE PromiseInv'
  BY <1>2 DEF Pr!Fulfill
<1>3. CASE Pr!FulfillStep
  BY <1>3 DEF Pr!FulfillStep, Pr!FulfillOrder
<1>4. CASE Pr!Wait
  BY <1>4 DEF Pr!Wait
<1>5. CASE Pr!WaitTimesOut
  BY <1>5 DEF Pr!WaitTimesOut
<1>6. CASE Pr!Get
  BY <1>6 DEF Pr!Get
<1>7. CASE Pr!Destruct
  BY <1>7 DEF Pr!Destruct
<1> QED BY OneComponentSteps, <1>1, <1>2, <1>3, <1>4, <1>5, <1>6, <1>7 DEF Pr!Next

\* Promise: destroyed by the thread that awaited it, it is not touched any more,
\* whatever the results are that Fulfill() is called with.
THEOREM DestructionIsAlwaysSafe == MCSpec => []DestructionIsSafe
<1>1. MCInit => PromiseInv
  BY InitPromise DEF MCInit
<1>2. PromiseInv /\ [MCNext]_mcVars => PromiseInv'
  BY StepKeepsPromise
<1>3. PromiseInv => DestructionIsSafe
  BY DEF PromiseInv, DestructionIsSafe, Pr!DestructionIsSafe
<1> QED BY <1>1, <1>2, <1>3, PTL DEF MCSpec
-----------------------------------------------------------------------------
(* RecursiveLock                                                            *)

\* Where counter and depth differ: between the mutex and the asserter.
Between == {"set", "count", "unlock"}

RecursiveInv ==
    /\ rPc \in [LockThreads -> {"user", "assertOwned", "assertOwner"} \cup Between]
    /\ rOwner \in LockThreads \cup {None} /\ rDepth \in Nat /\ rCnt \in Nat
    /\ rOwner = None <=> rDepth = 0
    /\ rOwner = None => rCnt = 0
    /\ rOwner # None => rDepth = IF rPc[rOwner] \in Between THEN rCnt + 1 ELSE rCnt
    /\ rCnt > 0 => rAcqCI = rOwner
    /\ rAsserted => rMisused
    /\ \A t \in LockThreads :
        /\ rPc[t] \in Between => rOwner = t
        /\ rPc[t] = "count" => rAcqCI = t
        /\ rPc[t] \in {"assertOwned", "assertOwner"} /\ rOwner # t => rMisused

LEMMA InitRecursive == ASSUME Re!Init PROVE RecursiveInv
BY DEF Re!Init, RecursiveInv, Between

LEMMA StepKeepsRecursive ==
    ASSUME RecursiveInv, [MCNext]_mcVars PROVE RecursiveInv'
<1> USE DEF RecursiveInv, Re!Goto, Re!Assert, Between
<1>1. None \notin LockThreads
  BY RecursiveAssumption DEF Re!RecursiveLockAssumption
<1>2. CASE UNCHANGED recursiveVars
  BY <1>2 DEF recursiveVars
<1>3. ASSUME NEW t \in LockThreads, Re!Acquire(t) PROVE RecursiveInv'
  BY <1>1, <1>3 DEF Re!Acquire
<1>4. ASSUME NEW t \in LockThreads, Re!SetRecursiveOwner(t) PROVE RecursiveInv'
  BY <1>1, <1>4 DEF Re!SetRecursiveOwner
<1>5. ASSUME NEW t \in LockThreads, Re!CountRecursiveOwner(t) PROVE RecursiveInv'
  BY <1>1, <1>5 DEF Re!CountRecursiveOwner
<1>6. ASSUME NEW t \in LockThreads, Re!CallRelease(t) PROVE RecursiveInv'
  BY <1>1, <1>6 DEF Re!CallRelease
<1>7. ASSUME NEW t \in LockThreads, Re!AssertOwned(t) PROVE RecursiveInv'
  BY <1>1, <1>7 DEF Re!AssertOwned
<1>8. ASSUME NEW t \in LockThreads, Re!Release(t) PROVE RecursiveInv'
  BY <1>1, <1>8 DEF Re!Release
<1>9. ASSUME NEW t \in LockThreads, Re!Unlock(t) PROVE RecursiveInv'
  BY <1>1, <1>9 DEF Re!Unlock
<1> QED
  BY OneComponentSteps, <1>2, <1>3, <1>4, <1>5, <1>6, <1>7, <1>8, <1>9 DEF Re!Next

LEMMA RecursiveUse ==
    ASSUME RecursiveInv PROVE Re!RecursiveMisuseIsStopped /\ Re!WillReleaseIsRight
<1>1. None \notin LockThreads
  BY RecursiveAssumption DEF Re!RecursiveLockAssumption
<1> QED
  BY <1>1 DEF RecursiveInv, Between, Re!RecursiveMisuseIsStopped, Re!WillReleaseIsRight,
              Re!WillRelease
-----------------------------------------------------------------------------
(* Locks and critical sections                                              *)

LockPart ==
    /\ component \in {"lock", "locked"} => Locked!SectionsInv
    /\ component = "locked" => Locked!SilentInv
    /\ component = "open" => Open!SectionsInv /\ Open!OverlapInv
    /\ component = "misused" => Misused!LockInv

LEMMA InitLocks == ASSUME MCInit PROVE LockPart
<1>1. Locked!SectionInit
  BY DEF MCInit
<1>2. ASSUME component \in {"lock", "locked"} PROVE Locked!SectionsInv /\ Locked!SilentInv
  <2>1. Locked!SectionsInit
    BY <1>2 DEF MCInit, Locked!SectionsInit
  <2> QED BY <1>1, <2>1, LocksAssumption, Locked!InitSections, Locked!InitSilent
          DEF Locked!LockedAssumption
<1>3. ASSUME component = "open" PROVE Open!SectionsInv /\ Open!OverlapInv
  <2>1. Open!SectionsInit /\ Open!SectionInit
    BY <1>1, <1>3 DEF MCInit, Open!SectionsInit, Locked!SectionInit, Open!SectionInit,
                      Locked!Init, Open!Init
  <2> QED BY <2>1, LocksAssumption, Open!InitSections, Open!InitOverlap DEF Open!OpenAssumption
<1>4. ASSUME component = "misused" PROVE Misused!LockInv
  BY <1>4, LocksAssumption, Misused!InitLock DEF MCInit
<1> QED BY <1>2, <1>3, <1>4 DEF LockPart

LEMMA StepKeepsLocks ==
    ASSUME LockPart, [MCNext]_mcVars PROVE LockPart'
<1>1. component' = component
  BY OneComponentSteps
<1>2. CASE component = "lock" /\ Locked!Next /\ UNCHANGED sectionVars
  <2>1. Locked!SectionsInv /\ Locked!LockInv
    BY <1>2 DEF LockPart, Locked!SectionsInv
  <2>2. (Locked!LockInv)'
    BY <1>2, <2>1, LocksAssumption, Locked!StepKeepsLock DEF Locked!LockedAssumption
  <2>3. (Locked!SectionsInv)'
    BY <1>2, <2>1, <2>2, Locked!LockLeavesSections DEF sectionVars, Locked!counters, Locked!history
  <2> QED BY <1>1, <1>2, <2>3 DEF LockPart
<1>3. CASE component = "locked" /\ Locked!SectionsNext
  <2>1. (Locked!SectionsInv)' /\ (Locked!SilentInv)'
    BY <1>3, LocksAssumption, Locked!StepKeepsSections, Locked!StepKeepsSilence
       DEF LockPart, Locked!LockedAssumption
  <2> QED BY <1>1, <1>3, <2>1 DEF LockPart
<1>4. CASE component = "open" /\ Open!SectionsNext
  <2>1. (Open!SectionsInv)' /\ (Open!OverlapInv)'
    BY <1>4, LocksAssumption, Open!StepKeepsSections, Open!StepKeepsOverlap
       DEF LockPart, Open!OpenAssumption
  <2> QED BY <1>1, <1>4, <2>1 DEF LockPart
<1>5. CASE component = "misused" /\ Misused!Next /\ UNCHANGED sectionVars
  <2>1. (Misused!LockInv)'
    BY <1>5, LocksAssumption, Misused!StepKeepsLock DEF LockPart
  <2> QED BY <1>1, <1>5, <2>1 DEF LockPart
<1>6. CASE UNCHANGED <<lockVars, sectionVars>>
  <2>1. UNCHANGED Locked!vars /\ UNCHANGED Open!vars /\ UNCHANGED Misused!lockVars
    BY <1>6 DEF lockVars, sectionVars, Locked!vars, Locked!lockVars, Locked!mutex, Locked!Dbg,
       Locked!counters, Locked!history, Open!vars, Open!lockVars, Open!mutex, Open!Dbg,
       Open!counters, Open!history, Misused!lockVars, Misused!mutex, Misused!Dbg
  <2> QED BY <1>1, <2>1, Locked!SectionsStutter, Locked!SilenceStutters, Open!SectionsStutter,
             Open!OverlapStutters, Misused!LockStutters DEF LockPart
<1> QED BY OneComponentSteps, <1>2, <1>3, <1>4, <1>5, <1>6

\* SharedLock: for every number of threads no assertion of a lock that is used as it
\* should be is raised, whatever the order in which threads test and count, and
\* what a thread learns about its ownership is right.
THEOREM LocksAlwaysKnowTheirOwner == MCSpec => []LocksKnowTheirOwner
<1>1. LockPart => LocksKnowTheirOwner
  <2> SUFFICES ASSUME LockPart PROVE LocksKnowTheirOwner
    OBVIOUS
  <2>1. ASSUME component \in {"lock", "locked"}
        PROVE  Locked!SectionsTypeOK /\ Locked!NoFalseAlarm /\ Locked!OwnerIsTracked
    <3>1. Locked!SectionsInv /\ Locked!LockAssumption
      BY <2>1, LocksAssumption DEF LockPart, Locked!LockedAssumption
    <3>2. Locked!LockInv /\ misused = {} /\ Locked!NoFalseAlarm
      BY <3>1 DEF Locked!SectionsInv, Locked!LockInv
    <3> QED BY <3>1, <3>2, Locked!SectionTypes, Locked!OwnersAreTracked
  <2>2. component = "open" => Open!SectionsTypeOK
    BY LocksAssumption, Open!SectionTypes DEF LockPart, Open!OpenAssumption
  <2> QED BY <2>1, <2>2 DEF LocksKnowTheirOwner
<1> QED BY <1>1, InitLocks, StepKeepsLocks, PTL DEF MCSpec

\* SharedLock, RecursiveLock: for every number of threads and every misuse named,
\* an assertion stops a thread before it waits for itself, releases what it does
\* not own or unlocks for another.
THEOREM MisuseIsAlwaysStopped == MCSpec => []MisuseIsStopped
<1>1. LockPart /\ RecursiveInv => MisuseIsStopped
  BY RecursiveUse DEF LockPart, Misused!LockInv, MisuseIsStopped
<1>2. MCInit => RecursiveInv
  BY InitRecursive DEF MCInit
<1> QED BY <1>1, <1>2, InitLocks, StepKeepsLocks, StepKeepsRecursive, PTL DEF MCSpec

\* CriticalSections: any number of writers that overlap without a lock are detected,
\* and a use inside the lock is silent at every depth of nesting.
THEOREM OverlapIsAlwaysDetected == MCSpec => []OverlapIsDetected
<1>1. LockPart => OverlapIsDetected
  BY LocksAssumption, Locked!SilentUse
     DEF LockPart, OverlapIsDetected, Open!OverlapInv, Open!OverlapOfWritersIsDetected
<1> QED BY <1>1, InitLocks, StepKeepsLocks, PTL DEF MCSpec
-----------------------------------------------------------------------------
(* The registry of Thread                                                    *)

Registered(t) == <<nativeID[t], t>> \in THREAD_MAP

\* Of a thread object: what the states of its life, its C++ thread and its entry
\* in the registry have to do with each other.
LifeOf(t) ==
    /\ c11Thread[t] => state[t] \in {"Started", "Running", "Done"} /\ Registered(t)
    /\ ~c11Thread[t] => state[t] \in {"Unstarted", "Terminated"} /\ joining[t] = "no"
    /\ joining[t] = "erase" => state[t] = "Done"
    /\ \A n \in NativeIDs :
        /\ runs[n] = t => c11Thread[t] /\ nativeID[t] = n /\ joining[t] # "erase"
        /\ <<n, t>> \in THREAD_MAP => c11Thread[t] /\ nativeID[t] = n

RegistryInv ==
    /\ Th!TypeOK
    /\ FirstID \in used
    /\ \A n \in NativeIDs : runs[n] # None => n \in used
    /\ \A e \in THREAD_MAP : e[1] \in used
    /\ \A e, f \in THREAD_MAP : e[1] = f[1] => e = f
    /\ \A t \in ThreadObjects : LifeOf(t)
    /\ MAIN_THREAD = None /\ state[MainObject] = "Unstarted" => THREAD_MAP = {}
    /\ erased = 1

LEMMA InitRegistry == ASSUME Th!Init PROVE RegistryInv
<1>1. Th!ThreadAssumption
  BY RegistryAssumption
<1>2. \A t \in Th!Objects : state[t] = "Unstarted" /\ nativeID[t] = None
  BY DEF Th!Init
<1>3. "Unstarted" \in {Th!States[i] : i \in DOMAIN Th!States}
  <2>1. 1 \in DOMAIN Th!States /\ Th!States[1] = "Unstarted"
    BY DEF Th!States
  <2> QED BY <2>1
<1>4. Th!TypeOK
  BY <1>1, <1>2, <1>3 DEF Th!Init, Th!TypeOK, Th!ThreadAssumption, Th!Objects
<1> QED
  BY <1>1, <1>2, <1>4 DEF Th!Init, Th!ThreadAssumption, Th!Objects, RegistryInv, LifeOf

\* The states of a thread, and where they stand in its life.
LEMMA StatesOfLife ==
    /\ {Th!States[i] : i \in DOMAIN Th!States} =
           {"Unstarted", "Started", "Running", "Done", "Terminated"}
    /\ Th!Rank("Unstarted") = 1 /\ Th!Rank("Started") = 2 /\ Th!Rank("Running") = 3
    /\ Th!Rank("Done") = 4 /\ Th!Rank("Terminated") = 5
<1>1. DOMAIN Th!States = {1, 2, 3, 4, 5}
  BY DEF Th!States
<1>2. /\ Th!States[1] = "Unstarted" /\ Th!States[2] = "Started" /\ Th!States[3] = "Running"
      /\ Th!States[4] = "Done" /\ Th!States[5] = "Terminated"
  BY DEF Th!States
<1>3. {Th!States[i] : i \in DOMAIN Th!States} =
           {"Unstarted", "Started", "Running", "Done", "Terminated"}
  BY <1>1, <1>2
<1>4. ASSUME NEW i \in DOMAIN Th!States PROVE Th!Rank(Th!States[i]) = i
  <2>1. \A j \in DOMAIN Th!States : Th!States[j] = Th!States[i] => j = i
    BY <1>1, <1>2
  <2> QED BY <2>1 DEF Th!Rank
<1> QED BY <1>1, <1>2, <1>3, <1>4

\* The entry of a registered thread is the only one of its ID.
LEMMA OneEntry ==
    ASSUME RegistryInv, NEW t \in ThreadObjects, Registered(t)
    PROVE  /\ nativeID[t] \in NativeIDs
           /\ Th!Entries(nativeID[t]) = {t}
<1>1. <<nativeID[t], t>> \in NativeIDs \X Th!Objects
  BY DEF RegistryInv, Registered, Th!TypeOK
<1>2. nativeID[t] \in NativeIDs /\ t \in Th!Objects
  BY <1>1
<1>3. \A e, f \in THREAD_MAP : e[1] = f[1] => e = f
  BY DEF RegistryInv
<1>4. ASSUME NEW u, <<nativeID[t], u>> \in THREAD_MAP PROVE u = t
  BY <1>3, <1>4 DEF Registered
<1> QED BY <1>2, <1>4 DEF Registered, Th!Entries

LEMMA RegistryIsFound ==
    ASSUME RegistryInv PROVE Th!TypeOK /\ Th!GetFindsTheThread /\ Th!OneEntryErased
<1>1. ASSUME NEW n \in NativeIDs, runs[n] \in ThreadObjects PROVE Th!Entries(n) = {runs[n]}
  BY <1>1, OneEntry DEF RegistryInv, LifeOf
<1> QED BY <1>1 DEF RegistryInv, Th!GetFindsTheThread, Th!OneEntryErased

LEMMA StepKeepsRegistry ==
    ASSUME RegistryInv, [MCNext]_mcVars PROVE RegistryInv'
<1> USE StatesOfLife DEF RegistryInv, Th!TypeOK, Th!objects, Th!registry, Th!system, LifeOf, Registered,
        Th!Objects
<1>0. Th!ThreadAssumption
  BY RegistryAssumption
<1>1. CASE UNCHANGED threadVars
  BY <1>1 DEF threadVars
<1>2. CASE Th!bootstrap
  <2>1. state' \in [Th!Objects -> {Th!States[i] : i \in DOMAIN Th!States}]
    <3>1. state' = [state EXCEPT ![MainObject] = "Running"]
      BY <1>2 DEF Th!bootstrap
    <3> QED BY <3>1
  <2>2. THREAD_MAP = {} /\ THREAD_MAP' = {<<FirstID, MainObject>>}
    BY <1>2 DEF Th!bootstrap
  <2> QED BY <1>0, <1>2, <2>1, <2>2 DEF Th!bootstrap, Th!ThreadAssumption
<1>3. CASE Th!shutdown
  BY <1>0, <1>3 DEF Th!shutdown, Th!ThreadAssumption
<1>4. ASSUME NEW t \in ThreadObjects, Th!Join(t) PROVE RegistryInv'
  BY <1>0, <1>4 DEF Th!Join
<1>5. ASSUME NEW t \in ThreadObjects, Th!threadStart(t) PROVE RegistryInv'
  <2>1. nativeID[t] \in NativeIDs
    BY <1>5, OneEntry DEF Th!threadStart
  <2>2. t # MainObject /\ t \in Th!Objects
    BY <1>0 DEF Th!ThreadAssumption
  <2>3. (Th!TypeOK)'
    BY <1>5, <2>1, <2>2 DEF Th!threadStart
  <2>4. \A u \in ThreadObjects : LifeOf(u)'
    BY <1>5, <2>2 DEF Th!threadStart
  <2> QED BY <1>5, <2>2, <2>3, <2>4 DEF Th!threadStart
<1>6. ASSUME NEW t \in ThreadObjects, Th!RunEnds(t) PROVE RegistryInv'
  BY <1>0, <1>6 DEF Th!RunEnds, Th!ThreadAssumption
<1>7. ASSUME NEW t \in ThreadObjects, Th!JoinNative(t) PROVE RegistryInv'
  <2>1. c11Thread[t] /\ state[t] = "Done"
    BY <1>7 DEF Th!JoinNative
  <2>2. nativeID[t] \in NativeIDs
    BY <2>1, OneEntry
  <2>3. (Th!TypeOK)'
    BY <1>7, <2>2 DEF Th!JoinNative
  <2>4. ASSUME NEW u \in ThreadObjects PROVE LifeOf(u)'
    BY <1>0, <1>7, <2>1, <2>2 DEF Th!JoinNative, Th!ThreadAssumption
  <2> QED BY <1>7, <2>2, <2>3, <2>4 DEF Th!JoinNative
<1>8. ASSUME NEW t \in ThreadObjects, Th!JoinErase(t) PROVE RegistryInv'
  <2>1. c11Thread[t] /\ Registered(t)
    BY <1>8 DEF Th!JoinErase
  <2>2. nativeID[t] \in NativeIDs /\ Th!Entries(nativeID[t]) = {t}
    BY <2>1, OneEntry
  <2>3. Cardinality({t}) = 1
    BY FS_Singleton
  <2>4. erased' = 1
    <3>1. erased' = Th!Cardinality(Th!Entries(nativeID[t]))
      BY <1>8 DEF Th!JoinErase
    <3>2. Th!Cardinality({t}) = Cardinality({t})
      BY Zenon DEF Th!Cardinality, Cardinality
    <3> HIDE DEF RegistryInv
    <3> QED BY <2>2, <2>3, <3>1, <3>2
  <2>5. THREAD_MAP' = {e \in THREAD_MAP : e[1] # nativeID[t]}
    BY <1>8 DEF Th!JoinErase, Th!EraseEntries
  <2>6. (Th!TypeOK)'
    <3>1. /\ state' = [state EXCEPT ![t] = "Terminated"]
          /\ c11Thread' = [c11Thread EXCEPT ![t] = FALSE]
          /\ joining' = [joining EXCEPT ![t] = "no"]
          /\ nativeID' = nativeID /\ MAIN_THREAD' = MAIN_THREAD /\ runs' = runs /\ used' = used
          /\ nextSystemThreadId' = nextSystemThreadId /\ foreign' = foreign
          /\ THIS_THREAD' = THIS_THREAD
      BY <1>8 DEF Th!JoinErase
    <3>2. erased' \in Nat
      BY <2>4
    <3> QED BY <2>5, <3>1, <3>2
  <2>7. ASSUME NEW u \in ThreadObjects, u # t PROVE LifeOf(u)'
    <3>1. /\ c11Thread'[u] = c11Thread[u] /\ state'[u] = state[u] /\ nativeID' = nativeID
          /\ joining'[u] = joining[u] /\ runs' = runs
      BY <1>8, <2>7 DEF Th!JoinErase
    <3>2. c11Thread[u] => <<nativeID[u], u>> \in THREAD_MAP /\ <<nativeID[u], u>>[1] # nativeID[t]
      BY <2>1, <2>7
    <3> QED BY <2>5, <3>1, <3>2
  <2>8. LifeOf(t)'
    <3>1. ~c11Thread'[t] /\ state'[t] = "Terminated" /\ joining'[t] = "no" /\ runs' = runs
      BY <1>8 DEF Th!JoinErase
    <3>2. ASSUME NEW n \in NativeIDs PROVE <<n, t>> \notin THREAD_MAP' /\ runs[n] # t
      BY <1>8, <2>1, <2>5 DEF Th!JoinErase
    <3> QED BY <3>1, <3>2
  <2> QED BY <1>0, <1>8, <2>4, <2>5, <2>6, <2>7, <2>8 DEF Th!JoinErase, Th!ThreadAssumption
<1>9. ASSUME NEW t \in ThreadObjects, NEW n \in NativeIDs, Th!Start(t, n) PROVE RegistryInv'
  <2>1. /\ ~c11Thread[t] /\ joining[t] = "no" /\ runs[n] = None /\ n \notin used
        /\ state' = [state EXCEPT ![t] = "Started"]
        /\ c11Thread' = [c11Thread EXCEPT ![t] = TRUE]
        /\ nativeID' = [nativeID EXCEPT ![t] = n]
        /\ runs' = [runs EXCEPT ![n] = t] /\ used' = used \cup {n}
        /\ THIS_THREAD' = [THIS_THREAD EXCEPT ![n] = None]
        /\ THREAD_MAP' = THREAD_MAP \cup {<<n, t>>}
        /\ MAIN_THREAD # None /\ MAIN_THREAD' = MAIN_THREAD
        /\ nextSystemThreadId' = nextSystemThreadId /\ foreign' = foreign
        /\ joining' = joining /\ erased' = erased
    BY <1>9 DEF Th!Start, Th!FreeIDs
  <2>2. (Th!TypeOK)'
    <3>1. Th!TypeOK /\ t \in Th!Objects
      OBVIOUS
    <3> HIDE DEF RegistryInv
    <3>2. state' \in [Th!Objects -> {Th!States[i] : i \in DOMAIN Th!States}]
      BY <2>1, <3>1
    <3>3. nativeID' \in [Th!Objects -> NativeIDs \cup {None}]
      BY <2>1, <3>1
    <3>4. c11Thread' \in [ThreadObjects -> BOOLEAN] /\ used' \subseteq NativeIDs
      BY <2>1, <3>1
    <3>5. THREAD_MAP' \subseteq NativeIDs \X Th!Objects
      BY <2>1, <3>1
    <3>6. runs' \in [NativeIDs -> ThreadObjects \cup {None, "main", "foreign"}]
      BY <2>1, <3>1
    <3>7. THIS_THREAD' \in [NativeIDs -> Th!Objects \cup {None}]
      BY <2>1, <3>1
    <3> QED BY <2>1, <3>1, <3>2, <3>3, <3>4, <3>5, <3>6, <3>7
  <2>3. \A e, f \in THREAD_MAP' : e[1] = f[1] => e = f
    <3>1. \A e \in THREAD_MAP : e[1] # n
      BY <2>1
    <3> QED BY <2>1, <3>1
  <2>4. ASSUME NEW u \in ThreadObjects, u # t PROVE LifeOf(u)'
    BY <2>1, <2>4
  <2>5. LifeOf(t)'
    <3>1. c11Thread'[t] /\ state'[t] = "Started" /\ joining'[t] = "no" /\ nativeID'[t] = n
      BY <2>1
    <3>2. \A i \in NativeIDs : runs[i] # t /\ <<i, t>> \notin THREAD_MAP
      <4>1. LifeOf(t)
        OBVIOUS
      <4> HIDE DEF RegistryInv
      <4> QED BY <2>1, <4>1
    <3>3. \A i \in NativeIDs : runs'[i] = t => i = n
      <4>1. runs \in [NativeIDs -> ThreadObjects \cup {None, "main", "foreign"}]
        OBVIOUS
      <4> HIDE DEF RegistryInv
      <4> QED BY <2>1, <3>2, <4>1
    <3> QED BY <2>1, <3>1, <3>2, <3>3
  <2>6. \A u \in ThreadObjects : LifeOf(u)'
    <3> HIDE DEF RegistryInv, LifeOf
    <3> QED BY <2>4, <2>5
  <2>7. (\A i \in NativeIDs : runs[i] # None => i \in used)'
    BY <2>1
  <2>8. FirstID \in used' /\ \A e \in THREAD_MAP' : e[1] \in used'
    BY <2>1
  <2> QED BY <2>1, <2>2, <2>3, <2>6, <2>7, <2>8
<1>10. ASSUME NEW n \in NativeIDs, Th!ForeignStart(n) PROVE RegistryInv'
  BY <1>0, <1>10 DEF Th!ForeignStart, Th!ThreadAssumption, Th!FreeIDs
<1>11. ASSUME NEW n \in NativeIDs, Th!ForeignEnd(n) PROVE RegistryInv'
  BY <1>0, <1>11 DEF Th!ForeignEnd, Th!ThreadAssumption
<1>12. ASSUME NEW n \in NativeIDs, Th!Get(n) PROVE RegistryInv'
  <2>1. CASE Th!Entries(n) # {}
    BY <1>12, <2>1 DEF Th!Get
  <2>2. ASSUME Th!Entries(n) = {}, NEW u \in Th!Unused,
               state' = [state EXCEPT ![u] = "Running"], THREAD_MAP' = THREAD_MAP \cup {<<n, u>>},
               nextSystemThreadId' = Th!NextSystemID
        PROVE  RegistryInv'
    <3>1. u \in SystemObjects /\ u # MainObject /\ u \notin ThreadObjects
      BY <1>0, <2>2 DEF Th!ThreadAssumption, Th!Unused
    <3>2. \A e \in THREAD_MAP : e \in NativeIDs \X Th!Objects
      OBVIOUS
    <3>3. \A e \in THREAD_MAP : e[1] # n
      BY <2>2, <3>2 DEF Th!Entries
    <3>4. \A e, f \in THREAD_MAP' : e[1] = f[1] => e = f
      BY <2>2, <3>3
    <3>5. /\ nativeID' = nativeID /\ c11Thread' = c11Thread /\ MAIN_THREAD' = MAIN_THREAD
          /\ runs' = runs /\ used' = used /\ foreign' = foreign /\ THIS_THREAD' = THIS_THREAD
          /\ joining' = joining /\ erased' = erased /\ MAIN_THREAD # None /\ runs[n] # None
      BY <1>12 DEF Th!Get
    <3>6. (Th!TypeOK)'
      BY <2>2, <3>1, <3>5 DEF Th!NextSystemID
    <3>7. ASSUME NEW t \in ThreadObjects PROVE LifeOf(t)'
      BY <2>2, <3>1, <3>5
    <3>8. \A e \in THREAD_MAP' : e[1] \in used
      BY <2>2, <3>5
    <3> QED BY <3>4, <3>5, <3>6, <3>7, <3>8
  <2> QED BY <1>12, <2>1, <2>2 DEF Th!Get
<1>13. ASSUME NEW n \in NativeIDs, Th!GetCurrent(n) PROVE RegistryInv'
  BY <1>0, <1>13 DEF Th!GetCurrent, Th!Entries
<1> QED
  BY OneComponentSteps, <1>1, <1>2, <1>3, <1>4, <1>5, <1>6, <1>7, <1>8, <1>9, <1>10, <1>11,
     <1>12, <1>13 DEF Th!Next, Th!ThreadStep

\* What a step does to the state of a thread.
LifeGoesOn ==
    \A t \in ThreadObjects : state'[t] # state[t] =>
        \/ Th!Rank(state'[t]) = Th!Rank(state[t]) + 1
        \/ state[t] = "Terminated" /\ state'[t] = "Started"

LEMMA StepKeepsOrder ==
    ASSUME RegistryInv, [MCNext]_mcVars PROVE LifeGoesOn
<1> SUFFICES ASSUME NEW t \in ThreadObjects, state'[t] # state[t]
             PROVE  \/ Th!Rank(state'[t]) = Th!Rank(state[t]) + 1
                    \/ state[t] = "Terminated" /\ state'[t] = "Started"
  BY DEF LifeGoesOn
<1>1. t \notin SystemObjects /\ t # MainObject /\ t \in Th!Objects
  BY RegistryAssumption DEF Th!ThreadAssumption, Th!Objects
<1>2. state \in [Th!Objects -> {"Unstarted", "Started", "Running", "Done", "Terminated"}]
  BY StatesOfLife DEF RegistryInv, Th!TypeOK
<1>3. LifeOf(t)
  BY DEF RegistryInv
<1>4. PICK u \in ThreadObjects :
        \/ Th!ThreadStep(u)
        \/ \E n \in NativeIDs : Th!Start(u, n)
  <2>1. Th!Next
    BY OneComponentSteps DEF threadVars
  <2>2. ~Th!bootstrap /\ ~Th!shutdown
    BY <1>1, <1>2 DEF Th!bootstrap, Th!shutdown
  <2>3. ASSUME NEW n \in NativeIDs
        PROVE  ~Th!ForeignStart(n) /\ ~Th!ForeignEnd(n) /\ ~Th!Get(n) /\ ~Th!GetCurrent(n)
    BY <1>1, <1>2 DEF Th!ForeignStart, Th!ForeignEnd, Th!Get, Th!GetCurrent, Th!objects, Th!Unused
  <2>4. \A u \in ThreadObjects : ~Th!Join(u)
    BY DEF Th!Join, Th!objects
  <2> QED BY <2>1, <2>2, <2>3, <2>4 DEF Th!Next
<1>5. CASE Th!threadStart(u)
  BY <1>1, <1>2, <1>5, StatesOfLife DEF Th!threadStart
<1>6. CASE Th!RunEnds(u)
  BY <1>1, <1>2, <1>6, StatesOfLife DEF Th!RunEnds
<1>7. CASE Th!JoinNative(u)
  BY <1>7 DEF Th!JoinNative, Th!objects
<1>8. CASE Th!JoinErase(u)
  BY <1>1, <1>2, <1>3, <1>8, StatesOfLife DEF Th!JoinErase, LifeOf
<1>9. ASSUME NEW n \in NativeIDs, Th!Start(u, n)
      PROVE  \/ Th!Rank(state'[t]) = Th!Rank(state[t]) + 1
             \/ state[t] = "Terminated" /\ state'[t] = "Started"
  BY <1>1, <1>2, <1>3, <1>9, StatesOfLife DEF Th!Start, LifeOf
<1> QED BY <1>4, <1>5, <1>6, <1>7, <1>8, <1>9 DEF Th!ThreadStep

\* Thread: for every number of threads and IDs, whoever asks the registry for the ID
\* of a thread that runs gets its object, Join() erases one entry, and the objects
\* go through their states in order.
THEOREM RegistryAlwaysFindsTheThread == MCSpec => RegistryFindsTheThread
<1>1. MCInit => RegistryInv
  BY InitRegistry DEF MCInit
<1>2. RegistryInv /\ [MCNext]_mcVars => RegistryInv'
  BY StepKeepsRegistry
<1>3. RegistryInv => Th!TypeOK /\ Th!GetFindsTheThread /\ Th!OneEntryErased
  BY RegistryIsFound
<1>4. RegistryInv /\ [MCNext]_mcVars => [LifeGoesOn]_(Th!vars)
  BY StepKeepsOrder
<1> QED BY <1>1, <1>2, <1>3, <1>4, PTL
        DEF MCSpec, RegistryFindsTheThread, Th!LifecycleInOrder, LifeGoesOn
=============================================================================
