----------------------------- MODULE WorkersProofs -----------------------------
(* Proofs about Trigger and Condition: what MCWorkers states of them holds for *)
(* every number of objects, periods and threads.  Of DedicatedWorker there is *)
(* a module of its own.                                                      *)
EXTENDS MCWorkers, FiniteSetTheorems, TLAPS

\* A step is one of one component.
LEMMA OneComponentSteps ==
    ASSUME [MCNext]_mcVars
    PROVE  /\ component' = component
           /\ (component = "Trigger" /\ Tr!Next) \/ UNCHANGED triggerVars
           /\ (component = "Condition" /\ Co!Next) \/ UNCHANGED conditionVars
BY DEF MCNext, mcVars, Only, Rest
-----------------------------------------------------------------------------
(* Trigger                                                                   *)

\* The alarm comes no later than the time of o.
InTime(o) == alarm # None /\ alarm <= left[o]

\* In its list the thread has set the alarm for what it has visited.  When it
\* sleeps the alarm is set for all, or a flag tells of a change.
TriggerInv ==
    /\ Tr!TypeOK
    /\ mutex = "runner" <=> tpc \in {"loop", "list"}
    /\ tpc = "list" =>
        /\ ttodo \subseteq Tr!Registered /\ due \subseteq Tr!Registered
        /\ \A o \in Tr!Registered \ ttodo : InTime(o)
    /\ tpc \in {"wait", "notified"} /\ ~wakeUpCondition => \A o \in Tr!Registered : InTime(o)

\* The earlier of two points in time, one of which may be the end of all times.
LEMMA EarlierOfTwo ==
    ASSUME NEW s \in Nat \cup {None}, NEW t \in Nat \cup {None}, None \notin Nat
    PROVE  /\ Tr!Earliest({s, t}) \in Nat \cup {None}
           /\ s # None => Tr!Earliest({s, t}) # None /\ Tr!Earliest({s, t}) <= s
           /\ t # None => Tr!Earliest({s, t}) # None /\ Tr!Earliest({s, t}) <= t
<1>1. CASE s = None /\ t = None
  BY <1>1 DEF Tr!Earliest, Tr!Never
<1>2. CASE s # None \/ t # None
  <2> DEFINE S == {s, t} \ {None}
  <2>1. Tr!Earliest({s, t}) = Tr!Min(S)
    BY <1>2 DEF Tr!Earliest, Tr!Never
  <2>2. \E m \in S : \A o \in S : m <= o
    <3>1. s # None /\ t # None => s <= t \/ t <= s
      OBVIOUS
    <3> QED BY <1>2, <3>1
  <2>3. Tr!Min(S) \in S /\ \A o \in S : Tr!Min(S) <= o
    BY <2>2 DEF Tr!Min
  <2> QED BY <2>1, <2>3
<1> QED BY <1>1, <1>2

LEMMA InitTrigger == ASSUME Tr!Init PROVE TriggerInv
BY TriggersAssumption
   DEF Tr!Init, TriggerInv, Tr!TypeOK, Tr!Registered, Tr!Never, Tr!Times, Tr!TriggerAssumption

LEMMA StepKeepsTrigger ==
    ASSUME TriggerInv, [MCNext]_mcVars PROVE TriggerInv'
<1> USE DEF TriggerInv, Tr!TypeOK, Tr!Registered, Tr!Never, Tr!Times, InTime, Tr!listVars, Tr!flags,
        Tr!doVars
<1>0. /\ Period \in [TriggeredObjects -> Nat \ {0}] /\ Durations \subseteq Nat
      /\ None \notin Nat /\ None # "runner"
  BY TriggersAssumption DEF Tr!TriggerAssumption
<1>1. CASE UNCHANGED triggerVars
  BY <1>1 DEF triggerVars
<1>2. CASE Tr!Run
  BY <1>2 DEF Tr!Run
<1>3. CASE Tr!RunTest
  BY <1>3 DEF Tr!RunTest
<1>4. ASSUME NEW duration \in Durations, Tr!CallDo(duration) PROVE TriggerInv'
  BY <1>0, <1>4 DEF Tr!CallDo
<1>5. CASE Tr!DoEnter
  BY <1>0, <1>5 DEF Tr!DoEnter
<1>6. CASE Tr!DoLoop
  BY <1>6 DEF Tr!DoLoop, Tr!Due
<1>7. ASSUME NEW o \in TriggeredObjects, Tr!Visit(o) PROVE TriggerInv'
  <2>1. /\ tpc = "list" /\ tpc' = "list" /\ ttodo' = ttodo \ {o} /\ mutex' = mutex
        /\ wakeUpCondition' = wakeUpCondition /\ internalThreadMode' = internalThreadMode
        /\ calledByInternalThread' = calledByInternalThread /\ until' = until /\ tcpc' = tcpc
        /\ started' = started
    BY <1>7 DEF Tr!Visit
  <2>2. /\ left' \in [TriggeredObjects -> Nat \cup {None}]
        /\ \A p \in TriggeredObjects : p # o => left'[p] = left[p]
        /\ left'[o] = None <=> left[o] = None
    BY <1>0, <1>7 DEF Tr!Visit
  <2>3. due' \subseteq Tr!Registered' /\ fired' \subseteq TriggeredObjects
    BY <1>0, <1>7, <2>2 DEF Tr!Visit
  <2>4. alarm' = Tr!Earliest({alarm, left'[o]})
    BY <1>7 DEF Tr!Visit
  <2>5. /\ alarm' \in Nat \cup {None}
        /\ alarm # None => alarm' # None /\ alarm' <= alarm
        /\ left'[o] # None => alarm' # None /\ alarm' <= left'[o]
    BY <1>0, <2>2, <2>4, EarlierOfTwo
  <2>6. ASSUME NEW p \in Tr!Registered' \ ttodo' PROVE InTime(p)'
    <3>1. CASE p = o
      BY <2>5, <2>6, <3>1
    <3>2. CASE p # o
      <4>1. p \in Tr!Registered \ ttodo
        BY <2>1, <2>2, <2>6, <3>2
      <4>2. alarm # None /\ alarm <= left[p] /\ left'[p] = left[p] /\ left[p] \in Nat /\ alarm \in Nat
        BY <2>1, <2>2, <4>1, <3>2
      <4> QED BY <1>0, <2>5, <4>2
    <3> QED BY <3>1, <3>2
  <2>7. ttodo' \subseteq Tr!Registered'
    BY <2>1, <2>2
  <2> QED BY <2>1, <2>2, <2>3, <2>5, <2>6, <2>7
<1>8. CASE Tr!Sleep
  BY <1>0, <1>8 DEF Tr!Sleep
<1>9. CASE Tr!Wake
  BY <1>0, <1>9 DEF Tr!Wake
<1>10. CASE Tr!DoLeave
  BY <1>0, <1>10 DEF Tr!DoLeave
<1>11. CASE Tr!Tick
  <2>1. /\ \A o \in TriggeredObjects : left'[o] = Tr!OneLess(left[o])
        /\ left' \in [TriggeredObjects -> Nat \cup {None}]
        /\ until' \in Nat \cup {None} /\ alarm' \in Nat \cup {None} /\ alarm' = Tr!OneLess(alarm)
    BY <1>0, <1>11 DEF Tr!Tick, Tr!OneLess
  <2>2. \A o \in TriggeredObjects : left'[o] = None <=> left[o] = None
    BY <1>0, <2>1 DEF Tr!OneLess
  <2>3. Tr!Registered' = Tr!Registered
    BY <2>1, <2>2
  <2>4. ASSUME NEW o \in Tr!Registered, InTime(o) PROVE InTime(o)'
    <3>1. left[o] \in Nat /\ alarm \in Nat
      BY <2>4
    <3> QED BY <1>0, <2>1, <2>4, <3>1 DEF Tr!OneLess
  <2> QED BY <1>11, <2>1, <2>3, <2>4 DEF Tr!Tick
<1>12. ASSUME NEW c \in Clients, Tr!Start(c) PROVE TriggerInv'
  BY <1>12 DEF Tr!Start
<1>13. ASSUME NEW c \in Clients, Tr!Stop(c) PROVE TriggerInv'
  BY <1>13 DEF Tr!Stop, Tr!Quiet
<1>14. ASSUME NEW c \in Clients, Tr!AfterRelease(c) PROVE TriggerInv'
  BY <1>14 DEF Tr!AfterRelease, Tr!Notify
<1>15. ASSUME NEW c \in Clients, Tr!Join(c) PROVE TriggerInv'
  BY <1>15 DEF Tr!Join
<1>16. ASSUME NEW c \in Clients, NEW o \in TriggeredObjects, Tr!Remove(c, o) PROVE TriggerInv'
  BY <1>0, <1>16 DEF Tr!Remove, Tr!Quiet
<1>17. ASSUME NEW c \in Clients, NEW o \in TriggeredObjects, NEW b \in BOOLEAN, Tr!Add(c, o, b)
       PROVE  TriggerInv'
  BY <1>0, <1>17 DEF Tr!Add, Tr!Quiet
<1> QED
  BY OneComponentSteps, <1>1, <1>2, <1>3, <1>4, <1>5, <1>6, <1>7, <1>8, <1>9, <1>10, <1>11,
     <1>12, <1>13, <1>14, <1>15, <1>16, <1>17 DEF Tr!Next, Tr!RunnerStep

\* Trigger: for every number of objects and all periods the thread never sleeps
\* past the time of an object, whoever adds or removes one meanwhile.
THEOREM TriggerNeverOversleeps == MCSpec => []NeverOversleeps
<1>1. MCInit => TriggerInv
  BY InitTrigger DEF MCInit
<1>2. TriggerInv /\ [MCNext]_mcVars => TriggerInv'
  BY StepKeepsTrigger
<1>3. TriggerInv => NeverOversleeps
  BY DEF TriggerInv, NeverOversleeps, Tr!NeverOversleeps, InTime, Tr!Never
<1> QED BY <1>1, <1>2, <1>3, PTL DEF MCSpec

\* While the thread walks through its list, entries neither come nor go.
ListStays ==
    tpc = "list" /\ tpc' = "list" => \A x \in TriggeredObjects : left[x] = Tr!Never <=> left'[x] = Tr!Never

LEMMA StepKeepsList == ASSUME TriggerInv, [MCNext]_mcVars PROVE ListStays
<1> SUFFICES ASSUME tpc = "list", tpc' = "list"
             PROVE  \A x \in TriggeredObjects : left[x] = None <=> left'[x] = None
  BY DEF ListStays, Tr!Never
<1>0. /\ Period \in [TriggeredObjects -> Nat \ {0}]
      /\ None \notin Nat /\ None # "runner"
  BY TriggersAssumption DEF Tr!TriggerAssumption
<1>1. mutex # None /\ left \in [TriggeredObjects -> Nat \cup {None}]
  BY <1>0 DEF TriggerInv, Tr!TypeOK, Tr!Times, Tr!Never
<1>2. CASE left' = left
  BY <1>2
<1>3. ASSUME NEW o \in TriggeredObjects, Tr!Visit(o)
      PROVE  \A p \in TriggeredObjects : left[p] = None <=> left'[p] = None
  <2>1. left[o] # None
    BY <1>3 DEF Tr!Visit, TriggerInv, Tr!Registered, Tr!Never
  <2> QED BY <1>0, <1>1, <1>3, <2>1 DEF Tr!Visit, Tr!listVars
<1>4. CASE Tr!Tick
  BY <1>0, <1>1, <1>4 DEF Tr!Tick, Tr!OneLess, Tr!Never
<1>5. ASSUME NEW c \in Clients, NEW o \in TriggeredObjects, Tr!Remove(c, o) PROVE FALSE
  BY <1>1, <1>5 DEF Tr!Remove, Tr!Quiet
<1>6. ASSUME NEW c \in Clients, NEW o \in TriggeredObjects, NEW b \in BOOLEAN, Tr!Add(c, o, b)
      PROVE  FALSE
  BY <1>1, <1>6 DEF Tr!Add, Tr!Quiet
<1> QED
  BY OneComponentSteps, <1>2, <1>3, <1>4, <1>5, <1>6
     DEF triggerVars, Tr!Next, Tr!RunnerStep, Tr!Run, Tr!RunTest, Tr!DoEnter, Tr!DoLoop, Tr!Sleep,
         Tr!Wake, Tr!DoLeave, Tr!CallDo, Tr!Start, Tr!Stop, Tr!AfterRelease, Tr!Join, Tr!listVars

\* Trigger: nothing is added or removed while the objects are visited, so that trigger()
\* is not called of an object once Remove() has returned.
THEOREM ListIsStableWhileVisited == MCSpec => Tr!ListStableWhileVisited
<1>1. MCInit => TriggerInv
  BY InitTrigger DEF MCInit
<1>2. TriggerInv /\ [MCNext]_mcVars => TriggerInv'
  BY StepKeepsTrigger
<1>3. TriggerInv /\ [MCNext]_mcVars => [ListStays]_(Tr!vars)
  BY StepKeepsList
<1> QED BY <1>1, <1>2, <1>3, PTL
        DEF MCSpec, Tr!ListStableWhileVisited, ListStays
-----------------------------------------------------------------------------
(* Condition                                                                 *)

\* Where a thread holds the mutex, and where the debug information names it.
Holding == {"set", "wait", "notify", "test", "return", "release", "unlock", "unlockOnly"}
Owning == {"wait", "notify", "release"}

WaitersInside == {t \in CondThreads : condPc[t] \in Co!InWait}

ConditionInv ==
    /\ condMutex \in CondThreads \cup {None} /\ Owner \in CondThreads \cup {None}
    /\ notified \in BOOLEAN /\ asserted = FALSE
    /\ condPc \in [CondThreads -> Co!InWait \cup Holding \cup {"idle", "acquire", "lock", "signal"}]
    /\ call \in [CondThreads -> {"none", "Notify", "NotifyAll", "Wait"}]
    /\ timed \in [CondThreads -> BOOLEAN]
    /\ \A t \in CondThreads :
        /\ condPc[t] \in Holding <=> condMutex = t
        /\ condPc[t] \in Owning <=> Owner = t
        /\ call[t] = "Wait" => t \in CondWaiters
        /\ condPc[t] \in Co!InWait \cup {"wait"} => call[t] = "Wait"
    /\ CntWaiters = Cardinality(WaitersInside)

LEMMA WaitersAreFew ==
    ASSUME ConditionInv
    PROVE  /\ IsFiniteSet(WaitersInside)
           /\ CntWaiters \in 0..Cardinality(CondWaiters)
<1>1. WaitersInside \subseteq CondWaiters
  BY DEF ConditionInv, WaitersInside
<1>2. IsFiniteSet(CondWaiters)
  <2>1. Co!IsFiniteSet(CondWaiters)
    BY ConditionsAssumption DEF Co!ConditionAssumption
  <2> QED BY <2>1, Zenon DEF Co!IsFiniteSet, IsFiniteSet
<1>3. /\ IsFiniteSet(WaitersInside) /\ Cardinality(WaitersInside) \in Nat
      /\ Cardinality(CondWaiters) \in Nat
      /\ Cardinality(WaitersInside) <= Cardinality(CondWaiters)
  BY <1>1, <1>2, FS_Subset, FS_CardinalityType
<1> QED BY <1>3 DEF ConditionInv

LEMMA InitCondition == ASSUME Co!Init PROVE ConditionInv
<1>1. WaitersInside = {}
  BY DEF Co!Init, WaitersInside, Co!InWait
<1> QED
  BY <1>1, FS_EmptySet, ConditionsAssumption
     DEF Co!Init, ConditionInv, Co!ConditionAssumption, Co!InWait, Holding, Owning

\* A step that moves nobody into or out of a wait.
LEMMA SameWaiters ==
    ASSUME ConditionInv, CntWaiters' = CntWaiters,
           \A t \in CondThreads : condPc'[t] \in Co!InWait <=> condPc[t] \in Co!InWait
    PROVE  CntWaiters' = Cardinality(WaitersInside')
<1>1. WaitersInside' = WaitersInside
  BY DEF WaitersInside, Co!InWait
<1> QED BY <1>1 DEF ConditionInv

LEMMA StepKeepsCondition ==
    ASSUME ConditionInv, [MCNext]_mcVars PROVE ConditionInv'
<1> USE DEF Holding, Owning, Co!InWait, Co!Goto, Co!Assert
<1>0. None \notin CondThreads
  BY ConditionsAssumption DEF Co!ConditionAssumption
<1>1. CASE UNCHANGED conditionVars
  BY <1>1 DEF conditionVars, ConditionInv, WaitersInside
<1>2. ASSUME NEW t \in CondThreads, NEW method \in {"Notify", "NotifyAll", "Wait"},
             NEW limit \in BOOLEAN, Co!Call(t, method, limit)
      PROVE  ConditionInv'
  BY <1>0, <1>2, SameWaiters DEF Co!Call, ConditionInv
<1>3. ASSUME NEW t \in CondThreads, Co!AcquireAsserts(t) PROVE ConditionInv'
  BY <1>0, <1>3, SameWaiters DEF Co!AcquireAsserts, ConditionInv
<1>4. ASSUME NEW t \in CondThreads, Co!Acquire(t) PROVE ConditionInv'
  BY <1>0, <1>4, SameWaiters DEF Co!Acquire, ConditionInv
<1>5. ASSUME NEW t \in CondThreads, Co!SetOwner(t) PROVE ConditionInv'
  BY <1>0, <1>5, SameWaiters DEF Co!SetOwner, Co!SetFlag, ConditionInv
<1>6. ASSUME NEW t \in CondThreads, Co!WaitForNotification(t) PROVE ConditionInv'
  <2>1. Owner = t /\ condPc[t] = "wait"
    BY <1>6 DEF Co!WaitForNotification, ConditionInv
  <2>2. /\ condPc' = [condPc EXCEPT ![t] = "test"] /\ Owner' = None /\ asserted' = asserted
        /\ CntWaiters' = CntWaiters + 1
    BY <1>6, <2>1 DEF Co!WaitForNotification, Co!OwnerLeaves
  <2>3. WaitersInside' = WaitersInside \cup {t} /\ t \notin WaitersInside
    BY <2>1, <2>2 DEF WaitersInside, ConditionInv
  <2>4. CntWaiters' = Cardinality(WaitersInside')
    BY <2>2, <2>3, WaitersAreFew, FS_AddElement DEF ConditionInv
  <2> QED BY <1>0, <1>6, <2>1, <2>2, <2>4 DEF Co!WaitForNotification, ConditionInv
<1>7. ASSUME NEW t \in CondThreads, Co!Test(t) PROVE ConditionInv'
  BY <1>0, <1>7, SameWaiters DEF Co!Test, ConditionInv
<1>8. ASSUME NEW t \in CondThreads, Co!Spurious(t) PROVE ConditionInv'
  BY <1>0, <1>8, SameWaiters DEF Co!Spurious, ConditionInv
<1>9. ASSUME NEW t \in CondThreads, Co!TimeOut(t) PROVE ConditionInv'
  BY <1>0, <1>9, SameWaiters DEF Co!TimeOut, ConditionInv
<1>10. ASSUME NEW t \in CondThreads, Co!Relock(t) PROVE ConditionInv'
  BY <1>0, <1>10, SameWaiters DEF Co!Relock, ConditionInv
<1>11. ASSUME NEW t \in CondThreads, Co!WaitReturns(t) PROVE ConditionInv'
  <2>1. condPc[t] = "return" /\ condPc' = [condPc EXCEPT ![t] = "release"] /\ Owner' = t
        /\ CntWaiters' = CntWaiters - 1
    BY <1>11 DEF Co!WaitReturns
  <2>2. WaitersInside' = WaitersInside \ {t} /\ t \in WaitersInside
    BY <2>1 DEF WaitersInside, ConditionInv
  <2>3. CntWaiters' = Cardinality(WaitersInside')
    BY <2>1, <2>2, WaitersAreFew, FS_RemoveElement DEF ConditionInv
  <2> QED BY <1>0, <1>11, <2>1, <2>3 DEF Co!WaitReturns, ConditionInv
<1>12. ASSUME NEW t \in CondThreads, Co!Release(t) PROVE ConditionInv'
  <2>1. Owner = t /\ condPc[t] \in {"notify", "release"}
    BY <1>12 DEF Co!Release, ConditionInv
  <2>2. /\ condPc' = [condPc EXCEPT ![t] = IF condPc[t] = "notify" THEN "unlock" ELSE "unlockOnly"]
        /\ Owner' = None /\ asserted' = asserted /\ condMutex' = condMutex
        /\ CntWaiters' = CntWaiters /\ notified' = notified /\ call' = call /\ timed' = timed
    BY <1>12, <2>1 DEF Co!Release, Co!OwnerLeaves
  <2>3. CntWaiters' = Cardinality(WaitersInside')
    BY <2>1, <2>2, SameWaiters DEF ConditionInv
  <2> QED BY <1>0, <2>1, <2>2, <2>3 DEF ConditionInv
<1>13. ASSUME NEW t \in CondThreads, Co!Unlock(t) PROVE ConditionInv'
  BY <1>0, <1>13, SameWaiters DEF Co!Unlock, ConditionInv
<1>14. ASSUME NEW t \in CondThreads, Co!Signal(t) PROVE ConditionInv'
  <2>1. PICK S \in SUBSET CondThreads :
          /\ Co!Wakes(t, S)
          /\ condPc' = [w \in CondThreads |-> IF w \in S THEN "woken"
                                              ELSE IF w = t THEN "idle" ELSE condPc[w]]
    BY <1>14 DEF Co!Signal
  <2>2. \A w \in S : condPc[w] = "sleep"
    BY <2>1 DEF Co!Wakes
  <2>3. /\ condPc[t] = "signal" /\ condMutex' = condMutex /\ Owner' = Owner /\ CntWaiters' = CntWaiters
        /\ notified' = notified /\ call' = call /\ timed' = timed /\ asserted' = asserted
    BY <1>14 DEF Co!Signal
  <2>4. CntWaiters' = Cardinality(WaitersInside')
    BY <2>1, <2>2, <2>3, SameWaiters
  <2> QED BY <1>0, <2>1, <2>2, <2>3, <2>4 DEF ConditionInv
<1> QED
  BY OneComponentSteps, <1>1, <1>2, <1>3, <1>4, <1>5, <1>6, <1>7, <1>8, <1>9, <1>10, <1>11,
     <1>12, <1>13, <1>14 DEF Co!Next, Co!Step

\* Condition: for every number of threads that wait and notify, the assertions about
\* the owner are silent and the counter of waiting threads is right.
THEOREM ConditionStaysSilent == MCSpec => [](Co!ConditionTypeOK /\ Co!ConditionIsSilent)
<1>1. MCInit => ConditionInv
  BY InitCondition DEF MCInit
<1>2. ConditionInv /\ [MCNext]_mcVars => ConditionInv'
  BY StepKeepsCondition
<1>3. ConditionInv => Co!ConditionTypeOK /\ Co!ConditionIsSilent
  <2>1. Co!Cardinality(CondWaiters) = Cardinality(CondWaiters)
    BY Zenon DEF Co!Cardinality, Cardinality, Co!IsFiniteSet, IsFiniteSet
  <2> QED BY <2>1, WaitersAreFew
          DEF ConditionInv, Co!ConditionTypeOK, Co!ConditionIsSilent, Co!InWait, Holding
<1> QED BY <1>1, <1>2, <1>3, PTL DEF MCSpec
=============================================================================
