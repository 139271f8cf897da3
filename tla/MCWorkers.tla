------------------------------ MODULE MCWorkers ------------------------------
(* The classes around a single thread, on small instances: DedicatedWorker,  *)
(* Trigger and Condition.  A behaviour is one of one component; the others   *)
(* stay in their initial states, where nothing of them is enabled by  *)
(* fairness.                                                                *)
EXTENDS DedicatedWorker, TLC

CONSTANTS
    TriggeredObjects, Period, Durations,
    CondThreads, CondWaiters,
    low, often          \* the job of low priority, the object triggered most often

VARIABLES component
-----------------------------------------------------------------------------
VARIABLES mutex, left, wakeUpCondition, internalThreadMode, started,
          tpc, due, ttodo, calledByInternalThread, until, alarm, fired, tcpc
triggerVars == <<mutex, left, wakeUpCondition, internalThreadMode, started, tpc, due, ttodo,
                 calledByInternalThread, until, alarm, fired, tcpc>>

\* Priority::Standard for all but one, which must not be deleted deferred.
MCPriority == [job \in Jobs |-> IF job = low THEN Lowest ELSE 2000]

\* One object is triggered every tick, the other one every second tick.
MCPeriod == [o \in TriggeredObjects |-> IF o = often THEN 1 ELSE 2]

Tr == INSTANCE Trigger WITH Objects <- TriggeredObjects, StopEarly <- FALSE,
                            pc <- tpc, todo <- ttodo, cpc <- tcpc
ASSUME TriggersAssumption == Tr!TriggerAssumption
-----------------------------------------------------------------------------
VARIABLES condMutex, Owner, CntWaiters, notified, condPc, call, timed, asserted
conditionVars == <<condMutex, Owner, CntWaiters, notified, condPc, call, timed, asserted>>

Co == INSTANCE Condition WITH Threads <- CondThreads, Waiters <- CondWaiters,
                              mutex <- condMutex, pc <- condPc
ASSUME ConditionsAssumption == Co!ConditionAssumption
-----------------------------------------------------------------------------
MCInit ==
    /\ component \in {"DedicatedWorker", "Trigger", "Condition"}
    /\ Init /\ Tr!Init /\ Co!Init

Rest(active, own, variables) == IF own = active THEN TRUE ELSE UNCHANGED variables
\* A step of one component leaves the others as they are.
Only(active) ==
    /\ UNCHANGED component
    /\ Rest(active, "DedicatedWorker", vars)
    /\ Rest(active, "Trigger", triggerVars)
    /\ Rest(active, "Condition", conditionVars)

MCNext ==
    \/ component = "DedicatedWorker" /\ Only("DedicatedWorker") /\ Next
    \/ component = "Trigger" /\ Only("Trigger") /\ Tr!Next
    \/ component = "Condition" /\ Only("Condition") /\ Co!Next

MCFairness == Fairness /\ Tr!Fairness /\ Co!Fairness
mcVars == <<component, vars, triggerVars, conditionVars>>
MCSpec == MCInit /\ [][MCNext]_mcVars /\ MCFairness
-----------------------------------------------------------------------------
\* DedicatedWorker: every scheduled job is executed, and the removal of a worker
\* comes to an end.
WorkersServe == EveryJobIsExecuted /\ RemoveReturns

\* Trigger: its thread never sleeps past the time of an object, whoever adds or
\* removes one meanwhile.
NeverOversleeps == component = "Trigger" => Tr!TypeOK /\ Tr!NeverOversleeps

\* Trigger: a registered object is triggered when it is due, the list does not
\* change while it is visited, and Stop() comes to an end.
TriggersServe ==
    /\ Tr!DueIsTriggered
    /\ Tr!ListStableWhileVisited
    /\ Tr!StopReturns

\* Condition: the assertions of its debug build are silent, and a notification wakes
\* the thread that waits.
ConditionsWork ==
    /\ [](Co!ConditionTypeOK /\ Co!ConditionIsSilent)
    /\ Co!NotificationWakes
=============================================================================
