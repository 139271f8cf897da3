------------------------------- MODULE Condition -------------------------------
(***************************************************************************)
(* alib::threads::Condition on top of TCondition, in debug builds: a mutex,  *)
(* a condition variable and a flag that remembers a notification.            *)
(*                                                                         *)
(* Dbg.Owner is written with the mutex held, but Acquire() looks at it       *)
(* before it has the mutex.  An assertion halts the program.                 *)
(***************************************************************************)
EXTENDS Integers, FiniteSets

CONSTANTS Threads, None,
          Waiters           \* the threads that wait; all of them notify

ConditionAssumption == None \notin Threads /\ Waiters \subseteq Threads /\ IsFiniteSet(Waiters)

VARIABLES
    mutex, Owner, CntWaiters, notified,
    pc, call, timed,        \* where a thread is, in which method, with a time limit?
    asserted

conditionVars == <<mutex, Owner, CntWaiters, notified, pc, call, timed, asserted>>

Init ==
    /\ mutex = None /\ Owner = None /\ CntWaiters = 0 /\ notified = FALSE
    /\ pc = [t \in Threads |-> "idle"] /\ call = [t \in Threads |-> "none"]
    /\ timed = [t \in Threads |-> FALSE] /\ asserted = FALSE

Goto(t, to) == pc' = [pc EXCEPT ![t] = to]

\* Dbg.Assert(): halt, or go on.
Assert(t, cond, to) ==
    IF cond THEN Goto(t, to) /\ UNCHANGED asserted ELSE asserted' = TRUE /\ UNCHANGED pc
-----------------------------------------------------------------------------
\* Notify(), NotifyAll() and Wait(), the latter with or without a limit.
Call(t, method, limit) ==
    /\ pc[t] = "idle"
    /\ method = "Wait" => t \in Waiters
    /\ limit => method = "Wait"
    /\ call' = [call EXCEPT ![t] = method] /\ timed' = [timed EXCEPT ![t] = limit]
    /\ Goto(t, "acquire")
    /\ UNCHANGED <<mutex, Owner, CntWaiters, notified, asserted>>

AcquireAsserts(t) ==
    /\ pc[t] = "acquire"
    /\ Assert(t, Owner # t, "lock")
    /\ UNCHANGED <<mutex, Owner, CntWaiters, notified, call, timed>>

Acquire(t) ==
    /\ pc[t] = "lock" /\ mutex = None
    /\ mutex' = t
    /\ Assert(t, Owner = None, "set")
    /\ UNCHANGED <<Owner, CntWaiters, notified, call, timed>>

\* With the mutex: Wait() forgets older notifications.
SetFlag(t) == notified' = (call[t] # "Wait")

SetOwner(t) ==
    /\ pc[t] = "set"
    /\ Owner' = t /\ SetFlag(t)
    /\ Goto(t, IF call[t] = "Wait" THEN "wait" ELSE "notify")
    /\ UNCHANGED <<mutex, CntWaiters, call, timed, asserted>>

\* The assertions of the methods that follow an acquisition.
OwnerForgets(t, to) == Assert(t, Owner = t, to) /\ UNCHANGED Owner   \* mutant
OwnerLeaves(t, to) == Assert(t, Owner = t, to) /\ Owner' = None

WaitForNotification(t) ==
    /\ pc[t] = "wait"
    /\ OwnerLeaves(t, "test")
    /\ CntWaiters' = CntWaiters + 1
    /\ UNCHANGED <<mutex, notified, call, timed>>

\* The predicate, when the wait begins and each time it is interrupted.
Test(t) ==
    /\ pc[t] = "test"
    /\ \/ notified /\ Goto(t, "return") /\ UNCHANGED mutex
       \/ ~notified /\ Goto(t, "sleep") /\ mutex' = None
    /\ UNCHANGED <<Owner, CntWaiters, notified, call, timed, asserted>>

\* Notified, or woken without reason.
Spurious(t) ==
    /\ pc[t] = "sleep"
    /\ Goto(t, "woken")
    /\ UNCHANGED <<mutex, Owner, CntWaiters, notified, call, timed, asserted>>

TimeOut(t) ==
    /\ pc[t] = "sleep" /\ timed[t]
    /\ Goto(t, "over")
    /\ UNCHANGED <<mutex, Owner, CntWaiters, notified, call, timed, asserted>>

Relock(t) ==
    /\ pc[t] \in {"woken", "over"} /\ mutex = None
    /\ mutex' = t
    /\ Goto(t, IF pc[t] = "woken" THEN "test" ELSE "return")
    /\ UNCHANGED <<Owner, CntWaiters, notified, call, timed, asserted>>

WaitReturns(t) ==
    /\ pc[t] = "return"
    /\ Owner' = t /\ CntWaiters' = CntWaiters - 1
    /\ Goto(t, "release")
    /\ UNCHANGED <<mutex, notified, call, timed, asserted>>

Release(t) ==
    /\ pc[t] \in {"notify", "release"}
    /\ OwnerLeaves(t, IF pc[t] = "notify" THEN "unlock" ELSE "unlockOnly")
    /\ UNCHANGED <<mutex, CntWaiters, notified, call, timed>>

Unlock(t) ==
    /\ pc[t] \in {"unlock", "unlockOnly"}
    /\ mutex' = None
    /\ Goto(t, IF pc[t] = "unlock" THEN "signal" ELSE "idle")
    /\ UNCHANGED <<Owner, CntWaiters, notified, call, timed, asserted>>

\* notify_one() or notify_all(), after the mutex was released.
Wakes(t, S) ==
    IF call[t] = "NotifyAll" THEN S = {w \in Threads : pc[w] = "sleep"}
    ELSE IF \E w \in Threads : pc[w] = "sleep" THEN \E w \in Threads : pc[w] = "sleep" /\ S = {w}
    ELSE S = {}

Signal(t) ==
    /\ pc[t] = "signal"
    /\ \E S \in SUBSET Threads :
        /\ Wakes(t, S)
        /\ pc' = [w \in Threads |-> IF w \in S THEN "woken" ELSE IF w = t THEN "idle" ELSE pc[w]]
    /\ UNCHANGED <<mutex, Owner, CntWaiters, notified, call, timed, asserted>>

Step(t) ==
    \/ AcquireAsserts(t) \/ Acquire(t) \/ SetOwner(t) \/ WaitForNotification(t) \/ Test(t)
    \/ Relock(t) \/ WaitReturns(t) \/ Release(t) \/ Unlock(t) \/ Signal(t)

Next ==
    /\ ~asserted
    /\ \E t \in Threads :
        \/ Step(t) \/ Spurious(t) \/ TimeOut(t)
        \/ \E method \in {"Notify", "NotifyAll", "Wait"}, limit \in BOOLEAN : Call(t, method, limit)

\* Threads go on with what they began.  One that was woken gets the mutex at
\* some time, although others may use it again and again.
Fairness ==
    /\ \A t \in Threads : WF_conditionVars(Step(t))
    /\ \A w \in Waiters : SF_conditionVars(Relock(w))

Spec == Init /\ [][Next]_conditionVars /\ Fairness
-----------------------------------------------------------------------------
InWait == {"test", "sleep", "woken", "over", "return"}

ConditionTypeOK ==
    /\ mutex \in Threads \cup {None} /\ Owner \in Threads \cup {None}
    /\ CntWaiters \in 0..Cardinality(Waiters) /\ notified \in BOOLEAN
    /\ pc \in [Threads -> InWait \cup {"idle", "acquire", "lock", "set", "wait", "notify",
                                       "release", "unlock", "unlockOnly", "signal"}]
    /\ call \in [Threads -> {"none", "Notify", "NotifyAll", "Wait"}]
    /\ timed \in [Threads -> BOOLEAN] /\ asserted \in BOOLEAN

\* The assertions about the owner are silent however threads interleave: the
\* owner is reset before the mutex is released, by waits as well.
ConditionIsSilent == ~asserted

\* "Wakes up the next sleeping thread": with one thread that waits, a
\* notification that comes while it waits ends its wait.
NotificationWakes ==
    \A w \in Waiters : (notified /\ pc[w] \in InWait) ~> pc[w] \notin InWait
=============================================================================
