-------------------------------- MODULE Trigger --------------------------------
(***************************************************************************)
(* alib::threadmodel::Trigger: one thread calls trigger() of registered     *)
(* objects periodically.  The thread is either the one that Start() creates *)
(* or one of the user, which calls Do().                                    *)
(*                                                                         *)
(* Time is relative: `left[x]' is what is left until NextWakeup of x, and   *)
(* each tick makes it smaller.  The mutex of TCondition is explicit, because *)
(* Do() holds it while it calls the objects, and because Run() and Stop()   *)
(* share a flag that Run() uses without it.                                 *)
(***************************************************************************)
EXTENDS Integers, FiniteSets, FiniteSetsExt

CONSTANTS
    Objects, Clients, None,
    Period,             \* triggerPeriod() of each object
    Durations,          \* what users pass to Do()
    StopEarly           \* Stop() may come before the thread is seen at work

\* Of the constants of an instance.
TriggerAssumption ==
    /\ Period \in [Objects -> Nat \ {0}]
    /\ Durations \subseteq Nat /\ StopEarly \in BOOLEAN
    /\ None \notin Clients \cup {"runner"} \cup Nat

Never == None           \* EndOfEpoch, and not registered

VARIABLES
    mutex, left, wakeUpCondition, internalThreadMode,
    started,                    \* Start() was called
    pc, due, todo,              \* of the thread inside Run() and Do()
    calledByInternalThread, until, alarm,
    fired,                      \* what was triggered since Start(): proves
                                \* to clients that the thread is inside Do()
    cpc

listVars == <<left, fired>>
flags == <<wakeUpCondition, internalThreadMode>>
doVars == <<calledByInternalThread, until, alarm, due, todo>>
vars == <<mutex, listVars, flags, started, pc, doVars, cpc>>

Registered == {x \in Objects : left[x] # Never}
Due == {x \in Registered : left[x] = 0}

\* The earlier one of points in time, EndOfEpoch being the last of all.
Earliest(times) == IF times \subseteq {Never} THEN Never ELSE Min(times \ {Never})

Init ==
    /\ mutex = None /\ left = [x \in Objects |-> Never]
    /\ wakeUpCondition = FALSE /\ internalThreadMode = FALSE
    /\ started = FALSE /\ pc = "none" /\ due = {} /\ todo = {}
    /\ calledByInternalThread = FALSE /\ until = Never /\ alarm = Never
    /\ fired = {} /\ cpc = [c \in Clients |-> "ready"]
-----------------------------------------------------------------------------
(* Clients.                                                                 *)

Quiet(c) == cpc[c] = "ready" /\ mutex = None

\* A second registration changes nothing but wakes the thread as well.
AddUnannounced(c, x, initialWakeup) ==      \* mutant
    /\ Quiet(c) /\ x \notin Registered
    /\ left' = [left EXCEPT ![x] = IF initialWakeup THEN 0 ELSE Period[x]]
    /\ cpc' = [cpc EXCEPT ![c] = "notify"]
    /\ UNCHANGED <<started, mutex, fired, flags, pc, doVars>>
Add(c, x, initialWakeup) ==
    /\ Quiet(c)
    /\ left' = [left EXCEPT ![x] =
            IF x \in Registered THEN @ ELSE IF initialWakeup THEN 0 ELSE Period[x]]
    /\ wakeUpCondition' = TRUE
    /\ cpc' = [cpc EXCEPT ![c] = "notify"]
    /\ UNCHANGED <<started, mutex, fired, internalThreadMode, pc, doVars>>

Remove(c, x) ==
    /\ Quiet(c) /\ x \in Registered
    /\ left' = [left EXCEPT ![x] = Never]
    /\ UNCHANGED <<started, mutex, fired, flags, pc, doVars, cpc>>

NotifyNobody(p) == UNCHANGED pc             \* mutant
Notify(p) == pc' = IF pc = "wait" THEN "notified" ELSE pc

AfterRelease(c) ==
    /\ cpc[c] \in {"notify", "stopNotify"}
    /\ Notify(pc)
    /\ cpc' = [cpc EXCEPT ![c] = IF @ = "notify" THEN "ready" ELSE "join"]
    /\ UNCHANGED <<started, mutex, listVars, flags, doVars>>

Start(c) ==
    /\ cpc[c] = "ready" /\ ~started /\ pc = "none"
    /\ started' = TRUE
    /\ pc' = "run" /\ fired' = {}
    /\ UNCHANGED <<mutex, left, flags, doVars, cpc>>

Stop(c) ==
    /\ Quiet(c) /\ started /\ pc # "ended"
    /\ \A d \in Clients : cpc[d] \notin {"stopNotify", "join"}
    /\ StopEarly \/ fired # {}
    /\ internalThreadMode' = FALSE
    /\ wakeUpCondition' = TRUE
    /\ cpc' = [cpc EXCEPT ![c] = "stopNotify"]
    /\ UNCHANGED <<started, mutex, listVars, pc, doVars>>

Join(c) ==
    /\ cpc[c] = "join" /\ pc = "ended"
    /\ cpc' = [cpc EXCEPT ![c] = "stopped"]
    /\ UNCHANGED <<started, mutex, listVars, flags, pc, doVars>>
-----------------------------------------------------------------------------
(* The thread that triggers.                                                *)

Run ==
    /\ pc = "run"
    /\ internalThreadMode' = TRUE
    /\ pc' = "test"
    /\ UNCHANGED <<started, mutex, listVars, wakeUpCondition, doVars, cpc>>

RunTest ==
    /\ pc = "test"
    /\ IF internalThreadMode THEN pc' = "enter" /\ until' = Never
                             ELSE pc' = "ended" /\ UNCHANGED until
    /\ UNCHANGED <<started, mutex, listVars, flags, calledByInternalThread, alarm, due, todo, cpc>>

\* A user's thread calls Do() for some time, instead of Start().
CallDo(duration) ==
    /\ ~started /\ pc = "none"
    /\ pc' = "enter" /\ until' = duration
    /\ UNCHANGED <<started, mutex, listVars, flags, calledByInternalThread, alarm, due, todo, cpc>>

DoEnter ==
    /\ pc = "enter" /\ mutex = None
    /\ mutex' = "runner"
    /\ calledByInternalThread' = internalThreadMode
    /\ pc' = "loop"
    /\ UNCHANGED <<started, listVars, flags, until, alarm, due, todo, cpc>>

GoesOn == (~calledByInternalThread \/ internalThreadMode) /\ until # 0

DoLoop ==
    /\ pc = "loop" /\ GoesOn
    /\ due' = Due /\ todo' = Registered /\ alarm' = until
    /\ pc' = "list"
    /\ UNCHANGED <<started, mutex, listVars, flags, calledByInternalThread, until, cpc>>

\* One entry; whether it is due was found out when the time was last taken.
Visit(x) ==
    /\ pc = "list" /\ x \in todo
    /\ todo' = todo \ {x}
    /\ \/ /\ x \in due
          /\ left' = [left EXCEPT ![x] = Period[x]]
          /\ due' = {y \in todo' : left[y] = 0}
          /\ fired' = fired \cup {x}
       \/ /\ x \notin due
          /\ UNCHANGED <<started, listVars, due>>
    /\ alarm' = Earliest({alarm, left'[x]})
    /\ UNCHANGED <<started, mutex, flags, pc, calledByInternalThread, until, cpc>>

Sleep ==
    /\ pc = "list" /\ todo = {}
    /\ wakeUpCondition' = FALSE
    /\ mutex' = None
    /\ pc' = "wait"
    /\ UNCHANGED <<started, listVars, internalThreadMode, doVars, cpc>>

\* Notified or out of time; a wait that ends without reason begins again.
Wake ==
    /\ pc \in {"wait", "notified"} /\ mutex = None
    /\ \/ /\ (pc = "notified" /\ wakeUpCondition) \/ alarm = 0
          /\ mutex' = "runner" /\ pc' = "loop"
       \/ /\ pc = "notified" /\ ~wakeUpCondition /\ alarm # 0
          /\ pc' = "wait" /\ UNCHANGED mutex
    /\ UNCHANGED <<started, listVars, flags, doVars, cpc>>

\* Run() clears the flag once more, a user's thread goes on with its own work.
DoLeave ==
    /\ pc = "loop" /\ ~GoesOn
    /\ mutex' = None
    /\ pc' = IF until = Never THEN "test" ELSE "none"
    /\ UNCHANGED <<started, listVars, flags, doVars, cpc>>

OneLess(t) == IF t \in {Never, 0} THEN t ELSE t - 1

Tick ==
    /\ \E t \in {left[x] : x \in Objects} \cup {until, alarm} : t \notin {Never, 0}
    /\ left' = [x \in Objects |-> OneLess(left[x])]
    /\ until' = OneLess(until) /\ alarm' = OneLess(alarm)
    /\ UNCHANGED <<started, mutex, fired, flags, pc, calledByInternalThread, due, todo, cpc>>
-----------------------------------------------------------------------------
RunnerStep ==
    \/ Run \/ RunTest \/ DoEnter \/ DoLoop \/ Sleep \/ Wake \/ DoLeave
    \/ \E x \in Objects : Visit(x)

Next ==
    \/ RunnerStep \/ Tick
    \/ \E duration \in Durations : CallDo(duration)
    \/ \E c \in Clients :
        \/ Start(c) \/ Stop(c) \/ AfterRelease(c) \/ Join(c)
        \/ \E x \in Objects : Remove(c, x)
        \/ \E x \in Objects, b \in BOOLEAN : Add(c, x, b)

\* Threads go on and time passes.  Stop() gets the mutex at some time because
\* the thread is asleep again and again; nobody has to call it.
Fairness ==
    /\ WF_vars(RunnerStep) /\ WF_vars(Tick)
    /\ \A c \in Clients : WF_vars(AfterRelease(c)) /\ WF_vars(Join(c))

Spec == Init /\ [][Next]_vars /\ Fairness
-----------------------------------------------------------------------------
Times == Nat \cup {Never}

TypeOK ==
    /\ mutex \in {None, "runner"}
    /\ left \in [Objects -> Times]
    /\ wakeUpCondition \in BOOLEAN /\ internalThreadMode \in BOOLEAN
    /\ started \in BOOLEAN
    /\ pc \in {"none", "run", "test", "enter", "loop", "list", "wait", "notified", "ended"}
    /\ due \subseteq Objects /\ todo \subseteq Objects
    /\ calledByInternalThread \in BOOLEAN
    /\ until \in Times /\ alarm \in Times
    /\ fired \subseteq Objects
    /\ cpc \in [Clients -> {"ready", "notify", "stopNotify", "join", "stopped"}]

\* The thread never sleeps longer than until the next object is due: either
\* its alarm is early enough or a change of the list is about to wake it.
NeverOversleeps ==
    pc = "wait" /\ ~wakeUpCondition =>
        \A x \in Registered : alarm # Never /\ alarm <= left[x]

\* While the thread walks through the list nobody else changes it: once
\* Remove() has returned, trigger() of the object is not called any more.
ListStableWhileVisited ==
    [][pc = "list" /\ pc' = "list" => \A x \in Objects :
          left[x] = Never <=> left'[x] = Never]_vars

\* An object that is due is triggered, unless it is removed or the trigger is
\* stopped: no wake-up by Add() is lost and no alarm is set too late.
DueIsTriggered ==
    \A x \in Objects : left[x] = 0 ~>
        \/ left[x] # 0 \/ pc \in {"none", "ended"}
        \/ \E c \in Clients : cpc[c] = "join"

\* "Stops the trigger thread and joins it": Stop() returns.
StopReturns == \A c \in Clients : cpc[c] = "stopNotify" ~> cpc[c] = "stopped"
=============================================================================
