-------------------------------- MODULE Promise --------------------------------
(***************************************************************************)
(* alib::threads::Promise in debug builds: one thread fulfils it, another    *)
(* one waits, with or without a time limit, and destroys the object when it  *)
(* has the result.  The C++ promise keeps its value in a shared state that   *)
(* set_value() makes ready in one step.                                      *)
(***************************************************************************)
EXTENDS Naturals

CONSTANTS States,           \* what Fulfill() may be called with
          Unfulfilled       \* what a wait returns when its time is over

PromiseAssumption == Unfulfilled \notin States

VARIABLES
    value, DbgFulfillCI, DbgWaitCI,     \* of the object; "none" or not set
    given, fulfiller, waiter,           \* what is handed over; where the two are
    result, destroyed, warned           \* of the wait and of the destructor

promiseVars == <<value, DbgFulfillCI, DbgWaitCI, given, fulfiller, waiter,
                 result, destroyed, warned>>

Init ==
    /\ value = "none" /\ DbgFulfillCI = FALSE /\ DbgWaitCI = FALSE
    /\ given = "none" /\ fulfiller = "begin" /\ waiter = "begin"
    /\ result = "none" /\ destroyed = FALSE /\ warned = FALSE

Fulfill(s) ==
    /\ fulfiller = "begin"
    /\ given' = s
    /\ fulfiller' = "first"
    /\ UNCHANGED <<value, DbgFulfillCI, DbgWaitCI, waiter, result, destroyed, warned>>

\* First the information who fulfilled it, then the value.
SetValueFirst(step) == IF step = "first" THEN "value" ELSE "ci"     \* mutant
FulfillOrder(step) == IF step = "first" THEN "ci" ELSE "value"

FulfillStep ==
    /\ fulfiller \in {"first", "second"}
    /\ fulfiller' = IF fulfiller = "first" THEN "second" ELSE "end"
    /\ IF FulfillOrder(fulfiller) = "ci" THEN DbgFulfillCI' = TRUE /\ UNCHANGED value
                                         ELSE value' = given /\ UNCHANGED DbgFulfillCI
    /\ UNCHANGED <<DbgWaitCI, given, waiter, result, destroyed, warned>>

\* Wait(), WaitFor() and WaitUntil(); a thread that timed out may wait again.
Wait ==
    /\ waiter \in {"begin", "timeout"}
    /\ ~DbgWaitCI                                   \* asserted
    /\ waiter' = "wait"
    /\ UNCHANGED <<value, DbgFulfillCI, DbgWaitCI, given, fulfiller, result, destroyed, warned>>

WaitTimesOut ==
    /\ waiter = "wait" /\ value = "none"
    /\ waiter' = "timeout" /\ result' = Unfulfilled
    /\ UNCHANGED <<value, DbgFulfillCI, DbgWaitCI, given, fulfiller, destroyed, warned>>

Get ==
    /\ waiter = "wait" /\ value # "none"
    /\ DbgWaitCI' = TRUE
    /\ result' = value
    /\ waiter' = "got"
    /\ UNCHANGED <<value, DbgFulfillCI, given, fulfiller, destroyed, warned>>

Destruct ==
    /\ waiter = "got" /\ ~destroyed
    /\ destroyed' = TRUE
    /\ warned' = (~DbgFulfillCI \/ ~DbgWaitCI)
    /\ UNCHANGED <<value, DbgFulfillCI, DbgWaitCI, given, fulfiller, waiter, result>>

Next ==
    \/ FulfillStep \/ Wait \/ WaitTimesOut \/ Get \/ Destruct
    \/ \E s \in States : Fulfill(s)

Spec == Init /\ [][Next]_promiseVars
-----------------------------------------------------------------------------
\* Once the waiting thread has the result it may destroy the promise, although
\* Fulfill() has not returned: by then all fields of the object are written,
\* and the destructor does not take it for unfulfilled.  A wait that timed out
\* before changes nothing of this.
DestructionIsSafe == destroyed => ~warned /\ fulfiller = "end" /\ result = given
=============================================================================
