----------------------------- MODULE RecursiveLock -----------------------------
(***************************************************************************)
(* RecursiveLock and RecursiveTimedLock in debug builds: a recursive mutex,  *)
(* watched by a DbgLockAsserter whose counter follows the depth of the       *)
(* mutex.  Threads may also release what they do not own.                    *)
(***************************************************************************)
EXTENDS Integers

CONSTANTS Threads, None, RecursionLimit,
          MaxDepth          \* bound of the model

RecursiveLockAssumption == None \notin Threads /\ {RecursionLimit, MaxDepth} \subseteq Nat \ {0}

VARIABLES
    owner, depth,                           \* the mutex
    CntAcquirements, AcqCI,                 \* the asserter
    pc, asserted, warned, misused

recursiveVars == <<owner, depth, CntAcquirements, AcqCI, pc, asserted, warned, misused>>

Init ==
    /\ owner = None /\ depth = 0 /\ CntAcquirements = 0 /\ AcqCI = None
    /\ pc = [t \in Threads |-> "user"] /\ asserted = FALSE /\ warned = FALSE /\ misused = FALSE

Goto(t, to) == pc' = [pc EXCEPT ![t] = to]

\* DoAssert() with type 0 halts, with type 1 it warns.
Assert(t, cond, to) ==
    IF cond THEN Goto(t, to) /\ UNCHANGED asserted ELSE asserted' = TRUE /\ UNCHANGED pc

\* AcquireRecursive() and the two that only try; these may come back without.
Acquire(t) ==
    /\ pc[t] = "user" /\ owner \in {t, None} /\ depth < MaxDepth
    /\ owner' = t /\ depth' = depth + 1
    /\ Goto(t, "set")
    /\ UNCHANGED <<CntAcquirements, AcqCI, asserted, warned, misused>>

SetRecursiveOwner(t) ==
    /\ pc[t] = "set"
    /\ Assert(t, CntAcquirements = 0 \/ AcqCI = t, "count")
    /\ AcqCI' = t
    /\ UNCHANGED <<owner, depth, CntAcquirements, warned, misused>>

CountRecursiveOwner(t) ==
    /\ pc[t] = "count"
    /\ CntAcquirements' = CntAcquirements + 1
    /\ warned' = (warned \/ CntAcquirements' % RecursionLimit = 0)
    /\ Goto(t, "user")
    /\ UNCHANGED <<owner, depth, AcqCI, asserted, misused>>

CallRelease(t) ==
    /\ pc[t] = "user"
    /\ misused' = (misused \/ owner # t)
    /\ Goto(t, "assertOwned")
    /\ UNCHANGED <<owner, depth, CntAcquirements, AcqCI, asserted, warned>>

AssertOwned(t) ==
    /\ pc[t] = "assertOwned"
    /\ Assert(t, CntAcquirements > 0, "assertOwner")
    /\ UNCHANGED <<owner, depth, CntAcquirements, AcqCI, warned, misused>>

Release(t) ==
    /\ pc[t] = "assertOwner"
    /\ Assert(t, CntAcquirements > 0 /\ AcqCI = t, "unlock")
    /\ CntAcquirements' = IF CntAcquirements > 0 /\ AcqCI = t THEN CntAcquirements - 1
                                                              ELSE CntAcquirements
    /\ UNCHANGED <<owner, depth, AcqCI, warned, misused>>

Unlock(t) ==
    /\ pc[t] = "unlock"
    /\ depth' = depth - 1 /\ owner' = IF depth = 1 THEN None ELSE owner
    /\ Goto(t, "user")
    /\ UNCHANGED <<CntAcquirements, AcqCI, asserted, warned, misused>>

Next ==
    /\ ~asserted
    /\ \E t \in Threads :
        \/ Acquire(t) \/ SetRecursiveOwner(t) \/ CountRecursiveOwner(t)
        \/ CallRelease(t) \/ AssertOwned(t) \/ Release(t) \/ Unlock(t)

Spec == Init /\ [][Next]_recursiveVars
-----------------------------------------------------------------------------
\* WillRelease(), "that the next release will actually release", as a thread
\* reads it that is about to release.
WillRelease == CntAcquirements = 1

\* The asserter is silent unless a thread releases what it does not own, and
\* then it stops the thread before the mutex is touched: the mutex is unlocked
\* by its owner only, as often as it was locked.
RecursiveMisuseIsStopped ==
    /\ asserted => misused
    /\ \A t \in Threads : pc[t] = "unlock" => owner = t /\ depth = CntAcquirements + 1

\* What the owner is told is right: the release that is announced to be the
\* last one frees the mutex.
WillReleaseIsRight ==
    \A t \in Threads : owner = t /\ pc[t] \in {"user", "assertOwned", "assertOwner"} /\ AcqCI = t
        => (WillRelease <=> depth = 1)
=============================================================================
