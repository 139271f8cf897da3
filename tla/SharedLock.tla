------------------------------ MODULE SharedLock ------------------------------
(***************************************************************************)
(* The lock types of ALib in debug builds: SharedTimedLock, whose interface  *)
(* contains those of Lock, TimedLock and SharedLock, with the struct         *)
(* DbgSharedLockAsserter that watches over its use.                          *)
(*                                                                         *)
(* The asserter is not protected by a lock of its own: it is written while   *)
(* the mutex is held, and read by threads that do not hold it.  Each read or *)
(* write of one of its fields is a step.  An assertion halts the program.    *)
(***************************************************************************)
EXTENDS Integers, FiniteSets

CONSTANTS
    Threads, None,
    DbgWarningMaximumShared,
    Misuses             \* what threads do wrong: see Misuse below

Misuse == {"nested", "upgrade", "releaseFree", "releaseForeign", "releaseSharedFree"}

SharedLockAssumption ==
    /\ IsFiniteSet(Threads) /\ None \notin Threads /\ Misuses \subseteq Misuse
    /\ DbgWarningMaximumShared \in Nat

VARIABLES
    writer, readers,                                    \* the mutex
    CntAcquirements, CntSharedAcquirements, AcqCI, SAcqCI,
    pc, op,                                             \* what each thread is about to do
    raised, warned,                                     \* assertion, warning
    misused                                             \* what a thread did wrong

mutex == <<writer, readers>>
Dbg == <<CntAcquirements, CntSharedAcquirements, AcqCI, SAcqCI>>
lockVars == <<mutex, Dbg, pc, op, raised, warned, misused>>

Exclusive == {"Acquire", "TryAcquire", "TryAcquireTimed"}
Shared == {"AcquireShared", "TryAcquireShared", "TryAcquireSharedTimed"}
May(m) == m \in Misuses

Init ==
    /\ writer = None /\ readers = {}
    /\ CntAcquirements = 0 /\ CntSharedAcquirements = 0 /\ AcqCI = None /\ SAcqCI = None
    /\ pc = [t \in Threads |-> "idle"] /\ op = [t \in Threads |-> "none"]
    /\ raised = "no" /\ warned = FALSE /\ misused = {}

Goto(t, to) == pc' = [pc EXCEPT ![t] = to]

\* DoAssert() with type 0.
DoAssert(headline) == raised' = headline /\ UNCHANGED <<pc, op>>
-----------------------------------------------------------------------------
(* Acquisition, exclusive and shared: AssertNotOwning(), the mutex, and then *)
(* SetOwner() or SetSharedOwner().                                          *)

\* A call is right where the thread neither owns nor shares the lock.
Call(t, o) ==
    /\ \/ pc[t] = "idle" /\ UNCHANGED misused
       \/ pc[t] = "owning" /\ May("nested") /\ misused' = misused \cup {"nested"}
       \/ pc[t] = "sharing" /\ o \in Exclusive /\ May("upgrade") /\ misused' = misused \cup {"upgrade"}
    /\ op' = [op EXCEPT ![t] = o]
    /\ Goto(t, "count")
    /\ UNCHANGED <<mutex, Dbg, raised, warned>>

NotOwningUnasked(t) ==                  \* mutant
    /\ pc[t] = "count"
    /\ Goto(t, "lock")
    /\ UNCHANGED <<mutex, Dbg, op, raised, warned, misused>>
AssertNotOwning(t) ==
    /\ pc[t] = "count"
    /\ Goto(t, IF CntAcquirements > 0 THEN "owner" ELSE "lock")
    /\ UNCHANGED <<mutex, Dbg, op, raised, warned, misused>>

AssertNotOwner(t) ==
    /\ pc[t] = "owner"
    /\ IF AcqCI = t THEN DoAssert("nested") ELSE Goto(t, "lock") /\ UNCHANGED <<op, raised>>
    /\ UNCHANGED <<mutex, Dbg, warned, misused>>

Acquire(t) ==
    /\ pc[t] = "lock" /\ op[t] \in Exclusive
    /\ writer = None /\ readers = {}
    /\ writer' = t
    /\ Goto(t, "set")
    /\ UNCHANGED <<readers, Dbg, op, raised, warned, misused>>

AcquireShared(t) ==
    /\ pc[t] = "lock" /\ op[t] \in Shared
    /\ writer = None
    /\ readers' = readers \cup {t}
    /\ Goto(t, "setShared")
    /\ UNCHANGED <<writer, Dbg, op, raised, warned, misused>>

\* The methods named Try... come back, at once or when their time is over;
\* the others wait again and warn.
TryFails(t) ==
    /\ pc[t] = "lock" /\ op[t] \notin {"Acquire", "AcquireShared"}
    /\ writer # None \/ (readers # {} /\ op[t] \in Exclusive)
    /\ Goto(t, CASE writer = t -> "owning" [] t \in readers -> "sharing" [] OTHER -> "idle")
    /\ UNCHANGED <<mutex, Dbg, op, raised, warned, misused>>

SetOwner(t) ==
    /\ pc[t] = "set"
    /\ IF CntAcquirements > 0 \/ CntSharedAcquirements > 0
       THEN DoAssert("stillOwned") /\ UNCHANGED AcqCI
       ELSE AcqCI' = t /\ Goto(t, "setCount") /\ UNCHANGED <<op, raised>>
    /\ UNCHANGED <<mutex, CntAcquirements, CntSharedAcquirements, SAcqCI, warned, misused>>

CountOwner(t) ==
    /\ pc[t] = "setCount"
    /\ CntAcquirements' = CntAcquirements + 1
    /\ Goto(t, "owning")
    /\ UNCHANGED <<mutex, CntSharedAcquirements, AcqCI, SAcqCI, op, raised, warned, misused>>

SetSharedOwner(t) ==
    /\ pc[t] = "setShared"
    /\ IF CntAcquirements > 0 THEN DoAssert("stillOwned") /\ UNCHANGED <<CntSharedAcquirements, warned>>
       ELSE /\ CntSharedAcquirements' = CntSharedAcquirements + 1
            /\ warned' = (CntSharedAcquirements >= DbgWarningMaximumShared \/ warned)
            /\ Goto(t, "setSharedCI") /\ UNCHANGED <<op, raised>>
    /\ UNCHANGED <<mutex, CntAcquirements, AcqCI, SAcqCI, misused>>

\* Readers write this field without protection.
SetSharedCI(t) ==
    /\ pc[t] = "setSharedCI"
    /\ SAcqCI' = t
    /\ Goto(t, "sharing")
    /\ UNCHANGED <<mutex, CntAcquirements, CntSharedAcquirements, AcqCI, op, raised, warned, misused>>
-----------------------------------------------------------------------------
(* Release() and ReleaseShared().                                          *)

CallRelease(t) ==
    /\ \/ pc[t] = "owning" /\ UNCHANGED misused
       \/ /\ pc[t] = "idle" /\ writer = None /\ May("releaseFree")
          /\ misused' = misused \cup {"releaseFree"}
       \/ /\ pc[t] = "idle" /\ writer # None /\ May("releaseForeign")
          /\ misused' = misused \cup {"releaseForeign"}
    /\ Goto(t, "assertOwned")
    /\ UNCHANGED <<mutex, Dbg, op, raised, warned>>

\* AssertOwned(), and the first half of the condition in Release().
AssertOwned(t) ==
    /\ pc[t] = "assertOwned"
    /\ IF CntAcquirements = 0 THEN DoAssert("notAcquired")
       ELSE Goto(t, "release") /\ UNCHANGED <<op, raised>>
    /\ UNCHANGED <<mutex, Dbg, warned, misused>>

Release(t) ==
    /\ pc[t] = "release"
    /\ IF AcqCI # t THEN DoAssert("notOwner") /\ UNCHANGED CntAcquirements
       ELSE CntAcquirements' = CntAcquirements - 1 /\ Goto(t, "unlock") /\ UNCHANGED <<op, raised>>
    /\ UNCHANGED <<mutex, CntSharedAcquirements, AcqCI, SAcqCI, warned, misused>>

Unlock(t) ==
    /\ pc[t] = "unlock"
    /\ writer' = None
    /\ Goto(t, "idle")
    /\ UNCHANGED <<readers, Dbg, op, raised, warned, misused>>

CallReleaseShared(t) ==
    /\ \/ pc[t] = "sharing" /\ UNCHANGED misused
       \/ /\ pc[t] = "idle" /\ readers = {} /\ May("releaseSharedFree")
          /\ misused' = misused \cup {"releaseSharedFree"}
    /\ Goto(t, "releaseShared")
    /\ UNCHANGED <<mutex, Dbg, op, raised, warned>>

\* The counter is decremented first, then the mutex is released.
UnlockBeforeCount(t) ==                 \* mutant
    /\ pc[t] \in {"releaseShared", "unlockShared"}
    /\ IF pc[t] = "releaseShared"
       THEN readers' = readers \ {t} /\ Goto(t, "unlockShared") /\ UNCHANGED CntSharedAcquirements
       ELSE CntSharedAcquirements' = CntSharedAcquirements - 1 /\ Goto(t, "idle") /\ UNCHANGED readers
    /\ UNCHANGED <<writer, CntAcquirements, AcqCI, SAcqCI, op, raised, warned, misused>>
ReleaseShared(t) ==
    /\ pc[t] = "releaseShared"
    /\ CntSharedAcquirements' = CntSharedAcquirements - 1
    /\ IF CntSharedAcquirements <= 0 THEN DoAssert("tooManyReleases")
       ELSE Goto(t, "unlockShared") /\ UNCHANGED <<op, raised>>
    /\ UNCHANGED <<mutex, CntAcquirements, AcqCI, SAcqCI, warned, misused>>

\* Undefined behaviour for a thread that does not share the mutex: the model
\* goes no further with it.
UnlockShared(t) ==
    /\ pc[t] = "unlockShared" /\ t \in readers
    /\ readers' = readers \ {t}
    /\ Goto(t, "idle")
    /\ UNCHANGED <<writer, Dbg, op, raised, warned, misused>>

LockStep(t) ==
    \/ AssertNotOwning(t) \/ AssertNotOwner(t) \/ Acquire(t) \/ AcquireShared(t) \/ TryFails(t)
    \/ SetOwner(t) \/ CountOwner(t) \/ SetSharedOwner(t) \/ SetSharedCI(t)
    \/ AssertOwned(t) \/ Release(t) \/ Unlock(t) \/ ReleaseShared(t) \/ UnlockShared(t)

Next ==
    /\ raised = "no"
    /\ \E t \in Threads : \/ \E o \in Exclusive \cup Shared : Call(t, o)
                          \/ CallRelease(t) \/ CallReleaseShared(t) \/ LockStep(t)

Spec == Init /\ [][Next]_lockVars
-----------------------------------------------------------------------------
\* DCSIsAcquired() and DCSIsSharedAcquired(), asked by thread t.
IsOwnedByCurrentThread(t) == CntAcquirements > 0 /\ AcqCI = t
IsSharedOwnedByAnyThread == CntSharedAcquirements > 0

TypeOK ==
    /\ writer \in Threads \cup {None} /\ readers \subseteq Threads
    /\ CntAcquirements \in 0..1 /\ CntSharedAcquirements \in (0 - 1)..Cardinality(Threads)
    /\ AcqCI \in Threads \cup {None} /\ SAcqCI \in Threads \cup {None}
    /\ pc \in [Threads -> {"idle", "count", "owner", "lock", "set", "setCount", "owning",
                           "setShared", "setSharedCI", "sharing", "assertOwned", "release",
                           "unlock", "releaseShared", "unlockShared"}]
    /\ op \in [Threads -> Exclusive \cup Shared \cup {"none"}]
    /\ raised \in {"no", "nested", "stillOwned", "notAcquired", "notOwner", "tooManyReleases"}
    /\ warned \in BOOLEAN /\ misused \subseteq Misuse

\* The asserter raises an assertion only when a thread misused the lock,
\* although it reads counter and owner while others change them.
NoFalseAlarm == raised # "no" => misused # {}

\* What a thread learns about its own ownership from the unprotected fields is
\* right: AcqCI is written before the counter says that it is valid.
OwnerIsTracked ==
    \A t \in Threads : raised = "no" =>
        /\ IsOwnedByCurrentThread(t) => writer = t
        /\ pc[t] = "owning" => IsOwnedByCurrentThread(t)
        /\ pc[t] = "sharing" => IsSharedOwnedByAnyThread

\* "Releasing non-acquired instances ... raise an assertion": before the mutex
\* is touched by a thread that does not hold it.  Of shared releases only the
\* number is known, "the overall sum (of any thread)".
RightThreadUnlocks ==
    /\ \A t \in Threads : pc[t] = "unlock" => writer = t
    /\ Cardinality({t \in Threads : pc[t] = "unlockShared"}) <= Cardinality(readers)

\* "An assertion is raised when nested use is performed": a thread does not
\* come to wait for a lock that it holds itself.
NeverWaitsForItself ==
    \A t \in Threads : pc[t] = "lock" => writer # t /\ t \notin readers

\* The warning about parallel readers comes "in the case that the number of
\* parallel shared acquirements reaches the limit".
WarnsAtTheLimit ==
    \A t \in Threads :
        pc[t] = "sharing" /\ CntSharedAcquirements >= DbgWarningMaximumShared => warned
=============================================================================
