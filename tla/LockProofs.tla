------------------------------ MODULE LockProofs ------------------------------
(* Proofs about the lock types with their asserter, and about the critical     *)
(* sections, for every finite set of threads.                                 *)
EXTENDS CriticalSections, FiniteSetTheorems, TLAPS

\* Where the mutex and the calls of the threads belong together.
MutexInv ==
    /\ \A t \in Threads : pc[t] \in {"set", "setCount", "owning", "unlock"} => writer = t
    /\ \A t \in Threads : writer = t =>
        pc[t] \in {"set", "setCount", "owning", "count", "owner", "assertOwned", "release", "unlock"}
    /\ \A t \in Threads : pc[t] \in {"setShared", "setSharedCI", "sharing"} => t \in readers
    /\ \A t \in readers :
        pc[t] \in {"setShared", "setSharedCI", "sharing", "releaseShared", "unlockShared"}
    /\ writer # None => readers = {}

\* The counter of the asserter says whether there is an owner, and who it is was
\* written before.  A thread that does not own the lock is not the owner of record
\* from when it has seen the counter set.
OwnerInv ==
    /\ CntAcquirements \in {0, 1}
    /\ CntAcquirements = 1 <=>
        writer # None /\ pc[writer] \in {"owning", "count", "owner", "assertOwned", "release"}
    /\ \A t \in Threads : writer = t /\ (CntAcquirements = 1 \/ pc[t] = "setCount") => AcqCI = t
    /\ \A t \in Threads : pc[t] \in {"owner", "release"} /\ writer # t => AcqCI # t

\* The counter of readers, and those who have not counted yet or no more.
Entering == {t \in Threads : pc[t] = "setShared"}
Leaving == {t \in Threads : pc[t] = "unlockShared"}
ReadersInv ==
    /\ CntSharedAcquirements \in Nat
    /\ CntSharedAcquirements + Cardinality(Entering) + Cardinality(Leaving) = Cardinality(readers)

\* Calls of threads that have done nothing wrong.
RightCalls ==
    misused = {} => \A t \in Threads :
        /\ pc[t] \in {"assertOwned", "release"} => writer = t
        /\ pc[t] \in {"count", "owner"} => writer # t
        /\ pc[t] \in {"releaseShared", "unlockShared"} => t \in readers

LockInv ==
    /\ TypeOK /\ MutexInv /\ misused \subseteq Misuses
    /\ raised = "no" => OwnerInv /\ ReadersInv /\ RightCalls
    /\ NoFalseAlarm /\ RightThreadUnlocks /\ NeverWaitsForItself

\* The one misuse that the asserter does not detect is left out.
LockAssumption == SharedLockAssumption /\ "upgrade" \notin Misuses

\* Of the asserter as long as it has not raised an assertion.
Quiet == raised = "no" /\ OwnerInv /\ ReadersInv /\ RightCalls
-----------------------------------------------------------------------------
(* The mutex and the owner.                                                 *)

LEMMA NextCases ==
    ASSUME Next
    PROVE  /\ raised = "no"
           /\ \E t \in Threads :
                \/ \E o \in Exclusive \cup Shared : Call(t, o)
                \/ CallRelease(t) \/ CallReleaseShared(t)
                \/ AssertNotOwning(t) \/ AssertNotOwner(t) \/ Acquire(t) \/ AcquireShared(t)
                \/ TryFails(t) \/ SetOwner(t) \/ CountOwner(t) \/ SetSharedOwner(t) \/ SetSharedCI(t)
                \/ AssertOwned(t) \/ Release(t) \/ Unlock(t) \/ ReleaseShared(t) \/ UnlockShared(t)
BY DEF Next, LockStep

LEMMA StepKeepsMutex ==
    ASSUME LockAssumption, TypeOK, MutexInv, Quiet, misused \subseteq Misuses, Next
    PROVE  MutexInv'
<1>1. ASSUME NEW t \in Threads, NEW o \in Exclusive \cup Shared, Call(t, o) PROVE MutexInv'
  BY <1>1 DEF Call, Goto, TypeOK, MutexInv, Quiet, OwnerInv, mutex, Dbg, LockAssumption, SharedLockAssumption, May
<1>2. ASSUME NEW t \in Threads, CallRelease(t) PROVE MutexInv'
  BY <1>2 DEF CallRelease, Goto, TypeOK, MutexInv, Quiet, OwnerInv, mutex, Dbg, LockAssumption, SharedLockAssumption, May
<1>3. ASSUME NEW t \in Threads, CallReleaseShared(t) PROVE MutexInv'
  BY <1>3 DEF CallReleaseShared, Goto, TypeOK, MutexInv, Quiet, OwnerInv, mutex, Dbg, LockAssumption, SharedLockAssumption, May
<1>4. ASSUME NEW t \in Threads, AssertNotOwning(t) PROVE MutexInv'
  BY <1>4 DEF AssertNotOwning, Goto, TypeOK, MutexInv, Quiet, OwnerInv, mutex, Dbg, LockAssumption, SharedLockAssumption, May
<1>5. ASSUME NEW t \in Threads, AssertNotOwner(t) PROVE MutexInv'
  BY <1>5 DEF AssertNotOwner, Goto, DoAssert, TypeOK, MutexInv, Quiet, OwnerInv, mutex, Dbg, LockAssumption, SharedLockAssumption, May
<1>6. ASSUME NEW t \in Threads, Acquire(t) PROVE MutexInv'
  BY <1>6 DEF Acquire, Goto, TypeOK, MutexInv, Quiet, OwnerInv, mutex, Dbg, LockAssumption, SharedLockAssumption, May
<1>7. ASSUME NEW t \in Threads, AcquireShared(t) PROVE MutexInv'
  BY <1>7 DEF AcquireShared, Goto, TypeOK, MutexInv, Quiet, OwnerInv, mutex, Dbg, LockAssumption, SharedLockAssumption, May
<1>8. ASSUME NEW t \in Threads, TryFails(t) PROVE MutexInv'
  BY <1>8 DEF TryFails, Goto, TypeOK, MutexInv, Quiet, OwnerInv, mutex, Dbg, LockAssumption, SharedLockAssumption, May
<1>9. ASSUME NEW t \in Threads, SetOwner(t) PROVE MutexInv'
  BY <1>9 DEF SetOwner, Goto, DoAssert, TypeOK, MutexInv, Quiet, OwnerInv, mutex, Dbg, LockAssumption, SharedLockAssumption, May
<1>10. ASSUME NEW t \in Threads, CountOwner(t) PROVE MutexInv'
  BY <1>10 DEF CountOwner, Goto, TypeOK, MutexInv, Quiet, OwnerInv, mutex, Dbg, LockAssumption, SharedLockAssumption, May
<1>11. ASSUME NEW t \in Threads, SetSharedOwner(t) PROVE MutexInv'
  BY <1>11 DEF SetSharedOwner, Goto, DoAssert, TypeOK, MutexInv, Quiet, OwnerInv, mutex, Dbg, LockAssumption, SharedLockAssumption, May
<1>12. ASSUME NEW t \in Threads, SetSharedCI(t) PROVE MutexInv'
  BY <1>12 DEF SetSharedCI, Goto, TypeOK, MutexInv, Quiet, OwnerInv, mutex, Dbg, LockAssumption, SharedLockAssumption, May
<1>13. ASSUME NEW t \in Threads, AssertOwned(t) PROVE MutexInv'
  BY <1>13 DEF AssertOwned, Goto, DoAssert, TypeOK, MutexInv, Quiet, OwnerInv, mutex, Dbg, LockAssumption, SharedLockAssumption, May
<1>14. ASSUME NEW t \in Threads, Release(t) PROVE MutexInv'
  BY <1>14 DEF Release, Goto, DoAssert, TypeOK, MutexInv, Quiet, OwnerInv, mutex, Dbg, LockAssumption, SharedLockAssumption, May
<1>15. ASSUME NEW t \in Threads, Unlock(t) PROVE MutexInv'
  BY <1>15 DEF Unlock, Goto, TypeOK, MutexInv, Quiet, OwnerInv, mutex, Dbg, LockAssumption, SharedLockAssumption, May
<1>16. ASSUME NEW t \in Threads, ReleaseShared(t) PROVE MutexInv'
  BY <1>16 DEF ReleaseShared, Goto, DoAssert, TypeOK, MutexInv, Quiet, OwnerInv, mutex, Dbg, LockAssumption, SharedLockAssumption, May
<1>17. ASSUME NEW t \in Threads, UnlockShared(t) PROVE MutexInv'
  BY <1>17 DEF UnlockShared, Goto, TypeOK, MutexInv, Quiet, OwnerInv, mutex, Dbg, LockAssumption, SharedLockAssumption, May
<1> QED BY NextCases, <1>1, <1>2, <1>3, <1>4, <1>5, <1>6, <1>7, <1>8, <1>9, <1>10, <1>11, <1>12, <1>13, <1>14, <1>15, <1>16, <1>17

LEMMA StepKeepsOwner ==
    ASSUME LockAssumption, TypeOK, MutexInv, Quiet, misused \subseteq Misuses, Next
    PROVE  raised' = "no" => OwnerInv'
<1>1. ASSUME NEW t \in Threads, NEW o \in Exclusive \cup Shared, Call(t, o) PROVE raised' = "no" => OwnerInv'
  BY <1>1 DEF Call, Goto, TypeOK, MutexInv, Quiet, OwnerInv, mutex, Dbg, LockAssumption, SharedLockAssumption, May
<1>2. ASSUME NEW t \in Threads, CallRelease(t) PROVE raised' = "no" => OwnerInv'
  BY <1>2 DEF CallRelease, Goto, TypeOK, MutexInv, Quiet, OwnerInv, mutex, Dbg, LockAssumption, SharedLockAssumption, May
<1>3. ASSUME NEW t \in Threads, CallReleaseShared(t) PROVE raised' = "no" => OwnerInv'
  BY <1>3 DEF CallReleaseShared, Goto, TypeOK, MutexInv, Quiet, OwnerInv, mutex, Dbg, LockAssumption, SharedLockAssumption, May
<1>4. ASSUME NEW t \in Threads, AssertNotOwning(t) PROVE raised' = "no" => OwnerInv'
  BY <1>4 DEF AssertNotOwning, Goto, TypeOK, MutexInv, Quiet, OwnerInv, mutex, Dbg, LockAssumption, SharedLockAssumption, May
<1>5. ASSUME NEW t \in Threads, AssertNotOwner(t) PROVE raised' = "no" => OwnerInv'
  BY <1>5 DEF AssertNotOwner, Goto, DoAssert, TypeOK, MutexInv, Quiet, OwnerInv, mutex, Dbg, LockAssumption, SharedLockAssumption, May
<1>6. ASSUME NEW t \in Threads, Acquire(t) PROVE raised' = "no" => OwnerInv'
  BY <1>6 DEF Acquire, Goto, TypeOK, MutexInv, Quiet, OwnerInv, mutex, Dbg, LockAssumption, SharedLockAssumption, May
<1>7. ASSUME NEW t \in Threads, AcquireShared(t) PROVE raised' = "no" => OwnerInv'
  BY <1>7 DEF AcquireShared, Goto, TypeOK, MutexInv, Quiet, OwnerInv, mutex, Dbg, LockAssumption, SharedLockAssumption, May
<1>8. ASSUME NEW t \in Threads, TryFails(t) PROVE raised' = "no" => OwnerInv'
  BY <1>8 DEF TryFails, Goto, TypeOK, MutexInv, Quiet, OwnerInv, mutex, Dbg, LockAssumption, SharedLockAssumption, May
<1>9. ASSUME NEW t \in Threads, SetOwner(t) PROVE raised' = "no" => OwnerInv'
  BY <1>9 DEF SetOwner, Goto, DoAssert, TypeOK, MutexInv, Quiet, OwnerInv, mutex, Dbg, LockAssumption, SharedLockAssumption, May
<1>10. ASSUME NEW t \in Threads, CountOwner(t) PROVE raised' = "no" => OwnerInv'
  BY <1>10 DEF CountOwner, Goto, TypeOK, MutexInv, Quiet, OwnerInv, mutex, Dbg, LockAssumption, SharedLockAssumption, May
<1>11. ASSUME NEW t \in Threads, SetSharedOwner(t) PROVE raised' = "no" => OwnerInv'
  BY <1>11 DEF SetSharedOwner, Goto, DoAssert, TypeOK, MutexInv, Quiet, OwnerInv, mutex, Dbg, LockAssumption, SharedLockAssumption, May
<1>12. ASSUME NEW t \in Threads, SetSharedCI(t) PROVE raised' = "no" => OwnerInv'
  BY <1>12 DEF SetSharedCI, Goto, TypeOK, MutexInv, Quiet, OwnerInv, mutex, Dbg, LockAssumption, SharedLockAssumption, May
<1>13. ASSUME NEW t \in Threads, AssertOwned(t) PROVE raised' = "no" => OwnerInv'
  BY <1>13 DEF AssertOwned, Goto, DoAssert, TypeOK, MutexInv, Quiet, OwnerInv, mutex, Dbg, LockAssumption, SharedLockAssumption, May
<1>14. ASSUME NEW t \in Threads, Release(t) PROVE raised' = "no" => OwnerInv'
  BY <1>14 DEF Release, Goto, DoAssert, TypeOK, MutexInv, Quiet, OwnerInv, mutex, Dbg, LockAssumption, SharedLockAssumption, May
<1>15. ASSUME NEW t \in Threads, Unlock(t) PROVE raised' = "no" => OwnerInv'
  BY <1>15 DEF Unlock, Goto, TypeOK, MutexInv, Quiet, OwnerInv, mutex, Dbg, LockAssumption, SharedLockAssumption, May
<1>16. ASSUME NEW t \in Threads, ReleaseShared(t) PROVE raised' = "no" => OwnerInv'
  BY <1>16 DEF ReleaseShared, Goto, DoAssert, TypeOK, MutexInv, Quiet, OwnerInv, mutex, Dbg, LockAssumption, SharedLockAssumption, May
<1>17. ASSUME NEW t \in Threads, UnlockShared(t) PROVE raised' = "no" => OwnerInv'
  BY <1>17 DEF UnlockShared, Goto, TypeOK, MutexInv, Quiet, OwnerInv, mutex, Dbg, LockAssumption, SharedLockAssumption, May
<1> QED BY NextCases, <1>1, <1>2, <1>3, <1>4, <1>5, <1>6, <1>7, <1>8, <1>9, <1>10, <1>11, <1>12, <1>13, <1>14, <1>15, <1>16, <1>17

LEMMA StepKeepsCalls ==
    ASSUME LockAssumption, TypeOK, MutexInv, Quiet, misused \subseteq Misuses, Next
    PROVE  raised' = "no" => RightCalls'
<1>1. ASSUME NEW t \in Threads, NEW o \in Exclusive \cup Shared, Call(t, o) PROVE raised' = "no" => RightCalls'
  BY <1>1 DEF Call, Goto, TypeOK, MutexInv, Quiet, OwnerInv, mutex, Dbg, LockAssumption, SharedLockAssumption, May, RightCalls
<1>2. ASSUME NEW t \in Threads, CallRelease(t) PROVE raised' = "no" => RightCalls'
  BY <1>2 DEF CallRelease, Goto, TypeOK, MutexInv, Quiet, OwnerInv, mutex, Dbg, LockAssumption, SharedLockAssumption, May, RightCalls
<1>3. ASSUME NEW t \in Threads, CallReleaseShared(t) PROVE raised' = "no" => RightCalls'
  BY <1>3 DEF CallReleaseShared, Goto, TypeOK, MutexInv, Quiet, OwnerInv, mutex, Dbg, LockAssumption, SharedLockAssumption, May, RightCalls
<1>4. ASSUME NEW t \in Threads, AssertNotOwning(t) PROVE raised' = "no" => RightCalls'
  BY <1>4 DEF AssertNotOwning, Goto, TypeOK, MutexInv, Quiet, OwnerInv, mutex, Dbg, LockAssumption, SharedLockAssumption, May, RightCalls
<1>5. ASSUME NEW t \in Threads, AssertNotOwner(t) PROVE raised' = "no" => RightCalls'
  BY <1>5 DEF AssertNotOwner, Goto, DoAssert, TypeOK, MutexInv, Quiet, OwnerInv, mutex, Dbg, LockAssumption, SharedLockAssumption, May, RightCalls
<1>6. ASSUME NEW t \in Threads, Acquire(t) PROVE raised' = "no" => RightCalls'
  BY <1>6 DEF Acquire, Goto, TypeOK, MutexInv, Quiet, OwnerInv, mutex, Dbg, LockAssumption, SharedLockAssumption, May, RightCalls
<1>7. ASSUME NEW t \in Threads, AcquireShared(t) PROVE raised' = "no" => RightCalls'
  BY <1>7 DEF AcquireShared, Goto, TypeOK, MutexInv, Quiet, OwnerInv, mutex, Dbg, LockAssumption, SharedLockAssumption, May, RightCalls
<1>8. ASSUME NEW t \in Threads, TryFails(t) PROVE raised' = "no" => RightCalls'
  BY <1>8 DEF TryFails, Goto, TypeOK, MutexInv, Quiet, OwnerInv, mutex, Dbg, LockAssumption, SharedLockAssumption, May, RightCalls
<1>9. ASSUME NEW t \in Threads, SetOwner(t) PROVE raised' = "no" => RightCalls'
  BY <1>9 DEF SetOwner, Goto, DoAssert, TypeOK, MutexInv, Quiet, OwnerInv, mutex, Dbg, LockAssumption, SharedLockAssumption, May, RightCalls
<1>10. ASSUME NEW t \in Threads, CountOwner(t) PROVE raised' = "no" => RightCalls'
  BY <1>10 DEF CountOwner, Goto, TypeOK, MutexInv, Quiet, OwnerInv, mutex, Dbg, LockAssumption, SharedLockAssumption, May, RightCalls
<1>11. ASSUME NEW t \in Threads, SetSharedOwner(t) PROVE raised' = "no" => RightCalls'
  BY <1>11 DEF SetSharedOwner, Goto, DoAssert, TypeOK, MutexInv, Quiet, OwnerInv, mutex, Dbg, LockAssumption, SharedLockAssumption, May, RightCalls
<1>12. ASSUME NEW t \in Threads, SetSharedCI(t) PROVE raised' = "no" => RightCalls'
  BY <1>12 DEF SetSharedCI, Goto, TypeOK, MutexInv, Quiet, OwnerInv, mutex, Dbg, LockAssumption, SharedLockAssumption, May, RightCalls
<1>13. ASSUME NEW t \in Threads, AssertOwned(t) PROVE raised' = "no" => RightCalls'
  BY <1>13 DEF AssertOwned, Goto, DoAssert, TypeOK, MutexInv, Quiet, OwnerInv, mutex, Dbg, LockAssumption, SharedLockAssumption, May, RightCalls
<1>14. ASSUME NEW t \in Threads, Release(t) PROVE raised' = "no" => RightCalls'
  BY <1>14 DEF Release, Goto, DoAssert, TypeOK, MutexInv, Quiet, OwnerInv, mutex, Dbg, LockAssumption, SharedLockAssumption, May, RightCalls
<1>15. ASSUME NEW t \in Threads, Unlock(t) PROVE raised' = "no" => RightCalls'
  BY <1>15 DEF Unlock, Goto, TypeOK, MutexInv, Quiet, OwnerInv, mutex, Dbg, LockAssumption, SharedLockAssumption, May, RightCalls
<1>16. ASSUME NEW t \in Threads, ReleaseShared(t) PROVE raised' = "no" => RightCalls'
  BY <1>16 DEF ReleaseShared, Goto, DoAssert, TypeOK, MutexInv, Quiet, OwnerInv, mutex, Dbg, LockAssumption, SharedLockAssumption, May, RightCalls
<1>17. ASSUME NEW t \in Threads, UnlockShared(t) PROVE raised' = "no" => RightCalls'
  BY <1>17 DEF UnlockShared, Goto, TypeOK, MutexInv, Quiet, OwnerInv, mutex, Dbg, LockAssumption, SharedLockAssumption, May, RightCalls
<1> QED BY NextCases, <1>1, <1>2, <1>3, <1>4, <1>5, <1>6, <1>7, <1>8, <1>9, <1>10, <1>11, <1>12, <1>13, <1>14, <1>15, <1>16, <1>17
-----------------------------------------------------------------------------
(* The readers.                                                             *)

LEMMA FiniteReaders ==
    ASSUME LockAssumption, readers \subseteq Threads
    PROVE  /\ IsFiniteSet(readers) /\ IsFiniteSet(Entering) /\ IsFiniteSet(Leaving)
           /\ Cardinality(readers) \in Nat /\ Cardinality(readers) <= Cardinality(Threads)
           /\ Cardinality(Entering) \in Nat /\ Cardinality(Leaving) \in Nat
           /\ Cardinality(Threads) \in Nat
<1>1. IsFiniteSet(Threads)
  BY DEF LockAssumption, SharedLockAssumption
<1>2. readers \in SUBSET Threads /\ Entering \in SUBSET Threads /\ Leaving \in SUBSET Threads
  BY DEF Entering, Leaving
<1>3. IsFiniteSet(readers) /\ IsFiniteSet(Entering) /\ IsFiniteSet(Leaving)
      /\ Cardinality(readers) <= Cardinality(Threads)
  BY <1>1, <1>2, FS_Subset
<1> QED BY <1>1, <1>3, FS_CardinalityType

\* A thread that reads and has not begun to release is counted, if all shared
\* releases are right.
LEMMA ReaderIsCounted ==
    ASSUME LockAssumption, TypeOK, MutexInv, ReadersInv, RightCalls, misused = {},
           NEW t \in readers, pc[t] \notin {"setShared", "unlockShared"}
    PROVE  CntSharedAcquirements > 0
<1>1. Entering \subseteq readers /\ Leaving \subseteq readers /\ Entering \cap Leaving = {}
      /\ t \notin Entering \cup Leaving
  BY DEF MutexInv, RightCalls, Entering, Leaving
<1>2. /\ IsFiniteSet(readers) /\ IsFiniteSet(Entering) /\ IsFiniteSet(Leaving)
      /\ Cardinality(readers) \in Nat /\ Cardinality(Entering) \in Nat /\ Cardinality(Leaving) \in Nat
  BY FiniteReaders DEF TypeOK
<1>3. /\ IsFiniteSet(Entering \cup Leaving)
      /\ Cardinality(Entering \cup Leaving) = Cardinality(Entering) + Cardinality(Leaving)
  <2>1. Cardinality(Entering \cap Leaving) = 0
    BY <1>1, FS_EmptySet
  <2>2. /\ IsFiniteSet(Entering \cup Leaving)
        /\ Cardinality(Entering \cup Leaving)
             = Cardinality(Entering) + Cardinality(Leaving) - Cardinality(Entering \cap Leaving)
    BY <1>2, FS_Union
  <2> QED BY <1>2, <2>1, <2>2
<1>4. Cardinality(readers \ {t}) = Cardinality(readers) - 1 /\ IsFiniteSet(readers \ {t})
  BY <1>2, FS_RemoveElement
<1>5. Entering \cup Leaving \in SUBSET (readers \ {t})
  BY <1>1
<1>6. Cardinality(Entering \cup Leaving) <= Cardinality(readers \ {t})
  BY <1>4, <1>5, FS_Subset
<1>7. CntSharedAcquirements \in Nat
      /\ CntSharedAcquirements + Cardinality(Entering) + Cardinality(Leaving) = Cardinality(readers)
  BY DEF ReadersInv
<1> QED BY <1>2, <1>3, <1>4, <1>6, <1>7

\* A step of a thread that neither enters nor leaves.
LEMMA ReadersUntouched ==
    ASSUME ReadersInv, UNCHANGED <<readers, CntSharedAcquirements>>,
           NEW t \in Threads, pc[t] \notin {"setShared", "unlockShared"},
           pc' = pc \/ \E to : to \notin {"setShared", "unlockShared"} /\ pc' = [pc EXCEPT ![t] = to],
           TypeOK
    PROVE  ReadersInv'
<1>1. Entering' = Entering /\ Leaving' = Leaving
  BY DEF Entering, Leaving, TypeOK
<1> QED BY <1>1 DEF ReadersInv

LEMMA StepKeepsReaders ==
    ASSUME LockAssumption, TypeOK, MutexInv, Quiet, Next
    PROVE  raised' = "no" => ReadersInv'
<1>1. ReadersInv /\ readers \subseteq Threads /\ raised = "no"
  BY DEF Quiet, TypeOK
<1> DEFINE n == CntSharedAcquirements
           k == Cardinality(Entering)
           l == Cardinality(Leaving)
           r == Cardinality(readers)
<1>2. n \in Nat /\ k \in Nat /\ l \in Nat /\ r \in Nat /\ n + k + l = r
      /\ IsFiniteSet(Entering) /\ IsFiniteSet(Leaving) /\ IsFiniteSet(readers)
  BY <1>1, FiniteReaders DEF ReadersInv
<1>3. ASSUME NEW t \in Threads, AcquireShared(t) PROVE ReadersInv'
  <2>1. readers' = readers \cup {t} /\ t \notin readers /\ n' = n
    BY <1>3 DEF AcquireShared, MutexInv, Dbg
  <2>2. Entering' = Entering \cup {t} /\ t \notin Entering /\ Leaving' = Leaving
    BY <1>3 DEF AcquireShared, Goto, Entering, Leaving, TypeOK
  <2>3. r' = r + 1 /\ k' = k + 1 /\ l' = l
    BY <1>2, <2>1, <2>2, FS_AddElement
  <2> QED BY <1>2, <2>1, <2>3 DEF ReadersInv
<1>4. ASSUME NEW t \in Threads, SetSharedOwner(t), raised' = "no" PROVE ReadersInv'
  <2>1. readers' = readers /\ n' = n + 1 /\ pc[t] = "setShared" /\ pc' = [pc EXCEPT ![t] = "setSharedCI"]
    BY <1>4 DEF SetSharedOwner, DoAssert, Goto, mutex
  <2>2. Entering' = Entering \ {t} /\ t \in Entering /\ Leaving' = Leaving
    BY <2>1 DEF Entering, Leaving, TypeOK
  <2>3. r' = r /\ k' = k - 1 /\ l' = l
    BY <1>2, <2>1, <2>2, FS_RemoveElement
  <2> QED BY <1>2, <2>1, <2>3 DEF ReadersInv
<1>5. ASSUME NEW t \in Threads, ReleaseShared(t), raised' = "no" PROVE ReadersInv'
  <2>1. readers' = readers /\ n' = n - 1 /\ n > 0
        /\ pc[t] = "releaseShared" /\ pc' = [pc EXCEPT ![t] = "unlockShared"]
    BY <1>2, <1>5 DEF ReleaseShared, DoAssert, Goto, mutex
  <2>2. Leaving' = Leaving \cup {t} /\ t \notin Leaving /\ Entering' = Entering
    BY <2>1 DEF Entering, Leaving, TypeOK
  <2>3. r' = r /\ k' = k /\ l' = l + 1
    BY <1>2, <2>1, <2>2, FS_AddElement
  <2> QED BY <1>2, <2>1, <2>3 DEF ReadersInv
<1>6. ASSUME NEW t \in Threads, UnlockShared(t) PROVE ReadersInv'
  <2>1. readers' = readers \ {t} /\ t \in readers /\ n' = n
        /\ pc[t] = "unlockShared" /\ pc' = [pc EXCEPT ![t] = "idle"]
    BY <1>6 DEF UnlockShared, Goto, Dbg
  <2>2. Leaving' = Leaving \ {t} /\ t \in Leaving /\ Entering' = Entering
    BY <2>1 DEF Entering, Leaving, TypeOK
  <2>3. r' = r - 1 /\ k' = k /\ l' = l - 1
    BY <1>2, <2>1, <2>2, FS_RemoveElement
  <2> QED BY <1>2, <2>1, <2>3 DEF ReadersInv
<1>7. ASSUME NEW t \in Threads, NEW o \in Exclusive \cup Shared, Call(t, o) PROVE ReadersInv'
  BY <1>1, <1>7, ReadersUntouched DEF Call, Goto, mutex, Dbg
<1>8. ASSUME NEW t \in Threads, CallRelease(t) \/ CallReleaseShared(t) PROVE ReadersInv'
  BY <1>1, <1>8, ReadersUntouched DEF CallRelease, CallReleaseShared, Goto, mutex, Dbg
<1>9. ASSUME NEW t \in Threads, AssertNotOwning(t) \/ AssertNotOwner(t) \/ AssertOwned(t) PROVE ReadersInv'
  BY <1>1, <1>9, ReadersUntouched DEF AssertNotOwning, AssertNotOwner, AssertOwned, DoAssert, Goto, mutex, Dbg
<1>10. ASSUME NEW t \in Threads, Acquire(t) \/ TryFails(t) PROVE ReadersInv'
  BY <1>1, <1>10, ReadersUntouched DEF Acquire, TryFails, Goto, mutex, Dbg
<1>11. ASSUME NEW t \in Threads, SetOwner(t) \/ CountOwner(t) \/ SetSharedCI(t) PROVE ReadersInv'
  BY <1>1, <1>11, ReadersUntouched DEF SetOwner, CountOwner, SetSharedCI, DoAssert, Goto, mutex
<1>12. ASSUME NEW t \in Threads, Release(t) \/ Unlock(t) PROVE ReadersInv'
  BY <1>1, <1>12, ReadersUntouched DEF Release, Unlock, DoAssert, Goto, mutex, Dbg
<1> QED BY NextCases, <1>3, <1>4, <1>5, <1>6, <1>7, <1>8, <1>9, <1>10, <1>11, <1>12
-----------------------------------------------------------------------------
(* The asserter and what it is there for.                                   *)

LEMMA StepKeepsTypes ==
    ASSUME LockAssumption, TypeOK, MutexInv, Quiet, Next
    PROVE  TypeOK'
<1> USE DEF TypeOK, mutex, Dbg, Goto, DoAssert
<1>1. /\ CntSharedAcquirements \in Nat /\ CntSharedAcquirements <= Cardinality(readers)
      /\ Cardinality(Threads) \in Nat /\ CntSharedAcquirements <= Cardinality(Threads)
      /\ None \notin Threads
  BY FiniteReaders DEF Quiet, ReadersInv, LockAssumption, SharedLockAssumption
<1>2. ASSUME NEW t \in Threads, NEW o \in Exclusive \cup Shared, Call(t, o) PROVE TypeOK'
  BY <1>2 DEF Call, Misuse
<1>3. ASSUME NEW t \in Threads, CallRelease(t) \/ CallReleaseShared(t) PROVE TypeOK'
  BY <1>3 DEF CallRelease, CallReleaseShared, Misuse
<1>4. ASSUME NEW t \in Threads, AssertNotOwning(t) PROVE TypeOK'
  BY <1>4 DEF AssertNotOwning
<1>5. ASSUME NEW t \in Threads, AssertNotOwner(t) PROVE TypeOK'
  BY <1>5 DEF AssertNotOwner
<1>6. ASSUME NEW t \in Threads, Acquire(t) \/ AcquireShared(t) \/ TryFails(t) PROVE TypeOK'
  BY <1>6 DEF Acquire, AcquireShared, TryFails
<1>7. ASSUME NEW t \in Threads, SetOwner(t) \/ SetSharedCI(t) PROVE TypeOK'
  BY <1>7 DEF SetOwner, SetSharedCI
<1>8. ASSUME NEW t \in Threads, CountOwner(t) PROVE TypeOK'
  <2>1. CntAcquirements = 0
    BY <1>8 DEF CountOwner, MutexInv, Quiet, OwnerInv
  <2> QED BY <1>8, <2>1 DEF CountOwner
<1>9. ASSUME NEW t \in Threads, SetSharedOwner(t) PROVE TypeOK'
  <2>1. t \in Entering /\ IsFiniteSet(Entering) /\ Cardinality(Entering) \in Nat
        /\ Cardinality(Leaving) \in Nat /\ Cardinality(readers) \in Nat
        /\ Cardinality(readers) <= Cardinality(Threads)
    BY <1>9, FiniteReaders DEF SetSharedOwner, Entering
  <2>2. Cardinality(Entering) # 0
    BY <2>1, FS_EmptySet
  <2>3. CntSharedAcquirements + 1 <= Cardinality(Threads)
    BY <1>1, <2>1, <2>2 DEF Quiet, ReadersInv
  <2>4. CntSharedAcquirements' \in (0 - 1)..Cardinality(Threads)
    BY <1>1, <1>9, <2>3 DEF SetSharedOwner
  <2>5. warned' \in BOOLEAN
    BY <1>9 DEF SetSharedOwner
  <2> QED BY <1>9, <2>4, <2>5 DEF SetSharedOwner
<1>10. ASSUME NEW t \in Threads, AssertOwned(t) \/ Unlock(t) \/ UnlockShared(t) PROVE TypeOK'
  BY <1>10 DEF AssertOwned, Unlock, UnlockShared
<1>11. ASSUME NEW t \in Threads, Release(t) PROVE TypeOK'
  <2>1. CntAcquirements = 1 \/ AcqCI # t
    BY <1>1, <1>11 DEF Release, Quiet, OwnerInv
  <2> QED BY <1>11, <2>1 DEF Release
<1>12. ASSUME NEW t \in Threads, ReleaseShared(t) PROVE TypeOK'
  <2>1. CntSharedAcquirements' \in (0 - 1)..Cardinality(Threads)
    BY <1>1, <1>12 DEF ReleaseShared
  <2> QED BY <1>12, <2>1 DEF ReleaseShared
<1> QED BY NextCases, <1>2, <1>3, <1>4, <1>5, <1>6, <1>7, <1>8, <1>9, <1>10, <1>11, <1>12

\* Each assertion contradicts what holds as long as all calls are right.
LEMMA StepRaisesNoFalseAlarm ==
    ASSUME LockAssumption, TypeOK, MutexInv, Quiet, Next
    PROVE  NoFalseAlarm'
<1> SUFFICES ASSUME misused' = {}, raised' # "no" PROVE FALSE
  BY DEF NoFalseAlarm
<1>1. PICK t \in Threads : \/ AssertNotOwner(t) \/ SetOwner(t) \/ SetSharedOwner(t)
                           \/ AssertOwned(t) \/ Release(t) \/ ReleaseShared(t)
  BY NextCases DEF Call, CallRelease, CallReleaseShared, AssertNotOwning, Acquire, AcquireShared,
                   TryFails, CountOwner, SetSharedCI, Unlock, UnlockShared
<1>2. misused = {}
  BY <1>1 DEF AssertNotOwner, SetOwner, SetSharedOwner, AssertOwned, Release, ReleaseShared
<1>3. raised = "no" /\ MutexInv /\ OwnerInv /\ ReadersInv /\ RightCalls
  BY DEF Quiet
<1>4. CASE AssertNotOwner(t)
  BY <1>2, <1>3, <1>4 DEF AssertNotOwner, OwnerInv, RightCalls
<1>5. CASE SetOwner(t) \/ SetSharedOwner(t)
  <2>1. CntAcquirements = 0
    BY <1>3, <1>5 DEF SetOwner, SetSharedOwner, OwnerInv, MutexInv
  <2>2. CASE SetSharedOwner(t)
    BY <1>3, <2>1, <2>2 DEF SetSharedOwner
  <2>3. CASE SetOwner(t)
    <3>1. readers = {}
      BY <2>3, <1>3 DEF SetOwner, MutexInv, LockAssumption, SharedLockAssumption
    <3>2. CntSharedAcquirements = 0
      BY <3>1, <1>3, FiniteReaders, FS_EmptySet DEF ReadersInv, TypeOK
    <3> QED BY <1>3, <2>1, <2>3, <3>2 DEF SetOwner
  <2> QED BY <1>5, <2>2, <2>3
<1>6. CASE AssertOwned(t) \/ Release(t)
  <2>1. writer = t /\ CntAcquirements = 1 /\ AcqCI = t
    BY <1>2, <1>3, <1>6 DEF AssertOwned, Release, OwnerInv, RightCalls, LockAssumption, SharedLockAssumption
  <2> QED BY <1>3, <1>6, <2>1 DEF AssertOwned, Release
<1>7. CASE ReleaseShared(t)
  <2>1. CntSharedAcquirements > 0
    BY <1>2, <1>3, <1>7, ReaderIsCounted DEF ReleaseShared, RightCalls
  <2> QED BY <1>3, <1>7, <2>1 DEF ReleaseShared, ReadersInv, Goto
<1> QED BY <1>1, <1>4, <1>5, <1>6, <1>7

LEMMA OwnersUnlock ==
    ASSUME LockAssumption, TypeOK, MutexInv, ReadersInv
    PROVE  RightThreadUnlocks
<1>1. Cardinality(Leaving) <= Cardinality(readers)
  BY FiniteReaders DEF ReadersInv, TypeOK
<1> QED BY <1>1 DEF RightThreadUnlocks, MutexInv, Leaving

LEMMA RaisingUnlocksNothing ==
    ASSUME Next, RightThreadUnlocks, raised' # "no"
    PROVE  RightThreadUnlocks'
<1>1. UNCHANGED <<pc, mutex>>
  BY NextCases DEF Call, CallRelease, CallReleaseShared, AssertNotOwning, AssertNotOwner, Acquire,
       AcquireShared, TryFails, SetOwner, CountOwner, SetSharedOwner, SetSharedCI, AssertOwned,
       Release, Unlock, ReleaseShared, UnlockShared, DoAssert, mutex
<1> QED BY <1>1 DEF RightThreadUnlocks, mutex

LEMMA NobodyWaits ==
    ASSUME MutexInv PROVE NeverWaitsForItself
BY DEF MutexInv, NeverWaitsForItself

LEMMA MisusesAreAllowed ==
    ASSUME Next, misused \subseteq Misuses PROVE misused' \subseteq Misuses
BY NextCases DEF Call, CallRelease, CallReleaseShared, AssertNotOwning, AssertNotOwner, Acquire,
     AcquireShared, TryFails, SetOwner, CountOwner, SetSharedOwner, SetSharedCI, AssertOwned,
     Release, Unlock, ReleaseShared, UnlockShared, May

LEMMA InitLock == ASSUME LockAssumption, Init PROVE LockInv
<1> USE DEF Init, LockAssumption, SharedLockAssumption
<1>1. TypeOK
  <2>1. CntSharedAcquirements \in (0 - 1)..Cardinality(Threads) /\ CntAcquirements \in 0..1
    BY FS_CardinalityType
  <2>2. op \in [Threads -> Exclusive \cup Shared \cup {"none"}]
    OBVIOUS
  <2> QED BY <2>1, <2>2 DEF TypeOK
<1>2. MutexInv
  BY DEF MutexInv
<1>3. OwnerInv /\ RightCalls
  BY DEF OwnerInv, RightCalls
<1>4. ReadersInv
  <2>1. Entering = {} /\ Leaving = {}
    BY DEF Entering, Leaving
  <2> QED BY <2>1, FS_EmptySet DEF ReadersInv
<1> QED BY <1>1, <1>2, <1>3, <1>4, OwnersUnlock, NobodyWaits DEF LockInv, NoFalseAlarm

LEMMA StepKeepsLock == ASSUME LockAssumption, LockInv, Next PROVE LockInv'
<1>1. Quiet /\ TypeOK /\ MutexInv /\ misused \subseteq Misuses /\ RightThreadUnlocks
  BY NextCases DEF LockInv, Quiet
<1>2. TypeOK' /\ MutexInv' /\ (misused \subseteq Misuses)'
  BY <1>1, StepKeepsTypes, StepKeepsMutex, MisusesAreAllowed
<1>3. raised' = "no" => OwnerInv' /\ ReadersInv' /\ RightCalls'
  BY <1>1, StepKeepsOwner, StepKeepsReaders, StepKeepsCalls
<1>4. RightThreadUnlocks'
  <2>1. CASE raised' = "no"
    <3>1. TypeOK' /\ MutexInv' /\ ReadersInv' /\ LockAssumption'
      BY <1>2, <1>3, <2>1 DEF LockAssumption, SharedLockAssumption
    <3>2. ASSUME TypeOK', MutexInv', ReadersInv' PROVE RightThreadUnlocks'
      BY <3>2, OwnersUnlock, PTL
    <3> QED BY <3>1, <3>2
  <2>2. CASE raised' # "no"
    BY <1>1, <2>2, RaisingUnlocksNothing
  <2> QED BY <2>1, <2>2
<1>5. NeverWaitsForItself'
  BY <1>2, NobodyWaits, PTL
<1> QED BY <1>1, <1>2, <1>3, <1>4, <1>5, StepRaisesNoFalseAlarm DEF LockInv

LEMMA LockStutters == ASSUME LockInv, UNCHANGED lockVars PROVE LockInv'
BY DEF lockVars, mutex, Dbg, LockInv, TypeOK, MutexInv, OwnerInv, ReadersInv, RightCalls,
       Entering, Leaving, NoFalseAlarm, RightThreadUnlocks, NeverWaitsForItself

\* What holds of the lock types in debug builds, for every finite set of threads
\* and whatever they do wrong, except that a thread that shares the lock may not
\* acquire it: the asserter raises no false alarm, only owners come to unlock the
\* mutex, and no thread waits for itself.
THEOREM LockIsKept == ASSUME LockAssumption PROVE Spec => []LockInv
<1>1. LockInv /\ [Next]_lockVars => LockInv'
  BY StepKeepsLock, LockStutters
<1> QED BY <1>1, InitLock, PTL DEF Spec
-----------------------------------------------------------------------------
(* Critical sections: what the counters count.                              *)

Kinds == {"write", "read"}
Asking == {"w.cnt", "w.owner", "w.readers", "w.add", "w.set"}
Sharing == {"s.cnt", "s.owner", "s.add"}
Returning == {"r.cnt", "r.owner", "r.sub"}

\* The sections that threads are in, numbered from the outermost one.
Sections(kind) == {p \in Threads \X Nat :
    /\ p[2] \in 1..Len(inside[p[1]])
    /\ inside[p[1]][Len(inside[p[1]]) + 1 - p[2]] = kind}
Setting == {t \in Threads : at[t] = "w.set"}

Shape ==
    /\ inside \in [Threads -> Seq(Kinds)]
    /\ at \in [Threads -> {"user", "w.sub"} \cup Asking \cup Sharing \cup Returning]
    /\ \A t \in Threads :
        /\ Len(inside[t]) <= Nesting
        /\ at[t] \in Asking \cup Sharing => Len(inside[t]) < Nesting
        /\ at[t] = "w.sub" => inside[t] # <<>> /\ Head(inside[t]) = "write"
        /\ at[t] \in Returning => inside[t] # <<>> /\ Head(inside[t]) = "read"

Counted ==
    /\ \A kind \in Kinds : IsFiniteSet(Sections(kind))
    /\ DCSReaderCnt = Cardinality(Sections("read"))
    /\ DCSWriterCnt = Cardinality(Sections("write")) + Cardinality(Setting)

SectionsInv ==
    /\ LockInv /\ Shape /\ Counted
    /\ DCSAcq \in Threads \cup {None} /\ asserted \in BOOLEAN
    /\ met \subseteq Threads \X Threads /\ missed \in BOOLEAN

LEMMA SectionCases ==
    ASSUME SectionsNext
    PROVE  /\ ~asserted /\ raised = "no"
           /\ \/ Next /\ UNCHANGED <<counters, at, inside, asserted, history>>
              \/ /\ UNCHANGED lockVars
                 /\ \E t \in Threads :
                    \/ Acquires(t) \/ WriterCntIs0(t) \/ WriterIsMe(t) \/ NoReaders(t)
                    \/ CountWriter(t) \/ EnterWrite(t) \/ Releases(t) \/ LeaveWrite(t)
                    \/ AcquiresShared(t) \/ SharedWriterCnt(t) \/ SharedOwner(t) \/ EnterShared(t)
                    \/ ReleasesShared(t) \/ ReleaseWriterCnt(t) \/ ReleaseOwner(t) \/ LeaveShared(t)
BY DEF SectionsNext, SectionStep, UseLock, Next, Exclusive, Shared

\* A step within a method leaves the sections as they are.
LEMMA NoSectionChanges ==
    ASSUME UNCHANGED inside
    PROVE  \A kind \in Kinds : Sections(kind)' = Sections(kind)
BY DEF Sections

LEMMA SamePairs ==
    ASSUME NEW A \in SUBSET (Threads \X Nat), NEW B \in SUBSET (Threads \X Nat),
           \A u \in Threads, n \in Nat : <<u, n>> \in A <=> <<u, n>> \in B
    PROVE  A = B
OBVIOUS

LEMMA PushedSection ==
    ASSUME Shape, NEW t \in Threads, NEW k \in Kinds,
           inside' = [inside EXCEPT ![t] = <<k>> \o @]
    PROVE  /\ inside' \in [Threads -> Seq(Kinds)] /\ Len(inside'[t]) = Len(inside[t]) + 1
           /\ Sections(k)' = Sections(k) \cup {<<t, Len(inside[t]) + 1>>}
           /\ <<t, Len(inside[t]) + 1>> \notin Sections(k)
           /\ \A o \in Kinds \ {k} : Sections(o)' = Sections(o)
<1> DEFINE q == inside[t]
           r == <<k>> \o q
<1>1. /\ q \in Seq(Kinds) /\ Len(q) \in Nat /\ r \in Seq(Kinds) /\ Len(r) = Len(q) + 1
      /\ r[1] = k /\ \A i \in 1..Len(q) : r[i + 1] = q[i]
  BY DEF Shape
<1>2. inside'[t] = r /\ \A u \in Threads \ {t} : inside'[u] = inside[u]
  BY DEF Shape
<1>3. inside' \in [Threads -> Seq(Kinds)]
  BY <1>1, <1>2 DEF Shape
<1> HIDE DEF q, r
<1>4. \A n \in 1..Len(q) : r[Len(r) + 1 - n] = q[Len(q) + 1 - n]
  <2> TAKE n \in 1..Len(q)
  <2>1. Len(q) + 1 - n \in 1..Len(q) /\ (Len(q) + 1 - n) + 1 = Len(r) + 1 - n
    BY <1>1
  <2> QED BY <1>1, <2>1
<1>5. r[Len(r) + 1 - (Len(q) + 1)] = k
  <2>1. Len(r) + 1 - (Len(q) + 1) = 1
    BY <1>1
  <2> QED BY <1>1, <2>1
<1>6. ASSUME NEW kind \in Kinds, NEW u \in Threads, NEW n \in Nat
      PROVE  <<u, n>> \in Sections(kind)' <=>
               <<u, n>> \in Sections(kind) \/ (kind = k /\ u = t /\ n = Len(q) + 1)
  <2>1. CASE u # t
    BY <1>2, <2>1 DEF Sections
  <2>2. CASE u = t
    <3>1. <<u, n>> \in Sections(kind)' <=> n \in 1..Len(r) /\ r[Len(r) + 1 - n] = kind
      BY <1>2, <2>2 DEF Sections
    <3>2. <<u, n>> \in Sections(kind) <=> n \in 1..Len(q) /\ q[Len(q) + 1 - n] = kind
      BY <2>2 DEF Sections, q
    <3>3. n \in 1..Len(r) <=> n \in 1..Len(q) \/ n = Len(q) + 1
      BY <1>1
    <3> QED BY <1>4, <1>5, <2>2, <3>1, <3>2, <3>3
  <2> QED BY <2>1, <2>2
<1>7. <<t, Len(q) + 1>> \in Threads \X Nat /\ <<t, Len(q) + 1>> \notin Sections(k)
  BY <1>1 DEF Sections, q
<1>8. \A kind \in Kinds : Sections(kind) \subseteq Threads \X Nat /\ Sections(kind)' \subseteq Threads \X Nat
  BY DEF Sections
<1>9. Sections(k)' = Sections(k) \cup {<<t, Len(q) + 1>>}
  <2>1. \A u \in Threads, n \in Nat : <<u, n>> \in Sections(k)' <=> <<u, n>> \in Sections(k) \cup {<<t, Len(q) + 1>>}
    BY <1>6
  <2>2. Sections(k) \cup {<<t, Len(q) + 1>>} \subseteq Threads \X Nat
    BY <1>7, <1>8
  <2> QED BY <1>8, <2>1, <2>2, SamePairs
<1>10. ASSUME NEW o \in Kinds \ {k} PROVE Sections(o)' = Sections(o)
  <2>1. \A u \in Threads, n \in Nat : <<u, n>> \in Sections(o)' <=> <<u, n>> \in Sections(o)
    BY <1>6
  <2> QED BY <1>8, <2>1, SamePairs
<1> QED BY <1>1, <1>2, <1>3, <1>7, <1>9, <1>10 DEF q

LEMMA PoppedSection ==
    ASSUME Shape, NEW t \in Threads, inside[t] # <<>>, NEW k \in Kinds, Head(inside[t]) = k,
           inside' = [inside EXCEPT ![t] = Tail(@)]
    PROVE  /\ inside' \in [Threads -> Seq(Kinds)] /\ Len(inside'[t]) = Len(inside[t]) - 1
           /\ Sections(k)' = Sections(k) \ {<<t, Len(inside[t])>>}
           /\ <<t, Len(inside[t])>> \in Sections(k)
           /\ \A o \in Kinds \ {k} : Sections(o)' = Sections(o)
<1> DEFINE q == inside[t]
           r == Tail(q)
<1>1. /\ q \in Seq(Kinds) /\ Len(q) \in Nat /\ Len(q) > 0 /\ q[1] = k
      /\ r \in Seq(Kinds) /\ Len(r) = Len(q) - 1 /\ \A i \in 1..Len(r) : r[i] = q[i + 1]
  BY DEF Shape
<1>2. inside'[t] = r /\ \A u \in Threads \ {t} : inside'[u] = inside[u]
  BY DEF Shape
<1>3. inside' \in [Threads -> Seq(Kinds)]
  BY <1>1, <1>2 DEF Shape
<1> HIDE DEF q, r
<1>4. \A n \in 1..Len(r) : r[Len(r) + 1 - n] = q[Len(q) + 1 - n]
  <2> TAKE n \in 1..Len(r)
  <2>1. Len(r) + 1 - n \in 1..Len(r) /\ (Len(r) + 1 - n) + 1 = Len(q) + 1 - n
    BY <1>1
  <2> QED BY <1>1, <2>1
<1>5. q[Len(q) + 1 - Len(q)] = k
  <2>1. Len(q) + 1 - Len(q) = 1
    BY <1>1
  <2> QED BY <1>1, <2>1
<1>6. ASSUME NEW kind \in Kinds, NEW u \in Threads, NEW n \in Nat
      PROVE  <<u, n>> \in Sections(kind)' <=>
               <<u, n>> \in Sections(kind) /\ ~(kind = k /\ u = t /\ n = Len(q))
  <2>1. CASE u # t
    BY <1>2, <2>1 DEF Sections
  <2>2. CASE u = t
    <3>1. <<u, n>> \in Sections(kind)' <=> n \in 1..Len(r) /\ r[Len(r) + 1 - n] = kind
      BY <1>2, <2>2 DEF Sections
    <3>2. <<u, n>> \in Sections(kind) <=> n \in 1..Len(q) /\ q[Len(q) + 1 - n] = kind
      BY <2>2 DEF Sections, q
    <3>3. n \in 1..Len(q) <=> n \in 1..Len(r) \/ n = Len(q)
      BY <1>1
    <3>4. n \in 1..Len(r) => n # Len(q)
      BY <1>1
    <3> QED BY <1>4, <1>5, <2>2, <3>1, <3>2, <3>3, <3>4
  <2> QED BY <2>1, <2>2
<1>7. <<t, Len(q)>> \in Threads \X Nat /\ <<t, Len(q)>> \in Sections(k)
  BY <1>1, <1>5 DEF Sections, q
<1>8. \A kind \in Kinds : Sections(kind) \subseteq Threads \X Nat /\ Sections(kind)' \subseteq Threads \X Nat
  BY DEF Sections
<1>9. Sections(k)' = Sections(k) \ {<<t, Len(q)>>}
  <2>1. \A u \in Threads, n \in Nat : <<u, n>> \in Sections(k)' <=> <<u, n>> \in Sections(k) \ {<<t, Len(q)>>}
    BY <1>6
  <2>2. Sections(k) \ {<<t, Len(q)>>} \subseteq Threads \X Nat
    BY <1>7, <1>8
  <2> QED BY <1>8, <2>1, <2>2, SamePairs
<1>10. ASSUME NEW o \in Kinds \ {k} PROVE Sections(o)' = Sections(o)
  <2>1. \A u \in Threads, n \in Nat : <<u, n>> \in Sections(o)' <=> <<u, n>> \in Sections(o)
    BY <1>6
  <2> QED BY <1>8, <2>1, SamePairs
<1> QED BY <1>1, <1>2, <1>3, <1>7, <1>9, <1>10 DEF q

\* The steps of the methods that only test.
LEMMA GoOn ==
    ASSUME Shape, NEW t \in Threads, UNCHANGED inside,
           NEW to \in {"w.sub"} \cup (Asking \ {"w.set"}) \cup Sharing \cup Returning,
           at' = at \/ at' = [at EXCEPT ![t] = to], at[t] # "w.set",
           to \in Asking \cup Sharing => Len(inside[t]) < Nesting,
           to = "w.sub" => inside[t] # <<>> /\ Head(inside[t]) = "write",
           to \in Returning => inside[t] # <<>> /\ Head(inside[t]) = "read"
    PROVE  Shape' /\ Setting' = Setting
<1>1. CASE at' = at
  BY <1>1 DEF Shape, Setting
<1>2. CASE at' = [at EXCEPT ![t] = to]
  <2>1. at'[t] = to /\ \A u \in Threads \ {t} : at'[u] = at[u]
    BY <1>2 DEF Shape
  <2>2. at' \in [Threads -> {"user", "w.sub"} \cup Asking \cup Sharing \cup Returning]
    BY <1>2 DEF Shape
  <2>3. Setting' = Setting
    BY <2>1 DEF Setting, Asking, Sharing, Returning
  <2> QED BY <2>1, <2>2, <2>3 DEF Shape
<1> QED BY <1>1, <1>2

LEMMA TestCases ==
    ASSUME Shape, NEW t \in Threads,
           \/ Acquires(t) \/ WriterCntIs0(t) \/ WriterIsMe(t) \/ NoReaders(t)
           \/ Releases(t) \/ AcquiresShared(t) \/ SharedWriterCnt(t) \/ SharedOwner(t)
           \/ ReleasesShared(t) \/ ReleaseWriterCnt(t) \/ ReleaseOwner(t)
    PROVE  /\ UNCHANGED <<counters, inside, history>> /\ Shape' /\ Setting' = Setting
           /\ asserted' \in {asserted, TRUE}
<1>1. /\ UNCHANGED <<counters, inside, history>> /\ asserted' \in {asserted, TRUE}
      /\ at[t] # "w.set"
      /\ \E to \in {"w.sub"} \cup (Asking \ {"w.set"}) \cup Sharing \cup Returning :
          /\ at' = at \/ at' = [at EXCEPT ![t] = to]
          /\ \/ to \in Asking \cup Sharing /\ (Len(inside[t]) < Nesting \/ at[t] \in Asking \cup Sharing)
             \/ to = "w.sub" /\ inside[t] # <<>> /\ Head(inside[t]) = "write"
             \/ /\ to \in Returning
                /\ at[t] \in Returning \/ (inside[t] # <<>> /\ Head(inside[t]) = "read")
  <2> USE DEF Assert, At, Asking, Sharing, Returning
  <2>1. CASE Acquires(t)
    BY <2>1 DEF Acquires
  <2>2. CASE WriterCntIs0(t)
    BY <2>2 DEF WriterCntIs0
  <2>3. CASE WriterIsMe(t)
    BY <2>3 DEF WriterIsMe
  <2>4. CASE NoReaders(t)
    BY <2>4 DEF NoReaders
  <2>5. CASE Releases(t)
    BY <2>5 DEF Releases
  <2>6. CASE AcquiresShared(t)
    BY <2>6 DEF AcquiresShared
  <2>7. CASE SharedWriterCnt(t)
    BY <2>7 DEF SharedWriterCnt
  <2>8. CASE SharedOwner(t)
    BY <2>8 DEF SharedOwner
  <2>9. CASE ReleasesShared(t)
    BY <2>9 DEF ReleasesShared
  <2>10. CASE ReleaseWriterCnt(t)
    BY <2>10 DEF ReleaseWriterCnt
  <2>11. CASE ReleaseOwner(t)
    BY <2>11 DEF ReleaseOwner
  <2> QED BY <2>1, <2>2, <2>3, <2>4, <2>5, <2>6, <2>7, <2>8, <2>9, <2>10, <2>11
<1>2. PICK to \in {"w.sub"} \cup (Asking \ {"w.set"}) \cup Sharing \cup Returning :
          /\ at' = at \/ at' = [at EXCEPT ![t] = to]
          /\ \/ to \in Asking \cup Sharing /\ (Len(inside[t]) < Nesting \/ at[t] \in Asking \cup Sharing)
             \/ to = "w.sub" /\ inside[t] # <<>> /\ Head(inside[t]) = "write"
             \/ /\ to \in Returning
                /\ at[t] \in Returning \/ (inside[t] # <<>> /\ Head(inside[t]) = "read")
  BY <1>1
<1>3. /\ to \in Asking \cup Sharing => Len(inside[t]) < Nesting
      /\ to = "w.sub" => inside[t] # <<>> /\ Head(inside[t]) = "write"
      /\ to \in Returning => inside[t] # <<>> /\ Head(inside[t]) = "read"
  BY <1>2 DEF Shape, Asking, Sharing, Returning
<1> QED BY <1>1, <1>2, <1>3, GoOn

LEMMA OneMore ==
    ASSUME NEW S, NEW T, NEW x, IsFiniteSet(S), T = S \cup {x}, x \notin S
    PROVE  IsFiniteSet(T) /\ Cardinality(T) = Cardinality(S) + 1
BY FS_AddElement

LEMMA OneLess ==
    ASSUME NEW S, NEW T, NEW x, IsFiniteSet(S), T = S \ {x}, x \in S
    PROVE  IsFiniteSet(T) /\ Cardinality(T) = Cardinality(S) - 1
BY FS_RemoveElement

LEMMA FiniteSetting ==
    ASSUME LockAssumption PROVE IsFiniteSet(Setting) /\ Cardinality(Setting) \in Nat
BY FS_Subset, FS_CardinalityType DEF Setting, LockAssumption, SharedLockAssumption

LEMMA StepKeepsSections ==
    ASSUME LockAssumption, CriticalSectionsAssumption, SectionsInv, SectionsNext
    PROVE  SectionsInv'
<1>1. /\ Shape /\ Counted /\ LockInv /\ IsFiniteSet(Setting) /\ Cardinality(Setting) \in Nat
      /\ IsFiniteSet(Sections("read")) /\ IsFiniteSet(Sections("write"))
      /\ Cardinality(Sections("read")) \in Nat /\ Cardinality(Sections("write")) \in Nat
  BY FiniteSetting, FS_CardinalityType DEF SectionsInv, Counted, Kinds
<1>2. ASSUME Next, UNCHANGED <<counters, at, inside, asserted, history>> PROVE SectionsInv'
  <2>1. Counted'
    BY <1>1, <1>2, NoSectionChanges DEF Counted, counters, Setting, Kinds
  <2> QED BY <1>1, <1>2, <2>1, StepKeepsLock DEF SectionsInv, Shape, counters, history
<1> SUFFICES ASSUME UNCHANGED lockVars, NEW t \in Threads,
                    \/ Acquires(t) \/ WriterCntIs0(t) \/ WriterIsMe(t) \/ NoReaders(t)
                    \/ CountWriter(t) \/ EnterWrite(t) \/ Releases(t) \/ LeaveWrite(t)
                    \/ AcquiresShared(t) \/ SharedWriterCnt(t) \/ SharedOwner(t) \/ EnterShared(t)
                    \/ ReleasesShared(t) \/ ReleaseWriterCnt(t) \/ ReleaseOwner(t) \/ LeaveShared(t)
             PROVE  SectionsInv'
  BY <1>2, SectionCases
<1>3. LockInv'
  BY <1>1, LockStutters
<1>4. inside[t] \in Seq(Kinds) /\ Len(inside[t]) \in Nat /\ Nesting \in Nat
      /\ "read" \in Kinds /\ "write" \in Kinds /\ Kinds \ {"read"} = {"write"} /\ Kinds \ {"write"} = {"read"}
  BY <1>1 DEF Shape, CriticalSectionsAssumption, Kinds
<1>5. CASE \/ Acquires(t) \/ WriterCntIs0(t) \/ WriterIsMe(t) \/ NoReaders(t)
           \/ Releases(t) \/ AcquiresShared(t) \/ SharedWriterCnt(t) \/ SharedOwner(t)
           \/ ReleasesShared(t) \/ ReleaseWriterCnt(t) \/ ReleaseOwner(t)
  <2>1. UNCHANGED <<counters, inside, history>> /\ Shape' /\ Setting' = Setting
        /\ asserted' \in {asserted, TRUE}
    BY <1>1, <1>5, TestCases
  <2>2. Counted'
    BY <1>1, <2>1, NoSectionChanges DEF Counted, counters, Kinds
  <2> QED BY <1>3, <2>1, <2>2 DEF SectionsInv, counters, history
<1>6. CASE CountWriter(t)
  <2>1. /\ at[t] = "w.add" /\ at' = [at EXCEPT ![t] = "w.set"] /\ DCSWriterCnt' = DCSWriterCnt + 1
        /\ UNCHANGED <<DCSReaderCnt, DCSAcq, inside, asserted, history>>
    BY <1>6 DEF CountWriter, At
  <2>2. Setting' = Setting \cup {t} /\ t \notin Setting
    BY <1>1, <2>1 DEF Setting, Shape
  <2>3. Cardinality(Setting') = Cardinality(Setting) + 1
    BY <1>1, <2>2, OneMore
  <2>4. Counted'
    BY <1>1, <2>1, <2>3, NoSectionChanges DEF Counted, Kinds
  <2>5. Shape'
    BY <1>1, <2>1 DEF Shape, Asking, Sharing, Returning
  <2> QED BY <1>3, <2>1, <2>4, <2>5 DEF SectionsInv, history
<1>7. CASE EnterWrite(t)
  <2>1. /\ at[t] = "w.set" /\ at' = [at EXCEPT ![t] = "user"] /\ DCSAcq' = t
        /\ inside' = [inside EXCEPT ![t] = <<"write">> \o @]
        /\ UNCHANGED <<DCSWriterCnt, DCSReaderCnt, asserted, missed>>
    BY <1>7 DEF EnterWrite, At
  <2>2. /\ inside' \in [Threads -> Seq(Kinds)] /\ Len(inside'[t]) = Len(inside[t]) + 1
        /\ Sections("write")' = Sections("write") \cup {<<t, Len(inside[t]) + 1>>}
        /\ <<t, Len(inside[t]) + 1>> \notin Sections("write")
        /\ Sections("read")' = Sections("read")
    BY <1>1, <1>4, <2>1, PushedSection
  <2>3. Setting' = Setting \ {t} /\ t \in Setting
    BY <1>1, <2>1 DEF Setting, Shape
  <2>4. /\ Cardinality(Setting') = Cardinality(Setting) - 1 /\ IsFiniteSet(Sections("write")')
        /\ Cardinality(Sections("write")') = Cardinality(Sections("write")) + 1
    BY <1>1, <2>2, <2>3, OneMore, OneLess
  <2>5. Counted'
    BY <1>1, <2>1, <2>2, <2>4 DEF Counted, Kinds
  <2>6. Len(inside[t]) < Nesting /\ \A u \in Threads \ {t} : inside'[u] = inside[u] /\ at'[u] = at[u]
    BY <1>1, <2>1 DEF Shape, Asking
  <2>7. Shape'
    <3>1. Len(inside'[t]) <= Nesting /\ at'[t] = "user"
      BY <1>1, <1>4, <2>1, <2>2, <2>6 DEF Shape
    <3> QED BY <1>1, <2>1, <2>2, <2>6, <3>1 DEF Shape, Asking, Sharing, Returning
  <2>8. met' \subseteq Threads \X Threads
    BY <1>7 DEF EnterWrite, SectionsInv
  <2> QED BY <1>3, <2>1, <2>5, <2>7, <2>8 DEF SectionsInv
<1>8. CASE LeaveWrite(t)
  <2>1. /\ at[t] = "w.sub" /\ at' = [at EXCEPT ![t] = "user"] /\ DCSWriterCnt' = DCSWriterCnt - 1
        /\ inside' = [inside EXCEPT ![t] = Tail(@)]
        /\ UNCHANGED <<DCSReaderCnt, DCSAcq, asserted>>
    BY <1>8 DEF LeaveWrite, At
  <2>2. /\ inside' \in [Threads -> Seq(Kinds)] /\ Len(inside'[t]) = Len(inside[t]) - 1
        /\ Sections("write")' = Sections("write") \ {<<t, Len(inside[t])>>}
        /\ <<t, Len(inside[t])>> \in Sections("write")
        /\ Sections("read")' = Sections("read")
    <3>1. inside[t] # <<>> /\ Head(inside[t]) = "write"
      BY <1>1, <2>1 DEF Shape
    <3> QED BY <1>1, <1>4, <2>1, <3>1, PoppedSection
  <2>3. Setting' = Setting
    BY <1>1, <2>1 DEF Setting, Shape
  <2>4. /\ IsFiniteSet(Sections("write")')
        /\ Cardinality(Sections("write")') = Cardinality(Sections("write")) - 1
    BY <1>1, <2>2, OneLess
  <2>5. Counted'
    BY <1>1, <2>1, <2>2, <2>3, <2>4 DEF Counted, Kinds
  <2>6. \A u \in Threads \ {t} : inside'[u] = inside[u] /\ at'[u] = at[u]
    BY <1>1, <2>1 DEF Shape
  <2>7. Shape'
    <3>1. Len(inside'[t]) <= Nesting /\ at'[t] = "user"
      BY <1>1, <1>4, <2>1, <2>2 DEF Shape
    <3> QED BY <1>1, <2>1, <2>2, <2>6, <3>1 DEF Shape, Asking, Sharing, Returning
  <2>8. met' \subseteq Threads \X Threads /\ missed' \in BOOLEAN
    BY <1>8 DEF LeaveWrite, SectionsInv, history
  <2> QED BY <1>3, <2>1, <2>5, <2>7, <2>8 DEF SectionsInv
<1>9. CASE EnterShared(t)
  <2>1. /\ at[t] = "s.add" /\ at' = [at EXCEPT ![t] = "user"] /\ DCSReaderCnt' = DCSReaderCnt + 1
        /\ inside' = [inside EXCEPT ![t] = <<"read">> \o @]
        /\ UNCHANGED <<DCSWriterCnt, DCSAcq, asserted, history>>
    BY <1>9 DEF EnterShared, At
  <2>2. /\ inside' \in [Threads -> Seq(Kinds)] /\ Len(inside'[t]) = Len(inside[t]) + 1
        /\ Sections("read")' = Sections("read") \cup {<<t, Len(inside[t]) + 1>>}
        /\ <<t, Len(inside[t]) + 1>> \notin Sections("read")
        /\ Sections("write")' = Sections("write")
    BY <1>1, <1>4, <2>1, PushedSection
  <2>3. Setting' = Setting
    BY <1>1, <2>1 DEF Setting, Shape
  <2>4. /\ IsFiniteSet(Sections("read")')
        /\ Cardinality(Sections("read")') = Cardinality(Sections("read")) + 1
    BY <1>1, <2>2, OneMore
  <2>5. Counted'
    BY <1>1, <2>1, <2>2, <2>3, <2>4 DEF Counted, Kinds
  <2>6. Len(inside[t]) < Nesting /\ \A u \in Threads \ {t} : inside'[u] = inside[u] /\ at'[u] = at[u]
    BY <1>1, <2>1 DEF Shape, Sharing
  <2>7. Shape'
    <3>1. Len(inside'[t]) <= Nesting /\ at'[t] = "user"
      BY <1>1, <1>4, <2>1, <2>2, <2>6 DEF Shape
    <3> QED BY <1>1, <2>1, <2>2, <2>6, <3>1 DEF Shape, Asking, Sharing, Returning
  <2> QED BY <1>3, <2>1, <2>5, <2>7 DEF SectionsInv, history
<1>10. CASE LeaveShared(t)
  <2>1. /\ at[t] = "r.sub" /\ at' = [at EXCEPT ![t] = "user"] /\ DCSReaderCnt' = DCSReaderCnt - 1
        /\ inside' = [inside EXCEPT ![t] = Tail(@)] /\ asserted' \in BOOLEAN
        /\ UNCHANGED <<DCSWriterCnt, DCSAcq, history>>
    BY <1>10 DEF LeaveShared, At
  <2>2. /\ inside' \in [Threads -> Seq(Kinds)] /\ Len(inside'[t]) = Len(inside[t]) - 1
        /\ Sections("read")' = Sections("read") \ {<<t, Len(inside[t])>>}
        /\ <<t, Len(inside[t])>> \in Sections("read")
        /\ Sections("write")' = Sections("write")
    <3>1. inside[t] # <<>> /\ Head(inside[t]) = "read"
      BY <1>1, <2>1 DEF Shape, Returning
    <3> QED BY <1>1, <1>4, <2>1, <3>1, PoppedSection
  <2>3. Setting' = Setting
    BY <1>1, <2>1 DEF Setting, Shape
  <2>4. /\ IsFiniteSet(Sections("read")')
        /\ Cardinality(Sections("read")') = Cardinality(Sections("read")) - 1
    BY <1>1, <2>2, OneLess
  <2>5. Counted'
    BY <1>1, <2>1, <2>2, <2>3, <2>4 DEF Counted, Kinds
  <2>6. \A u \in Threads \ {t} : inside'[u] = inside[u] /\ at'[u] = at[u]
    BY <1>1, <2>1 DEF Shape
  <2>7. Shape'
    <3>1. Len(inside'[t]) <= Nesting /\ at'[t] = "user"
      BY <1>1, <1>4, <2>1, <2>2 DEF Shape
    <3> QED BY <1>1, <2>1, <2>2, <2>6, <3>1 DEF Shape, Asking, Sharing, Returning
  <2> QED BY <1>3, <2>1, <2>5, <2>7 DEF SectionsInv, history
<1> QED BY <1>5, <1>6, <1>7, <1>8, <1>9, <1>10

LEMMA InitSections ==
    ASSUME LockAssumption, CriticalSectionsAssumption, SectionsInit PROVE SectionsInv
<1> USE DEF SectionsInit, SectionInit
<1>1. LockInv
  BY InitLock
<1>2. Shape
  BY DEF Shape, Asking, Sharing, Returning, CriticalSectionsAssumption
<1>3. Sections("read") = {} /\ Sections("write") = {} /\ Setting = {}
  BY DEF Sections, Setting
<1>4. Counted
  <2>1. \A kind \in Kinds : Sections(kind) = {}
    BY <1>3 DEF Kinds
  <2>2. IsFiniteSet({}) /\ Cardinality({}) = 0
    BY FS_EmptySet
  <2>3. \A kind \in Kinds : IsFiniteSet(Sections(kind))
    BY <2>1, <2>2
  <2>4. Cardinality(Sections("read")) = 0 /\ Cardinality(Sections("write")) = 0
        /\ Cardinality(Setting) = 0
    BY <1>3, <2>2
  <2> QED BY <2>3, <2>4 DEF Counted
<1> QED BY <1>1, <1>2, <1>4 DEF SectionsInv

LEMMA LockLeavesSections ==
    ASSUME SectionsInv, LockInv', UNCHANGED <<counters, at, inside, asserted, history>>
    PROVE  SectionsInv'
<1>1. Counted'
  BY NoSectionChanges DEF SectionsInv, Counted, counters, Setting, Kinds
<1> QED BY <1>1 DEF SectionsInv, Shape, counters, history

LEMMA SectionsStutter ==
    ASSUME SectionsInv, UNCHANGED vars PROVE SectionsInv'
<1>1. UNCHANGED <<lockVars, counters, at, inside, asserted, history>>
  BY DEF vars
<1>2. LockInv'
  BY <1>1, LockStutters DEF SectionsInv
<1> QED BY <1>1, <1>2, LockLeavesSections

LEMMA SectionTypes ==
    ASSUME LockAssumption, SectionsInv PROVE SectionsTypeOK /\ Counted
<1>1. DCSWriterCnt \in Nat /\ DCSReaderCnt \in Nat
  BY FS_CardinalityType, FiniteSetting DEF SectionsInv, Counted, Kinds
<1> QED BY <1>1 DEF SectionsInv, SectionsTypeOK, Shape, LockInv, Asking, Sharing, Returning

\* The counters of a critical section are the numbers of the sections of each kind
\* that threads are in, whatever the threads do and with or without a lock.
THEOREM SectionsAreCounted ==
    ASSUME LockAssumption, CriticalSectionsAssumption
    PROVE  SectionsSpec => [](SectionsTypeOK /\ Counted)
<1>1. SectionsInv /\ [SectionsNext]_vars => SectionsInv'
  BY StepKeepsSections, SectionsStutter
<1> QED BY <1>1, SectionTypes, InitSections, PTL DEF SectionsSpec
-----------------------------------------------------------------------------
(* Critical sections that are used inside their lock.                       *)

\* The owner is known to the asserter, and a reader too if no release was wrong.
LEMMA OwnersAreTracked ==
    ASSUME LockAssumption, LockInv, misused = {} PROVE OwnerIsTracked
<1> SUFFICES ASSUME NEW t \in Threads, raised = "no"
             PROVE  /\ IsOwnedByCurrentThread(t) => writer = t
                    /\ pc[t] = "owning" => IsOwnedByCurrentThread(t)
                    /\ pc[t] = "sharing" => IsSharedOwnedByAnyThread
  BY DEF OwnerIsTracked
<1>1. TypeOK /\ MutexInv /\ OwnerInv /\ ReadersInv /\ RightCalls /\ None \notin Threads
  BY DEF LockInv, LockAssumption, SharedLockAssumption
<1>2. IsOwnedByCurrentThread(t) => writer = t
  BY <1>1 DEF IsOwnedByCurrentThread, OwnerInv, TypeOK
<1>3. pc[t] = "owning" => IsOwnedByCurrentThread(t)
  BY <1>1 DEF IsOwnedByCurrentThread, OwnerInv, MutexInv
<1>4. pc[t] = "sharing" => IsSharedOwnedByAnyThread
  BY <1>1, ReaderIsCounted DEF MutexInv, IsSharedOwnedByAnyThread
<1> QED BY <1>2, <1>3, <1>4

HasWrite(t) == \E i \in 1..Len(inside[t]) : inside[t][i] = "write"
OnlyWrites(t) == \A i \in 1..Len(inside[t]) : inside[t][i] = "write"

\* A thread in a section holds the lock: if it writes it owns it, and its name was
\* the last one to be written.  Sections of both kinds nest one way only.
Silent(t) ==
    /\ inside[t] # <<>> \/ at[t] # "user" => pc[t] \in {"owning", "sharing"}
    /\ HasWrite(t) => pc[t] = "owning" /\ DCSAcq = t
    /\ at[t] \in Asking => pc[t] = "owning" /\ OnlyWrites(t)
    /\ at[t] \in {"w.owner", "s.owner", "r.owner"} => DCSAcq = t
    /\ \A i, j \in 1..Len(inside[t]) :
        i < j /\ inside[t][i] = "write" => inside[t][j] = "write"
SilentInv == ~asserted /\ \A t \in Threads : Silent(t)

LockedAssumption ==
    LockAssumption /\ CriticalSectionsAssumption /\ Associated /\ Misuses = {}

\* Who owns the lock is alone with it.
LEMMA OwnerIsAlone ==
    ASSUME LockAssumption, LockInv, NEW t \in Threads, pc[t] = "owning",
           NEW u \in Threads, pc[u] \in {"owning", "sharing"}
    PROVE  u = t
BY DEF LockInv, MutexInv, LockAssumption, SharedLockAssumption

\* A writer that is counted is the one who asks.
LEMMA WriterIsTheOwner ==
    ASSUME LockedAssumption, SectionsInv, SilentInv, NEW t \in Threads,
           pc[t] \in {"owning", "sharing"}, at[t] # "w.set", DCSWriterCnt # 0
    PROVE  HasWrite(t)
<1>1. Shape /\ Counted /\ LockInv
  BY DEF SectionsInv
<1>2. CASE Setting # {}
  <2>1. PICK u \in Threads : at[u] = "w.set"
    BY <1>2 DEF Setting
  <2>2. pc[u] = "owning"
    BY <2>1 DEF SilentInv, Silent, Asking
  <2> QED BY <1>1, <2>1, <2>2, OwnerIsAlone DEF LockedAssumption
<1>3. CASE Setting = {}
  <2>1. Sections("write") # {}
    BY <1>1, <1>3, FS_EmptySet DEF Counted
  <2>2. PICK u \in Threads, n \in Nat : <<u, n>> \in Sections("write")
    BY <2>1 DEF Sections
  <2>3. Len(inside[u]) \in Nat /\ n \in 1..Len(inside[u]) /\ inside[u][Len(inside[u]) + 1 - n] = "write"
    BY <1>1, <2>2 DEF Sections, Shape
  <2>4. Len(inside[u]) + 1 - n \in 1..Len(inside[u])
    BY <2>3
  <2>5. HasWrite(u)
    BY <2>3, <2>4 DEF HasWrite
  <2>6. pc[u] = "owning"
    BY <2>5 DEF SilentInv, Silent
  <2> QED BY <1>1, <2>5, <2>6, OwnerIsAlone DEF LockedAssumption
<1> QED BY <1>2, <1>3

LEMMA OwnerHasNoReaders ==
    ASSUME LockedAssumption, SectionsInv, SilentInv, NEW t \in Threads,
           pc[t] = "owning", OnlyWrites(t)
    PROVE  DCSReaderCnt = 0
<1>1. Shape /\ Counted /\ LockInv
  BY DEF SectionsInv
<1>2. ASSUME NEW u \in Threads, NEW n \in Nat, <<u, n>> \in Sections("read") PROVE FALSE
  <2>1. Len(inside[u]) \in Nat /\ n \in 1..Len(inside[u]) /\ inside[u][Len(inside[u]) + 1 - n] = "read"
    BY <1>1, <1>2 DEF Sections, Shape
  <2>2. Len(inside[u]) + 1 - n \in 1..Len(inside[u])
    BY <2>1
  <2>3. inside[u] # <<>>
    BY <2>1
  <2>4. pc[u] \in {"owning", "sharing"}
    BY <2>3 DEF SilentInv, Silent
  <2>5. u = t
    BY <1>1, <2>4, OwnerIsAlone DEF LockedAssumption
  <2> QED BY <2>1, <2>2, <2>5 DEF OnlyWrites
<1>3. Sections("read") = {}
  BY <1>2 DEF Sections
<1> QED BY <1>1, <1>3, FS_EmptySet DEF Counted

LEMMA ReaderIsInside ==
    ASSUME SectionsInv, NEW t \in Threads, at[t] = "r.sub" PROVE DCSReaderCnt > 0
<1>1. /\ Shape /\ Counted /\ inside[t] \in Seq(Kinds) /\ inside[t] # <<>>
      /\ Head(inside[t]) = "read"
  BY DEF SectionsInv, Shape, Returning
<1>2. Len(inside[t]) \in Nat /\ Len(inside[t]) > 0 /\ Len(inside[t]) + 1 - Len(inside[t]) = 1
      /\ inside[t][1] = "read"
  BY <1>1
<1>3. <<t, Len(inside[t])>> \in Sections("read")
  BY <1>2 DEF Sections
<1>4. Cardinality(Sections("read")) \in Nat /\ Cardinality(Sections("read")) # 0
  BY <1>1, <1>3, FS_EmptySet, FS_CardinalityType DEF Counted, Kinds
<1> QED BY <1>1, <1>4 DEF Counted

\* A step of the lock around the sections: of a thread that is in none.
LEMMA StepOfLockIsSilent ==
    ASSUME LockedAssumption, SectionsInv, SilentInv, NEW t \in Threads, UseLock(t)
    PROVE  SilentInv'
<1>1. at[t] = "user" /\ inside[t] = <<>> /\ UNCHANGED <<DCSAcq, at, inside, asserted>>
  BY DEF UseLock, counters
<1>2. \A u \in Threads \ {t} : pc'[u] = pc[u]
  BY DEF UseLock, Call, CallRelease, CallReleaseShared, LockStep, AssertNotOwning, AssertNotOwner,
         Acquire, AcquireShared, TryFails, SetOwner, CountOwner, SetSharedOwner, SetSharedCI,
         AssertOwned, Release, Unlock, ReleaseShared, UnlockShared, DoAssert, Goto,
         SectionsInv, LockInv, TypeOK
<1>3. ~HasWrite(t) /\ \A u \in Threads : HasWrite(u)' = HasWrite(u) /\ OnlyWrites(u)' = OnlyWrites(u)
  BY <1>1 DEF HasWrite, OnlyWrites
<1> QED BY <1>1, <1>2, <1>3 DEF SilentInv, Silent, Asking

\* What a thread meets that enters or leaves a section.
LEMMA TestsSucceed ==
    ASSUME LockedAssumption, SectionsInv, SilentInv, raised = "no", NEW t \in Threads
    PROVE  /\ pc[t] = "owning" => DCSIsAcquired(t) /\ DCSIsSharedAcquired(t)
           /\ pc[t] = "sharing" => DCSIsSharedAcquired(t)
           /\ at[t] = "w.readers" => DCSReaderCnt = 0
           /\ at[t] = "r.sub" => DCSReaderCnt > 0
           /\ at[t] \in {"w.cnt", "s.cnt", "r.cnt"} /\ DCSWriterCnt # 0 => DCSAcq = t
           /\ inside[t] # <<>> /\ Head(inside[t]) = "write" => HasWrite(t)
<1>1. LockAssumption /\ LockInv /\ misused = {} /\ Associated /\ Shape
  BY DEF LockedAssumption, SectionsInv, LockInv
<1>2. OwnerIsTracked
  BY <1>1, OwnersAreTracked
<1>3. /\ pc[t] = "owning" => DCSIsAcquired(t) /\ DCSIsSharedAcquired(t)
      /\ pc[t] = "sharing" => DCSIsSharedAcquired(t)
  BY <1>1, <1>2 DEF OwnerIsTracked, DCSIsAcquired, DCSIsSharedAcquired
<1>4. at[t] = "w.readers" => DCSReaderCnt = 0
  BY OwnerHasNoReaders DEF SilentInv, Silent, Asking
<1>5. at[t] \in {"w.cnt", "s.cnt", "r.cnt"} /\ DCSWriterCnt # 0 => DCSAcq = t
  <2> SUFFICES ASSUME at[t] \in {"w.cnt", "s.cnt", "r.cnt"}, DCSWriterCnt # 0 PROVE DCSAcq = t
    OBVIOUS
  <2>1. pc[t] \in {"owning", "sharing"} /\ at[t] # "w.set"
    BY DEF SilentInv, Silent
  <2>2. HasWrite(t)
    BY <2>1, WriterIsTheOwner
  <2> QED BY <2>2 DEF SilentInv, Silent
<1>6. inside[t] # <<>> /\ Head(inside[t]) = "write" => HasWrite(t)
  <2>1. inside[t] \in Seq(Kinds)
    BY <1>1 DEF Shape
  <2>2. inside[t] # <<>> => 1 \in 1..Len(inside[t]) /\ Head(inside[t]) = inside[t][1]
    BY <2>1
  <2> QED BY <2>2 DEF HasWrite
<1> QED BY <1>3, <1>4, <1>5, <1>6, ReaderIsInside

\* Another thread is not disturbed.
LEMMA OthersAreSilent ==
    ASSUME LockedAssumption, SectionsInv, SilentInv, UNCHANGED lockVars, NEW t \in Threads,
           \A u \in Threads \ {t} : at'[u] = at[u] /\ inside'[u] = inside[u],
           DCSAcq' = DCSAcq \/ pc[t] = "owning", ~asserted', Silent(t)'
    PROVE  SilentInv'
<1>1. ASSUME NEW u \in Threads \ {t} PROVE Silent(u)'
  <2>1. Silent(u)
    BY DEF SilentInv, Silent
  <2>2. pc' = pc /\ at'[u] = at[u] /\ inside'[u] = inside[u]
    BY DEF lockVars
  <2>3. HasWrite(u)' = HasWrite(u) /\ OnlyWrites(u)' = OnlyWrites(u)
    BY <2>2 DEF HasWrite, OnlyWrites
  <2>4. CASE DCSAcq' = DCSAcq
    BY <2>1, <2>2, <2>3, <2>4 DEF Silent
  <2>5. CASE pc[t] = "owning"
    <3>1. pc[u] \notin {"owning", "sharing"}
      BY <2>5, OwnerIsAlone DEF LockedAssumption, SectionsInv
    <3> QED BY <2>1, <2>2, <2>3, <3>1 DEF Silent, Asking
  <2> QED BY <2>4, <2>5
<1>2. \A u \in Threads : Silent(u)'
  BY <1>1
<1> QED BY <1>2 DEF SilentInv, Silent

LEMMA TestsAreSilent ==
    ASSUME LockedAssumption, SectionsInv, SilentInv, raised = "no", UNCHANGED lockVars,
           NEW t \in Threads,
           \/ Acquires(t) \/ WriterCntIs0(t) \/ WriterIsMe(t) \/ NoReaders(t)
           \/ Releases(t) \/ AcquiresShared(t) \/ SharedWriterCnt(t) \/ SharedOwner(t)
           \/ ReleasesShared(t) \/ ReleaseWriterCnt(t) \/ ReleaseOwner(t) \/ CountWriter(t)
    PROVE  SilentInv'
<1> DEFINE Goes(to) ==
        /\ at' = [at EXCEPT ![t] = to]
        /\ pc[t] \in {"owning", "sharing"}
        /\ to \in Asking => pc[t] = "owning" /\ OnlyWrites(t)
        /\ to \in {"w.owner", "s.owner", "r.owner"} => DCSAcq = t
<1>1. /\ Silent(t) /\ ~asserted /\ Shape /\ Associated /\ DCSWriterCnt \in Nat
      /\ at[t] \in {"user", "w.sub"} \cup Asking \cup Sharing \cup Returning
      /\ DOMAIN inside[t] = 1..Len(inside[t])
  <2>1. DCSWriterCnt \in Nat
    BY FS_CardinalityType, FiniteSetting DEF SectionsInv, Counted, Kinds, LockedAssumption
  <2> QED BY <2>1 DEF SilentInv, Silent, SectionsInv, Shape, LockedAssumption
<1>2. /\ pc[t] = "owning" => DCSIsAcquired(t) /\ DCSIsSharedAcquired(t)
      /\ pc[t] = "sharing" => DCSIsSharedAcquired(t)
      /\ at[t] = "w.readers" => DCSReaderCnt = 0
      /\ at[t] \in {"w.cnt", "s.cnt", "r.cnt"} /\ DCSWriterCnt # 0 => DCSAcq = t
      /\ inside[t] # <<>> /\ Head(inside[t]) = "write" => HasWrite(t)
  BY TestsSucceed
<1>3. /\ UNCHANGED <<DCSAcq, inside>>
      /\ asserted' = FALSE
      /\ \E to : Goes(to)
  <2> USE <1>1, <1>2 DEF Assert, At, Silent, counters, Asking, Sharing, Returning
  <2>1. CASE Acquires(t)
    <3>1. at' = [at EXCEPT ![t] = "w.cnt"] /\ asserted' = FALSE /\ UNCHANGED <<DCSAcq, inside>>
          /\ pc[t] \in {"owning", "sharing"}
      BY <2>1 DEF Acquires
    <3>2. OnlyWrites(t) /\ pc[t] = "owning"
      BY <2>1 DEF Acquires, OnlyWrites
    <3>3. Goes("w.cnt")
      BY <3>1, <3>2
    <3> HIDE DEF Goes
    <3> QED BY <3>1, <3>3
  <2>2. CASE WriterCntIs0(t)
    <3>1. /\ asserted' = FALSE /\ UNCHANGED <<DCSAcq, inside>>
          /\ at[t] = "w.cnt" /\ pc[t] \in {"owning", "sharing"}
      BY <2>2 DEF WriterCntIs0
    <3>2. CASE DCSWriterCnt = 0
      <4>1. at' = [at EXCEPT ![t] = "w.readers"]
        BY <2>2, <3>2 DEF WriterCntIs0
      <4>2. Goes("w.readers")
        BY <3>1, <4>1
      <4> HIDE DEF Goes
      <4> QED BY <3>1, <4>2
    <3>3. CASE ~(DCSWriterCnt = 0)
      <4>1. at' = [at EXCEPT ![t] = "w.owner"] /\ DCSAcq = t
        BY <2>2, <3>1, <3>3 DEF WriterCntIs0
      <4>2. Goes("w.owner")
        BY <3>1, <4>1
      <4> HIDE DEF Goes
      <4> QED BY <3>1, <4>2
    <3> QED BY <3>2, <3>3
  <2>3. CASE WriterIsMe(t)
    BY <2>3 DEF WriterIsMe
  <2>4. CASE NoReaders(t)
    BY <2>4 DEF NoReaders
  <2>5. CASE Releases(t)
    BY <2>5 DEF Releases
  <2>6. CASE AcquiresShared(t)
    <3>1. at' = [at EXCEPT ![t] = "s.cnt"] /\ asserted' = FALSE /\ UNCHANGED <<DCSAcq, inside>>
          /\ pc[t] \in {"owning", "sharing"}
      BY <2>6 DEF AcquiresShared
    <3> QED BY <2>6, <3>1 DEF AcquiresShared
  <2>7. CASE SharedWriterCnt(t)
    <3>1. /\ asserted' = FALSE /\ UNCHANGED <<DCSAcq, inside>>
          /\ at[t] = "s.cnt" /\ pc[t] \in {"owning", "sharing"}
      BY <2>7 DEF SharedWriterCnt
    <3>2. CASE DCSWriterCnt <= 0
      <4>1. at' = [at EXCEPT ![t] = "s.add"]
        BY <2>7, <3>2 DEF SharedWriterCnt
      <4>2. Goes("s.add")
        BY <3>1, <4>1
      <4> HIDE DEF Goes
      <4> QED BY <3>1, <4>2
    <3>3. CASE ~(DCSWriterCnt <= 0)
      <4>1. at' = [at EXCEPT ![t] = "s.owner"] /\ DCSAcq = t
        BY <2>7, <3>1, <3>3 DEF SharedWriterCnt
      <4>2. Goes("s.owner")
        BY <3>1, <4>1
      <4> HIDE DEF Goes
      <4> QED BY <3>1, <4>2
    <3> QED BY <3>2, <3>3
  <2>8. CASE SharedOwner(t)
    BY <2>8 DEF SharedOwner
  <2>9. CASE ReleasesShared(t)
    <3>1. at' = [at EXCEPT ![t] = "r.cnt"] /\ asserted' = FALSE /\ UNCHANGED <<DCSAcq, inside>>
          /\ pc[t] \in {"owning", "sharing"}
      BY <2>9 DEF ReleasesShared
    <3>2. Goes("r.cnt")
      BY <3>1, <2>9 DEF ReleasesShared
    <3> HIDE DEF Goes
    <3> QED BY <3>1, <3>2
  <2>10. CASE ReleaseWriterCnt(t)
    <3>1. /\ asserted' = FALSE /\ UNCHANGED <<DCSAcq, inside>>
          /\ at[t] = "r.cnt" /\ pc[t] \in {"owning", "sharing"}
      BY <2>10 DEF ReleaseWriterCnt
    <3>2. CASE DCSWriterCnt <= 0
      <4>1. at' = [at EXCEPT ![t] = "r.sub"]
        BY <2>10, <3>2 DEF ReleaseWriterCnt
      <4>2. Goes("r.sub")
        BY <3>1, <4>1
      <4> HIDE DEF Goes
      <4> QED BY <3>1, <4>2
    <3>3. CASE ~(DCSWriterCnt <= 0)
      <4>1. at' = [at EXCEPT ![t] = "r.owner"] /\ DCSAcq = t
        BY <2>10, <3>1, <3>3 DEF ReleaseWriterCnt
      <4>2. Goes("r.owner")
        BY <3>1, <4>1
      <4> HIDE DEF Goes
      <4> QED BY <3>1, <4>2
    <3> QED BY <3>2, <3>3
  <2>11. CASE ReleaseOwner(t)
    BY <2>11 DEF ReleaseOwner
  <2>12. CASE CountWriter(t)
    <3>1. at' = [at EXCEPT ![t] = "w.set"] /\ asserted' = FALSE /\ UNCHANGED <<DCSAcq, inside>>
          /\ pc[t] \in {"owning", "sharing"}
      BY <2>12 DEF CountWriter
    <3> QED BY <2>12, <3>1 DEF CountWriter
  <2> QED BY <2>1, <2>2, <2>3, <2>4, <2>5, <2>6, <2>7, <2>8, <2>9, <2>10, <2>11, <2>12
<1>4. PICK to : Goes(to)
  BY <1>3
<1>5. at'[t] = to /\ \A u \in Threads \ {t} : at'[u] = at[u] /\ inside'[u] = inside[u]
  BY <1>1, <1>3, <1>4 DEF Shape
<1>6. Silent(t)'
  <2>1. pc' = pc /\ HasWrite(t)' = HasWrite(t) /\ OnlyWrites(t)' = OnlyWrites(t)
    BY <1>3 DEF lockVars, HasWrite, OnlyWrites
  <2> QED BY <1>1, <1>3, <1>4, <1>5, <2>1 DEF Silent
<1> QED BY <1>3, <1>5, <1>6, OthersAreSilent

LEMMA Prepended ==
    ASSUME NEW q \in Seq(Kinds), NEW k \in Kinds, NEW r, r = <<k>> \o q
    PROVE  /\ r \in Seq(Kinds) /\ Len(q) \in Nat /\ Len(r) = Len(q) + 1 /\ r[1] = k
           /\ \A i \in 1..Len(r) : i # 1 => i - 1 \in 1..Len(q) /\ r[i] = q[i - 1]
<1>1. Len(q) \in Nat /\ r \in Seq(Kinds) /\ Len(r) = Len(q) + 1 /\ r[1] = k
  OBVIOUS
<1>2. ASSUME NEW i \in 1..Len(r), i # 1 PROVE i - 1 \in 1..Len(q) /\ r[i] = q[i - 1]
  BY <1>1, <1>2
<1> QED BY <1>1, <1>2

LEMMA Remainder ==
    ASSUME NEW q \in Seq(Kinds), q # <<>>, NEW r, r = Tail(q)
    PROVE  /\ r \in Seq(Kinds) /\ Len(q) \in Nat /\ Len(r) = Len(q) - 1
           /\ \A i \in 1..Len(r) : i + 1 \in 1..Len(q) /\ r[i] = q[i + 1]
OBVIOUS

LEMMA EntersAndLeavesAreSilent ==
    ASSUME LockedAssumption, SectionsInv, SilentInv, raised = "no", UNCHANGED lockVars,
           NEW t \in Threads, EnterWrite(t) \/ LeaveWrite(t) \/ EnterShared(t) \/ LeaveShared(t)
    PROVE  SilentInv'
<1>1. Silent(t) /\ ~asserted /\ Shape /\ inside[t] \in Seq(Kinds) /\ pc' = pc
  BY DEF SilentInv, SectionsInv, Shape, lockVars
<1> DEFINE q == inside[t]
           r == inside'[t]
<1>2. /\ at'[t] = "user" /\ ~asserted' /\ \A u \in Threads \ {t} : at'[u] = at[u] /\ inside'[u] = inside[u]
      /\ DCSAcq' = DCSAcq \/ (at[t] = "w.set" /\ DCSAcq' = t)
  <2>1. at' = [at EXCEPT ![t] = "user"] /\ ~asserted'
    <3>1. CASE LeaveShared(t)
      <4>1. DCSReaderCnt > 0 /\ DCSReaderCnt \in Nat
        BY <3>1, ReaderIsInside, FS_CardinalityType DEF LeaveShared, At, SectionsInv, Counted, Kinds
      <4>2. ~(DCSReaderCnt <= 0)
        BY <4>1
      <4>3. asserted' = (DCSReaderCnt <= 0) /\ at' = [at EXCEPT ![t] = "user"]
        BY <3>1 DEF LeaveShared, At
      <4> QED BY <4>2, <4>3
    <3> QED BY <1>1, <3>1 DEF EnterWrite, LeaveWrite, EnterShared, At
  <2> QED BY <1>1, <2>1 DEF Shape, EnterWrite, LeaveWrite, EnterShared, LeaveShared, At
<1>3. \/ at[t] = "w.set" /\ r = <<"write">> \o q /\ DCSAcq' = t
      \/ at[t] \in Sharing /\ r = <<"read">> \o q /\ DCSAcq' = DCSAcq
      \/ q # <<>> /\ r = Tail(q) /\ DCSAcq' = DCSAcq
  BY <1>1 DEF Shape, EnterWrite, LeaveWrite, EnterShared, LeaveShared, At, Sharing, Returning
<1>4. /\ pc[t] \in {"owning", "sharing"} /\ (at[t] = "w.set" => pc[t] = "owning" /\ OnlyWrites(t))
      /\ HasWrite(t) => pc[t] = "owning" /\ DCSAcq = t
      /\ \A i, j \in 1..Len(q) : i < j /\ q[i] = "write" => q[j] = "write"
  BY <1>1, <1>3 DEF Silent, Asking, Sharing
<1>5. "write" \in Kinds /\ "read" \in Kinds
  BY DEF Kinds
<1>6. /\ (\E i \in 1..Len(r) : r[i] = "write") => pc[t] = "owning" /\ DCSAcq' = t
      /\ \A i, j \in 1..Len(r) : i < j /\ r[i] = "write" => r[j] = "write"
  <2> HIDE DEF q, r
  <2>0. q \in Seq(Kinds)
    BY <1>1 DEF q
  <2>1. CASE at[t] = "w.set" /\ r = <<"write">> \o q /\ DCSAcq' = t
    <3>1. \A i \in 1..Len(q) : q[i] = "write"
      BY <1>4, <2>1 DEF OnlyWrites, q
    <3>2. \A i \in 1..Len(r) : r[i] = "write"
      BY <1>5, <2>0, <2>1, <3>1, Prepended
    <3> QED BY <1>4, <2>1, <3>2
  <2>2. CASE at[t] \in Sharing /\ r = <<"read">> \o q /\ DCSAcq' = DCSAcq
    <3>1. /\ Len(q) \in Nat /\ Len(r) = Len(q) + 1 /\ r[1] = "read"
          /\ \A i \in 1..Len(r) : i # 1 => i - 1 \in 1..Len(q) /\ r[i] = q[i - 1]
      BY <1>5, <2>0, <2>2, Prepended
    <3>2. (\E i \in 1..Len(r) : r[i] = "write") => HasWrite(t)
      BY <3>1 DEF HasWrite, q
    <3>3. ASSUME NEW i \in 1..Len(r), NEW j \in 1..Len(r), i < j, r[i] = "write" PROVE r[j] = "write"
      <4>1. i # 1 /\ j # 1
        BY <3>1, <3>3
      <4>2. i - 1 \in 1..Len(q) /\ r[i] = q[i - 1] /\ j - 1 \in 1..Len(q) /\ r[j] = q[j - 1]
        BY <3>1, <4>1
      <4>3. i - 1 < j - 1
        BY <3>1, <3>3
      <4> QED BY <1>4, <3>3, <4>2, <4>3
    <3> QED BY <1>4, <2>2, <3>2, <3>3
  <2>3. CASE q # <<>> /\ r = Tail(q) /\ DCSAcq' = DCSAcq
    <3>1. /\ Len(q) \in Nat /\ Len(r) = Len(q) - 1
          /\ \A i \in 1..Len(r) : i + 1 \in 1..Len(q) /\ r[i] = q[i + 1]
      BY <2>0, <2>3, Remainder
    <3>2. (\E i \in 1..Len(r) : r[i] = "write") => HasWrite(t)
      BY <3>1 DEF HasWrite, q
    <3>3. ASSUME NEW i \in 1..Len(r), NEW j \in 1..Len(r), i < j, r[i] = "write" PROVE r[j] = "write"
      <4>1. i + 1 \in 1..Len(q) /\ r[i] = q[i + 1] /\ j + 1 \in 1..Len(q) /\ r[j] = q[j + 1]
        BY <3>1
      <4>2. i + 1 < j + 1
        BY <3>1, <3>3
      <4> QED BY <1>4, <3>3, <4>1, <4>2
    <3> QED BY <1>4, <2>3, <3>2, <3>3
  <2> QED BY <1>3, <2>1, <2>2, <2>3
<1>7. Silent(t)'
  BY <1>1, <1>2, <1>4, <1>6 DEF Silent, HasWrite, Asking
<1> QED BY <1>2, <1>4, <1>7, OthersAreSilent

LEMMA InitSilent ==
    ASSUME SectionInit PROVE SilentInv
BY DEF SilentInv, Silent, HasWrite, Asking, SectionInit

LEMMA StepKeepsSilence ==
    ASSUME LockedAssumption, SectionsInv, SilentInv, SectionsNext PROVE SilentInv'
<1>1. raised = "no"
  BY SectionCases
<1>2. CASE \E t \in Threads : UseLock(t)
  BY <1>2, StepOfLockIsSilent
<1>3. CASE \E t \in Threads : SectionStep(t)
  <2>1. PICK t \in Threads : SectionStep(t)
    BY <1>3
  <2> QED BY <1>1, <2>1, TestsAreSilent, EntersAndLeavesAreSilent DEF SectionStep
<1> QED BY <1>2, <1>3 DEF SectionsNext

LEMMA SilenceStutters ==
    ASSUME SilentInv, UNCHANGED vars PROVE SilentInv'
BY DEF vars, lockVars, counters, SilentInv, Silent, HasWrite, OnlyWrites

LEMMA SilentUse ==
    ASSUME LockedAssumption, SectionsInv, SilentInv PROVE LockedUseIsSilent
BY DEF SectionsInv, LockInv, NoFalseAlarm, SilentInv, LockedUseIsSilent, LockedAssumption

\* "DCSIsAcquired" and the tests of the section succeed for threads that use the
\* lock around it, and the asserter of the lock is silent too.
THEOREM LockedUse ==
    ASSUME LockedAssumption PROVE SectionsSpec => []LockedUseIsSilent
<1> DEFINE Inv == SectionsInv /\ SilentInv
<1>1. SectionsInit => Inv
  BY InitSections, InitSilent DEF LockedAssumption, SectionsInit
<1>2. Inv /\ [SectionsNext]_vars => Inv'
  BY StepKeepsSections, SectionsStutter, StepKeepsSilence, SilenceStutters DEF LockedAssumption
<1>3. Inv => LockedUseIsSilent
  BY SilentUse
<1> QED BY <1>1, <1>2, <1>3, PTL DEF SectionsSpec
-----------------------------------------------------------------------------
(* Writers that overlap without a lock.                                     *)

\* A writer whose name was overwritten: it raises an assertion when it leaves.
Stuck(t) == inside[t] = <<"write">> /\ at[t] = "user" /\ DCSAcq # t

OverlapInv ==
    /\ ~missed
    /\ \A t, u \in Threads :
        <<t, u>> \in met => Stuck(t) \/ (Stuck(u) /\ <<u, t>> \in met)

OpenAssumption ==
    LockAssumption /\ CriticalSectionsAssumption /\ ~Associated /\ Nesting = 1

LEMMA StuckStays ==
    ASSUME OpenAssumption, SectionsInv, SectionsNext, NEW t \in Threads, Stuck(t)
    PROVE  Stuck(t)'
<1>1. Shape /\ Nesting = 1 /\ Len(inside[t]) = 1 /\ Head(inside[t]) = "write"
  BY DEF SectionsInv, OpenAssumption, Stuck
<1>2. CASE UNCHANGED <<counters, at, inside>>
  BY <1>2 DEF Stuck, counters
<1>3. ASSUME NEW u \in Threads, SectionStep(u) PROVE Stuck(t)'
  <2>1. CASE u = t
    <3> USE <1>1, <2>1 DEF Stuck, Assert, At, counters
    <3>1. CASE Releases(t)
      BY <3>1 DEF Releases
    <3>2. CASE ReleasesShared(t) \/ Acquires(t) \/ AcquiresShared(t)
      BY <3>2 DEF ReleasesShared, Acquires, AcquiresShared
    <3> QED BY <1>3, <3>1, <3>2 DEF SectionStep, WriterCntIs0, WriterIsMe, NoReaders, CountWriter,
               EnterWrite, LeaveWrite, SharedWriterCnt, SharedOwner, EnterShared,
               ReleaseWriterCnt, ReleaseOwner, LeaveShared
  <2>2. CASE u # t
    <3>1. at'[t] = at[t] /\ inside'[t] = inside[t] /\ DCSAcq' \in {DCSAcq, u}
      BY <1>1, <1>3, <2>2 DEF SectionStep, Shape, Assert, At, counters,
         Acquires, WriterCntIs0, WriterIsMe, NoReaders, CountWriter, EnterWrite, Releases, LeaveWrite,
         AcquiresShared, SharedWriterCnt, SharedOwner, EnterShared,
         ReleasesShared, ReleaseWriterCnt, ReleaseOwner, LeaveShared
    <3> QED BY <2>2, <3>1 DEF Stuck
  <2> QED BY <2>1, <2>2
<1> QED BY <1>2, <1>3 DEF SectionsNext, UseLock

LEMMA StepKeepsOverlap ==
    ASSUME OpenAssumption, SectionsInv, OverlapInv, SectionsNext
    PROVE  OverlapInv'
<1>1. Shape /\ Nesting = 1 /\ met \subseteq Threads \X Threads
  BY DEF SectionsInv, OpenAssumption
<1>2. \A t \in Threads : Stuck(t) => Stuck(t)'
  BY StuckStays
<1>3. CASE UNCHANGED history
  BY <1>2, <1>3 DEF OverlapInv, history
<1>4. ASSUME NEW t \in Threads, EnterWrite(t) PROVE OverlapInv'
  <2> DEFINE others == {u \in Threads \ {t} : Writes(u)}
  <2>1. inside[t] = <<>> /\ ~Writes(t)
    <3>1. inside[t] \in Seq(Kinds) /\ Len(inside[t]) < 1
      BY <1>1, <1>4 DEF EnterWrite, At, Shape, Asking
    <3>2. inside[t] = <<>>
      BY <3>1
    <3> QED BY <3>2 DEF Writes
  <2>2. met' = met \cup ({t} \X others) \cup (others \X {t}) /\ DCSAcq' = t /\ missed' = missed
    BY <1>4, <2>1 DEF EnterWrite
  <2>3. ASSUME NEW u \in others PROVE Stuck(u)'
    <3>1. inside[u] \in Seq(Kinds) /\ Len(inside[u]) \in Nat /\ Len(inside[u]) <= 1 /\ u # t
      BY <1>1, <2>3 DEF Shape
    <3>2. PICK i \in DOMAIN inside[u] : inside[u][i] = "write"
      BY <2>3 DEF Writes
    <3>3. Len(inside[u]) = 1 /\ inside[u][1] = "write"
      <4>1. i \in 1..Len(inside[u])
        BY <3>1, <3>2
      <4>2. Len(inside[u]) = 1 /\ i = 1
        <5>1. \A n \in Nat : n <= 1 /\ i \in 1..n => n = 1 /\ i = 1
          OBVIOUS
        <5> QED BY <3>1, <4>1, <5>1
      <4> QED BY <3>2, <4>2
    <3>4. inside[u] = <<"write">>
      BY <3>1, <3>3
    <3>5. at[u] # "w.sub"
      BY <2>3, <3>3 DEF Writes
    <3>6. at[u] = "user"
      BY <1>1, <3>1, <3>3, <3>4, <3>5 DEF Shape, Returning
    <3>7. inside'[u] = inside[u] /\ at'[u] = at[u]
      BY <1>1, <1>4, <3>1 DEF EnterWrite, At, Shape
    <3> QED BY <2>2, <3>1, <3>4, <3>6, <3>7 DEF Stuck
  <2>4. ASSUME NEW p \in Threads, NEW u \in Threads, <<p, u>> \in met'
        PROVE  Stuck(p)' \/ (Stuck(u)' /\ <<u, p>> \in met')
    <3>1. CASE <<p, u>> \in met
      BY <1>2, <2>2, <3>1 DEF OverlapInv
    <3>2. CASE p = t /\ u \in others
      BY <2>2, <2>3, <3>2
    <3>3. CASE p \in others
      BY <2>3, <3>3
    <3> QED BY <2>2, <2>4, <3>1, <3>2, <3>3
  <2> QED BY <2>2, <2>4 DEF OverlapInv
<1>5. ASSUME NEW t \in Threads, LeaveWrite(t), ~UNCHANGED history PROVE OverlapInv'
  <2>1. /\ met' = {p \in met : p[1] # t}
        /\ missed' = (missed \/ \E u \in Threads : <<t, u>> \in met /\ <<u, t>> \notin met)
        /\ at[t] = "w.sub"
    BY <1>5 DEF LeaveWrite, At
  <2>2. ~Stuck(t)
    BY <2>1 DEF Stuck
  <2>3. ~missed'
    BY <2>1, <2>2 DEF OverlapInv
  <2>4. ASSUME NEW p \in Threads, NEW u \in Threads, <<p, u>> \in met'
        PROVE  Stuck(p)' \/ (Stuck(u)' /\ <<u, p>> \in met')
    <3>1. <<p, u>> \in met /\ p # t
      BY <2>1, <2>4
    <3>2. CASE Stuck(p)
      BY <1>2, <3>2
    <3>3. CASE Stuck(u) /\ <<u, p>> \in met
      BY <1>2, <2>1, <2>2, <3>3
    <3> QED BY <3>1, <3>2, <3>3 DEF OverlapInv
  <2> QED BY <2>3, <2>4 DEF OverlapInv
<1>6. ASSUME NEW t \in Threads, SectionStep(t), ~EnterWrite(t), ~LeaveWrite(t) PROVE UNCHANGED history
  BY <1>6 DEF SectionStep, Assert,
     Acquires, WriterCntIs0, WriterIsMe, NoReaders, CountWriter, Releases,
     AcquiresShared, SharedWriterCnt, SharedOwner, EnterShared,
     ReleasesShared, ReleaseWriterCnt, ReleaseOwner, LeaveShared
<1> QED BY <1>3, <1>4, <1>5, <1>6 DEF SectionsNext, UseLock

LEMMA InitOverlap ==
    ASSUME SectionInit PROVE OverlapInv
BY DEF OverlapInv, SectionInit

LEMMA OverlapStutters ==
    ASSUME OverlapInv, UNCHANGED vars PROVE OverlapInv'
BY DEF vars, history, counters, OverlapInv, Stuck

\* "This class supports detecting a racing condition": of two writers that are
\* inside together without a lock none leaves unnoticed, for any number of threads
\* and every interleaving of the tests with the counting, if sections do not nest.
THEOREM OverlapIsFound ==
    ASSUME OpenAssumption PROVE SectionsSpec => []OverlapOfWritersIsDetected
<1> DEFINE Inv == SectionsInv /\ OverlapInv
<1>1. SectionsInit => Inv
  BY InitSections, InitOverlap DEF OpenAssumption, SectionsInit
<1>2. Inv /\ [SectionsNext]_vars => Inv'
  BY StepKeepsSections, SectionsStutter, StepKeepsOverlap, OverlapStutters DEF OpenAssumption
<1>3. Inv => OverlapOfWritersIsDetected
  BY DEF OverlapInv, OverlapOfWritersIsDetected
<1> QED BY <1>1, <1>2, <1>3, PTL DEF SectionsSpec
=============================================================================
