--------------------------- MODULE CriticalSections ---------------------------
(***************************************************************************)
(* DbgCriticalSections: counters with which allocators and containers find   *)
(* out, in debug builds, that threads use them at the same time.  A section  *)
(* may be associated with a lock, here one of type SharedLock.               *)
(*                                                                         *)
(* With Associated, threads enter sections only while they own or share the  *)
(* lock, as they should; without, they enter as they like.  Counters and     *)
(* caller information are read and written in single steps.                  *)
(***************************************************************************)
EXTENDS SharedLock, Sequences

CONSTANTS Associated, Nesting

CriticalSectionsAssumption == Associated \in BOOLEAN /\ Nesting \in Nat

VARIABLES
    DCSWriterCnt, DCSReaderCnt, DCSAcq,
    at,                 \* where each thread is in a method of the section
    inside,             \* the sections each thread is in, innermost first
    asserted,           \* an assertion was raised
    met, missed         \* writers that were inside together; and left unnoticed

counters == <<DCSWriterCnt, DCSReaderCnt, DCSAcq>>
history == <<met, missed>>
vars == <<lockVars, counters, at, inside, asserted, history>>

SectionInit ==
    /\ DCSWriterCnt = 0 /\ DCSReaderCnt = 0 /\ DCSAcq = None
    /\ at = [t \in Threads |-> "user"] /\ inside = [t \in Threads |-> <<>>]
    /\ asserted = FALSE /\ met = {} /\ missed = FALSE

DCSIsAcquired(t) == ~Associated \/ IsOwnedByCurrentThread(t)
DCSIsSharedAcquired(t) == ~Associated \/ IsSharedOwnedByAnyThread \/ IsOwnedByCurrentThread(t)

\* t runs code of a write section: it is not about to leave the outermost one.
Writes(t) == /\ \E i \in DOMAIN inside[t] : inside[t][i] = "write"
             /\ ~(at[t] = "w.sub" /\ Len(inside[t]) = 1)
At(t, here, there) == at[t] = here /\ at' = [at EXCEPT ![t] = there]

\* doAssert(): go on, or halt.
Assert(t, here, cond, there) ==
    /\ at[t] = here
    /\ IF cond THEN at' = [at EXCEPT ![t] = there] /\ UNCHANGED asserted
               ELSE asserted' = TRUE /\ UNCHANGED at
    /\ UNCHANGED <<counters, inside, history>>
-----------------------------------------------------------------------------
(* Acquire() and Release().                                                *)

\* "The opposite is asserted: It is not allowed to perform full acquirement
\* when already shared acquisition was made before."
Acquires(t) ==
    /\ at[t] = "user" /\ Len(inside[t]) < Nesting
    /\ \A i \in DOMAIN inside[t] : inside[t][i] = "write"
    /\ Associated => pc[t] = "owning"
    /\ Assert(t, "user", DCSIsAcquired(t), "w.cnt")

WriterCntIs0(t) ==
    /\ At(t, "w.cnt", IF DCSWriterCnt = 0 THEN "w.readers" ELSE "w.owner")
    /\ UNCHANGED <<counters, inside, asserted, history>>
WriterIsMe(t) == Assert(t, "w.owner", DCSAcq = t, "w.readers")
NoReaders(t) == Assert(t, "w.readers", DCSReaderCnt = 0, "w.add")

CountWriter(t) ==
    /\ At(t, "w.add", "w.set")
    /\ DCSWriterCnt' = DCSWriterCnt + 1
    /\ UNCHANGED <<DCSReaderCnt, DCSAcq, inside, asserted, history>>

EnterWrite(t) ==
    /\ At(t, "w.set", "user")
    /\ DCSAcq' = t
    /\ inside' = [inside EXCEPT ![t] = <<"write">> \o @]
    /\ LET others == {u \in Threads \ {t} : Writes(u)}
       IN  met' = IF Writes(t) THEN met ELSE met \cup ({t} \X others) \cup (others \X {t})
    /\ UNCHANGED <<DCSWriterCnt, DCSReaderCnt, asserted, missed>>

Releases(t) ==
    /\ at[t] = "user" /\ inside[t] # <<>> /\ Head(inside[t]) = "write"
    /\ Assert(t, "user", DCSIsAcquired(t) /\ DCSAcq = t, "w.sub")

\* The outermost section of a thread is left: a writer that was inside at the
\* same time, and has left before without an assertion, was missed.
LeaveWrite(t) ==
    /\ At(t, "w.sub", "user")
    /\ DCSWriterCnt' = DCSWriterCnt - 1
    /\ inside' = [inside EXCEPT ![t] = Tail(@)]
    /\ IF Len(inside[t]) > 1 THEN UNCHANGED history
       ELSE /\ met' = {p \in met : p[1] # t}
            /\ missed' = (missed \/ \E u \in Threads : <<t, u>> \in met /\ <<u, t>> \notin met)
    /\ UNCHANGED <<DCSReaderCnt, DCSAcq, asserted>>
-----------------------------------------------------------------------------
(* AcquireShared() and ReleaseShared().                                    *)

AcquiresShared(t) ==
    /\ at[t] = "user" /\ Len(inside[t]) < Nesting
    /\ Associated => pc[t] \in {"owning", "sharing"}
    /\ Assert(t, "user", DCSIsSharedAcquired(t), "s.cnt")

SharedWriterCnt(t) ==
    /\ At(t, "s.cnt", IF DCSWriterCnt <= 0 THEN "s.add" ELSE "s.owner")
    /\ UNCHANGED <<counters, inside, asserted, history>>
SharedOwnerForgotten(t) == Assert(t, "s.owner", FALSE, "s.add")     \* mutant
SharedOwner(t) == Assert(t, "s.owner", DCSAcq = t, "s.add")

EnterShared(t) ==
    /\ At(t, "s.add", "user")
    /\ DCSReaderCnt' = DCSReaderCnt + 1
    /\ inside' = [inside EXCEPT ![t] = <<"read">> \o @]
    /\ UNCHANGED <<DCSWriterCnt, DCSAcq, asserted, history>>

ReleasesShared(t) ==
    /\ at[t] = "user" /\ inside[t] # <<>> /\ Head(inside[t]) = "read"
    /\ Assert(t, "user", DCSIsSharedAcquired(t), "r.cnt")

ReleaseWriterCnt(t) ==
    /\ At(t, "r.cnt", IF DCSWriterCnt <= 0 THEN "r.sub" ELSE "r.owner")
    /\ UNCHANGED <<counters, inside, asserted, history>>
ReleaseOwner(t) == Assert(t, "r.owner", DCSAcq = t, "r.sub")

LeaveShared(t) ==
    /\ At(t, "r.sub", "user")
    /\ DCSReaderCnt' = DCSReaderCnt - 1
    /\ asserted' = (DCSReaderCnt <= 0)
    /\ inside' = [inside EXCEPT ![t] = Tail(@)]
    /\ UNCHANGED <<DCSWriterCnt, DCSAcq, history>>

SectionStep(t) ==
    /\ \/ Acquires(t) \/ WriterCntIs0(t) \/ WriterIsMe(t) \/ NoReaders(t) \/ CountWriter(t)
       \/ EnterWrite(t) \/ Releases(t) \/ LeaveWrite(t)
       \/ AcquiresShared(t) \/ SharedWriterCnt(t) \/ SharedOwner(t) \/ EnterShared(t)
       \/ ReleasesShared(t) \/ ReleaseWriterCnt(t) \/ ReleaseOwner(t) \/ LeaveShared(t)
    /\ UNCHANGED lockVars

\* The lock around the sections: ALIB_LOCK and ALIB_LOCK_SHARED.
UseLock(t) ==
    /\ Associated /\ at[t] = "user" /\ inside[t] = <<>>
    /\ \/ \E o \in {"Acquire", "AcquireShared"} : Call(t, o)
       \/ CallRelease(t) \/ CallReleaseShared(t) \/ LockStep(t)
    /\ UNCHANGED <<counters, at, inside, asserted, history>>

SectionsInit == Init /\ SectionInit
SectionsNext == ~asserted /\ raised = "no" /\ \E t \in Threads : SectionStep(t) \/ UseLock(t)
SectionsSpec == SectionsInit /\ [][SectionsNext]_vars
-----------------------------------------------------------------------------
SectionsTypeOK ==
    /\ TypeOK /\ DCSWriterCnt \in Nat /\ DCSReaderCnt \in Nat /\ DCSAcq \in Threads \cup {None}
    /\ at \in [Threads -> {"user", "w.cnt", "w.owner", "w.readers", "w.add", "w.set", "w.sub",
                           "s.cnt", "s.owner", "s.add", "r.cnt", "r.owner", "r.sub"}]
    /\ \A t \in Threads : Len(inside[t]) <= Nesting
    /\ asserted \in BOOLEAN /\ met \subseteq Threads \X Threads /\ missed \in BOOLEAN

\* Threads that use the associated lock, and nest sections as it is allowed,
\* see no assertion: neither of the section nor of the lock.
LockedUseIsSilent == Associated => ~asserted /\ raised = "no"

\* "This class supports detecting a racing condition": test and increment of
\* the counter are not atomic, so two writers may both get in.  One of them
\* then finds the name of the other when it leaves.  (With nested sections the
\* name may be overwritten in between, and both leave unnoticed.)
OverlapOfWritersIsDetected == ~missed
=============================================================================
