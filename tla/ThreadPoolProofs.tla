-------------------------- MODULE ThreadPoolProofs --------------------------
(***************************************************************************)
(* Safety of the thread pool for any number of workers, clients and jobs,   *)
(* and for every strategy.                                                  *)
(***************************************************************************)
EXTENDS ThreadPool, FiniteSetTheorems, SequenceTheorems, TLAPS

Internal == {"join", "stop"}
User == {"job", "sync"}

\* The members of the pool are the workers between their creation and the
\* moment they decide to leave.
Membership ==
    \A w \in Workers : w \in workers <=> pc[w] \notin {"none", "leave"}

\* Some client is in Shutdown and has the pool's size set to 0.
Closing == WorkersMax = 0 /\ \E c \in Clients : cpc[c] \in {"stopSignal", "stopPoll"}

\* An internal job is only ever the next entry, while there are workers to
\* take it; below a JOB_JOIN is work, unless the pool is closing; and a
\* worker that was woken has found something in the queue.
UserTail == \A i \in 2..Len(queue) : queue[i].kind \in User
InternalIsNext ==
    queue # <<>> /\ Head(queue).kind \in Internal =>
        /\ ctdWorkers >= 1
        /\ Head(queue).kind = "join" => Len(queue) >= 2 \/ Closing
        /\ Head(queue).kind = "stop" => Closing
WokenHasEntry == \A w \in Workers : pc[w] = "woken" => queue # <<>>
ResizeHasWork ==
    \A w \in Workers : pc[w] = "resize" =>
        IF queue = <<>> THEN Closing ELSE Head(queue).kind \in User

QueueShape == UserTail /\ InternalIsNext /\ WokenHasEntry /\ ResizeHasWork

\* What Shutdown found without the mutex is still so when it gets the mutex.
StillQuiet ==
    \A c \in Clients : cpc[c] = "stopAcquire" =>
        /\ queue = <<>> /\ ctdWorkers >= 1
        /\ \A d \in Clients : cpc[d] \in Stopping => d = c

Inv == TypeOK /\ MutualExclusion /\ Membership /\ CountersConsistent /\ QueueShape
       /\ StillQuiet

-----------------------------------------------------------------------------
(* Facts about the helpers.                                                 *)

\* What is left when the next entry was taken: entries of users only.
LEMMA PopUser ==
    ASSUME TypeOK, UserTail, queue # <<>>, Pop
    PROVE  /\ queue' \in Seq(Entries)
           /\ Len(queue') = Len(queue) - 1
           /\ ctdOpenJobs' = ctdOpenJobs - 1
           /\ \A i \in 1..Len(queue') : queue'[i].kind \in User
           /\ queue' # <<>> => Head(queue').kind \in User
<1>1. /\ queue' \in Seq(Entries)
      /\ Len(queue') = Len(queue) - 1
      /\ \A i \in 1..Len(queue') : queue'[i] = queue[i + 1]
  BY HeadTailProperties DEF TypeOK, Pop
<1>2. Len(queue) \in Nat /\ Len(queue) >= 1
  BY DEF TypeOK
<1>3. \A i \in 1..Len(queue') : queue'[i].kind \in User
  BY <1>1, <1>2 DEF UserTail
<1>4. queue' # <<>> => Head(queue') = queue'[1] /\ 1 \in 1..Len(queue')
  BY <1>1
<1> QED
  BY <1>1, <1>3, <1>4 DEF Pop

\* An internal job is put in front of entries of users only.
LEMMA PushNextUser ==
    ASSUME TypeOK, NEW e \in Entries, PushNext(e),
           \A i \in 1..Len(queue) : queue[i].kind \in User
    PROVE  /\ queue' \in Seq(Entries) /\ queue' # <<>> /\ Head(queue') = e
           /\ Len(queue') = Len(queue) + 1
           /\ UserTail'
<1>1. <<e>> \in Seq(Entries) /\ Len(<<e>>) = 1 /\ <<e>>[1] = e
  OBVIOUS
<1>2. /\ queue' \in Seq(Entries)
      /\ Len(queue') = 1 + Len(queue)
      /\ \A i \in 1..(1 + Len(queue)) : queue'[i] = IF i <= 1 THEN <<e>>[i] ELSE queue[i - 1]
  BY <1>1, ConcatProperties DEF TypeOK, PushNext
<1>3. Len(queue) \in Nat
  BY DEF TypeOK
<1>4. queue' # <<>> /\ Head(queue') = e
  BY <1>1, <1>2, <1>3
<1>5. UserTail'
  <2> SUFFICES ASSUME NEW i \in 2..Len(queue') PROVE queue'[i].kind \in User
    BY DEF UserTail
  <2>1. queue'[i] = queue[i - 1] /\ i - 1 \in 1..Len(queue)
    BY <1>2, <1>3
  <2> QED
    BY <2>1
<1> QED
  BY <1>2, <1>3, <1>4, <1>5

\* A scheduled entry goes to the far end.
LEMMA AppendUser ==
    ASSUME TypeOK, UserTail, NEW e \in Entries, e.kind \in User, pushAndRelease(e)
    PROVE  /\ queue' \in Seq(Entries) /\ queue' # <<>>
           /\ Len(queue') = Len(queue) + 1
           /\ UserTail'
           /\ Head(queue') = IF queue = <<>> THEN e ELSE Head(queue)
<1>1. /\ queue' \in Seq(Entries) /\ queue' # <<>>
      /\ Len(queue') = Len(queue) + 1
      /\ \A i \in 1..Len(queue) : queue'[i] = queue[i]
      /\ queue'[Len(queue) + 1] = e
  BY AppendProperties DEF TypeOK, pushAndRelease
<1>2. Len(queue) \in Nat
  BY DEF TypeOK
<1>3. UserTail'
  BY <1>1, <1>2 DEF UserTail
<1>4. Head(queue') = IF queue = <<>> THEN e ELSE Head(queue)
  BY HeadTailAppend DEF TypeOK, pushAndRelease
<1> QED
  BY <1>1, <1>3, <1>4

\* With WorkersMax set to 0 the pool never has the size it should have.
LEMMA ClosingChangesSize ==
    ASSUME TypeOK, WorkersMax = 0, ctdWorkers >= 1
    PROVE  GetSize # ctdWorkers
BY ConstantsAssumption DEF TypeOK, GetSize

\* ctdWorkers counts the worker that looks at it.
LEMMA WorkersCounted ==
    ASSUME Inv, NEW w \in Workers, pc[w] \notin {"none", "leave"}
    PROVE  ctdWorkers >= 1
<1>1. w \in workers /\ IsFiniteSet(workers)
  BY FS_Subset, ConstantsAssumption DEF Inv, Membership, TypeOK
<1>2. Cardinality(workers) # 0
  BY <1>1, FS_EmptySet
<1> QED
  BY <1>2 DEF Inv, CountersConsistent, TypeOK

\* Where a worker decides on the size of the pool all entries are of users,
\* and if the pool keeps its size there is one.
LEMMA AtResizeUser ==
    ASSUME Inv, NEW w \in Workers, AtResize(w)
    PROVE  /\ queue # <<>> => Head(queue).kind \in User
           /\ \A i \in 1..Len(queue) : queue[i].kind \in User
           /\ GetSize = ctdWorkers => queue # <<>>
<1>1. queue # <<>> => Head(queue).kind \in User
  BY DEF Inv, QueueShape, ResizeHasWork, AtResize, User
<1>2. queue # <<>> => Head(queue) = queue[1]
  BY DEF Inv, TypeOK
<1>3. Len(queue) \in Nat
  BY DEF Inv, TypeOK
<1>4. ASSUME NEW i \in 1..Len(queue) PROVE queue[i].kind \in User
  <2>1. CASE i = 1
    BY <1>1, <1>2, <2>1, <1>3
  <2>2. CASE i # 1
    BY <2>2, <1>3 DEF Inv, QueueShape, UserTail
  <2> QED
    BY <2>1, <2>2
<1>5. ASSUME GetSize = ctdWorkers PROVE queue # <<>>
  <2>1. ctdWorkers >= 1
    BY WorkersCounted DEF AtResize
  <2>2. ~Closing
    BY <1>5, <2>1, ClosingChangesSize DEF Inv, Closing
  <2> QED
    BY <2>2 DEF Inv, QueueShape, ResizeHasWork, WokenHasEntry, AtResize
<1> QED
  BY <1>1, <1>4, <1>5
-----------------------------------------------------------------------------
(* The invariant holds initially.                                           *)

\* An unused pool satisfies the invariant.
LEMMA InitInv == Init => Inv
<1> SUFFICES ASSUME Init PROVE Inv
  OBVIOUS
<1>1. TypeOK
  BY ConstantsAssumption DEF Init, TypeOK, WorkerPCs, ClientPCs
<1>2. MutualExclusion /\ Membership
  BY ConstantsAssumption DEF Init, MutualExclusion, Membership, Critical
<1>3. CountersConsistent
  <2>1. Idle = {}
    BY DEF Init, Idle, Idling
  <2> QED
    BY <2>1, FS_EmptySet DEF Init, CountersConsistent
<1>4. QueueShape /\ StillQuiet
  BY DEF Init, QueueShape, UserTail, InternalIsNext, WokenHasEntry, ResizeHasWork, StillQuiet
<1> QED
  BY <1>1, <1>2, <1>3, <1>4 DEF Inv

-----------------------------------------------------------------------------
(* Steps preserve it, conjunct by conjunct.                                 *)

\* What the notifications do to pc: some sleepers become notified.
LEMMA NotifyEffect ==
    ASSUME TypeOK, NEW p \in [Workers -> WorkerPCs], NotifyOne(p) \/ NotifyAll(p),
           \A w \in Workers : pc[w] = "sleep" => p[w] = "sleep"
    PROVE  /\ pc' \in [Workers -> WorkerPCs]
           /\ \A w \in Workers : \/ pc'[w] = p[w]
                                 \/ p[w] = "sleep" /\ pc'[w] = "notified"
BY DEF TypeOK, NotifyOne, NotifyAll, WorkerPCs

\* What scheduling does to the workers: an unused pool gets its first one.
LEMMA ScheduleEffect ==
    ASSUME NEW e, schedule(e)
    PROVE  \/ UNCHANGED <<pc, workers, ctdWorkers, lastThreadToJoin, thread>>
           \/ \E w \in Workers : /\ addThread(w) /\ pc[w] = "none" /\ ctdWorkers = 0
                                 /\ pc' = [pc EXCEPT ![w] = "start"]
<1>1. CASE ctdWorkers = 0 /\ \E w \in Workers : addThread(w) /\ pc' = [pc EXCEPT ![w] = "start"]
  <2>1. PICK w \in Workers : addThread(w) /\ pc' = [pc EXCEPT ![w] = "start"]
    BY <1>1
  <2>2. pc[w] = "none"
    BY <2>1 DEF addThread
  <2> QED
    BY <1>1, <2>1, <2>2
<1>2. CASE UNCHANGED <<sizeVars, pc>>
  BY <1>2 DEF sizeVars
<1> QED
  BY <1>1, <1>2 DEF schedule

\* The mutex is taken and released where a worker enters and leaves the
\* critical part of pop(), and only there.
LEMMA MutexStep ==
    ASSUME Inv, [Next]_vars
    PROVE  MutualExclusion'
<1> USE DEF Critical
<1>1. ASSUME NEW w \in Workers, WorkerStep(w) PROVE MutualExclusion'
  <2>1. CASE Start(w)
    BY <2>1, ConstantsAssumption DEF Inv, MutualExclusion, TypeOK, Start
  <2>2. CASE GoOn(w)
    BY <2>2, ConstantsAssumption DEF Inv, MutualExclusion, TypeOK, GoOn
  <2>3. CASE Sleep(w)
    BY <2>3, ConstantsAssumption DEF Inv, MutualExclusion, TypeOK, Sleep
  <2>4. CASE Wake(w)
    BY <2>4, ConstantsAssumption DEF Inv, MutualExclusion, TypeOK, Wake
  <2>5. CASE JoinLeaver(w)
    BY <2>5, ConstantsAssumption DEF Inv, MutualExclusion, TypeOK, JoinLeaver
  <2>6. CASE TakeStop(w)
    BY <2>6, ConstantsAssumption DEF Inv, MutualExclusion, TypeOK, TakeStop
  <2>7. CASE Leave(w)
    BY <2>7, ConstantsAssumption DEF Inv, MutualExclusion, TypeOK, Leave, AtResize
  <2>8. CASE Grow(w)
    BY <2>8, ConstantsAssumption DEF Inv, MutualExclusion, TypeOK, Grow, addThread, AtResize
  <2>9. CASE TakeJob(w)
    BY <2>9, ConstantsAssumption DEF Inv, MutualExclusion, TypeOK, TakeJob, AtResize
  <2>10. CASE TakeSync(w)
    BY <2>10, ConstantsAssumption DEF Inv, MutualExclusion, TypeOK, TakeSync, AtResize
  <2>11. CASE NotifyAgain(w)
    BY <2>11 DEF Inv, MutualExclusion, TypeOK, NotifyAgain, NotifyAll
  <2>12. CASE Exit(w)
    BY <2>12 DEF Inv, MutualExclusion, TypeOK, Exit, NotifyAll
  <2>13. CASE FinishDo(w)
    BY <2>13 DEF Inv, MutualExclusion, TypeOK, FinishDo
  <2>14. CASE FreeJob(w)
    BY <2>14 DEF Inv, MutualExclusion, TypeOK, FreeJob
  <2>15. CASE SignalFromJob(w)
    BY <2>15 DEF Inv, MutualExclusion, TypeOK, SignalFromJob, NotifyOne
  <2> QED
    BY <1>1, <2>1, <2>2, <2>3, <2>4, <2>5, <2>6, <2>7, <2>8, <2>9, <2>10, <2>11, <2>12,
       <2>13, <2>14, <2>15 DEF WorkerStep
<1>2. ASSUME NEW w \in Workers, Spurious(w) \/ \E j \in Jobs : ScheduleFromJob(w, j)
      PROVE  MutualExclusion'
  BY <1>2 DEF Inv, MutualExclusion, TypeOK, Spurious, ScheduleFromJob
<1>3. ASSUME NEW c \in Clients, \/ \E j \in Jobs : Schedule(c, j)
                                \/ \E j \in Jobs \cup {None} : Sync(c, j)
      PROVE  MutualExclusion'
  BY <1>3, ScheduleEffect DEF Inv, MutualExclusion, TypeOK, Schedule, Sync
<1>4. ASSUME NEW c \in Clients, Signal(c) \/ StopSignal(c)
      PROVE  MutualExclusion'
  <2>1. UNCHANGED mutex /\ NotifyOne(pc) /\ pc \in [Workers -> WorkerPCs]
    BY <1>4 DEF Signal, StopSignal, Inv, TypeOK
  <2> QED
    BY <2>1, NotifyEffect DEF Inv, MutualExclusion
<1>5. CASE UNCHANGED <<mutex, pc>>
  BY <1>5 DEF Inv, MutualExclusion
<1>6. CASE UNCHANGED vars
  BY <1>5, <1>6 DEF vars
<1>7. ASSUME NEW c \in Clients, CallInProgress(c)
      PROVE  MutualExclusion'
  BY <1>4, <1>5, <1>7 DEF CallInProgress, ReadOpenJobs, ReadOneCounter, ReadOtherCounter,
     LookAgain, StopPush, StopPoll, StopJoin
<1>8. ASSUME NEW c \in Clients, Call(c)
      PROVE  MutualExclusion'
  BY <1>3, <1>5, <1>8 DEF Call, DeleteJob, WaitForAllIdle, Timeout, Shutdown, SetWorkersMax
<1> QED
  BY <1>1, <1>2, <1>5, <1>6, <1>7, <1>8 DEF Next, Tick

\* A worker becomes a member where it is created, and stops being one where
\* it decides to leave.
LEMMA MembershipStep ==
    ASSUME Inv, [Next]_vars
    PROVE  Membership'
<1>1. ASSUME NEW w \in Workers, WorkerStep(w) PROVE Membership'
  <2>1. CASE Start(w) \/ GoOn(w) \/ Sleep(w) \/ Wake(w) \/ JoinLeaver(w) \/ TakeStop(w)
    BY <2>1 DEF Inv, Membership, TypeOK, poolVars, sizeVars,
       Start, GoOn, Sleep, Wake, JoinLeaver, TakeStop
  <2>2. CASE Leave(w)
    BY <2>2 DEF Inv, Membership, TypeOK, Leave
  <2>3. CASE Grow(w)
    <3>1. PICK new \in Workers : addThread(new) /\ pc' = [pc EXCEPT ![w] = "again", ![new] = "start"]
      BY <2>3 DEF Grow
    <3>2. pc[new] = "none" /\ workers' = workers \cup {new}
      BY <3>1 DEF addThread
    <3>3. pc[w] \in {"woken", "resize"}
      BY <2>3 DEF Grow, AtResize
    <3> QED
      BY <3>1, <3>2, <3>3 DEF Inv, Membership, TypeOK
  <2>4. CASE TakeJob(w) \/ TakeSync(w) \/ FinishDo(w) \/ FreeJob(w)
    BY <2>4 DEF Inv, Membership, TypeOK, poolVars, sizeVars,
       TakeJob, TakeSync, AtResize, FinishDo, FreeJob
  <2>5. CASE NotifyAgain(w) \/ Exit(w)
    BY <2>5 DEF Inv, Membership, TypeOK, poolVars, sizeVars, NotifyAgain, Exit, NotifyAll
  <2>6. CASE SignalFromJob(w)
    <3>1. pc[w] = "signal" /\ NotifyOne([pc EXCEPT ![w] = "do"]) /\ UNCHANGED workers
      BY <2>6 DEF SignalFromJob, poolVars, sizeVars
    <3> QED
      BY <3>1 DEF Inv, Membership, TypeOK, NotifyOne
  <2> QED
    BY <1>1, <2>1, <2>2, <2>3, <2>4, <2>5, <2>6 DEF WorkerStep
<1>2. ASSUME NEW w \in Workers, Spurious(w) \/ \E j \in Jobs : ScheduleFromJob(w, j)
      PROVE  Membership'
  BY <1>2 DEF Inv, Membership, TypeOK, poolVars, sizeVars, Spurious, ScheduleFromJob
<1>3. ASSUME NEW e, schedule(e)
      PROVE  Membership'
  <2>1. CASE UNCHANGED <<pc, workers>>
    BY <2>1 DEF Inv, Membership
  <2>2. ASSUME NEW w \in Workers, addThread(w), pc[w] = "none",
               pc' = [pc EXCEPT ![w] = "start"]
        PROVE  Membership'
    <3>1. workers' = workers \cup {w}
      BY <2>2 DEF addThread
    <3> QED
      BY <2>2, <3>1 DEF Inv, Membership, TypeOK
  <2> QED
    BY <1>3, <2>1, <2>2, ScheduleEffect
<1>4. ASSUME NEW c \in Clients, Signal(c) \/ StopSignal(c)
      PROVE  Membership'
  <2>1. UNCHANGED workers /\ NotifyOne(pc) /\ pc \in [Workers -> WorkerPCs]
    BY <1>4 DEF Signal, StopSignal, Inv, TypeOK, poolVars, sizeVars
  <2> QED
    BY <2>1, NotifyEffect DEF Inv, Membership
<1>5. CASE UNCHANGED <<workers, pc>>
  BY <1>5 DEF Inv, Membership
<1>6. CASE UNCHANGED vars
  BY <1>5, <1>6 DEF vars, poolVars, sizeVars
<1>7. ASSUME NEW c \in Clients, CallInProgress(c)
      PROVE  Membership'
  BY <1>4, <1>5, <1>7 DEF CallInProgress, ReadOpenJobs, ReadOneCounter, ReadOtherCounter,
     LookAgain, StopPush, StopPoll, StopJoin, poolVars, sizeVars
<1>8. ASSUME NEW c \in Clients, Call(c)
      PROVE  Membership'
  BY <1>3, <1>5, <1>8 DEF Call, Schedule, Sync, DeleteJob, WaitForAllIdle, Timeout, Shutdown,
     SetWorkersMax, poolVars, sizeVars
<1> QED
  BY <1>1, <1>2, <1>5, <1>6, <1>7, <1>8 DEF Next, Tick, sizeVars

\* The set of idle workers has a cardinality, before and after a step.
LEMMA IdleFinite == IsFiniteSet(Idle) /\ IsFiniteSet(Idle') /\ Cardinality(Idle) \in Nat
BY FS_Subset, FS_CardinalityType, ConstantsAssumption DEF Idle

\* Adding one to ctdIdle is right when one more worker is idle,
LEMMA IdleJoins ==
    ASSUME NEW w \in Workers, w \notin Idle, Idle' = Idle \cup {w},
           ctdIdle = Cardinality(Idle), ctdIdle' = ctdIdle + 1
    PROVE  ctdIdle' = Cardinality(Idle)'
BY IdleFinite, FS_AddElement

\* and taking one from it when one less is.
LEMMA IdleLeaves ==
    ASSUME NEW w \in Workers, w \in Idle, Idle' = Idle \ {w},
           ctdIdle = Cardinality(Idle), ctdIdle' = ctdIdle - 1
    PROVE  ctdIdle' = Cardinality(Idle)'
BY IdleFinite, FS_RemoveElement

\* addThread counts the worker it adds,
LEMMA WorkerAdded ==
    ASSUME Inv, NEW w \in Workers, addThread(w)
    PROVE  ctdWorkers' = Cardinality(workers') /\ workers' \in SUBSET Workers
<1>1. pc[w] = "none" /\ workers' = workers \cup {w} /\ ctdWorkers' = ctdWorkers + 1
  BY DEF addThread
<1>2. w \notin workers /\ IsFiniteSet(workers) /\ workers \subseteq Workers
  BY <1>1, FS_Subset, ConstantsAssumption DEF Inv, TypeOK, Membership
<1> QED
  BY <1>1, <1>2, FS_AddElement DEF Inv, CountersConsistent

\* and a leaving worker the one it removes: itself.
LEMMA WorkerRemoved ==
    ASSUME Inv, NEW w \in Workers, Leave(w)
    PROVE  ctdWorkers' = Cardinality(workers')
<1>1. w \in workers /\ IsFiniteSet(workers)
  BY FS_Subset, ConstantsAssumption DEF Leave, AtResize, Inv, TypeOK, Membership
<1> QED
  BY <1>1, FS_RemoveElement DEF Leave, Inv, CountersConsistent

\* ctdWorkers stays the number of members of the pool.
LEMMA CountWorkersStep ==
    ASSUME Inv, [Next]_vars
    PROVE  ctdWorkers' = Cardinality(workers') /\ workers' \in SUBSET Workers
<1> DEFINE Goal == ctdWorkers' = Cardinality(workers') /\ workers' \in SUBSET Workers
<1>1. CASE UNCHANGED <<workers, ctdWorkers>>
  BY <1>1 DEF Inv, TypeOK, CountersConsistent
<1>2. ASSUME NEW w \in Workers, WorkerStep(w) PROVE Goal
  <2>1. CASE Leave(w)
    BY <2>1, WorkerRemoved DEF Leave, Inv, TypeOK
  <2>2. CASE Grow(w)
    BY <2>2, WorkerAdded DEF Grow
  <2> QED
    BY <1>1, <1>2, <2>1, <2>2 DEF WorkerStep, Start, GoOn, Sleep, Wake, JoinLeaver, TakeStop,
       TakeJob, TakeSync, NotifyAgain, Exit, FinishDo, FreeJob, SignalFromJob, poolVars, sizeVars
<1>3. ASSUME NEW w \in Workers, Spurious(w) \/ \E j \in Jobs : ScheduleFromJob(w, j)
      PROVE  Goal
  BY <1>1, <1>3 DEF Spurious, ScheduleFromJob, poolVars, sizeVars
<1>4. ASSUME NEW e, schedule(e) PROVE Goal
  BY <1>1, <1>4, ScheduleEffect, WorkerAdded
<1>5. ASSUME NEW c \in Clients, CallInProgress(c) PROVE Goal
  BY <1>1, <1>5 DEF CallInProgress, Signal, ReadOpenJobs, ReadOneCounter, ReadOtherCounter,
     LookAgain, StopPush, StopSignal, StopPoll, StopJoin, poolVars, sizeVars
<1>6. ASSUME NEW c \in Clients, Call(c) PROVE Goal
  BY <1>1, <1>4, <1>6 DEF Call, Schedule, Sync, DeleteJob, WaitForAllIdle, Timeout, Shutdown,
     SetWorkersMax, poolVars, sizeVars
<1> HIDE DEF Goal
<1>7. Goal
  BY <1>1, <1>2, <1>3, <1>5, <1>6 DEF Goal, Next, Tick, vars, poolVars, sizeVars
<1> QED
  BY <1>7 DEF Goal

\* ctdIdle stays the number of workers that wait in pop().
LEMMA CountIdleStep ==
    ASSUME Inv, [Next]_vars
    PROVE  ctdIdle' = Cardinality(Idle)'
<1> USE DEF Idling
<1>0. ctdIdle = Cardinality(Idle)
  BY DEF Inv, CountersConsistent
<1>1. ASSUME UNCHANGED ctdIdle,
             \A w \in Workers : pc'[w] \in Idling <=> pc[w] \in Idling
      PROVE  ctdIdle' = Cardinality(Idle)'
  BY <1>0, <1>1 DEF Idle
<1>2. ASSUME NEW w \in Workers, WorkerStep(w)
      PROVE  ctdIdle' = Cardinality(Idle)'
  <2>1. CASE Start(w)
    <3>1. w \notin Idle /\ Idle' = Idle \cup {w} /\ ctdIdle' = ctdIdle + 1
      BY <2>1 DEF Start, Idle, Inv, TypeOK
    <3> QED
      BY <3>1, <1>0, IdleJoins
  <2>2. CASE GoOn(w)
    <3>1. w \in Idle /\ Idle' = Idle \ {w} /\ ctdIdle' = ctdIdle - 1
      BY <2>2 DEF GoOn, Idle, Inv, TypeOK
    <3> QED
      BY <3>1, <1>0, IdleLeaves
  <2>3. CASE Sleep(w) \/ Wake(w) \/ JoinLeaver(w) \/ TakeStop(w)
    BY <1>1, <2>3 DEF Sleep, Wake, JoinLeaver, TakeStop, Inv, TypeOK
  <2>4. CASE Leave(w) \/ TakeJob(w) \/ TakeSync(w)
    BY <1>1, <2>4 DEF Leave, TakeJob, TakeSync, AtResize, Inv, TypeOK
  <2>5. CASE Grow(w)
    <3>1. PICK new \in Workers : /\ pc[new] = "none"
                                 /\ pc' = [pc EXCEPT ![w] = "again", ![new] = "start"]
      BY <2>5 DEF Grow, addThread
    <3>2. pc[w] \in {"woken", "resize"} /\ UNCHANGED ctdIdle
      BY <2>5 DEF Grow, AtResize
    <3> QED
      BY <1>1, <3>1, <3>2 DEF Inv, TypeOK
  <2>6. CASE NotifyAgain(w) \/ Exit(w)
    BY <1>1, <2>6 DEF NotifyAgain, Exit, NotifyAll, Inv, TypeOK
  <2>7. CASE FinishDo(w) \/ FreeJob(w)
    BY <1>1, <2>7 DEF FinishDo, FreeJob, Inv, TypeOK
  <2>8. CASE SignalFromJob(w)
    <3>1. pc[w] = "signal" /\ NotifyOne([pc EXCEPT ![w] = "do"]) /\ UNCHANGED ctdIdle
      BY <2>8 DEF SignalFromJob
    <3>2. \A v \in Workers : pc'[v] \in Idling <=> pc[v] \in Idling
      BY <3>1 DEF NotifyOne, Inv, TypeOK
    <3> QED
      BY <1>1, <3>1, <3>2
  <2> QED
    BY <1>2, <2>1, <2>2, <2>3, <2>4, <2>5, <2>6, <2>7, <2>8 DEF WorkerStep
<1>3. ASSUME NEW w \in Workers, Spurious(w) \/ \E j \in Jobs : ScheduleFromJob(w, j)
      PROVE  ctdIdle' = Cardinality(Idle)'
  BY <1>1, <1>3 DEF Spurious, ScheduleFromJob, Inv, TypeOK
<1>4. ASSUME NEW e, schedule(e), UNCHANGED ctdIdle
      PROVE  ctdIdle' = Cardinality(Idle)'
  BY <1>1, <1>4, ScheduleEffect DEF Inv, TypeOK
<1>5. ASSUME NEW c \in Clients, Signal(c) \/ StopSignal(c)
      PROVE  ctdIdle' = Cardinality(Idle)'
  <2>1. UNCHANGED ctdIdle /\ NotifyOne(pc) /\ pc \in [Workers -> WorkerPCs]
    BY <1>5 DEF Signal, StopSignal, Inv, TypeOK
  <2> QED
    BY <1>1, <2>1, NotifyEffect DEF Inv
<1>6. CASE UNCHANGED <<pc, ctdIdle>>
  BY <1>1, <1>6
<1>7. CASE UNCHANGED vars
  BY <1>6, <1>7 DEF vars
<1>8. ASSUME NEW c \in Clients, CallInProgress(c)
      PROVE  ctdIdle' = Cardinality(Idle)'
  BY <1>5, <1>6, <1>8 DEF CallInProgress, ReadOpenJobs, ReadOneCounter, ReadOtherCounter,
     LookAgain, StopPush, StopPoll, StopJoin
<1>9. ASSUME NEW c \in Clients, Call(c)
      PROVE  ctdIdle' = Cardinality(Idle)'
  BY <1>4, <1>6, <1>9 DEF Call, Schedule, Sync, DeleteJob, WaitForAllIdle, Timeout, Shutdown,
     SetWorkersMax
<1> QED
  BY <1>2, <1>3, <1>6, <1>7, <1>8, <1>9 DEF Next, Tick

\* Every step leaves the queue alone, takes its next entry, schedules a
\* user's entry, or lets a leaver or Shutdown put an internal job in front.
QueueKept == UNCHANGED <<queue, ctdOpenJobs, ctdStatJobsScheduled>>
QueuePopped == queue # <<>> /\ Pop
QueueScheduled ==
    /\ Accepting /\ ctdWorkers' # 0
    /\ \E e \in Entries : e.kind \in User /\ pushAndRelease(e)
QueuePushed ==
    /\ \A i \in 1..Len(queue) : queue[i].kind \in User
    /\ \/ PushNext(JOB_JOIN) /\ \E w \in Workers : Leave(w)
       \/ PushNext(JOB_STOP) /\ \E c \in Clients : StopPush(c)

QueueMove == QueueKept \/ QueuePopped \/ QueueScheduled \/ QueuePushed

\* There is no other step.
LEMMA QueueMoves ==
    ASSUME Inv, [Next]_vars, ShutdownOnlyIdle
    PROVE  QueueMove
<1> USE DEF QueueMove
<1>1. ASSUME NEW w \in Workers, WorkerStep(w) PROVE QueueMove
  <2>1. CASE JoinLeaver(w) \/ TakeStop(w)
    BY <2>1 DEF QueuePopped, JoinLeaver, TakeStop, Inv, QueueShape, WokenHasEntry
  <2>2. CASE TakeJob(w) \/ TakeSync(w)
    BY <2>2, AtResizeUser DEF QueuePopped, TakeJob, TakeSync
  <2>3. CASE Leave(w)
    BY <2>3, AtResizeUser DEF QueueKept, QueuePushed, Leave, NameLeaver, queueVars
  <2>4. CASE Grow(w)
    BY <2>4 DEF QueueKept, Grow, queueVars
  <2> QED
    BY <1>1, <2>1, <2>2, <2>3, <2>4 DEF WorkerStep, QueueKept, Start, GoOn, Sleep, Wake,
       NotifyAgain, Exit, FinishDo, FreeJob, SignalFromJob, poolVars, queueVars
<1>2. ASSUME NEW w \in Workers, NEW j \in Jobs, ScheduleFromJob(w, j) PROVE QueueMove
  <2>1. ctdWorkers >= 1 /\ UNCHANGED ctdWorkers
    BY <1>2, WorkersCounted DEF ScheduleFromJob, sizeVars
  <2> QED
    BY <1>2, <2>1 DEF QueueScheduled, ScheduleFromJob, Plain, Entries, User
<1> ctdWorkers \in Nat
  BY DEF Inv, TypeOK
<1> HIDE DEF QueueMove
<1>11. ASSUME NEW e \in Entries, e.kind \in User, schedule(e) PROVE QueueMove
  <2>1. ctdWorkers' # 0
    <3>1. CASE ctdWorkers = 0
      <4>1. ctdWorkers' = ctdWorkers + 1
        BY <1>11, <3>1 DEF schedule, addThread
      <4> QED
        BY <3>1, <4>1
    <3>2. CASE ctdWorkers # 0
      BY <1>11, <3>2 DEF schedule, sizeVars
    <3> QED
      BY <3>1, <3>2
  <2> QED
    BY <1>11, <2>1 DEF QueueMove, QueueScheduled, schedule
<1>3. ASSUME NEW c \in Clients, NEW j \in Jobs, Schedule(c, j) PROVE QueueMove
  BY <1>3, <1>11 DEF Schedule, Plain, Entries, User
<1>4. ASSUME NEW c \in Clients, NEW j \in Jobs \cup {None}, Sync(c, j) PROVE QueueMove
  BY <1>4, <1>11 DEF Sync, Syncer, Entries, User
<1> USE DEF QueueMove
<1>5. ASSUME NEW c \in Clients, StopPush(c) PROVE QueueMove
  <2>1. queue = <<>> /\ PushNext(JOB_STOP)
    BY <1>5 DEF StopPush, Inv, StillQuiet
  <2>2. Len(queue) = 0
    BY <2>1
  <2>3. \A i \in 1..Len(queue) : queue[i].kind \in User
    BY <2>2
  <2> QED
    BY <1>5, <2>1, <2>3 DEF QueuePushed
<1>6. ASSUME NEW c \in Clients, CallInProgress(c) PROVE QueueMove
  BY <1>5, <1>6 DEF QueueKept, CallInProgress, Signal, ReadOpenJobs, ReadOneCounter,
     ReadOtherCounter, LookAgain, StopSignal, StopPoll, StopJoin, poolVars, queueVars
<1>7. ASSUME NEW c \in Clients, Call(c) PROVE QueueMove
  BY <1>3, <1>4, <1>7 DEF QueueKept, Call, DeleteJob, WaitForAllIdle, Timeout, Shutdown,
     SetWorkersMax, poolVars, queueVars
<1>8. ASSUME NEW w \in Workers, Spurious(w) PROVE QueueMove
  BY <1>8 DEF QueueKept, Spurious, poolVars, queueVars
<1>9. CASE Tick
  BY <1>9 DEF QueueKept, Tick, queueVars
<1>10. CASE UNCHANGED vars
  BY <1>10 DEF QueueKept, vars, poolVars, queueVars
<1> HIDE DEF QueueMove
<1> QED
  BY <1>1, <1>2, <1>6, <1>7, <1>8, <1>9, <1>10 DEF Next

\* So the queue stays a sequence of entries, is counted, and keeps its shape.
LEMMA QueueStep ==
    ASSUME Inv, [Next]_vars, ShutdownOnlyIdle
    PROVE  /\ queue' \in Seq(Entries) /\ ctdOpenJobs' = Len(queue') /\ UserTail'
           /\ ctdStatJobsScheduled' \in Nat
<1>1. TypeOK /\ UserTail /\ ctdOpenJobs = Len(queue) /\ ctdStatJobsScheduled \in Nat
  BY DEF Inv, QueueShape, CountersConsistent, TypeOK
<1>2. CASE QueueKept
  BY <1>1, <1>2 DEF QueueKept, TypeOK, UserTail
<1>3. CASE QueuePopped
  <2>1. UserTail'
    BY <1>1, <1>3, PopUser DEF QueuePopped, UserTail
  <2> QED
    BY <1>1, <1>3, <2>1, PopUser DEF QueuePopped, Pop
<1>4. CASE QueueScheduled
  <2>1. PICK e \in Entries : e.kind \in User /\ pushAndRelease(e)
    BY <1>4 DEF QueueScheduled
  <2> QED
    BY <1>1, <2>1, AppendUser DEF pushAndRelease
<1>5. CASE QueuePushed
  <2>1. PICK e \in Entries : PushNext(e)
    BY <1>5 DEF QueuePushed, JOB_JOIN, JOB_STOP, Entries
  <2> QED
    BY <1>1, <1>5, <2>1, PushNextUser DEF PushNext, QueuePushed
<1> QED
  BY <1>2, <1>3, <1>4, <1>5, QueueMoves DEF QueueMove

\* While there are workers Shutdown goes on polling, and nobody resizes the
\* pool in the meantime.
LEMMA ClosingStays ==
    ASSUME Inv, [Next]_vars, Closing, ctdWorkers >= 1
    PROVE  Closing'
<1>1. PICK c \in Clients : cpc[c] \in {"stopSignal", "stopPoll"}
  BY DEF Closing
<1>2. WorkersMax = 0 /\ ctdWorkers # 0 /\ c \in DOMAIN cpc
  BY DEF Closing, Inv, TypeOK
<1> SUFFICES WorkersMax' = 0 /\ cpc'[c] \in {"stopSignal", "stopPoll"}
  BY DEF Closing
<1>3. CASE UNCHANGED <<WorkersMax, cpc>>
  BY <1>1, <1>2, <1>3
<1>4. ASSUME NEW w \in Workers,
             WorkerStep(w) \/ Spurious(w) \/ \E j \in Jobs : ScheduleFromJob(w, j)
      PROVE  UNCHANGED <<WorkersMax, cpc>>
  BY <1>4 DEF WorkerStep, Start, GoOn, Sleep, Wake, JoinLeaver, TakeStop, Leave, Grow, TakeJob,
     TakeSync, NotifyAgain, Exit, FinishDo, FreeJob, SignalFromJob, Spurious, ScheduleFromJob,
     poolVars, tuning, userVars, clientVars
<1>5. ASSUME NEW d \in Clients, CallInProgress(d)
      PROVE  WorkersMax' = 0 /\ cpc'[c] \in {"stopSignal", "stopPoll"}
  BY <1>1, <1>2, <1>5 DEF CallInProgress, Signal, ReadOpenJobs, ReadOneCounter,
     ReadOtherCounter, LookAgain, StopPush, StopSignal, StopPoll, StopJoin, poolVars, tuning
<1>6. ASSUME NEW d \in Clients, Call(d)
      PROVE  WorkersMax' = 0 /\ cpc'[c] \in {"stopSignal", "stopPoll"}
  BY <1>1, <1>2, <1>6 DEF Call, Schedule, DeleteJob, Sync, WaitForAllIdle, Timeout, Shutdown,
     SetWorkersMax, Stopping, poolVars, tuning, clientVars
<1>7. CASE Tick
  BY <1>3, <1>7 DEF Tick, userVars, clientVars
<1>8. CASE UNCHANGED vars
  BY <1>3, <1>8 DEF vars, poolVars, tuning, userVars, clientVars
<1> QED
  BY <1>3, <1>4, <1>5, <1>6, <1>7, <1>8 DEF Next

\* A worker that is past the condition holds the mutex, and nobody else
\* changes the queue under it.
LEMMA QueueIsMine ==
    ASSUME Inv, [Next]_vars, NEW w \in Workers, pc[w] \in Critical
    PROVE  UNCHANGED queue \/ WorkerStep(w)
<1>1. mutex = w /\ mutex # None /\ \A v \in Workers : pc[v] \in Critical => v = w
  BY ConstantsAssumption DEF Inv, MutualExclusion
<1>2. ASSUME NEW v \in Workers, v # w, WorkerStep(v) PROVE UNCHANGED queue
  <2>1. pc[v] \notin Critical
    BY <1>1, <1>2
  <2> QED
    BY <1>1, <1>2, <2>1 DEF Critical, WorkerStep, Start, GoOn, Sleep, Wake, JoinLeaver,
       TakeStop, Leave, Grow, TakeJob, TakeSync, AtResize, NotifyAgain, Exit, FinishDo, FreeJob,
       SignalFromJob, poolVars, queueVars
<1>3. ASSUME NEW v \in Workers, Spurious(v) \/ \E j \in Jobs : ScheduleFromJob(v, j)
      PROVE  UNCHANGED queue
  BY <1>1, <1>3 DEF Spurious, ScheduleFromJob, poolVars, queueVars
<1>4. ASSUME NEW c \in Clients, CallInProgress(c) PROVE UNCHANGED queue
  BY <1>1, <1>4 DEF CallInProgress, Signal, ReadOpenJobs, ReadOneCounter, ReadOtherCounter,
     LookAgain, StopPush, StopSignal, StopPoll, StopJoin, poolVars, queueVars
<1>5. ASSUME NEW c \in Clients, Call(c) PROVE UNCHANGED queue
  BY <1>1, <1>5 DEF Call, Schedule, DeleteJob, Sync, schedule, WaitForAllIdle, Timeout,
     Shutdown, SetWorkersMax, poolVars, queueVars
<1>6. CASE Tick \/ UNCHANGED vars
  <2>1. CASE Tick
    BY <2>1 DEF Tick, queueVars
  <2>2. CASE UNCHANGED vars
    BY <2>2 DEF vars, poolVars, queueVars
  <2> QED
    BY <1>6, <2>1, <2>2
<1> QED
  BY <1>2, <1>3, <1>4, <1>5, <1>6 DEF Next

\* w stays where it is, or goes to another place than these two.
Unmoved(w) == pc'[w] = pc[w] \/ pc'[w] \notin {"woken", "resize"}

\* How a worker comes to be past the condition, or past an internal job.
LEMMA Entering ==
    ASSUME Inv, [Next]_vars, NEW w \in Workers
    PROVE  /\ pc'[w] = "woken" => GoOn(w) \/ (pc[w] = "woken" /\ UNCHANGED queue)
           /\ pc'[w] = "resize" => \/ JoinLeaver(w) \/ TakeStop(w)
                                   \/ pc[w] = "resize" /\ UNCHANGED queue
<1>1. ASSUME WorkerStep(w)
      PROVE  /\ pc'[w] = "woken" => GoOn(w)
             /\ pc'[w] = "resize" => JoinLeaver(w) \/ TakeStop(w)
  BY <1>1 DEF Inv, TypeOK, WorkerStep, Start, GoOn, Sleep, Wake, JoinLeaver, TakeStop, Leave,
     Grow, addThread, TakeJob, TakeSync, NotifyAgain, Exit, FinishDo, FreeJob, SignalFromJob,
     AtResize, NotifyOne, NotifyAll
<1>2. ASSUME NEW v \in Workers, v # w, WorkerStep(v) PROVE Unmoved(w)
  BY <1>2 DEF Unmoved, Inv, TypeOK, WorkerStep, Start, GoOn, Sleep, Wake, JoinLeaver, TakeStop, Leave,
     Grow, addThread, TakeJob, TakeSync, NotifyAgain, Exit, FinishDo, FreeJob, SignalFromJob,
     AtResize, NotifyOne, NotifyAll
<1>3. ASSUME NEW v \in Workers, Spurious(v) \/ \E j \in Jobs : ScheduleFromJob(v, j)
      PROVE  Unmoved(w)
  BY <1>3 DEF Unmoved, Spurious, ScheduleFromJob, Inv, TypeOK
<1>4. ASSUME UNCHANGED pc PROVE Unmoved(w)
  BY <1>4 DEF Unmoved
<1>5. ASSUME NEW e, schedule(e) PROVE Unmoved(w)
  BY <1>5, ScheduleEffect DEF Unmoved, Inv, TypeOK
<1>6. ASSUME NEW c \in Clients, CallInProgress(c) PROVE Unmoved(w)
  <2>1. CASE NotifyOne(pc)
    BY <2>1, NotifyEffect DEF Unmoved, Inv, TypeOK
  <2>2. CASE UNCHANGED pc
    BY <2>2 DEF Unmoved
  <2> QED
    BY <1>6, <2>1, <2>2 DEF CallInProgress, Signal, ReadOpenJobs, ReadOneCounter,
       ReadOtherCounter, LookAgain, StopPush, StopSignal, StopPoll, StopJoin
<1>7. ASSUME NEW c \in Clients, Call(c) PROVE Unmoved(w)
  BY <1>4, <1>5, <1>7 DEF Call, Schedule, DeleteJob, Sync, WaitForAllIdle, Timeout, Shutdown,
     SetWorkersMax
<1>8. ASSUME UNCHANGED vars PROVE Unmoved(w)
  BY <1>4, <1>8 DEF vars
<1>9. WorkerStep(w) \/ Unmoved(w)
  BY <1>2, <1>3, <1>4, <1>6, <1>7, <1>8 DEF Next, Tick
<1>10. ASSUME Unmoved(w), ~WorkerStep(w), pc'[w] \in {"woken", "resize"}
       PROVE  pc'[w] = pc[w] /\ UNCHANGED queue
  BY <1>10, QueueIsMine DEF Unmoved, Critical
<1>11. CASE WorkerStep(w)
  BY <1>1, <1>11
<1>12. CASE ~WorkerStep(w)
  BY <1>9, <1>10, <1>12
<1> QED
  BY <1>11, <1>12

\* The pool only loses a worker in Leave.
LEMMA WorkersRemain ==
    ASSUME Inv, [Next]_vars
    PROVE  ctdWorkers' >= ctdWorkers \/ \E w \in Workers : Leave(w)
<1> ctdWorkers \in Nat
  BY DEF Inv, TypeOK
<1>1. ASSUME UNCHANGED ctdWorkers PROVE ctdWorkers' >= ctdWorkers
  BY <1>1
<1>2. ASSUME NEW w \in Workers, addThread(w) PROVE ctdWorkers' >= ctdWorkers
  BY <1>2 DEF addThread
<1>3. ASSUME NEW w \in Workers, WorkerStep(w) PROVE ctdWorkers' >= ctdWorkers \/ Leave(w)
  BY <1>1, <1>2, <1>3 DEF WorkerStep, Start, GoOn, Sleep, Wake, JoinLeaver, TakeStop, Grow,
     TakeJob, TakeSync, NotifyAgain, Exit, FinishDo, FreeJob, SignalFromJob, poolVars, sizeVars
<1>4. ASSUME NEW w \in Workers, Spurious(w) \/ \E j \in Jobs : ScheduleFromJob(w, j)
      PROVE  ctdWorkers' >= ctdWorkers
  BY <1>1, <1>4 DEF Spurious, ScheduleFromJob, poolVars, sizeVars
<1>5. ASSUME NEW e, schedule(e) PROVE ctdWorkers' >= ctdWorkers
  BY <1>1, <1>2, <1>5, ScheduleEffect
<1>6. ASSUME NEW c \in Clients, CallInProgress(c) PROVE ctdWorkers' >= ctdWorkers
  BY <1>1, <1>6 DEF CallInProgress, Signal, ReadOpenJobs, ReadOneCounter, ReadOtherCounter,
     LookAgain, StopPush, StopSignal, StopPoll, StopJoin, poolVars, sizeVars
<1>7. ASSUME NEW c \in Clients, Call(c) PROVE ctdWorkers' >= ctdWorkers
  BY <1>1, <1>5, <1>7 DEF Call, Schedule, Sync, DeleteJob, WaitForAllIdle, Timeout, Shutdown,
     SetWorkersMax, poolVars, sizeVars
<1>8. ASSUME Tick PROVE ctdWorkers' >= ctdWorkers
  BY <1>1, <1>8 DEF Tick, sizeVars
<1>9. ASSUME UNCHANGED vars PROVE ctdWorkers' >= ctdWorkers
  BY <1>1, <1>9 DEF vars, poolVars, sizeVars
<1> QED
  BY <1>3, <1>4, <1>6, <1>7, <1>8, <1>9 DEF Next

\* How a client comes to be in Shutdown.
LEMMA ShutdownBegins ==
    ASSUME Inv, [Next]_vars, NEW c \in Clients
    PROVE  /\ cpc'[c] \in Stopping => cpc[c] \in Stopping \/ Shutdown(c)
           /\ cpc'[c] = "stopAcquire" => cpc[c] = "stopAcquire" \/ Shutdown(c)
<1> cpc \in [Clients -> ClientPCs]
  BY DEF Inv, TypeOK
<1>1. CASE UNCHANGED cpc
  BY <1>1
<1>2. ASSUME NEW w \in Workers,
             WorkerStep(w) \/ Spurious(w) \/ \E j \in Jobs : ScheduleFromJob(w, j)
      PROVE  UNCHANGED cpc
  BY <1>2 DEF WorkerStep, Start, GoOn, Sleep, Wake, JoinLeaver, TakeStop, Leave, Grow, TakeJob,
     TakeSync, NotifyAgain, Exit, FinishDo, FreeJob, SignalFromJob, Spurious, ScheduleFromJob,
     userVars, clientVars
<1>3. ASSUME NEW d \in Clients, CallInProgress(d)
      PROVE  /\ cpc'[c] \in Stopping => cpc[c] \in Stopping
             /\ cpc'[c] # "stopAcquire" \/ cpc[c] = "stopAcquire"
  BY <1>3 DEF CallInProgress, Signal, ReadOpenJobs, ReadOneCounter, ReadOtherCounter,
     LookAgain, StopPush, StopSignal, StopPoll, StopJoin, Stopping
<1>4. ASSUME NEW d \in Clients, Call(d)
      PROVE  /\ cpc'[c] \in Stopping => cpc[c] \in Stopping \/ Shutdown(c)
             /\ cpc'[c] = "stopAcquire" => cpc[c] = "stopAcquire" \/ Shutdown(c)
  <2>1. CASE Shutdown(d)
    BY <2>1 DEF Shutdown
  <2>2. CASE ~Shutdown(d)
    BY <1>4, <2>2 DEF Call, Schedule, DeleteJob, Sync, WaitForAllIdle, Timeout, SetWorkersMax,
       Stopping, clientVars, userVars
  <2> QED
    BY <2>1, <2>2
<1>5. ASSUME Tick \/ UNCHANGED vars PROVE UNCHANGED cpc
  <2>1. CASE Tick
    BY <2>1 DEF Tick, userVars, clientVars
  <2>2. CASE UNCHANGED vars
    BY <2>2 DEF vars, userVars, clientVars
  <2> QED
    BY <1>5, <2>1, <2>2
<1> QED
  BY <1>1, <1>2, <1>3, <1>4, <1>5 DEF Next

\* An internal job on top of the queue is one for which a worker is left.
LEMMA InternalIsNextStep ==
    ASSUME Inv, [Next]_vars, ShutdownOnlyIdle
    PROVE  InternalIsNext'
<1> Len(queue) \in Nat /\ ctdWorkers \in Nat
  BY DEF Inv, TypeOK
<1>1. TypeOK /\ UserTail /\ InternalIsNext
  BY DEF Inv, QueueShape
<1>2. ASSUME NEW w \in Workers, Leave(w) PROVE InternalIsNext'
  <2>1. AtResize(w) /\ NameLeaver(w) /\ ctdWorkers' = ctdWorkers - 1
    BY <1>2 DEF Leave
  <2>2. CASE ctdWorkers > 1 /\ PushNext(JOB_JOIN)
    <3>1. Head(queue') = JOB_JOIN /\ Len(queue') = Len(queue) + 1
      BY <1>1, <2>1, <2>2, AtResizeUser, PushNextUser DEF JOB_JOIN, Entries
    <3>2. queue # <<>> \/ Closing'
      BY <2>1, <2>2, ClosingStays
         DEF AtResize, Inv, QueueShape, ResizeHasWork, WokenHasEntry
    <3>3. queue # <<>> => Len(queue) >= 1
      BY <1>1 DEF TypeOK
    <3> QED
      BY <2>1, <2>2, <3>1, <3>2, <3>3 DEF InternalIsNext, JOB_JOIN
  <2>3. CASE UNCHANGED queueVars
    BY <2>1, <2>3, AtResizeUser DEF queueVars, InternalIsNext, User, Internal
  <2> QED
    BY <2>1, <2>2, <2>3 DEF NameLeaver
<1>3. ASSUME ctdWorkers' >= ctdWorkers PROVE InternalIsNext'
  <2> ctdWorkers' \in Nat
    BY CountWorkersStep, FS_Subset, FS_CardinalityType, ConstantsAssumption
  <2>1. CASE QueueKept
    BY <1>1, <1>3, <2>1, ClosingStays DEF QueueKept, InternalIsNext
  <2>2. CASE QueuePopped
    BY <1>1, <2>2, PopUser DEF QueuePopped, InternalIsNext, User, Internal
  <2>3. CASE QueueScheduled
    <3>1. PICK e \in Entries : e.kind \in User /\ pushAndRelease(e)
      BY <2>3 DEF QueueScheduled
    <3>2. ~Closing
      BY <2>3 DEF QueueScheduled, Accepting, Closing
    <3>3. /\ Len(queue') = Len(queue) + 1
          /\ Head(queue') = IF queue = <<>> THEN e ELSE Head(queue)
      BY <1>1, <3>1, AppendUser
    <3> QED
      BY <1>1, <1>3, <3>1, <3>2, <3>3 DEF InternalIsNext, User, Internal
  <2>4. CASE QueuePushed
    <3>1. PICK c \in Clients : StopPush(c)
      BY <1>3, <2>4 DEF QueuePushed, Leave
    <3>2. PushNext(JOB_STOP) /\ WorkersMax' = 0 /\ ctdWorkers # 0 /\ cpc'[c] = "stopSignal"
      BY <3>1 DEF StopPush, Inv, TypeOK, StillQuiet
    <3>3. Head(queue') = JOB_STOP
      BY <1>1, <2>4, <3>2, PushNextUser DEF QueuePushed, JOB_STOP, Entries
    <3> QED
      BY <1>3, <3>2, <3>3 DEF InternalIsNext, Closing, JOB_STOP
  <2> QED
    BY <2>1, <2>2, <2>3, <2>4, QueueMoves DEF QueueMove
<1> QED
  BY <1>2, <1>3, WorkersRemain

\* From the moment Shutdown has looked until it gets the mutex no worker
\* takes anything, and none leaves.
LEMMA StillQuietStep ==
    ASSUME Inv, [Next]_vars, ShutdownOnlyIdle
    PROVE  StillQuiet'
<1> SUFFICES ASSUME NEW c \in Clients, cpc'[c] = "stopAcquire"
             PROVE  /\ queue' = <<>> /\ ctdWorkers' >= 1
                    /\ \A d \in Clients : cpc'[d] \in Stopping => d = c
  BY DEF StillQuiet
<1> cpc \in [Clients -> ClientPCs] /\ ctdWorkers \in Nat /\ ctdWorkers' \in Nat
  BY CountWorkersStep, FS_Subset, FS_CardinalityType, ConstantsAssumption DEF Inv, TypeOK
<1>1. CASE cpc[c] = "stopAcquire"
  <2>1. queue = <<>> /\ ctdWorkers >= 1 /\ \A d \in Clients : cpc[d] \in Stopping => d = c
    BY <1>1 DEF Inv, StillQuiet
  <2>2. ~Closing
    BY <1>1, <2>1 DEF Closing, Stopping
  <2>3. \A w \in Workers : pc[w] \notin {"woken", "resize"}
    BY <2>1, <2>2 DEF Inv, QueueShape, WokenHasEntry, ResizeHasWork
  <2>4. ctdWorkers' >= ctdWorkers
    BY <2>3, WorkersRemain DEF Leave, AtResize
  <2>5. queue' = <<>>
    <3>1. CASE QueueKept
      BY <2>1, <3>1 DEF QueueKept
    <3>2. CASE QueueScheduled
      BY <1>1, <3>2 DEF QueueScheduled, Accepting
    <3>3. CASE QueuePushed
      <4>1. PICK d \in Clients : StopPush(d)
        BY <2>3, <3>3 DEF QueuePushed, Leave, AtResize
      <4>2. d = c
        BY <2>1, <4>1 DEF StopPush, Stopping
      <4> QED
        BY <4>1, <4>2 DEF StopPush
    <3> QED
      BY <2>1, <3>1, <3>2, <3>3, QueueMoves DEF QueueMove, QueuePopped
  <2>6. ASSUME NEW d \in Clients, cpc'[d] \in Stopping PROVE d = c
    BY <1>1, <2>1, <2>6, ShutdownBegins DEF Shutdown, Stopping
  <2> QED
    BY <2>1, <2>4, <2>5, <2>6
<1>2. CASE cpc[c] # "stopAcquire"
  <2>1. Shutdown(c)
    BY <1>2, ShutdownBegins
  <2>2. /\ ctdOpenJobs = 0 /\ ctdWorkers # 0 /\ UNCHANGED <<queue, ctdWorkers>>
        /\ \A d \in Clients : cpc[d] \notin Stopping
        /\ cpc' = [cpc EXCEPT ![c] = "stopAcquire"]
    BY <2>1 DEF Shutdown, poolVars, queueVars, sizeVars
  <2>3. queue = <<>>
    BY <2>2, EmptySeq DEF Inv, TypeOK, CountersConsistent
  <2> QED
    BY <2>2, <2>3
<1> QED
  BY <1>1, <1>2

\* A worker that was woken, or has dealt with an internal job, still finds
\* what it was woken for.
LEMMA WorkerFindsWork ==
    ASSUME Inv, [Next]_vars
    PROVE  WokenHasEntry' /\ ResizeHasWork'
<1>1. TypeOK /\ UserTail /\ InternalIsNext /\ WokenHasEntry /\ ResizeHasWork
  BY DEF Inv, QueueShape
<1>2. ASSUME NEW w \in Workers, pc'[w] = "woken" PROVE queue' # <<>>
  <2>1. CASE GoOn(w)
    BY <2>1 DEF GoOn, isConditionMet, poolVars, queueVars
  <2>2. CASE pc[w] = "woken" /\ UNCHANGED queue
    BY <1>1, <2>2 DEF WokenHasEntry
  <2> QED
    BY <1>2, <2>1, <2>2, Entering
<1>3. ASSUME NEW w \in Workers, pc'[w] = "resize"
      PROVE  IF queue' = <<>> THEN Closing' ELSE Head(queue').kind \in User
  <2>1. CASE JoinLeaver(w) \/ TakeStop(w)
    <3>1. /\ pc[w] = "woken" /\ Pop /\ queue # <<>>
          /\ Head(queue).kind \in Internal
      BY <1>1, <2>1 DEF JoinLeaver, TakeStop, WokenHasEntry, Internal, JOB_JOIN, JOB_STOP
    <3>2. ctdWorkers >= 1 /\ (Len(queue) >= 2 \/ Closing)
      BY <1>1, <3>1 DEF InternalIsNext, Internal
    <3>3. Len(queue) >= 2 \/ Closing'
      BY <3>2, ClosingStays
    <3>4. /\ queue' \in Seq(Entries) /\ Len(queue') = Len(queue) - 1
          /\ queue' # <<>> => Head(queue').kind \in User
      BY <1>1, <3>1, PopUser
    <3>5. queue' = <<>> => Len(queue') = 0
      OBVIOUS
    <3> QED
      BY <3>3, <3>4, <3>5
  <2>2. CASE pc[w] = "resize" /\ UNCHANGED queue
    BY <1>1, <2>2, WorkersCounted, ClosingStays DEF ResizeHasWork
  <2> QED
    BY <1>3, <2>1, <2>2, Entering
<1> QED
  BY <1>2, <1>3 DEF WokenHasEntry, ResizeHasWork

\* The conjuncts of TypeOK that are not about the queue and the counters,
\* those of threads and those of clients.
ThreadsOK ==
    /\ mutex \in Workers \cup {None}
    /\ lastThreadToJoin \in Workers \cup {None} /\ workerToJoin \in Threads \cup {None}
    /\ thread \in [Threads -> {"absent", "alive", "ended"}]
    /\ pc \in [Workers -> WorkerPCs] /\ cur \in [Workers -> Jobs \cup {None}]
ClientsOK ==
    /\ WorkersMax \in Nat /\ age \in 0..1
    /\ cpc \in [Clients -> ClientPCs] /\ seen \in [Clients -> Nat]
    /\ jobState \in [Jobs -> {"new", "queued", "active", "done", "freed"}]
    /\ held \in SUBSET Kept

\* Steps keep the fields of the worker threads typed.
LEMMA ThreadsStep ==
    ASSUME Inv, [Next]_vars
    PROVE  ThreadsOK'
<1> TypeOK /\ ThreadsOK /\ Workers \subseteq Threads
  BY ConstantsAssumption DEF Inv, TypeOK, ThreadsOK
<1> USE DEF ThreadsOK
<1>1. ASSUME UNCHANGED <<mutex, sizeVars, workerToJoin, cur>>,
             pc' \in [Workers -> WorkerPCs]
      PROVE  ThreadsOK'
  BY <1>1 DEF sizeVars
<1>2. ASSUME NEW w \in Workers, addThread(w)
      PROVE  /\ thread' \in [Threads -> {"absent", "alive", "ended"}]
             /\ lastThreadToJoin' \in Workers \cup {None}
  BY <1>2 DEF addThread
<1>3. ASSUME NEW w \in Workers, WorkerStep(w) PROVE ThreadsOK'
  <2>1. CASE Start(w) \/ GoOn(w) \/ Sleep(w) \/ Wake(w)
    BY <2>1 DEF Start, GoOn, Sleep, Wake, poolVars, sizeVars, WorkerPCs
  <2>2. CASE JoinLeaver(w) \/ TakeStop(w)
    BY <2>2 DEF JoinLeaver, TakeStop, sizeVars, WorkerPCs
  <2>3. CASE Leave(w)
    BY <2>3 DEF Leave, NameLeaver, WorkerPCs
  <2>4. CASE Grow(w)
    <3>1. PICK new \in Workers : addThread(new) /\ pc' = [pc EXCEPT ![w] = "again", ![new] = "start"]
      BY <2>4 DEF Grow
    <3> QED
      BY <1>2, <2>4, <3>1 DEF Grow, WorkerPCs
  <2>5. CASE TakeJob(w)
    <3>1. Head(queue).kind = "job" /\ queue # <<>>
      BY <2>5, AtResizeUser DEF TakeJob
    <3>2. Head(queue) \in Entries
      BY <3>1, HeadTailProperties DEF TypeOK
    <3> QED
      BY <2>5, <3>2 DEF TakeJob, sizeVars, WorkerPCs, Entries
  <2>6. CASE TakeSync(w) \/ FinishDo(w) \/ FreeJob(w)
    BY <2>6 DEF TakeSync, FinishDo, FreeJob, poolVars, sizeVars, WorkerPCs
  <2>7. CASE NotifyAgain(w) \/ Exit(w)
    BY <2>7 DEF NotifyAgain, Exit, NotifyAll, poolVars, sizeVars, WorkerPCs
  <2>8. CASE SignalFromJob(w)
    BY <2>8 DEF SignalFromJob, NotifyOne, poolVars, sizeVars, WorkerPCs
  <2> QED
    BY <1>3, <2>1, <2>2, <2>3, <2>4, <2>5, <2>6, <2>7, <2>8 DEF WorkerStep
<1>4. ASSUME NEW w \in Workers, Spurious(w) \/ \E j \in Jobs : ScheduleFromJob(w, j)
      PROVE  ThreadsOK'
  BY <1>4 DEF Spurious, ScheduleFromJob, poolVars, sizeVars, WorkerPCs
<1>5. ASSUME NEW e, schedule(e), UNCHANGED <<mutex, workerToJoin, cur>>
      PROVE  ThreadsOK'
  <2>1. CASE UNCHANGED <<pc, workers, ctdWorkers, lastThreadToJoin, thread>>
    BY <1>5, <2>1
  <2>2. ASSUME NEW w \in Workers, addThread(w), pc' = [pc EXCEPT ![w] = "start"]
        PROVE  ThreadsOK'
    BY <1>2, <1>5, <2>2 DEF WorkerPCs
  <2> QED
    BY <1>5, <2>1, <2>2, ScheduleEffect
<1>6. ASSUME NEW c \in Clients, CallInProgress(c) PROVE ThreadsOK'
  <2>1. CASE Signal(c) \/ StopSignal(c)
    BY <1>1, <2>1, NotifyEffect DEF Signal, StopSignal, poolVars
  <2>2. CASE StopJoin(c)
    BY <2>2 DEF StopJoin
  <2> QED
    BY <1>1, <1>6, <2>1, <2>2 DEF CallInProgress, ReadOpenJobs, ReadOneCounter,
       ReadOtherCounter, LookAgain, StopPush, StopPoll, poolVars
<1>7. ASSUME NEW c \in Clients, Call(c) PROVE ThreadsOK'
  BY <1>1, <1>5, <1>7 DEF Call, Schedule, Sync, DeleteJob, WaitForAllIdle, Timeout, Shutdown,
     SetWorkersMax, poolVars
<1>8. ASSUME Tick PROVE ThreadsOK'
  BY <1>1, <1>8 DEF Tick
<1>9. ASSUME UNCHANGED vars PROVE ThreadsOK'
  BY <1>1, <1>9 DEF vars, poolVars
<1> QED
  BY <1>3, <1>4, <1>6, <1>7, <1>8, <1>9 DEF Next

\* Steps keep what clients know, the strategy and the jobs typed.
LEMMA ClientsStep ==
    ASSUME Inv, [Next]_vars
    PROVE  ClientsOK'
<1> ClientsOK /\ ctdIdle \in Nat /\ ctdWorkers \in Nat
  BY DEF Inv, TypeOK, ClientsOK
<1> USE DEF ClientsOK
<1>1. CASE UNCHANGED <<tuning, userVars>>
  BY <1>1 DEF tuning, userVars, clientVars, jobVars
<1>2. ASSUME NEW w \in Workers, WorkerStep(w) PROVE ClientsOK'
  <2>1. CASE Leave(w) \/ Grow(w)
    BY <2>1 DEF Leave, Grow, userVars, clientVars, jobVars
  <2>2. CASE TakeJob(w) \/ TakeSync(w) \/ FinishDo(w) \/ FreeJob(w)
    BY <2>2 DEF TakeJob, TakeSync, FinishDo, FreeJob, poolVars, tuning, clientVars
  <2>3. CASE JoinLeaver(w) \/ TakeStop(w) \/ Exit(w)
    BY <2>3 DEF JoinLeaver, TakeStop, Exit, tuning, userVars, clientVars, jobVars
  <2>4. CASE Start(w) \/ GoOn(w) \/ Sleep(w) \/ Wake(w) \/ NotifyAgain(w) \/ SignalFromJob(w)
    BY <2>4 DEF Start, GoOn, Sleep, Wake, NotifyAgain, SignalFromJob, poolVars, tuning,
       userVars, clientVars, jobVars
  <2> QED
    BY <1>2, <2>1, <2>2, <2>3, <2>4 DEF WorkerStep
<1>3. ASSUME NEW w \in Workers, Spurious(w) \/ \E j \in Jobs : ScheduleFromJob(w, j)
      PROVE  ClientsOK'
  BY <1>3 DEF Spurious, ScheduleFromJob, poolVars, tuning, userVars, clientVars, jobVars
<1>4. ASSUME NEW c \in Clients, CallInProgress(c) PROVE ClientsOK'
  BY <1>4 DEF CallInProgress, Signal, ReadOpenJobs, ReadOneCounter, ReadOtherCounter, LookAgain,
     StopPush, StopSignal, StopPoll, StopJoin, poolVars, tuning, jobVars, ClientPCs
<1>5. ASSUME NEW c \in Clients, Call(c) PROVE ClientsOK'
  BY <1>5, ConstantsAssumption DEF Call, Schedule, Sync, DeleteJob, WaitForAllIdle, Timeout,
     Shutdown, SetWorkersMax, poolVars, tuning, clientVars, userVars, jobVars, ClientPCs
<1>6. ASSUME Tick PROVE ClientsOK'
  BY <1>6, ConstantsAssumption DEF Tick, Greater, userVars, clientVars, jobVars
<1>7. ASSUME UNCHANGED vars PROVE ClientsOK'
  BY <1>7 DEF vars, poolVars, tuning, userVars, clientVars, jobVars
<1> QED
  BY <1>2, <1>3, <1>4, <1>5, <1>6, <1>7 DEF Next

\* Every step preserves the invariant.
LEMMA InvStep ==
    ASSUME Inv, [Next]_vars, ShutdownOnlyIdle
    PROVE  Inv'
<1>1. IsFiniteSet(workers') /\ Cardinality(workers') \in Nat
  BY CountWorkersStep, FS_Subset, FS_CardinalityType, ConstantsAssumption
<1>2. ctdIdle' \in Nat
  BY CountIdleStep, IdleFinite, FS_CardinalityType
<1>3. CountersConsistent'
  BY QueueStep, CountWorkersStep, CountIdleStep DEF CountersConsistent
<1>4. ctdOpenJobs' \in Nat
  BY QueueStep
<1>5. TypeOK'
  BY <1>1, <1>2, <1>4, QueueStep, CountWorkersStep, ThreadsStep, ClientsStep
     DEF TypeOK, ThreadsOK, ClientsOK
<1>6. QueueShape'
  BY QueueStep, InternalIsNextStep, WorkerFindsWork DEF QueueShape
<1> QED
  BY <1>3, <1>5, <1>6, MutexStep, MembershipStep, StillQuietStep DEF Inv

-----------------------------------------------------------------------------
(* What holds in every behaviour.  Shutdown is called on a pool without     *)
(* open jobs, as debug builds assert.                                       *)

\* Inv is an inductive invariant of the pool.
THEOREM InvHolds == ShutdownOnlyIdle => (Spec => []Inv)
<1> SUFFICES ASSUME ShutdownOnlyIdle PROVE Spec => []Inv
  OBVIOUS
<1>1. Init => Inv
  BY InitInv
<1>2. Inv /\ [Next]_vars => Inv'
  BY InvStep
<1> QED
  BY <1>1, <1>2, PTL DEF Spec

\* No field of the pool ever leaves its type, whatever the number of workers,
\* clients and jobs and whatever the strategy.
THEOREM TypeCorrect == ShutdownOnlyIdle => (Spec => []TypeOK)
<1>1. Inv => TypeOK
  BY DEF Inv
<1> QED
  BY <1>1, InvHolds, PTL

\* Only one worker at a time is in the part of pop() that needs the mutex.
THEOREM MutexHolds == ShutdownOnlyIdle => (Spec => []MutualExclusion)
<1>1. Inv => MutualExclusion
  BY DEF Inv
<1> QED
  BY <1>1, InvHolds, PTL

\* The three counters that are kept by hand, and read without the mutex by
\* WaitForAllIdle and Shutdown, agree with what they count.
THEOREM CountersHold == ShutdownOnlyIdle => (Spec => []CountersConsistent)
<1>1. Inv => CountersConsistent
  BY DEF Inv
<1> QED
  BY <1>1, InvHolds, PTL

\* pop() never reaches its last part with an empty queue, nor with a second
\* internal job as the next entry.
THEOREM WorkAtHandHolds == ShutdownOnlyIdle => (Spec => []WorkAtHand)
<1>1. ASSUME Inv PROVE WorkAtHand
  BY <1>1, AtResizeUser DEF WorkAtHand, User
<1>2. Inv => WorkAtHand
  BY <1>1
<1> QED
  BY <1>2, InvHolds, PTL
-----------------------------------------------------------------------------
(* The size of the pool.                                                    *)

\* The pool grows only if it has no worker, or if GetSize asks for it.
LEMMA Grows ==
    ASSUME Inv, [Next]_vars, ctdWorkers' > ctdWorkers
    PROVE  ctdWorkers' = ctdWorkers + 1 /\ (ctdWorkers = 0 \/ GetSize > ctdWorkers)
<1> ctdWorkers \in Nat
  BY DEF Inv, TypeOK
<1>1. ~UNCHANGED ctdWorkers
  OBVIOUS
<1>2. ASSUME NEW w \in Workers, WorkerStep(w) PROVE Grow(w)
  BY <1>1, <1>2 DEF WorkerStep, Start, GoOn, Sleep, Wake, JoinLeaver, TakeStop, Leave,
     TakeJob, TakeSync, NotifyAgain, Exit, FinishDo, FreeJob, SignalFromJob, poolVars, sizeVars
<1>3. ASSUME NEW w \in Workers, Grow(w)
      PROVE  ctdWorkers' = ctdWorkers + 1 /\ GetSize > ctdWorkers
  BY <1>3 DEF Grow, addThread
<1>4. ASSUME NEW e, schedule(e) PROVE ctdWorkers' = ctdWorkers + 1 /\ ctdWorkers = 0
  BY <1>1, <1>4, ScheduleEffect DEF addThread
<1>5. \A w \in Workers : ~Spurious(w) /\ \A j \in Jobs : ~ScheduleFromJob(w, j)
  BY <1>1 DEF Spurious, ScheduleFromJob, poolVars, sizeVars
<1>6. \A c \in Clients : ~CallInProgress(c)
  BY <1>1 DEF CallInProgress, Signal, ReadOpenJobs, ReadOneCounter, ReadOtherCounter,
     LookAgain, StopPush, StopSignal, StopPoll, StopJoin, poolVars, sizeVars
<1>7. ASSUME NEW c \in Clients, Call(c) PROVE \E e : schedule(e)
  BY <1>1, <1>7 DEF Call, Schedule, Sync, DeleteJob, WaitForAllIdle, Timeout, Shutdown,
     SetWorkersMax, poolVars, sizeVars
<1>8. ~Tick /\ ~UNCHANGED vars
  BY <1>1 DEF Tick, vars, poolVars, sizeVars
<1> QED
  BY <1>2, <1>3, <1>4, <1>5, <1>6, <1>7, <1>8 DEF Next

\* Whatever the load, the strategy never asks for more than it permits.
LEMMA SizeWithinMax ==
    ASSUME TypeOK, GetSize > ctdWorkers, ctdWorkers >= 1
    PROVE  ctdWorkers + 1 <= Greater(WorkersMax, WorkersMin)
<1> /\ ctdWorkers \in Nat /\ ctdOpenJobs \in Nat /\ WorkersMax \in Nat /\ WorkersMin \in Nat
  BY ConstantsAssumption DEF TypeOK
<1>1. CASE Mode = "Fixed" \/ ctdWorkers < WorkersMin
  BY <1>1 DEF GetSize, Greater
<1>2. CASE Mode # "Fixed" /\ ctdWorkers >= WorkersMin
  <2>1. ~(ctdWorkers > WorkersMax)
    BY <1>2 DEF GetSize
  <2>2. CASE Overload
    BY <1>2, <2>1, <2>2 DEF GetSize, GrownSize, Lesser, Greater
  <2>3. ShrunkSize \in Nat /\ ShrunkSize <= ctdWorkers
    BY <1>2 DEF ShrunkSize, Lesser, Greater
  <2>4. CASE ~Overload
    <3>1. ~(ctdWorkers < WorkersMin)
      BY <1>2
    <3>2. GetSize = ShrunkSize \/ GetSize = ctdWorkers
      BY <1>2, <2>1, <2>4, <3>1, Zenon DEF GetSize
    <3> QED
      BY <2>3, <3>2
  <2> QED
    BY <2>2, <2>4
<1> QED
  BY <1>1, <1>2

\* No step starts a thread beyond WorkersMax and WorkersMin, except the first
\* one, which a job that is scheduled to an unused pool needs.
THEOREM PoolStaysWithinMaxHolds == ShutdownOnlyIdle => (Spec => PoolStaysWithinMax)
<1>1. ASSUME Inv, [Next]_vars
      PROVE  ctdWorkers' > ctdWorkers => ctdWorkers' <= Greater(1, Greater(WorkersMax, WorkersMin))
  <2> SUFFICES ASSUME ctdWorkers' > ctdWorkers
               PROVE  ctdWorkers' <= Greater(1, Greater(WorkersMax, WorkersMin))
    OBVIOUS
  <2>1. ctdWorkers \in Nat /\ WorkersMax \in Nat /\ WorkersMin \in Nat
    BY <1>1, ConstantsAssumption DEF Inv, TypeOK
  <2>2. CASE ctdWorkers = 0
    BY <1>1, <2>1, <2>2, Grows DEF Greater
  <2>3. CASE ctdWorkers >= 1
    BY <1>1, <2>1, <2>3, Grows, SizeWithinMax DEF Greater, Inv
  <2> QED
    BY <2>1, <2>2, <2>3
<1>2. Inv /\ [Next]_vars =>
         [ctdWorkers' > ctdWorkers => ctdWorkers' <= Greater(1, Greater(WorkersMax, WorkersMin))]_vars
  BY <1>1
<1> QED
  BY <1>2, InvHolds, PTL DEF Spec, PoolStaysWithinMax

\* Where it may have no workers, the pool has no jobs.
Fed ==
    /\ ctdWorkers = 0 => queue = <<>>
    /\ WorkersMax = 0 => \A i \in 1..Len(queue) : queue[i].kind \in Internal

\* WorkersMax becomes 0 in Shutdown, if nobody writes that number.
LEMMA MaxKept ==
    ASSUME Inv, [Next]_vars, 0 \notin MaxChoices, WorkersMax' = 0
    PROVE  WorkersMax = 0 \/ \E c \in Clients : StopPush(c)
<1> SUFFICES ASSUME \A c \in Clients : ~StopPush(c) PROVE UNCHANGED WorkersMax
  OBVIOUS
<1>1. ASSUME NEW w \in Workers,
             WorkerStep(w) \/ Spurious(w) \/ \E j \in Jobs : ScheduleFromJob(w, j)
      PROVE  UNCHANGED WorkersMax
  BY <1>1 DEF WorkerStep, Start, GoOn, Sleep, Wake, JoinLeaver, TakeStop, Leave, Grow, TakeJob,
     TakeSync, NotifyAgain, Exit, FinishDo, FreeJob, SignalFromJob, Spurious, ScheduleFromJob,
     poolVars, tuning
<1>2. ASSUME NEW c \in Clients, CallInProgress(c) PROVE UNCHANGED WorkersMax
  BY <1>2 DEF CallInProgress, Signal, ReadOpenJobs, ReadOneCounter, ReadOtherCounter,
     LookAgain, StopSignal, StopPoll, StopJoin, poolVars, tuning
<1>3. ASSUME NEW c \in Clients, Call(c) PROVE UNCHANGED WorkersMax
  BY <1>3 DEF Call, Schedule, DeleteJob, Sync, WaitForAllIdle, Timeout, Shutdown,
     SetWorkersMax, poolVars, tuning
<1>4. CASE Tick \/ UNCHANGED vars
  <2>1. CASE Tick
    BY <2>1 DEF Tick
  <2>2. CASE UNCHANGED vars
    BY <2>2 DEF vars, poolVars, tuning
  <2> QED
    BY <1>4, <2>1, <2>2
<1> QED
  BY <1>1, <1>2, <1>3, <1>4 DEF Next

\* The last worker is not sent away over a job.
LEMMA LastIsNeeded ==
    ASSUME TypeOK, CountersConsistent, queue # <<>>, WorkersMax > 0, ctdWorkers = 1
    PROVE  GetSize \in Nat /\ GetSize >= 1
<1>1. ctdOpenJobs >= 1 /\ ctdOpenJobs \in Nat
  BY EmptySeq DEF TypeOK, CountersConsistent
<1>2. WorkersMin \in Nat /\ WorkersMax \in Nat
  BY ConstantsAssumption DEF TypeOK
<1>3. ShrunkSize \in Nat /\ ShrunkSize >= 1
  BY <1>1, <1>2 DEF ShrunkSize, Greater, Lesser
<1>4. GrownSize \in Nat /\ GrownSize >= 1
  BY <1>2 DEF GrownSize, Lesser
<1> QED
  BY <1>2, <1>3, <1>4 DEF GetSize

LEMMA FedStep ==
    ASSUME Inv, Fed, [Next]_vars, ShutdownOnlyIdle, 0 \notin MaxChoices
    PROVE  Fed'
<1> /\ TypeOK /\ UserTail /\ Len(queue) \in Nat /\ ctdWorkers \in Nat /\ WorkersMax \in Nat
  BY DEF Inv, QueueShape, TypeOK
<1>1. ASSUME ctdWorkers' = 0 PROVE queue' = <<>>
  <2>1. CASE ctdWorkers' >= ctdWorkers
    <3>1. ctdWorkers = 0 /\ queue = <<>>
      BY <1>1, <2>1 DEF Fed
    <3>2. ~QueuePushed
      BY <3>1, WorkersCounted DEF QueuePushed, Leave, AtResize, StopPush, Inv, StillQuiet
    <3> QED
      BY <1>1, <3>1, <3>2, QueueMoves DEF QueueMove, QueueKept, QueuePopped, QueueScheduled
  <2>2. ASSUME NEW w \in Workers, Leave(w) PROVE queue' = <<>>
    <3>1. AtResize(w) /\ GetSize < ctdWorkers /\ NameLeaver(w) /\ ctdWorkers' = ctdWorkers - 1
      BY <2>2 DEF Leave
    <3>2. ctdWorkers = 1 /\ UNCHANGED queue
      BY <1>1, <3>1 DEF NameLeaver, queueVars
    <3>3. ASSUME queue # <<>> PROVE FALSE
      <4>1. WorkersMax = 0
        BY <3>1, <3>2, <3>3, LastIsNeeded, ConstantsAssumption
           DEF Inv, GetSize, TypeOK
      <4>2. 1 \in 1..Len(queue) /\ queue[1].kind \in User
        BY <3>1, <3>3, AtResizeUser, EmptySeq DEF TypeOK
      <4> QED
        BY <4>1, <4>2 DEF Fed, User, Internal
    <3> QED
      BY <3>2, <3>3
  <2> QED
    BY <2>1, <2>2, WorkersRemain
<1>2. ASSUME WorkersMax' = 0, NEW i \in 1..Len(queue') PROVE queue'[i].kind \in Internal
  <2>1. ASSUME NEW e \in Entries, e.kind \in Internal, PushNext(e), queue = <<>>
        PROVE  queue'[i].kind \in Internal
    <3>1. Len(queue) = 0 /\ \A n \in 1..Len(queue) : queue[n].kind \in User
      BY <2>1
    <3>2. Len(queue') = 1 /\ Head(queue') = e /\ queue' \in Seq(Entries) /\ queue' # <<>>
      BY <2>1, <3>1, PushNextUser
    <3>3. i = 1 /\ queue'[1] = Head(queue')
      BY <3>2
    <3> QED
      BY <2>1, <3>2, <3>3
  <2>2. ASSUME NEW c \in Clients, StopPush(c) PROVE queue'[i].kind \in Internal
    BY <2>1, <2>2 DEF StopPush, Inv, StillQuiet, JOB_STOP, Entries, Internal
  <2>3. CASE WorkersMax = 0
    <3>1. \A n \in 1..Len(queue) : queue[n].kind \in Internal
      BY <2>3 DEF Fed
    <3>2. CASE QueueKept
      BY <1>2, <3>1, <3>2 DEF QueueKept
    <3>3. CASE QueuePopped
      <4>1. Len(queue) <= 1
        BY <3>1 DEF UserTail, User, Internal
      <4>2. Len(queue') = Len(queue) - 1
        BY <3>3, PopUser DEF QueuePopped
      <4> QED
        BY <1>2, <4>1, <4>2
    <3>4. ~QueueScheduled
      BY <2>3 DEF QueueScheduled, Accepting
    <3>5. CASE QueuePushed
      <4>1. queue = <<>>
        <5>1. ASSUME queue # <<>> PROVE FALSE
          BY <3>1, <3>5, <5>1, EmptySeq DEF QueuePushed, User, Internal, TypeOK
        <5> QED
          BY <5>1
      <4> QED
        BY <2>1, <3>5, <4>1 DEF QueuePushed, JOB_JOIN, JOB_STOP, Entries, Internal
    <3> QED
      BY <3>2, <3>3, <3>4, <3>5, QueueMoves DEF QueueMove
  <2> QED
    BY <1>2, <2>2, <2>3, MaxKept
<1> QED
  BY <1>1, <1>2 DEF Fed

\* The pool does not shrink to nothing over queued jobs, for every strategy, if
\* clients do not set WorkersMax to 0 themselves: the last worker that leaves
\* leaves an empty queue behind.
THEOREM NoJobIsStrandedHolds ==
    ShutdownOnlyIdle /\ 0 \notin MaxChoices => (Spec => []NoJobIsStranded)
<1> SUFFICES ASSUME ShutdownOnlyIdle, 0 \notin MaxChoices PROVE Spec => []NoJobIsStranded
  OBVIOUS
<1>1. Init => Inv /\ Fed
  BY InitInv DEF Init, Fed
<1>2. (Inv /\ Fed) /\ [Next]_vars => (Inv /\ Fed)'
  BY InvStep, FedStep
<1>3. Inv /\ Fed => NoJobIsStranded
  BY DEF Fed, NoJobIsStranded
<1> QED
  BY <1>1, <1>2, <1>3, PTL DEF Spec
-----------------------------------------------------------------------------
(* Synchronisations are taken when all workers are idle.                    *)

\* w has evaluated the wake-up condition and still holds the mutex.
Past(w) == pc[w] \in {"woken", "resize"}

JoinOverSync ==
    /\ queue # <<>> /\ Head(queue).kind = "join"
    /\ Len(queue) >= 2 /\ queue[2].kind = "sync"
NextIsSync == queue # <<>> /\ (Head(queue).kind = "sync" \/ JoinOverSync)

\* The condition was evaluated for the next entry only.  What makes it hold
\* for a synchronisation below a JOB_JOIN too is that the worker that left
\* had found it met, and that nobody but a worker woken later stops being
\* idle.  A JOB_STOP has nothing below it.
Barrier ==
    /\ \A w \in Workers : Past(w) /\ NextIsSync => ctdIdle + 1 = ctdWorkers
    /\ JoinOverSync /\ (\A w \in Workers : ~Past(w)) => ctdIdle = ctdWorkers
    /\ queue # <<>> /\ Head(queue).kind = "stop" => Len(queue) = 1

-----------------------------------------------------------------------------
\* While a member of the pool is outside of pop(), not all are idle.
LEMMA NotAllIdle ==
    ASSUME Inv, NEW w \in Workers, pc[w] \notin {"none", "leave"} \cup Idling
    PROVE  ctdIdle < ctdWorkers
<1>1. IsFiniteSet(workers)
  BY FS_Subset, ConstantsAssumption DEF Inv, TypeOK
<1>2. Idle \subseteq workers /\ w \in workers /\ w \notin Idle
  BY DEF Inv, Membership, Idle, Idling
<1>3. Cardinality(Idle) <= Cardinality(workers) /\ Cardinality(Idle) # Cardinality(workers)
  BY <1>1, <1>2, FS_Subset
<1> QED
  BY <1>3 DEF Inv, CountersConsistent, TypeOK

\* No worker is past the condition while another thread has the mutex or none.
LEMMA NobodyPast ==
    ASSUME Inv, mutex = None
    PROVE  \A w \in Workers : ~Past(w)
BY ConstantsAssumption DEF Inv, MutualExclusion, Past, Critical

\* Scheduling leaves a synchronisation where it is in the queue.
LEMMA AppendBarrier ==
    ASSUME Inv, Inv', Barrier, mutex = None, mutex' = None, UNCHANGED ctdIdle,
           Accepting, NEW e \in Entries, e.kind \in User, pushAndRelease(e),
           ctdWorkers' = ctdWorkers \/ ctdWorkers = 0
    PROVE  Barrier'
<1>1. TypeOK /\ UserTail /\ InternalIsNext /\ ~Closing
  BY DEF Inv, QueueShape, Closing, Accepting
<1>2. /\ \A w \in Workers : ~Past(w)
      /\ \A w \in Workers : ~Past(w)'
  <2>1. \A w \in Workers : pc[w] \notin Critical /\ pc'[w] \notin Critical
    BY ConstantsAssumption DEF Inv, MutualExclusion
  <2> QED
    BY <2>1 DEF Past, Critical
<1>3. CASE queue = <<>> \/ Head(queue).kind \in User
  <2>1. Head(queue').kind \in User
    BY <1>1, <1>3, AppendUser
  <2> QED
    BY <1>2, <2>1 DEF Barrier, JoinOverSync, User
<1>4. CASE queue # <<>> /\ Head(queue).kind \in Internal
  <2>1. Head(queue).kind = "join" /\ Len(queue) >= 2 /\ UNCHANGED ctdWorkers
    BY <1>1, <1>4 DEF InternalIsNext, Internal
  <2>2. Head(queue') = Head(queue)
    BY <1>1, <1>4, AppendUser
  <2>3. queue'[2] = queue[2]
    BY <1>1, <2>1, AppendProperties DEF pushAndRelease, TypeOK
  <2> QED
    BY <1>2, <1>4, <2>1, <2>2, <2>3 DEF Barrier, JoinOverSync
<1>5. queue # <<>> => Head(queue) \in Entries
  BY <1>1, HeadTailProperties DEF TypeOK
<1> QED
  BY <1>3, <1>4, <1>5 DEF Entries, User, Internal

\* A leaver that found the condition of a synchronisation met leaves a pool
\* behind in which all are idle.
LEMMA LeaveBarrier ==
    ASSUME Inv, Inv', Barrier, NEW w \in Workers, Leave(w)
    PROVE  Barrier'
<1>1. TypeOK /\ UserTail /\ Past(w)
  BY DEF Inv, QueueShape, Leave, AtResize, Past
<1>2. /\ queue # <<>> => Head(queue).kind \in User /\ Head(queue) = queue[1]
      /\ \A i \in 1..Len(queue) : queue[i].kind \in User
      /\ Len(queue) \in Nat
  BY AtResizeUser DEF Leave, Inv, TypeOK
<1>3. \A v \in Workers : ~Past(v)'
  <2>1. \A v \in Workers : pc'[v] \notin Critical
    BY ConstantsAssumption DEF Leave, Inv, MutualExclusion
  <2> QED
    BY <2>1 DEF Past, Critical
<1>4. CASE UNCHANGED queue
  BY <1>2, <1>3, <1>4 DEF Barrier, JoinOverSync, User
<1>5. CASE PushNext(JOB_JOIN)
  <2>1. /\ queue' \in Seq(Entries) /\ Head(queue') = JOB_JOIN
        /\ Len(queue') = Len(queue) + 1 /\ queue' = <<JOB_JOIN>> \o queue
    BY <1>1, <1>2, <1>5, PushNextUser DEF JOB_JOIN, Entries, PushNext
  <2>2. ASSUME JoinOverSync' PROVE ctdIdle' = ctdWorkers'
    <3>1. Len(queue) >= 1 /\ queue # <<>>
      BY <1>2, <2>1, <2>2 DEF JoinOverSync
    <3>2. queue'[2] = queue[1]
      <4>1. queue'[2] = queue[2 - 1]
        BY <1>1, <1>2, <2>1, <3>1, ConcatProperties DEF JOB_JOIN, Entries, TypeOK
      <4> QED
        BY <4>1
    <3>3. NextIsSync
      BY <1>2, <2>2, <3>1, <3>2 DEF JoinOverSync, NextIsSync
    <3>4. ctdIdle + 1 = ctdWorkers
      BY <1>1, <3>3 DEF Barrier
    <3>5. ctdIdle' = ctdIdle /\ ctdWorkers' = ctdWorkers - 1 /\ ctdIdle \in Nat
      BY DEF Leave, Inv, TypeOK
    <3> QED
      BY <3>4, <3>5
  <2> QED
    BY <1>3, <2>1, <2>2 DEF Barrier, JOB_JOIN
<1> QED
  BY <1>4, <1>5 DEF Leave, NameLeaver, queueVars

\* The worker that takes an internal job finds the synchronisation below it
\* as if it had been woken for that.
LEMMA TakeInternalBarrier ==
    ASSUME Inv, Barrier, NEW w \in Workers, JoinLeaver(w) \/ TakeStop(w)
    PROVE  Barrier'
<1>1. TypeOK /\ UserTail /\ pc[w] = "woken" /\ queue # <<>> /\ Pop /\ Past(w)
  BY DEF Inv, QueueShape, WokenHasEntry, JoinLeaver, TakeStop, Past
<1>2. /\ queue' \in Seq(Entries) /\ Len(queue') = Len(queue) - 1
      /\ queue' # <<>> => Head(queue').kind \in User
  BY <1>1, PopUser
<1>3. UNCHANGED <<ctdIdle, ctdWorkers>>
  BY DEF JoinLeaver, TakeStop, sizeVars
<1>4. ASSUME queue' # <<>>, Head(queue').kind = "sync" PROVE ctdIdle + 1 = ctdWorkers
  <2>1. Len(queue') >= 1 /\ Head(queue') = queue'[1] /\ Len(queue) \in Nat
    BY <1>1, <1>2, <1>4 DEF TypeOK
  <2>2. Len(queue) >= 2 /\ queue'[1] = queue[2]
    BY <1>1, <1>2, <2>1, HeadTailProperties DEF Pop, TypeOK
  <2>3. Head(queue).kind # "stop"
    BY <1>1, <2>2 DEF Barrier
  <2>4. Head(queue).kind = "join"
    BY <2>3 DEF JoinLeaver, TakeStop, JOB_JOIN, JOB_STOP
  <2>5. NextIsSync
    BY <1>1, <1>4, <2>1, <2>2, <2>4 DEF NextIsSync, JoinOverSync
  <2> QED
    BY <1>1, <2>5 DEF Barrier
<1>5. ~JoinOverSync' /\ (queue' # <<>> => Head(queue').kind # "stop")
  BY <1>2 DEF JoinOverSync, User
<1>6. NextIsSync' => queue' # <<>> /\ Head(queue').kind = "sync"
  BY <1>5 DEF NextIsSync
<1> QED
  BY <1>3, <1>4, <1>5, <1>6 DEF Barrier

\* A worker that goes on has evaluated the condition for the next entry, or
\* takes a JOB_JOIN in a pool where all others are idle.
LEMMA GoOnBarrier ==
    ASSUME Inv, Barrier, NEW w \in Workers, GoOn(w)
    PROVE  Barrier'
<1>1. /\ pc[w] = "check" /\ pc' = [pc EXCEPT ![w] = "woken"] /\ isConditionMet
      /\ ctdIdle' = ctdIdle - 1 /\ UNCHANGED <<queue, ctdWorkers>>
  BY DEF GoOn, poolVars, queueVars, sizeVars
<1>2. \A v \in Workers : ~Past(v)
  <2>1. mutex = w
    BY <1>1 DEF Inv, MutualExclusion, Critical
  <2>2. \A v \in Workers : Past(v) => v = w
    BY <2>1 DEF Inv, MutualExclusion, Critical, Past
  <2> QED
    BY <1>1, <2>2 DEF Past
<1>3. Past(w)'
  BY <1>1 DEF Past, Inv, TypeOK
<1>4. ASSUME NextIsSync PROVE ctdIdle = ctdWorkers
  BY <1>1, <1>2, <1>4 DEF Barrier, NextIsSync, JoinOverSync, isConditionMet
<1>5. (NextIsSync' <=> NextIsSync) /\ (JoinOverSync' <=> JoinOverSync)
  BY <1>1 DEF NextIsSync, JoinOverSync
<1> QED
  BY <1>1, <1>3, <1>4, <1>5 DEF Barrier, Inv, TypeOK

\* Every step preserves the invariant.
LEMMA BarrierStep ==
    ASSUME Inv, Inv', Barrier, [Next]_vars
    PROVE  Barrier'
<1>1. ASSUME UNCHANGED <<queue, ctdIdle, ctdWorkers>>,
             \A w \in Workers : Past(w)' <=> Past(w)
      PROVE  Barrier'
  BY <1>1 DEF Barrier, NextIsSync, JoinOverSync
<1>2. ASSUME UNCHANGED <<queue, ctdIdle, ctdWorkers, pc>> PROVE Barrier'
  BY <1>1, <1>2 DEF Past
<1>3. ASSUME NEW w \in Workers, WorkerStep(w) PROVE Barrier'
  <2>1. CASE Start(w)
    <3>1. mutex = None /\ UNCHANGED <<queue, ctdWorkers>> /\ pc[w] = "start"
      BY <2>1 DEF Start, poolVars, queueVars, sizeVars
    <3>2. ctdIdle # ctdWorkers
      <4>1. ctdIdle < ctdWorkers
        BY <3>1, NotAllIdle DEF Idling
      <4> QED
        BY <4>1 DEF Inv, TypeOK
    <3>3. ~JoinOverSync
      BY <3>1, <3>2, NobodyPast DEF Barrier
    <3>4. \A v \in Workers : ~Past(v)'
      BY <2>1, <3>1, NobodyPast DEF Start, Past, Inv, TypeOK
    <3> QED
      BY <3>1, <3>3, <3>4 DEF Barrier, JoinOverSync
  <2>2. CASE GoOn(w)
    BY <2>2, GoOnBarrier
  <2>3. CASE JoinLeaver(w) \/ TakeStop(w)
    BY <2>3, TakeInternalBarrier
  <2>4. CASE Leave(w)
    BY <2>4, LeaveBarrier
  <2>5. CASE Grow(w) \/ TakeJob(w) \/ TakeSync(w)
    <3>1. mutex' = None
      BY <2>5 DEF Grow, TakeJob, TakeSync
    <3>2. \A v \in Workers : pc'[v] \notin Critical
      BY <3>1, ConstantsAssumption DEF Inv, MutualExclusion
    <3>3. queue' # <<>> => Head(queue').kind \in User
      <4>1. CASE Grow(w)
        BY <4>1, AtResizeUser DEF Grow, queueVars
      <4>2. CASE TakeJob(w) \/ TakeSync(w)
        BY <4>2, AtResizeUser, PopUser DEF TakeJob, TakeSync, Inv, QueueShape
      <4> QED
        BY <2>5, <4>1, <4>2
    <3> QED
      BY <3>2, <3>3 DEF Barrier, JoinOverSync, Past, Critical, User
  <2>6. CASE Sleep(w) \/ Wake(w)
    BY <1>1, <2>6 DEF Sleep, Wake, Past, Inv, TypeOK, poolVars, queueVars, sizeVars
  <2>7. CASE NotifyAgain(w) \/ Exit(w)
    <3>1. UNCHANGED <<queue, ctdIdle, ctdWorkers>>
      BY <2>7 DEF NotifyAgain, Exit, poolVars, queueVars, sizeVars
    <3>2. ASSUME NEW v \in Workers PROVE Past(v)' <=> Past(v)
      <4>1. CASE NotifyAgain(w)
        BY <4>1 DEF NotifyAgain, NotifyAll, Past, Inv, TypeOK
      <4>2. CASE Exit(w)
        BY <4>2 DEF Exit, NotifyAll, Past, Inv, TypeOK
      <4> QED
        BY <2>7, <4>1, <4>2
    <3> QED
      BY <1>1, <3>1, <3>2
  <2>8. CASE FinishDo(w) \/ FreeJob(w)
    BY <1>1, <2>8 DEF FinishDo, FreeJob, Past, Inv, TypeOK, poolVars, queueVars, sizeVars
  <2>9. CASE SignalFromJob(w)
    BY <1>1, <2>9 DEF SignalFromJob, NotifyOne, Past, Inv, TypeOK, poolVars, queueVars, sizeVars
  <2> QED
    BY <1>3, <2>1, <2>2, <2>3, <2>4, <2>5, <2>6, <2>7, <2>8, <2>9 DEF WorkerStep
<1>4. ASSUME NEW w \in Workers, Spurious(w) PROVE Barrier'
  BY <1>1, <1>4 DEF Spurious, Past, Inv, TypeOK, poolVars, queueVars, sizeVars
<1>5. ASSUME NEW w \in Workers, NEW j \in Jobs, ScheduleFromJob(w, j) PROVE Barrier'
  <2>1. /\ mutex = None /\ mutex' = None /\ Accepting /\ pushAndRelease(Plain(j))
        /\ UNCHANGED <<ctdIdle, ctdWorkers>>
    BY <1>5 DEF ScheduleFromJob, sizeVars
  <2> QED
    BY <2>1, AppendBarrier DEF Plain, Entries, User
<1>6. ASSUME NEW e \in Entries, e.kind \in User, schedule(e), UNCHANGED <<mutex, ctdIdle>>
      PROVE  Barrier'
  BY <1>6, AppendBarrier DEF schedule, sizeVars
<1>7. ASSUME NEW c \in Clients, NEW j \in Jobs, Schedule(c, j) PROVE Barrier'
  BY <1>6, <1>7 DEF Schedule, Plain, Entries, User
<1>8. ASSUME NEW c \in Clients, NEW j \in Jobs \cup {None}, Sync(c, j) PROVE Barrier'
  BY <1>6, <1>8 DEF Sync, Syncer, Entries, User
<1>9. ASSUME NEW c \in Clients, StopPush(c) PROVE Barrier'
  <2>1. queue = <<>> /\ mutex = None /\ mutex' = None /\ PushNext(JOB_STOP)
    BY <1>9 DEF StopPush, Inv, StillQuiet
  <2>2. queue' = <<JOB_STOP>>
    BY <2>1 DEF PushNext, JOB_STOP, Entries
  <2>3. \A v \in Workers : pc'[v] \notin Critical
    BY <2>1, ConstantsAssumption DEF Inv, MutualExclusion
  <2> QED
    BY <2>2, <2>3 DEF Barrier, JoinOverSync, Past, Critical, JOB_STOP
<1>10. ASSUME NEW c \in Clients, Signal(c) \/ StopSignal(c) PROVE Barrier'
  BY <1>1, <1>10 DEF Signal, StopSignal, NotifyOne, Past, Inv, TypeOK, poolVars, queueVars,
     sizeVars
<1>11. ASSUME NEW c \in Clients, CallInProgress(c) PROVE Barrier'
  BY <1>2, <1>9, <1>10, <1>11 DEF CallInProgress, ReadOpenJobs, ReadOneCounter,
     ReadOtherCounter, LookAgain, StopPoll, StopJoin, poolVars, queueVars, sizeVars
<1>12. ASSUME NEW c \in Clients, Call(c) PROVE Barrier'
  BY <1>2, <1>7, <1>8, <1>12 DEF Call, DeleteJob, WaitForAllIdle, Timeout, Shutdown,
     SetWorkersMax, poolVars, queueVars, sizeVars
<1>13. CASE Tick
  BY <1>2, <1>13 DEF Tick, queueVars, sizeVars
<1>14. CASE UNCHANGED vars
  BY <1>2, <1>14 DEF vars, poolVars, queueVars, sizeVars
<1> QED
  BY <1>3, <1>4, <1>5, <1>11, <1>12, <1>13, <1>14 DEF Next

-----------------------------------------------------------------------------
\* When a worker takes a synchronisation, all others are idle: the assertion
\* in pop() (threadpool.cpp:327) holds for pools of any size.
THEOREM SyncFindsAllIdleHolds == ShutdownOnlyIdle => (Spec => []SyncFindsAllIdle)
<1> SUFFICES ASSUME ShutdownOnlyIdle PROVE Spec => []SyncFindsAllIdle
  OBVIOUS
<1>1. Init => Inv /\ Barrier
  BY InitInv DEF Init, Barrier, JoinOverSync, NextIsSync
<1>2. (Inv /\ Barrier) /\ [Next]_vars => (Inv /\ Barrier)'
  BY InvStep, BarrierStep
<1>3. Inv /\ Barrier => SyncFindsAllIdle
  BY DEF Barrier, SyncFindsAllIdle, AtResize, Past, NextIsSync
<1> QED
  BY <1>1, <1>2, <1>3, PTL DEF Spec

-----------------------------------------------------------------------------
(***************************************************************************)
(* Every thread of the pool is joined once: by the next worker, by          *)
(* Shutdown, or when the pool is used again.                                *)
(***************************************************************************)

\* A Thread object is alive from addThread to the end of Run.
ThreadLife == \A w \in Workers : thread[w] = "alive" <=> pc[w] # "none"

\* One client at a time is in Shutdown.
OneStopping == \A c, d \in Clients : cpc[c] \in Stopping /\ cpc[d] \in Stopping => c = d

\* From the moment Shutdown has asked the workers to leave, the pool cannot
\* grow, and when it is empty the last worker is there to be joined.
Emptying == {"stopSignal", "stopPoll", "stopJoin"}
LastIsKept ==
    \A c \in Clients : cpc[c] \in Emptying =>
        /\ WorkersMax = 0
        /\ ctdWorkers = 0 => lastThreadToJoin # None
        /\ cpc[c] = "stopJoin" => ctdWorkers = 0

LastIsLast == lastThreadToJoin # None => ctdWorkers = 0

JoinNext == queue # <<>> /\ Head(queue) = JOB_JOIN
ToBeJoined(w) == w = lastThreadToJoin \/ (JoinNext /\ w = workerToJoin)
Left(w) == pc[w] = "leave" \/ (pc[w] = "none" /\ thread[w] = "ended")
LeaversAreNamed == \A w \in Workers : Left(w) <=> ToBeJoined(w)

JoinInv == ThreadLife /\ OneStopping /\ LastIsKept /\ LastIsLast /\ LeaversAreNamed

-----------------------------------------------------------------------------
(* What steps do to the threads.                                            *)

\* Nobody is created, leaves, ends or is joined.
ThreadsKept ==
    /\ UNCHANGED <<thread, ctdWorkers, lastThreadToJoin>>
    /\ \A w \in Workers : /\ pc'[w] = "none" <=> pc[w] = "none"
                          /\ pc'[w] = "leave" <=> pc[w] = "leave"

\* A worker is created, by another one or by a client.
Created(new) ==
    /\ addThread(new)
    /\ \A w \in Workers : /\ pc'[w] = "none" <=> pc[w] = "none" /\ w # new
                          /\ pc'[w] = "leave" <=> pc[w] = "leave" /\ w # new

ThreadMove ==
    \/ ThreadsKept
    \/ \E new \in Workers : Created(new)
    \/ \E w \in Workers : JoinLeaver(w) \/ Leave(w) \/ Exit(w)
    \/ \E c \in Clients : StopJoin(c)

\* There is no other step.
LEMMA ThreadMoves ==
    ASSUME Inv, [Next]_vars
    PROVE  ThreadMove
<1> USE DEF ThreadMove
<1> TypeOK
  BY DEF Inv
<1>1. ASSUME UNCHANGED <<sizeVars, pc>> PROVE ThreadMove
  BY <1>1 DEF ThreadsKept, sizeVars
<1>2. ASSUME NEW w \in Workers, WorkerStep(w) PROVE ThreadMove
  <2>1. CASE Start(w) \/ GoOn(w) \/ Sleep(w) \/ Wake(w) \/ TakeStop(w)
    BY <2>1 DEF ThreadsKept, TypeOK, Start, GoOn, Sleep, Wake, TakeStop, poolVars, sizeVars
  <2>2. CASE Grow(w)
    <3>1. PICK new \in Workers : /\ addThread(new)
                                 /\ pc' = [pc EXCEPT ![w] = "again", ![new] = "start"]
      BY <2>2 DEF Grow
    <3>2. pc[w] \in {"woken", "resize"} /\ pc[new] = "none"
      BY <2>2, <3>1 DEF Grow, AtResize, addThread
    <3> QED
      BY <3>1, <3>2 DEF Created, TypeOK
  <2>3. CASE TakeJob(w) \/ TakeSync(w) \/ FinishDo(w) \/ FreeJob(w)
    BY <2>3 DEF ThreadsKept, TypeOK, TakeJob, TakeSync, AtResize, FinishDo, FreeJob, poolVars,
       sizeVars
  <2>4. CASE NotifyAgain(w)
    BY <2>4 DEF ThreadsKept, TypeOK, NotifyAgain, NotifyAll, poolVars, sizeVars
  <2>5. CASE SignalFromJob(w)
    BY <2>5 DEF ThreadsKept, TypeOK, SignalFromJob, NotifyOne, poolVars, sizeVars
  <2> QED
    BY <1>2, <2>1, <2>2, <2>3, <2>4, <2>5 DEF WorkerStep
<1>3. ASSUME NEW w \in Workers, Spurious(w) \/ \E j \in Jobs : ScheduleFromJob(w, j)
      PROVE  ThreadMove
  BY <1>3 DEF ThreadsKept, TypeOK, Spurious, ScheduleFromJob, poolVars, sizeVars
<1>4. ASSUME NEW e, schedule(e) PROVE ThreadMove
  <2>1. CASE UNCHANGED <<pc, workers, ctdWorkers, lastThreadToJoin, thread>>
    BY <2>1 DEF ThreadsKept
  <2>2. ASSUME NEW w \in Workers, addThread(w), pc[w] = "none",
               pc' = [pc EXCEPT ![w] = "start"]
        PROVE  Created(w)
    BY <2>2 DEF Created, TypeOK
  <2> QED
    BY <1>4, <2>1, <2>2, ScheduleEffect
<1>5. ASSUME NEW c \in Clients, Signal(c) \/ StopSignal(c) PROVE ThreadMove
  BY <1>5 DEF ThreadsKept, TypeOK, Signal, StopSignal, NotifyOne, poolVars, sizeVars
<1>6. ASSUME NEW c \in Clients, CallInProgress(c) PROVE ThreadMove
  BY <1>1, <1>5, <1>6 DEF CallInProgress, ReadOpenJobs, ReadOneCounter, ReadOtherCounter,
     LookAgain, StopPush, StopPoll, poolVars
<1>7. ASSUME NEW c \in Clients, Call(c) PROVE ThreadMove
  BY <1>1, <1>4, <1>7 DEF Call, Schedule, Sync, DeleteJob, WaitForAllIdle, Timeout, Shutdown,
     SetWorkersMax, poolVars
<1>8. CASE Tick
  BY <1>1, <1>8 DEF Tick
<1>9. CASE UNCHANGED vars
  BY <1>1, <1>9 DEF vars, poolVars
<1> HIDE DEF ThreadMove
<1> QED
  BY <1>2, <1>3, <1>6, <1>7, <1>8, <1>9 DEF Next

\* A JOB_JOIN comes to the front only where a worker leaves, stays there with
\* the worker it names, and is gone when it was taken.
LEMMA JoinNextStep ==
    ASSUME Inv, [Next]_vars, ShutdownOnlyIdle
    PROVE  \/ (JoinNext' <=> JoinNext) /\ UNCHANGED workerToJoin
           \/ \E w \in Workers : JoinLeaver(w) \/ Leave(w)
<1> SUFFICES ASSUME \A w \in Workers : ~JoinLeaver(w) /\ ~Leave(w)
             PROVE  (JoinNext' <=> JoinNext) /\ UNCHANGED workerToJoin
  OBVIOUS
<1>1. UNCHANGED workerToJoin
  <2>1. ASSUME NEW w \in Workers,
               WorkerStep(w) \/ Spurious(w) \/ \E j \in Jobs : ScheduleFromJob(w, j)
        PROVE  UNCHANGED workerToJoin
    BY <2>1 DEF WorkerStep, Start, GoOn, Sleep, Wake, TakeStop, Grow, TakeJob, TakeSync,
       NotifyAgain, Exit, FinishDo, FreeJob, SignalFromJob, Spurious, ScheduleFromJob, poolVars
  <2>2. ASSUME NEW c \in Clients, CallInProgress(c) PROVE UNCHANGED workerToJoin
    BY <2>2 DEF CallInProgress, Signal, ReadOpenJobs, ReadOneCounter, ReadOtherCounter,
       LookAgain, StopPush, StopSignal, StopPoll, StopJoin, poolVars
  <2>3. ASSUME NEW c \in Clients, Call(c) PROVE UNCHANGED workerToJoin
    BY <2>3 DEF Call, Schedule, Sync, DeleteJob, WaitForAllIdle, Timeout, Shutdown,
       SetWorkersMax, poolVars
  <2> QED
    BY <2>1, <2>2, <2>3 DEF Next, Tick, vars, poolVars
<1>2. TypeOK /\ UserTail
  BY DEF Inv, QueueShape
<1>3. CASE QueueKept
  BY <1>1, <1>3 DEF QueueKept, JoinNext
<1>4. CASE QueuePopped
  <2>1. ~JoinNext
    <3>1. ASSUME NEW w \in Workers, WorkerStep(w), Pop, queue # <<>> PROVE ~JoinNext
      <4>1. Len(queue') = Len(queue) - 1 /\ Len(queue) \in Nat
        BY <1>2, <3>1, PopUser DEF TypeOK
      <4>2. ~ UNCHANGED queue
        BY <4>1
      <4>3. TakeStop(w) \/ TakeJob(w) \/ TakeSync(w)
        BY <3>1, <4>2 DEF WorkerStep, Start, GoOn, Sleep, Wake, Grow, NotifyAgain, Exit,
           FinishDo, FreeJob, SignalFromJob, poolVars, queueVars
      <4> QED
        BY <4>3 DEF TakeStop, TakeJob, TakeSync, JoinNext, JOB_JOIN, JOB_STOP
    <3>2. ctdOpenJobs' = ctdOpenJobs - 1 /\ ctdOpenJobs \in Nat
      BY <1>2, <1>4 DEF QueuePopped, Pop, TypeOK
    <3>3. ASSUME NEW w \in Workers, Spurious(w) \/ \E j \in Jobs : ScheduleFromJob(w, j)
          PROVE  FALSE
      BY <3>2, <3>3 DEF Spurious, ScheduleFromJob, pushAndRelease, poolVars, queueVars
    <3>4. ASSUME NEW c \in Clients, CallInProgress(c) PROVE FALSE
      BY <3>2, <3>4 DEF CallInProgress, Signal, ReadOpenJobs, ReadOneCounter, ReadOtherCounter,
         LookAgain, StopPush, PushNext, StopSignal, StopPoll, StopJoin, poolVars, queueVars
    <3>5. ASSUME NEW c \in Clients, Call(c) PROVE FALSE
      BY <3>2, <3>5 DEF Call, Schedule, Sync, schedule, pushAndRelease, DeleteJob,
         WaitForAllIdle, Timeout, Shutdown, SetWorkersMax, poolVars, queueVars
    <3>6. ~Tick /\ ~UNCHANGED vars
      BY <3>2 DEF Tick, vars, poolVars, queueVars
    <3> QED
      BY <1>4, <3>1, <3>3, <3>4, <3>5, <3>6 DEF Next, QueuePopped
  <2>2. ~JoinNext'
    BY <1>2, <1>4, PopUser DEF QueuePopped, JoinNext, JOB_JOIN, User
  <2> QED
    BY <1>1, <2>1, <2>2
<1>5. CASE QueueScheduled
  <2>1. PICK e \in Entries : e.kind \in User /\ pushAndRelease(e)
    BY <1>5 DEF QueueScheduled
  <2>2. queue' # <<>> /\ Head(queue') = IF queue = <<>> THEN e ELSE Head(queue)
    BY <1>2, <2>1, AppendUser
  <2> QED
    BY <1>1, <2>1, <2>2 DEF JoinNext, JOB_JOIN, User
<1>6. CASE QueuePushed
  <2>1. PICK c \in Clients : StopPush(c) /\ PushNext(JOB_STOP)
    BY <1>6 DEF QueuePushed
  <2>2. queue = <<>>
    BY <2>1 DEF StopPush, Inv, StillQuiet
  <2>3. Head(queue') = JOB_STOP
    BY <1>2, <1>6, <2>1, PushNextUser DEF QueuePushed, JOB_STOP, Entries
  <2> QED
    BY <1>1, <2>2, <2>3 DEF JoinNext, JOB_STOP, JOB_JOIN
<1> QED
  BY <1>3, <1>4, <1>5, <1>6, QueueMoves DEF QueueMove

\* While JOB_JOIN waits there is a worker to take it.
LEMMA JoinNextHasWorker ==
    ASSUME Inv, JoinNext
    PROVE  ctdWorkers >= 1
BY DEF Inv, QueueShape, InternalIsNext, JoinNext, JOB_JOIN, Internal

-----------------------------------------------------------------------------
(* Steps preserve the invariant, conjunct by conjunct.                      *)

\* Threads are created alive, and dead ones are disposed of.
LEMMA ThreadLifeStep ==
    ASSUME Inv, [Next]_vars, ThreadLife
    PROVE  ThreadLife'
<1> TypeOK /\ Workers \subseteq Threads
  BY ConstantsAssumption DEF Inv
<1>1. CASE ThreadsKept
  BY <1>1 DEF ThreadsKept, ThreadLife
<1>2. ASSUME NEW new \in Workers, Created(new) PROVE ThreadLife'
  <2>1. /\ thread' = [[t \in Threads |-> IF t = lastThreadToJoin THEN "absent" ELSE thread[t]]
                        EXCEPT ![new] = "alive"]
        /\ lastThreadToJoin # None => thread[lastThreadToJoin] = "ended"
    BY <1>2 DEF Created, addThread
  <2>2. \A w \in Workers : w = lastThreadToJoin => thread[w] = "ended"
    BY <2>1, ConstantsAssumption
  <2> QED
    BY <1>2, <2>1, <2>2 DEF Created, ThreadLife, TypeOK
<1>3. ASSUME NEW w \in Workers, JoinLeaver(w) PROVE ThreadLife'
  BY <1>3 DEF JoinLeaver, ThreadLife, TypeOK
<1>4. ASSUME NEW w \in Workers, Leave(w) PROVE ThreadLife'
  BY <1>4 DEF Leave, AtResize, ThreadLife, TypeOK
<1>5. ASSUME NEW w \in Workers, Exit(w) PROVE ThreadLife'
  <2>1. /\ thread' = [thread EXCEPT ![w] = "ended"]
        /\ \A v \in Workers : pc'[v] = "none" <=> pc[v] = "none" \/ v = w
    BY <1>5 DEF Exit, NotifyAll, TypeOK
  <2> QED
    BY <2>1 DEF ThreadLife, TypeOK
<1>6. ASSUME NEW c \in Clients, StopJoin(c) PROVE ThreadLife'
  BY <1>6 DEF StopJoin, ThreadLife, TypeOK
<1> QED
  BY <1>1, <1>2, <1>3, <1>4, <1>5, <1>6, ThreadMoves DEF ThreadMove

\* A second client does not enter Shutdown.
LEMMA OneStoppingStep ==
    ASSUME Inv, [Next]_vars, OneStopping
    PROVE  OneStopping'
<1> SUFFICES ASSUME NEW c \in Clients, NEW d \in Clients,
                    cpc'[c] \in Stopping, cpc'[d] \in Stopping
             PROVE  c = d
  BY DEF OneStopping, Stopping
<1>1. CASE cpc[c] \in Stopping /\ cpc[d] \in Stopping
  BY <1>1 DEF OneStopping
<1>2. ASSUME NEW e \in Clients, NEW f \in Clients, Shutdown(e), cpc'[f] \in Stopping
      PROVE  f = e
  BY <1>2 DEF Shutdown, Inv, TypeOK
<1> QED
  BY <1>1, <1>2, ShutdownBegins

\* The last worker that leaves is remembered until it was joined.
LEMMA LastIsLastStep ==
    ASSUME Inv, [Next]_vars, LastIsLast
    PROVE  LastIsLast'
<1> ctdWorkers \in Nat
  BY DEF Inv, TypeOK
<1>1. ASSUME NEW w \in Workers, Leave(w) PROVE LastIsLast'
  <2>1. ctdWorkers >= 1 /\ ctdWorkers' = ctdWorkers - 1 /\ NameLeaver(w)
    BY <1>1, WorkersCounted DEF Leave, AtResize
  <2> QED
    BY <2>1 DEF LastIsLast, NameLeaver
<1>2. ASSUME NEW w \in Workers, JoinLeaver(w) \/ Exit(w) PROVE LastIsLast'
  BY <1>2 DEF JoinLeaver, Exit, LastIsLast
<1> QED
  BY <1>1, <1>2, ThreadMoves DEF ThreadMove, ThreadsKept, Created, addThread, StopJoin,
     LastIsLast

\* A client comes to the parts of Shutdown one after the other, and keeps
\* others from changing the size of the pool.
LEMMA EmptyingStep ==
    ASSUME Inv, [Next]_vars, OneStopping, NEW c \in Clients, cpc'[c] \in Emptying
    PROVE  \/ StopPush(c)
           \/ StopPoll(c)
           \/ cpc[c] \in Emptying /\ cpc'[c] = cpc[c] /\ UNCHANGED WorkersMax
           \/ StopSignal(c)
<1> cpc \in [Clients -> ClientPCs]
  BY DEF Inv, TypeOK
<1> USE DEF Emptying
<1>1. ASSUME UNCHANGED <<cpc, WorkersMax>>
      PROVE  cpc[c] \in Emptying /\ cpc'[c] = cpc[c] /\ UNCHANGED WorkersMax
  BY <1>1
<1>2. ASSUME NEW w \in Workers,
             WorkerStep(w) \/ Spurious(w) \/ \E j \in Jobs : ScheduleFromJob(w, j)
      PROVE  UNCHANGED <<cpc, WorkersMax>>
  BY <1>2 DEF WorkerStep, Start, GoOn, Sleep, Wake, JoinLeaver, TakeStop, Leave, Grow, TakeJob,
     TakeSync, NotifyAgain, Exit, FinishDo, FreeJob, SignalFromJob, Spurious, ScheduleFromJob,
     poolVars, tuning, userVars, clientVars
<1>3. ASSUME NEW d \in Clients, CallInProgress(d)
      PROVE  \/ StopPush(c) \/ StopPoll(c) \/ StopSignal(c)
             \/ cpc[c] \in Emptying /\ cpc'[c] = cpc[c] /\ UNCHANGED WorkersMax
  <2>1. CASE d = c
    BY <1>3, <2>1 DEF CallInProgress, Signal, ReadOpenJobs, ReadOneCounter, ReadOtherCounter,
       LookAgain, StopJoin
  <2>2. CASE d # c
    <3>1. cpc'[c] = cpc[c]
      BY <1>3, <2>2 DEF CallInProgress, Signal, ReadOpenJobs, ReadOneCounter,
         ReadOtherCounter, LookAgain, StopPush, StopSignal, StopPoll, StopJoin
    <3>2. ~StopPush(d)
      BY <2>2, <3>1 DEF StopPush, OneStopping, Stopping
    <3> QED
      BY <1>3, <3>1, <3>2 DEF CallInProgress, Signal, ReadOpenJobs, ReadOneCounter,
         ReadOtherCounter, LookAgain, StopSignal, StopPoll, StopJoin, poolVars, tuning
  <2> QED
    BY <2>1, <2>2
<1>4. ASSUME NEW d \in Clients, Call(d)
      PROVE  cpc[c] \in Emptying /\ cpc'[c] = cpc[c] /\ UNCHANGED WorkersMax
  BY <1>4 DEF Call, Schedule, DeleteJob, Sync, WaitForAllIdle, Timeout, Shutdown,
     SetWorkersMax, Stopping, poolVars, tuning, clientVars, userVars
<1>5. CASE Tick
  BY <1>1, <1>5 DEF Tick, userVars, clientVars
<1>6. CASE UNCHANGED vars
  BY <1>1, <1>6 DEF vars, poolVars, tuning, userVars, clientVars
<1> QED
  BY <1>1, <1>2, <1>3, <1>4, <1>5, <1>6 DEF Next

\* An empty pool that may not have workers does not get one.
LEMMA NobodyCreated ==
    ASSUME Inv, [Next]_vars, WorkersMax = 0, ctdWorkers = 0
    PROVE  \A w \in Workers : ~addThread(w)
<1> SUFFICES ASSUME NEW new \in Workers, addThread(new) PROVE FALSE
  OBVIOUS
<1>1. ctdWorkers' = 1 /\ \A w \in Workers : ~AtResize(w)
  BY WorkersCounted DEF addThread, AtResize
<1>2. ASSUME NEW w \in Workers,
             WorkerStep(w) \/ Spurious(w) \/ \E j \in Jobs : ScheduleFromJob(w, j)
      PROVE  FALSE
  BY <1>1, <1>2 DEF WorkerStep, Start, GoOn, Sleep, Wake, JoinLeaver, TakeStop, Leave, Grow,
     TakeJob, TakeSync, NotifyAgain, Exit, FinishDo, FreeJob, SignalFromJob, Spurious,
     ScheduleFromJob, poolVars, sizeVars
<1>3. ASSUME NEW c \in Clients, CallInProgress(c) PROVE FALSE
  BY <1>1, <1>3 DEF CallInProgress, Signal, ReadOpenJobs, ReadOneCounter, ReadOtherCounter,
     LookAgain, StopPush, StopSignal, StopPoll, StopJoin, poolVars, sizeVars
<1>4. ASSUME NEW c \in Clients, Call(c) PROVE FALSE
  BY <1>1, <1>4 DEF Call, Schedule, Sync, schedule, Accepting, DeleteJob, WaitForAllIdle,
     Timeout, Shutdown, SetWorkersMax, poolVars, sizeVars
<1>5. ~Tick /\ ~UNCHANGED vars
  BY <1>1 DEF Tick, vars, poolVars, sizeVars
<1> QED
  BY <1>2, <1>3, <1>4, <1>5 DEF Next

\* Shutdown finds the last worker when the pool has become empty.
LEMMA LastIsKeptStep ==
    ASSUME Inv, [Next]_vars, JoinInv
    PROVE  LastIsKept'
<1> SUFFICES ASSUME NEW c \in Clients, cpc'[c] \in Emptying
             PROVE  /\ WorkersMax' = 0
                    /\ ctdWorkers' = 0 => lastThreadToJoin' # None
                    /\ cpc'[c] = "stopJoin" => ctdWorkers' = 0
  BY DEF LastIsKept
<1> /\ ctdWorkers \in Nat /\ cpc \in [Clients -> ClientPCs] /\ LastIsKept /\ OneStopping
  BY DEF Inv, TypeOK, JoinInv
<1> USE DEF Emptying
<1>1. CASE StopPush(c)
  <2>1. WorkersMax' = 0 /\ ctdWorkers' = ctdWorkers /\ cpc'[c] = "stopSignal"
    BY <1>1 DEF StopPush, sizeVars
  <2>2. ctdWorkers >= 1
    BY <1>1 DEF StopPush, Inv, StillQuiet
  <2> QED
    BY <2>1, <2>2
<1>2. CASE StopPoll(c) \/ StopSignal(c)
  BY <1>2 DEF StopPoll, StopSignal, LastIsKept, poolVars, sizeVars, tuning
<1>3. CASE cpc[c] \in Emptying /\ cpc'[c] = cpc[c] /\ UNCHANGED WorkersMax
  <2>1. /\ WorkersMax = 0 /\ (ctdWorkers = 0 => lastThreadToJoin # None)
        /\ cpc[c] = "stopJoin" => ctdWorkers = 0
    BY <1>3 DEF LastIsKept
  <2>2. CASE ThreadsKept
    BY <1>3, <2>1, <2>2 DEF ThreadsKept
  <2>3. ASSUME NEW new \in Workers, Created(new)
        PROVE  ctdWorkers # 0 /\ ctdWorkers' = ctdWorkers + 1
    BY <2>1, <2>3, NobodyCreated DEF Created, addThread
  <2>4. ASSUME NEW w \in Workers, Leave(w)
        PROVE  /\ ctdWorkers >= 1
               /\ ctdWorkers' = 0 => lastThreadToJoin' # None
    <3>1. ctdWorkers >= 1 /\ ctdWorkers' = ctdWorkers - 1 /\ NameLeaver(w)
      BY <2>4, WorkersCounted DEF Leave, AtResize
    <3> QED
      BY <3>1, ConstantsAssumption DEF NameLeaver
  <2>5. ASSUME NEW w \in Workers, JoinLeaver(w) \/ Exit(w)
        PROVE  UNCHANGED <<ctdWorkers, lastThreadToJoin>>
    BY <2>5 DEF JoinLeaver, Exit
  <2>6. ASSUME NEW d \in Clients, StopJoin(d) PROVE FALSE
    <3>1. d = c
      BY <1>3, <2>6 DEF StopJoin, OneStopping, Stopping
    <3> QED
      BY <1>3, <2>6, <3>1 DEF StopJoin
  <2> QED
    BY <1>3, <2>1, <2>2, <2>3, <2>4, <2>5, <2>6, ThreadMoves DEF ThreadMove
<1> QED
  BY <1>1, <1>2, <1>3, EmptyingStep

\* Who has left is named in one place, and is named there until it was joined.
LEMMA LeaversAreNamedStep ==
    ASSUME Inv, [Next]_vars, JoinInv, ShutdownOnlyIdle
    PROVE  LeaversAreNamed'
<1> TypeOK /\ Workers \subseteq Threads /\ ctdWorkers \in Nat
  BY ConstantsAssumption DEF Inv, TypeOK
<1>1. ThreadLife /\ LastIsLast /\ LeaversAreNamed
  BY DEF JoinInv
<1>2. lastThreadToJoin # None => ~JoinNext
  BY <1>1, JoinNextHasWorker DEF LastIsLast
<1>3. ASSUME NEW w \in Workers, Leave(w) PROVE LeaversAreNamed'
  <2>1. /\ pc' = [pc EXCEPT ![w] = "leave"] /\ UNCHANGED thread
        /\ NameLeaver(w) /\ AtResize(w) /\ ctdWorkers >= 1
    BY <1>3, WorkersCounted DEF Leave, AtResize
  <2>2. lastThreadToJoin = None
    BY <1>1, <2>1 DEF LastIsLast
  <2>3. ~JoinNext
    BY <2>1, AtResizeUser DEF JoinNext, JOB_JOIN, User
  <2>4. \A v \in Workers : ~Left(v)
    BY <1>1, <2>2, <2>3, ConstantsAssumption DEF LeaversAreNamed, ToBeJoined
  <2>5. \A v \in Workers : Left(v)' <=> v = w
    BY <2>1, <2>4 DEF Left, TypeOK, AtResize
  <2>6. CASE PushNext(JOB_JOIN) /\ workerToJoin' = w /\ UNCHANGED lastThreadToJoin
    <3>1. JoinNext'
      BY <2>1, <2>6, AtResizeUser, PushNextUser DEF JoinNext, JOB_JOIN, Entries
    <3> QED
      BY <2>2, <2>5, <2>6, <3>1, ConstantsAssumption DEF LeaversAreNamed, ToBeJoined
  <2>7. CASE lastThreadToJoin' = w /\ UNCHANGED queueVars
    <3>1. ~JoinNext'
      BY <2>3, <2>7 DEF JoinNext, queueVars
    <3> QED
      BY <2>5, <2>7, <3>1 DEF LeaversAreNamed, ToBeJoined
  <2> QED
    BY <2>1, <2>6, <2>7 DEF NameLeaver
<1>4. ASSUME NEW w \in Workers, JoinLeaver(w) PROVE LeaversAreNamed'
  <2>1. /\ thread' = [thread EXCEPT ![workerToJoin] = "absent"]
        /\ thread[workerToJoin] = "ended" /\ pc[w] = "woken"
        /\ pc' = [pc EXCEPT ![w] = "resize"] /\ UNCHANGED lastThreadToJoin
        /\ Head(queue) = JOB_JOIN /\ queue # <<>> /\ Pop
    BY <1>4 DEF JoinLeaver, Inv, QueueShape, WokenHasEntry
  <2>2. JoinNext /\ lastThreadToJoin = None
    BY <1>2, <2>1 DEF JoinNext
  <2>3. ~JoinNext'
    BY <2>1, PopUser DEF Inv, QueueShape, JoinNext, JOB_JOIN, User
  <2>4. \A v \in Workers : Left(v) <=> v = workerToJoin
    BY <1>1, <2>2, ConstantsAssumption DEF LeaversAreNamed, ToBeJoined
  <2>5. \A v \in Workers : v = workerToJoin => pc[v] = "none"
    BY <1>1, <2>1 DEF ThreadLife
  <2>6. \A v \in Workers : ~Left(v)'
    BY <2>1, <2>4, <2>5 DEF Left, TypeOK
  <2> QED
    BY <2>1, <2>2, <2>3, <2>6, ConstantsAssumption DEF LeaversAreNamed, ToBeJoined
<1>5. ASSUME (JoinNext' <=> JoinNext) /\ UNCHANGED workerToJoin PROVE LeaversAreNamed'
  <2>1. ASSUME UNCHANGED lastThreadToJoin, \A v \in Workers : Left(v)' <=> Left(v)
        PROVE  LeaversAreNamed'
    BY <1>1, <1>5, <2>1 DEF LeaversAreNamed, ToBeJoined
  <2>2. CASE ThreadsKept
    BY <2>1, <2>2 DEF ThreadsKept, Left
  <2>3. ASSUME NEW w \in Workers, Exit(w) PROVE LeaversAreNamed'
    <3>1. /\ thread' = [thread EXCEPT ![w] = "ended"] /\ pc[w] = "leave"
          /\ UNCHANGED lastThreadToJoin
          /\ \A v \in Workers : v # w => /\ pc'[v] = "none" <=> pc[v] = "none"
                                         /\ pc'[v] = "leave" <=> pc[v] = "leave"
          /\ pc'[w] = "none"
      BY <2>3 DEF Exit, NotifyAll, TypeOK
    <3> QED
      BY <2>1, <3>1 DEF Left, TypeOK
  <2>4. ASSUME NEW new \in Workers, Created(new) PROVE LeaversAreNamed'
    <3>1. /\ thread' = [[t \in Threads |-> IF t = lastThreadToJoin THEN "absent" ELSE thread[t]]
                          EXCEPT ![new] = "alive"]
          /\ lastThreadToJoin # None => thread[lastThreadToJoin] = "ended"
          /\ pc[new] = "none" /\ lastThreadToJoin' = None
          /\ new = lastThreadToJoin \/ thread[new] = "absent"
      BY <2>4 DEF Created, addThread
    <3>2. ASSUME NEW v \in Workers PROVE Left(v)' <=> Left(v) /\ v # lastThreadToJoin
      <4>1. CASE v = new
        <5>1. thread'[v] = "alive" /\ pc'[v] # "none" /\ pc'[v] # "leave"
          BY <2>4, <3>1, <4>1 DEF Created, TypeOK
        <5> QED
          BY <3>1, <4>1, <5>1 DEF Left
      <4>2. CASE v # new /\ v = lastThreadToJoin
        <5>1. thread[v] = "ended" /\ v # None
          BY <3>1, <4>2, ConstantsAssumption
        <5>2. pc[v] = "none"
          BY <1>1, <5>1 DEF ThreadLife
        <5>3. thread'[v] = "absent" /\ pc'[v] = "none"
          BY <2>4, <3>1, <4>2, <5>2 DEF Created, TypeOK
        <5> QED
          BY <4>2, <5>3 DEF Left
      <4>3. CASE v # new /\ v # lastThreadToJoin
        <5>1. thread'[v] = thread[v] /\ (pc'[v] = "none" <=> pc[v] = "none")
              /\ (pc'[v] = "leave" <=> pc[v] = "leave")
          BY <2>4, <3>1, <4>3 DEF Created, TypeOK
        <5> QED
          BY <4>3, <5>1 DEF Left
      <4> QED
        BY <4>1, <4>2, <4>3
    <3> QED
      BY <1>1, <1>2, <1>5, <3>1, <3>2, ConstantsAssumption DEF LeaversAreNamed, ToBeJoined
  <2>5. ASSUME NEW c \in Clients, StopJoin(c) PROVE LeaversAreNamed'
    <3>1. /\ thread' = [thread EXCEPT ![lastThreadToJoin] = "absent"] /\ UNCHANGED pc
          /\ thread[lastThreadToJoin] = "ended" /\ lastThreadToJoin' = None
      BY <2>5 DEF StopJoin
    <3>2. ASSUME NEW v \in Workers PROVE Left(v)' <=> Left(v) /\ v # lastThreadToJoin
      <4>1. v = lastThreadToJoin => pc[v] = "none"
        BY <1>1, <3>1 DEF ThreadLife
      <4> QED
        BY <3>1, <4>1 DEF Left, TypeOK
    <3> QED
      BY <1>1, <1>2, <1>5, <3>1, <3>2, ConstantsAssumption DEF LeaversAreNamed, ToBeJoined
  <2>6. CASE \E w \in Workers : JoinLeaver(w) \/ Leave(w)
    BY <1>3, <1>4, <2>6
  <2> QED
    BY <2>2, <2>3, <2>4, <2>5, <2>6, ThreadMoves DEF ThreadMove
<1> QED
  BY <1>3, <1>4, <1>5, JoinNextStep

\* Every step preserves the invariant.
LEMMA JoinInvStep ==
    ASSUME Inv, JoinInv, [Next]_vars, ShutdownOnlyIdle
    PROVE  JoinInv'
BY ThreadLifeStep, OneStoppingStep, LastIsKeptStep, LastIsLastStep, LeaversAreNamedStep
   DEF JoinInv

\* An unused pool satisfies it.
LEMMA JoinInvInit == Init => JoinInv
<1> SUFFICES ASSUME Init PROVE JoinInv
  OBVIOUS
<1> Workers \subseteq Threads
  BY ConstantsAssumption
<1>1. ThreadLife /\ LastIsLast /\ LeaversAreNamed
  BY ConstantsAssumption
     DEF Init, ThreadLife, LastIsLast, LeaversAreNamed, Left, ToBeJoined, JoinNext
<1>2. OneStopping /\ LastIsKept
  BY DEF Init, OneStopping, LastIsKept, Stopping, Emptying
<1> QED
  BY <1>1, <1>2 DEF JoinInv

\* A client in the last part of Shutdown joins the only thread that is left.
LEMMA JoinsTheOnlyThread ==
    ASSUME Inv, JoinInv, NEW c \in Clients, StopJoin(c), NEW w \in Workers
    PROVE  thread'[w] = "absent"
<1> w \in Threads /\ thread \in [Threads -> {"absent", "alive", "ended"}]
  BY ConstantsAssumption DEF Inv, TypeOK
<1>1. /\ cpc[c] = "stopJoin"
      /\ thread' = [thread EXCEPT ![lastThreadToJoin] = "absent"]
      /\ thread[lastThreadToJoin] = "ended"
  BY DEF StopJoin
<1>2. ctdWorkers = 0 /\ lastThreadToJoin # None
  BY <1>1 DEF JoinInv, LastIsKept, Emptying
<1>3. ~JoinNext
  BY <1>2, JoinNextHasWorker
<1>4. CASE w = lastThreadToJoin
  BY <1>1, <1>4
<1>5. CASE w # lastThreadToJoin
  <2>1. ~Left(w)
    BY <1>3, <1>5 DEF JoinInv, LeaversAreNamed, ToBeJoined
  <2>2. pc[w] \in {"none", "leave"}
    BY <1>2, WorkersCounted
  <2>3. thread[w] = "absent"
    BY <2>1, <2>2 DEF JoinInv, ThreadLife, Left
  <2> QED
    BY <1>1, <1>5, <2>3
<1> QED
  BY <1>4, <1>5

-----------------------------------------------------------------------------
(* What holds in every behaviour.                                           *)

\* The invariants of both modules together.
THEOREM JoinInvHolds == ShutdownOnlyIdle => (Spec => [](Inv /\ JoinInv))
<1> SUFFICES ASSUME ShutdownOnlyIdle PROVE Spec => [](Inv /\ JoinInv)
  OBVIOUS
<1>1. Init => Inv /\ JoinInv
  BY InitInv, JoinInvInit
<1>2. (Inv /\ JoinInv) /\ [Next]_vars => (Inv /\ JoinInv)'
  BY InvStep, JoinInvStep
<1> QED
  BY <1>1, <1>2, PTL DEF Spec

\* Every worker that left is named for being joined, in exactly one place,
\* and none that did not leave is.
THEOREM EveryLeaverIsNamedHolds == ShutdownOnlyIdle => (Spec => []EveryLeaverIsNamed)
<1>1. ASSUME Inv, JoinInv PROVE EveryLeaverIsNamed
  <2>1. \A i \in 2..Len(queue) : queue[i].kind # "join"
    BY <1>1 DEF Inv, QueueShape, UserTail, User
  <2>2. Leavers = {w \in Workers : Left(w)}
    BY DEF Leavers, Left
  <2>3. {w \in Workers : Left(w)} = {w \in Workers : ToBeJoined(w)}
    BY <1>1 DEF JoinInv, LeaversAreNamed
  <2> QED
    BY <2>1, <2>2, <2>3 DEF EveryLeaverIsNamed, ToBeJoined, JoinNext
<1>2. Inv /\ JoinInv => EveryLeaverIsNamed
  BY <1>1
<1> QED
  BY <1>2, JoinInvHolds, PTL

\* The assertions about the last thread in addThread and Shutdown hold.
THEOREM LastThreadIsTheLastHolds == ShutdownOnlyIdle => (Spec => []LastThreadIsTheLast)
<1>1. Inv /\ JoinInv => LastThreadIsTheLast
  BY DEF JoinInv, LastIsLast, LastIsKept, Emptying, LastThreadIsTheLast
<1> QED
  BY <1>1, JoinInvHolds, PTL

\* When Shutdown returns, all threads of the pool have been joined.
THEOREM ShutdownLeavesNoThreadHolds ==
    ShutdownOnlyIdle => (Spec => ShutdownLeavesNoThread)
<1>1. ASSUME Inv, JoinInv
      PROVE  \A c \in Clients : StopJoin(c) => \A w \in Workers : thread'[w] = "absent"
  BY <1>1, JoinsTheOnlyThread
<1>2. Inv /\ JoinInv =>
        [\A c \in Clients : StopJoin(c) => \A w \in Workers : thread'[w] = "absent"]_vars
  BY <1>1
<1> QED
  BY <1>2, JoinInvHolds, PTL DEF ShutdownLeavesNoThread
=============================================================================
