--------------------- MODULE ThreadPoolRefinementProofs ---------------------
(***************************************************************************)
(* The thread pool implements the job pool, for any number of workers,      *)
(* clients and jobs, and for every strategy; and no job object is used      *)
(* after it was deleted.                                                    *)
(***************************************************************************)
EXTENDS ThreadPoolImplementsJobPool, ThreadPoolProofs

Places == 1..Len(UserQueue)
At(i, j) == UserQueue[i] = Plain(j)
Deletes(i, j) == UserQueue[i] = Syncer(j)

\* A queued job is queued once.
QueueHolds ==
    /\ \A i \in Places : UserQueue[i].kind = "job" => UserQueue[i].job \in Jobs
    /\ \A j \in Jobs : jobState[j] = "queued" <=> \E i \in Places : At(i, j)
    /\ \A j \in Jobs : \A i, n \in Places : At(i, j) /\ At(n, j) => i = n

\* Each worker executes one job, each job in progress has a worker.
Executing(w) == pc[w] \in {"do", "signal"}
WorkerHolds ==
    /\ \A w \in Workers : Executing(w) => cur[w] \in Jobs /\ jobState[cur[w]] = "active"
    /\ \A w \in Workers : pc[w] = "free" => cur[w] \in Jobs \ Kept /\ jobState[cur[w]] = "done"
    /\ \A w \in Workers : ~Executing(w) /\ pc[w] # "free" => cur[w] = None
    /\ \A v, w \in Workers : cur[v] = cur[w] /\ cur[v] # None => v = w
    /\ \A j \in Jobs : jobState[j] = "active" => \E w \in Workers : cur[w] = j

\* Jobs that are to be deleted by clients, or by a synchronisation in the
\* queue, are not deleted yet, and the synchronisation comes after the job.
Usable(j) == jobState[j] \in {"queued", "active", "done"}
ClientHolds ==
    /\ \A j \in held : Usable(j)
    /\ \A i \in Places, j \in Jobs : Deletes(i, j) =>
          /\ j \in Kept \ held /\ Usable(j)
          /\ \A n \in Places : At(n, j) => n < i
    /\ \A j \in Jobs : \A i, n \in Places : Deletes(i, j) /\ Deletes(n, j) => i = n

JobInv == QueueHolds /\ WorkerHolds /\ ClientHolds

-----------------------------------------------------------------------------
(* The line: the queue without internal jobs.                               *)

\* It holds entries of users only.
LEMMA LineType ==
    ASSUME Inv
    PROVE  /\ UserQueue \in Seq(Entries) /\ Len(UserQueue) \in Nat
           /\ \A i \in Places : UserQueue[i] \in Entries /\ UserQueue[i].kind \in User
<1>1. queue \in Seq(Entries) /\ Len(queue) \in Nat
      /\ \A i \in 2..Len(queue) : queue[i].kind \in User
  BY DEF Inv, TypeOK, QueueShape, UserTail
<1>2. CASE queue # <<>> /\ Head(queue).kind \in {"join", "stop"}
  <2>1. /\ UserQueue = Tail(queue) /\ Tail(queue) \in Seq(Entries)
        /\ Len(Tail(queue)) = Len(queue) - 1
        /\ \A i \in 1..Len(Tail(queue)) : Tail(queue)[i] = queue[i + 1]
    BY <1>1, <1>2, HeadTailProperties DEF UserQueue
  <2>2. \A i \in 1..Len(Tail(queue)) : i + 1 \in 2..Len(queue)
    BY <1>1, <2>1
  <2> QED
    BY <1>1, <2>1, <2>2 DEF Places
<1>3. CASE ~(queue # <<>> /\ Head(queue).kind \in {"join", "stop"})
  <2>1. UserQueue = queue
    BY <1>3 DEF UserQueue
  <2>2. ASSUME NEW i \in 1..Len(queue) PROVE queue[i].kind \in User
    <3>1. CASE i = 1
      <4>1. queue[1] \in Entries /\ queue[1] = Head(queue) /\ queue # <<>>
        BY <1>1, <2>2, <3>1
      <4> QED
        BY <1>3, <3>1, <4>1 DEF Entries, User
    <3>2. CASE i # 1
      BY <1>1, <2>2, <3>2
    <3> QED
      BY <3>1, <3>2
  <2> QED
    BY <1>1, <2>1, <2>2 DEF Places
<1> QED
  BY <1>2, <1>3

\* What is scheduled comes last.
LEMMA LineScheduled ==
    ASSUME Inv, NEW e \in Entries, e.kind \in User, pushAndRelease(e)
    PROVE  UserQueue' = Append(UserQueue, e)
<1>1. TypeOK /\ UserTail /\ queue' = Append(queue, e)
  BY DEF Inv, QueueShape, pushAndRelease
<1>2. Head(queue') = IF queue = <<>> THEN e ELSE Head(queue)
  BY <1>1, AppendUser
<1>3. queue' # <<>>
  BY <1>1, AppendUser
<1>4. CASE queue # <<>> /\ Head(queue).kind \in {"join", "stop"}
  <2>1. Tail(Append(queue, e)) = Append(Tail(queue), e)
    BY <1>1, <1>4, HeadTailAppend DEF TypeOK
  <2> QED
    BY <1>1, <1>2, <1>3, <1>4, <2>1 DEF UserQueue
<1>5. CASE ~(queue # <<>> /\ Head(queue).kind \in {"join", "stop"})
  BY <1>1, <1>2, <1>3, <1>5 DEF UserQueue, User
<1> QED
  BY <1>4, <1>5

\* An internal job that is put in front does not change it,
LEMMA LinePushed ==
    ASSUME Inv, NEW e \in Entries, e.kind \in Internal, PushNext(e),
           \A i \in 1..Len(queue) : queue[i].kind \in User
    PROVE  UNCHANGED UserQueue
<1>1. queue' = <<e>> \o queue /\ queue \in Seq(Entries) /\ TypeOK
  BY DEF PushNext, Inv, TypeOK
<1>2. queue' # <<>> /\ Head(queue') = e
  BY <1>1, PushNextUser
<1>3. UserQueue' = Tail(queue')
  BY <1>2 DEF UserQueue, Internal
<1>4. Tail(<<e>> \o queue) = queue
  <2> Len(queue) \in Nat /\ <<e>> \in Seq(Entries)
    BY <1>1
  <2>1. /\ <<e>> \o queue \in Seq(Entries) /\ Len(<<e>> \o queue) = 1 + Len(queue)
        /\ \A i \in 1..(1 + Len(queue)) :
              (<<e>> \o queue)[i] = IF i <= 1 THEN <<e>>[i] ELSE queue[i - 1]
    BY <1>1, ConcatProperties
  <2>2. /\ Tail(<<e>> \o queue) \in Seq(Entries) /\ Len(Tail(<<e>> \o queue)) = Len(queue)
        /\ \A i \in 1..Len(queue) : Tail(<<e>> \o queue)[i] = (<<e>> \o queue)[i + 1]
    BY <1>1, <1>2, <2>1, HeadTailProperties
  <2>3. \A i \in 1..Len(queue) : Tail(<<e>> \o queue)[i] = queue[i]
    BY <2>1, <2>2
  <2> QED
    BY <1>1, <2>2, <2>3, SeqEqual
<1>5. queue # <<>> => Head(queue).kind \in User
  BY <1>1
<1>6. UserQueue = queue
  BY <1>5 DEF UserQueue, User
<1> QED
  BY <1>1, <1>3, <1>4, <1>6

\* nor does one that is taken.
LEMMA LineUncovered ==
    ASSUME Inv, queue # <<>>, Head(queue).kind \in Internal, Pop
    PROVE  UNCHANGED UserQueue
<1>1. queue' = Tail(queue) /\ (queue' # <<>> => Head(queue').kind \in User)
  BY PopUser DEF Inv, QueueShape, Pop
<1> QED
  BY <1>1 DEF UserQueue, Internal, User

\* A worker that takes a job or a synchronisation takes the first of the line.
LEMMA LineTaken ==
    ASSUME Inv, NEW w \in Workers, TakeJob(w) \/ TakeSync(w)
    PROVE  /\ UserQueue # <<>> /\ Head(UserQueue) = Head(queue)
           /\ UserQueue' = Tail(UserQueue)
<1>1. AtResize(w) /\ GetSize = ctdWorkers /\ Pop
  BY DEF TakeJob, TakeSync
<1>2. queue # <<>> /\ Head(queue).kind \in User
  BY <1>1, AtResizeUser
<1>3. queue' = Tail(queue) /\ (queue' # <<>> => Head(queue').kind \in User)
  BY <1>1, <1>2, PopUser DEF Inv, QueueShape, Pop
<1> QED
  BY <1>2, <1>3 DEF UserQueue, User

\* The places of the line when its first entry is taken,
LEMMA TailPlaces ==
    ASSUME Inv, UserQueue # <<>>, UserQueue' = Tail(UserQueue)
    PROVE  /\ 1 \in Places /\ Head(UserQueue) = UserQueue[1]
           /\ \A i \in Places' : i + 1 \in Places /\ UserQueue'[i] = UserQueue[i + 1]
           /\ \A i \in Places : i # 1 => i - 1 \in Places' /\ UserQueue'[i - 1] = UserQueue[i]
           /\ \A i \in Places \cup Places' : i \in Nat
<1>1. UserQueue \in Seq(Entries) /\ Len(UserQueue) \in Nat
  BY LineType
<1>2. /\ Len(UserQueue) >= 1 /\ Head(UserQueue) = UserQueue[1]
      /\ Len(UserQueue') = Len(UserQueue) - 1
      /\ \A i \in 1..Len(UserQueue') : UserQueue'[i] = UserQueue[i + 1]
  BY <1>1, HeadTailProperties
<1> QED
  BY <1>1, <1>2 DEF Places

\* and when one is added.
LEMMA AppendPlaces ==
    ASSUME Inv, NEW e, UserQueue' = Append(UserQueue, e)
    PROVE  /\ Places' = Places \cup {Len(UserQueue) + 1} /\ Len(UserQueue) + 1 \notin Places
           /\ \A i \in Places : UserQueue'[i] = UserQueue[i] /\ i < Len(UserQueue) + 1
           /\ UserQueue'[Len(UserQueue) + 1] = e
           /\ \A i \in Places : i \in Nat
<1>1. UserQueue \in Seq(Entries \cup {e}) /\ Len(UserQueue) \in Nat
  BY LineType
<1>2. /\ Len(UserQueue') = Len(UserQueue) + 1
      /\ \A i \in 1..Len(UserQueue) : UserQueue'[i] = UserQueue[i]
      /\ UserQueue'[Len(UserQueue) + 1] = e
  BY <1>1, AppendProperties
<1> QED
  BY <1>1, <1>2 DEF Places

\* Entries tell apart what they carry.
LEMMA EntryFacts ==
    /\ \A i, j : Plain(i) = Plain(j) => i = j
    /\ \A i, j : Syncer(i) = Syncer(j) => i = j
    /\ \A i, j : Plain(i) # Syncer(j)
    /\ \A j : Plain(j).kind = "job" /\ Plain(j).job = j
    /\ \A j : Syncer(j).kind = "sync" /\ Syncer(j).job = j
    /\ \A e \in Entries : e.kind = "job" => e = Plain(e.job)
    /\ \A e \in Entries : e.kind = "sync" => e = Syncer(e.job)
BY DEF Plain, Syncer, Entries

-----------------------------------------------------------------------------
(* What steps do to the jobs.                                               *)

SameWorkers ==
    /\ UNCHANGED cur
    /\ \A w \in Workers : /\ Executing(w)' <=> Executing(w)
                          /\ pc'[w] = "free" <=> pc[w] = "free"

JobsKept == UNCHANGED <<UserQueue, jobState, held>> /\ SameWorkers

Submitted(j) ==
    /\ jobState[j] = "new" /\ jobState' = [jobState EXCEPT ![j] = "queued"]
    /\ UserQueue' = Append(UserQueue, Plain(j))
    /\ held' = IF j \in Kept THEN held \cup {j} ELSE held
    /\ SameWorkers

Synced(j) ==
    /\ j \in held \cup {None} /\ held' = held \ {j}
    /\ UserQueue' = Append(UserQueue, Syncer(j))
    /\ UNCHANGED jobState /\ SameWorkers

LineMoved == UserQueue # <<>> /\ UserQueue' = Tail(UserQueue) /\ UNCHANGED held
Began(w) ==
    /\ LineMoved /\ Head(UserQueue).kind = "job" /\ ~Executing(w) /\ pc[w] # "free"
    /\ pc' = [pc EXCEPT ![w] = "do"]
    /\ cur' = [cur EXCEPT ![w] = Head(UserQueue).job]
    /\ jobState' = [jobState EXCEPT ![Head(UserQueue).job] = "active"]

Passed ==
    /\ LineMoved /\ Head(UserQueue).kind = "sync" /\ SameWorkers
    /\ jobState' = [j \in Jobs |-> IF j = Head(UserQueue).job THEN "freed" ELSE jobState[j]]
    /\ \A w \in Workers : ~Executing(w)

JobMove ==
    \/ JobsKept
    \/ \E j \in Jobs : Submitted(j)
    \/ \E j \in Jobs \cup {None} : Synced(j)
    \/ \E w \in Workers : Began(w)
    \/ Passed
    \/ UNCHANGED UserQueue /\ \E w \in Workers : FinishDo(w) \/ FreeJob(w)
    \/ UNCHANGED UserQueue /\ \E c \in Clients, j \in Jobs : DeleteJob(c, j)

\* At a barrier no worker executes a job.
LEMMA AllIdleAtBarrier ==
    ASSUME Inv, NEW w \in Workers, Past(w), ctdIdle + 1 = ctdWorkers
    PROVE  \A v \in Workers : ~Executing(v)
<1> SUFFICES ASSUME NEW v \in Workers, Executing(v) PROVE FALSE
  OBVIOUS
<1>1. v # w /\ v \in workers /\ w \in workers /\ v \notin Idle /\ w \notin Idle
  BY DEF Inv, Membership, Idle, Idling, Executing, Past
<1>2. Idle \subseteq workers /\ IsFiniteSet(workers)
  BY FS_Subset, ConstantsAssumption DEF Inv, TypeOK, Membership, Idle, Idling
<1>3. Cardinality(workers \ {w}) = Cardinality(workers) - 1 /\ IsFiniteSet(workers \ {w})
  BY <1>1, <1>2, FS_RemoveElement
<1>4. IsFiniteSet(Idle) /\ Cardinality(Idle \cup {v}) = Cardinality(Idle) + 1
  BY <1>1, IdleFinite, FS_AddElement
<1>5. Cardinality(Idle \cup {v}) <= Cardinality(workers \ {w})
  BY <1>1, <1>2, <1>3, FS_Subset
<1>6. ctdIdle = Cardinality(Idle) /\ ctdWorkers = Cardinality(workers) /\ ctdIdle \in Nat
  BY DEF Inv, CountersConsistent, TypeOK
<1> QED
  BY <1>3, <1>4, <1>5, <1>6

\* There is no other step.
LEMMA JobMoves ==
    ASSUME Inv, Barrier, [Next]_vars
    PROVE  JobMove
<1> USE DEF JobMove
<1> TypeOK
  BY DEF Inv
<1>1. ASSUME UNCHANGED <<UserQueue, jobState, held, cur, pc>> PROVE JobMove
  BY <1>1 DEF JobsKept, SameWorkers, Executing
<1>2. ASSUME UNCHANGED queue PROVE UNCHANGED UserQueue
  BY <1>2 DEF UserQueue
<1>3. ASSUME NEW w \in Workers, WorkerStep(w) PROVE JobMove
  <2>1. CASE Start(w) \/ GoOn(w) \/ Sleep(w) \/ Wake(w)
    BY <1>2, <2>1 DEF JobsKept, SameWorkers, Executing, TypeOK, Start, GoOn, Sleep, Wake,
       poolVars, queueVars, userVars, jobVars
  <2>2. CASE JoinLeaver(w) \/ TakeStop(w)
    <3>1. UNCHANGED UserQueue
      BY <2>2, LineUncovered DEF JoinLeaver, TakeStop, JOB_JOIN, JOB_STOP, Internal, Inv,
         QueueShape, WokenHasEntry
    <3> QED
      BY <2>2, <3>1 DEF JobsKept, SameWorkers, Executing, TypeOK, JoinLeaver, TakeStop,
         userVars, jobVars
  <2>3. CASE Leave(w)
    <3>1. ASSUME PushNext(JOB_JOIN) PROVE UNCHANGED UserQueue
      BY <2>3, <3>1, LinePushed, AtResizeUser DEF Leave, JOB_JOIN, Internal, Entries
    <3>2. ASSUME UNCHANGED queueVars PROVE UNCHANGED UserQueue
      BY <1>2, <3>2 DEF queueVars
    <3>3. UNCHANGED UserQueue
      BY <2>3, <3>1, <3>2 DEF Leave, NameLeaver
    <3> QED
      BY <2>3, <3>3 DEF JobsKept, SameWorkers, Executing, TypeOK, Leave, AtResize, userVars,
         jobVars
  <2>4. CASE Grow(w)
    <3>1. PICK new \in Workers : addThread(new) /\ pc' = [pc EXCEPT ![w] = "again", ![new] = "start"]
      BY <2>4 DEF Grow
    <3>2. pc[new] = "none" /\ UNCHANGED <<UserQueue, jobState, held, cur>>
      BY <1>2, <2>4, <3>1 DEF Grow, addThread, queueVars, userVars, jobVars
    <3> QED
      BY <2>4, <3>1, <3>2 DEF JobsKept, SameWorkers, Executing, TypeOK, Grow, AtResize
  <2>5. CASE TakeJob(w)
    <3>1. LineMoved /\ Head(UserQueue) = Head(queue)
      BY <2>5, LineTaken DEF LineMoved, TakeJob
    <3> QED
      BY <2>5, <3>1 DEF Began, TakeJob, AtResize, Executing
  <2>6. CASE TakeSync(w)
    <3>1. LineMoved /\ Head(UserQueue) = Head(queue)
      BY <2>6, LineTaken DEF LineMoved, TakeSync
    <3>2. Past(w) /\ NextIsSync
      BY <2>6, AtResizeUser DEF TakeSync, AtResize, Past, NextIsSync
    <3>3. \A v \in Workers : ~Executing(v)
      BY <3>2, AllIdleAtBarrier DEF Barrier
    <3> QED
      BY <2>6, <3>1, <3>3 DEF Passed, TakeSync, AtResize, Executing, SameWorkers, TypeOK
  <2>7. CASE NotifyAgain(w)
    BY <1>2, <2>7 DEF JobsKept, SameWorkers, Executing, TypeOK, NotifyAgain, NotifyAll,
       poolVars, queueVars, userVars, jobVars
  <2>8. CASE Exit(w)
    BY <1>2, <2>8 DEF JobsKept, SameWorkers, Executing, TypeOK, Exit, NotifyAll, queueVars,
       userVars, jobVars
  <2>9. CASE FinishDo(w) \/ FreeJob(w)
    BY <1>2, <2>9 DEF FinishDo, FreeJob, poolVars, queueVars
  <2>10. CASE SignalFromJob(w)
    BY <1>2, <2>10 DEF JobsKept, SameWorkers, Executing, TypeOK, SignalFromJob, NotifyOne,
       poolVars, queueVars, userVars, jobVars
  <2> QED
    BY <1>3, <2>1, <2>2, <2>3, <2>4, <2>5, <2>6, <2>7, <2>8, <2>9, <2>10 DEF WorkerStep
<1>4. ASSUME NEW w \in Workers, Spurious(w) PROVE JobMove
  BY <1>2, <1>4 DEF JobsKept, SameWorkers, Executing, TypeOK, Spurious, poolVars, queueVars,
     userVars, jobVars
<1>5. ASSUME NEW w \in Workers, NEW j \in Jobs, ScheduleFromJob(w, j) PROVE Submitted(j)
  <2>1. UserQueue' = Append(UserQueue, Plain(j))
    BY <1>5, LineScheduled DEF ScheduleFromJob, Plain, Entries, User
  <2> QED
    BY <1>5, <2>1 DEF ScheduleFromJob, Submitted, SameWorkers, Executing, TypeOK
<1>6. ASSUME NEW e \in Entries, e.kind \in User, schedule(e), UNCHANGED cur
      PROVE  UserQueue' = Append(UserQueue, e) /\ SameWorkers
  <2>1. UserQueue' = Append(UserQueue, e)
    BY <1>6, LineScheduled DEF schedule
  <2>2. CASE UNCHANGED pc
    BY <1>6, <2>1, <2>2 DEF SameWorkers, Executing
  <2>3. ASSUME NEW w \in Workers, pc[w] = "none", pc' = [pc EXCEPT ![w] = "start"]
        PROVE  SameWorkers
    BY <1>6, <2>3 DEF SameWorkers, Executing, TypeOK
  <2> QED
    BY <1>6, <2>1, <2>2, <2>3, ScheduleEffect
<1>7. ASSUME NEW c \in Clients, NEW j \in Jobs, Schedule(c, j) PROVE Submitted(j)
  BY <1>6, <1>7 DEF Schedule, Submitted, Plain, Entries, User
<1>8. ASSUME NEW c \in Clients, NEW j \in Jobs \cup {None}, Sync(c, j) PROVE Synced(j)
  BY <1>6, <1>8 DEF Sync, Synced, Syncer, Entries, User
<1>9. ASSUME NEW c \in Clients, NEW j \in Jobs, DeleteJob(c, j) PROVE JobMove
  BY <1>2, <1>9 DEF DeleteJob, poolVars, queueVars
<1>10. ASSUME NEW c \in Clients, Signal(c) \/ StopSignal(c) PROVE JobMove
  BY <1>2, <1>10 DEF JobsKept, SameWorkers, Executing, TypeOK, Signal, StopSignal, NotifyOne,
     poolVars, queueVars, jobVars
<1>11. ASSUME NEW c \in Clients, StopPush(c) PROVE JobMove
  <2>1. queue = <<>> /\ PushNext(JOB_STOP)
    BY <1>11 DEF StopPush, Inv, StillQuiet
  <2>2. \A i \in 1..Len(queue) : queue[i].kind \in User
    BY <2>1
  <2>3. UNCHANGED UserQueue
    BY <2>1, <2>2, LinePushed DEF JOB_STOP, Internal, Entries
  <2> QED
    BY <1>1, <1>11, <2>3 DEF StopPush, jobVars
<1>12. ASSUME NEW c \in Clients, CallInProgress(c) PROVE JobMove
  BY <1>1, <1>2, <1>10, <1>11, <1>12 DEF CallInProgress, ReadOpenJobs, ReadOneCounter,
     ReadOtherCounter, LookAgain, StopPoll, StopJoin, poolVars, queueVars, jobVars
<1>13. ASSUME NEW c \in Clients, Call(c) PROVE JobMove
  BY <1>1, <1>2, <1>7, <1>8, <1>9, <1>13 DEF Call, WaitForAllIdle, Timeout, Shutdown,
     SetWorkersMax, poolVars, queueVars, userVars, jobVars
<1>14. CASE Tick
  BY <1>1, <1>2, <1>14 DEF Tick, queueVars, userVars, jobVars
<1>15. CASE UNCHANGED vars
  BY <1>1, <1>2, <1>15 DEF vars, poolVars, queueVars, userVars, jobVars
<1> HIDE DEF JobMove
<1>16. ASSUME NEW w \in Workers, NEW j \in Jobs, ScheduleFromJob(w, j) PROVE JobMove
  BY <1>5, <1>16 DEF JobMove
<1> QED
  BY <1>3, <1>4, <1>12, <1>13, <1>14, <1>15, <1>16 DEF Next

-----------------------------------------------------------------------------
(* Steps preserve the invariant, conjunct by conjunct.                      *)

\* The job a synchronisation deletes when it is passed has been executed.
LEMMA PassedIsDone ==
    ASSUME Inv, JobInv, Passed, NEW j \in Jobs, j = Head(UserQueue).job
    PROVE  jobState[j] = "done" /\ Deletes(1, j) /\ j \in Kept \ held
<1>1. 1 \in Places /\ Head(UserQueue) = UserQueue[1] /\ UserQueue[1] \in Entries
      /\ \A i \in Places : i \in Nat /\ i >= 1
  BY LineType, TailPlaces DEF Passed, LineMoved, Places
<1>2. Deletes(1, j)
  BY <1>1, EntryFacts DEF Passed, Deletes
<1>3. /\ j \in Kept \ held /\ Usable(j)
      /\ \A n \in Places : At(n, j) => n < 1
  BY <1>1, <1>2 DEF JobInv, ClientHolds
<1>4. jobState[j] # "queued"
  BY <1>1, <1>3 DEF JobInv, QueueHolds
<1>5. jobState[j] # "active"
  <2>1. SUFFICES ASSUME NEW w \in Workers, cur[w] = j PROVE jobState[j] # "active"
    BY DEF JobInv, WorkerHolds
  <2>2. ~Executing(w) /\ j # None
    BY ConstantsAssumption DEF Passed
  <2> QED
    BY <2>1, <2>2 DEF JobInv, WorkerHolds
<1> QED
  BY <1>2, <1>3, <1>4, <1>5 DEF Usable

\* The queued jobs are those in the line, as long as neither changes.
LEMMA SameQueued ==
    ASSUME QueueHolds, UNCHANGED UserQueue,
           \A j \in Jobs : jobState'[j] = "queued" <=> jobState[j] = "queued"
    PROVE  QueueHolds'
BY DEF QueueHolds, Places, At

\* When the first entry is taken, only the job it stands for stops being queued.
LEMMA FirstTaken ==
    ASSUME Inv, QueueHolds, LineMoved,
           \A j \in Jobs : jobState'[j] = "queued" <=>
                              jobState[j] = "queued" /\ Head(UserQueue) # Plain(j)
    PROVE  QueueHolds'
<1>1. /\ 1 \in Places /\ Head(UserQueue) = UserQueue[1]
      /\ \A i \in Places' : i + 1 \in Places /\ UserQueue'[i] = UserQueue[i + 1]
      /\ \A i \in Places : i # 1 => i - 1 \in Places' /\ UserQueue'[i - 1] = UserQueue[i]
      /\ \A i \in Places \cup Places' : i \in Nat
  BY TailPlaces DEF LineMoved
<1>2. \A i \in Places' : i # 0 /\ i + 1 # 1
  BY LineType DEF Places
<1>3. \A i \in Places' : UserQueue'[i].kind = "job" => UserQueue'[i].job \in Jobs
  BY <1>1 DEF QueueHolds
<1>4. ASSUME NEW j \in Jobs PROVE jobState'[j] = "queued" <=> \E i \in Places' : At(i, j)'
  <2>1. ASSUME jobState'[j] = "queued" PROVE \E i \in Places' : At(i, j)'
    <3>1. PICK i \in Places : At(i, j)
      BY <2>1 DEF QueueHolds
    <3>2. i # 1
      BY <1>1, <2>1, <3>1 DEF At
    <3>3. i - 1 \in Places' /\ UserQueue'[i - 1] = Plain(j)
      BY <1>1, <3>1, <3>2 DEF At
    <3> QED
      BY <3>3 DEF At
  <2>2. ASSUME NEW i \in Places', At(i, j)' PROVE jobState'[j] = "queued"
    <3>1. i + 1 \in Places /\ At(i + 1, j) /\ i + 1 # 1
      BY <1>1, <1>2, <2>2 DEF At
    <3>2. ~At(1, j)
      BY <1>1, <3>1 DEF QueueHolds
    <3> QED
      BY <1>1, <3>1, <3>2 DEF QueueHolds, At
  <2> QED
    BY <2>1, <2>2
<1>5. ASSUME NEW j \in Jobs, NEW i \in Places', NEW n \in Places', At(i, j)', At(n, j)'
      PROVE  i = n
  <2>1. i + 1 = n + 1
    BY <1>1, <1>5 DEF QueueHolds, At
  <2> QED
    BY <1>1, <2>1
<1> QED
  BY <1>3, <1>4, <1>5 DEF QueueHolds

\* An entry that is added stands for a job that was not queued, or for none.
LEMMA LastAdded ==
    ASSUME Inv, QueueHolds, NEW e \in Entries, UserQueue' = Append(UserQueue, e),
           e.kind = "job" => e.job \in Jobs,
           \A j \in Jobs : e = Plain(j) => jobState[j] # "queued",
           \A j \in Jobs : jobState'[j] = "queued" <=> jobState[j] = "queued" \/ e = Plain(j)
    PROVE  QueueHolds'
<1> DEFINE new == Len(UserQueue) + 1
<1>1. /\ Places' = Places \cup {new} /\ new \notin Places
      /\ \A i \in Places : UserQueue'[i] = UserQueue[i]
      /\ UserQueue'[new] = e
  BY AppendPlaces
<1> HIDE DEF new
<1>2. \A i \in Places' : UserQueue'[i].kind = "job" => UserQueue'[i].job \in Jobs
  BY <1>1 DEF QueueHolds
<1>3. ASSUME NEW j \in Jobs
      PROVE  jobState'[j] = "queued" <=> \E i \in Places' : At(i, j)'
  BY <1>1 DEF QueueHolds, At
<1>4. ASSUME NEW j \in Jobs, NEW i \in Places', NEW n \in Places', At(i, j)', At(n, j)'
      PROVE  i = n
  <2>1. CASE i \in Places /\ n \in Places
    <3>1. At(i, j) /\ At(n, j)
      BY <1>1, <1>4, <2>1 DEF At
    <3> QED
      BY <2>1, <3>1 DEF QueueHolds
  <2>2. CASE i = new \/ n = new
    <3>1. e = Plain(j)
      BY <1>1, <1>4, <2>2 DEF At
    <3>2. \A k \in Places : ~At(k, j)
      BY <3>1 DEF QueueHolds
    <3>3. i \notin Places /\ n \notin Places
      BY <1>1, <1>4, <3>2 DEF At
    <3> QED
      BY <1>1, <3>3
  <2> QED
    BY <1>1, <2>1, <2>2
<1> QED
  BY <1>2, <1>3, <1>4 DEF QueueHolds

\* A queued job stays queued once.
LEMMA QueueHoldsStep ==
    ASSUME Inv, JobInv, JobMove
    PROVE  QueueHolds'
<1> QueueHolds /\ jobState \in [Jobs -> {"new", "queued", "active", "done", "freed"}]
  BY DEF JobInv, Inv, TypeOK
<1>1. CASE JobsKept
  BY <1>1, SameQueued DEF JobsKept
<1>2. ASSUME NEW j \in Jobs, Submitted(j) PROVE QueueHolds'
  <2>1. /\ \A h \in Jobs : Plain(j) = Plain(h) <=> h = j
        /\ Plain(j) \in Entries /\ Plain(j).job \in Jobs
    BY EntryFacts DEF Plain, Entries
  <2> QED
    BY <1>2, <2>1, LastAdded DEF Submitted
<1>3. ASSUME NEW j \in Jobs \cup {None}, Synced(j) PROVE QueueHolds'
  <2>1. /\ \A h \in Jobs : Syncer(j) # Plain(h)
        /\ Syncer(j) \in Entries /\ Syncer(j).kind # "job"
    BY EntryFacts DEF Syncer, Entries
  <2> QED
    BY <1>3, <2>1, LastAdded DEF Synced
<1>4. ASSUME NEW w \in Workers, Began(w) PROVE QueueHolds'
  <2> DEFINE h == Head(UserQueue).job
  <2>1. 1 \in Places /\ Head(UserQueue) = UserQueue[1] /\ UserQueue[1] \in Entries
    BY <1>4, LineType, TailPlaces DEF Began, LineMoved
  <2>2. h \in Jobs /\ \A j \in Jobs : Head(UserQueue) = Plain(j) <=> j = h
    BY <1>4, <2>1, EntryFacts DEF Began, QueueHolds
  <2>3. jobState' = [jobState EXCEPT ![h] = "active"] /\ LineMoved
    BY <1>4 DEF Began
  <2> HIDE DEF h
  <2> QED
    BY <2>2, <2>3, FirstTaken
<1>5. CASE Passed
  <2>1. \A j \in Jobs : Head(UserQueue) # Plain(j)
    BY <1>5, EntryFacts DEF Passed
  <2>2. \A j \in Jobs : jobState'[j] = "queued" <=> jobState[j] = "queued"
    BY <1>5, PassedIsDone DEF Passed
  <2> QED
    BY <1>5, <2>1, <2>2, FirstTaken DEF Passed
<1>6. ASSUME NEW w \in Workers, FinishDo(w) \/ FreeJob(w), UNCHANGED UserQueue
      PROVE  QueueHolds'
  <2>1. cur[w] \in Jobs /\ jobState[cur[w]] \in {"active", "done"}
    BY <1>6 DEF FinishDo, FreeJob, JobInv, WorkerHolds, Executing
  <2>2. \/ jobState' = [jobState EXCEPT ![cur[w]] = "done"]
        \/ jobState' = [jobState EXCEPT ![cur[w]] = "freed"]
    BY <1>6 DEF FinishDo, FreeJob
  <2> QED
    BY <1>6, <2>1, <2>2, SameQueued
<1>7. ASSUME NEW c \in Clients, NEW j \in Jobs, DeleteJob(c, j), UNCHANGED UserQueue
      PROVE  QueueHolds'
  BY <1>7, SameQueued DEF DeleteJob
<1> QED
  BY <1>1, <1>2, <1>3, <1>4, <1>5, <1>6, <1>7 DEF JobMove

\* Workers and jobs in progress correspond after each step.
LEMMA WorkerHoldsStep ==
    ASSUME Inv, JobInv, JobMove
    PROVE  WorkerHolds'
<1> /\ WorkerHolds /\ QueueHolds /\ ClientHolds /\ None \notin Jobs
    /\ jobState \in [Jobs -> {"new", "queued", "active", "done", "freed"}]
    /\ cur \in [Workers -> Jobs \cup {None}] /\ pc \in [Workers -> WorkerPCs]
    /\ held \subseteq Kept /\ Kept \subseteq Jobs
  BY ConstantsAssumption DEF JobInv, Inv, TypeOK
<1>1. ASSUME SameWorkers,
             \A j \in Jobs : jobState'[j] = "active" <=> jobState[j] = "active",
             \A j \in Jobs \ Kept : jobState[j] = "done" => jobState'[j] = "done"
      PROVE  WorkerHolds'
  <2>1. \A w \in Workers : cur'[w] = cur[w]
    BY <1>1 DEF SameWorkers
  <2>2. \A w \in Workers : /\ Executing(w)' <=> Executing(w)
                           /\ pc'[w] = "free" <=> pc[w] = "free"
    BY <1>1 DEF SameWorkers
  <2> QED
    BY <1>1, <2>1, <2>2 DEF WorkerHolds
<1>2. CASE JobsKept
  BY <1>1, <1>2 DEF JobsKept
<1>3. ASSUME NEW j \in Jobs, Submitted(j) PROVE WorkerHolds'
  BY <1>1, <1>3 DEF Submitted
<1>4. ASSUME NEW j \in Jobs \cup {None}, Synced(j) PROVE WorkerHolds'
  BY <1>1, <1>4 DEF Synced
<1>5. ASSUME NEW w \in Workers, Began(w) PROVE WorkerHolds'
  <2> DEFINE h == Head(UserQueue).job
  <2>1. 1 \in Places /\ UserQueue[1] \in Entries /\ Head(UserQueue) = UserQueue[1]
    BY <1>5, LineType, TailPlaces DEF Began, LineMoved
  <2>2. h \in Jobs /\ At(1, h)
    BY <1>5, <2>1, EntryFacts DEF Began, QueueHolds, At
  <2>3. jobState[h] = "queued"
    BY <2>1, <2>2 DEF QueueHolds
  <2>4. /\ pc' = [pc EXCEPT ![w] = "do"] /\ cur' = [cur EXCEPT ![w] = h]
        /\ jobState' = [jobState EXCEPT ![h] = "active"]
    BY <1>5 DEF Began
  <2> HIDE DEF h
  <2>5. \A v \in Workers : cur[v] # h
    BY <2>2, <2>3 DEF WorkerHolds
  <2>6. cur[w] = None
    BY <1>5 DEF Began, WorkerHolds
  <2>7. \A v \in Workers : v # w => (Executing(v)' <=> Executing(v))
    BY <2>4 DEF Executing
  <2>8. Executing(w)' /\ pc'[w] # "free"
    BY <2>4 DEF Executing
  <2>9. \A v \in Workers : cur'[v] = IF v = w THEN h ELSE cur[v]
    BY <2>4
  <2>10. \A v \in Workers : v # w => pc'[v] = pc[v]
    BY <2>4
  <2>11. \A j \in Jobs : jobState'[j] = IF j = h THEN "active" ELSE jobState[j]
    BY <2>4
  <2>12. \A v \in Workers : Executing(v)' => cur'[v] \in Jobs /\ jobState'[cur'[v]] = "active"
    BY <2>2, <2>5, <2>7, <2>8, <2>9, <2>11 DEF WorkerHolds
  <2>13. \A v \in Workers : pc'[v] = "free" => cur'[v] \in Jobs \ Kept /\ jobState'[cur'[v]] = "done"
    BY <2>2, <2>5, <2>8, <2>9, <2>10, <2>11 DEF WorkerHolds
  <2>14. \A v \in Workers : ~Executing(v)' /\ pc'[v] # "free" => cur'[v] = None
    BY <2>7, <2>8, <2>9, <2>10 DEF WorkerHolds
  <2>15. \A u, v \in Workers : cur'[u] = cur'[v] /\ cur'[u] # None => u = v
    BY <2>5, <2>9 DEF WorkerHolds
  <2>16. \A j \in Jobs : jobState'[j] = "active" => \E v \in Workers : cur'[v] = j
    BY <2>6, <2>9, <2>11 DEF WorkerHolds
  <2> QED
    BY <2>12, <2>13, <2>14, <2>15, <2>16 DEF WorkerHolds
<1>6. CASE Passed
  BY <1>1, <1>6, PassedIsDone DEF Passed
<1>7. ASSUME NEW w \in Workers, FinishDo(w) PROVE WorkerHolds'
  <2> DEFINE h == cur[w]
  <2>1. Executing(w) /\ h \in Jobs /\ jobState[h] = "active"
    BY <1>7 DEF FinishDo, Executing, WorkerHolds
  <2>2. jobState' = [jobState EXCEPT ![h] = "done"]
    BY <1>7 DEF FinishDo
  <2>3. \/ /\ h \in Kept /\ pc' = [pc EXCEPT ![w] = "start"]
           /\ cur' = [cur EXCEPT ![w] = None]
        \/ h \notin Kept /\ pc' = [pc EXCEPT ![w] = "free"] /\ cur' = cur
    BY <1>7 DEF FinishDo
  <2>4. \A v \in Workers : cur[v] = h => v = w
    BY <2>1 DEF WorkerHolds
  <2> QED
    BY <2>1, <2>2, <2>3, <2>4 DEF WorkerHolds, Executing
<1>8. ASSUME NEW w \in Workers, FreeJob(w) PROVE WorkerHolds'
  <2> DEFINE h == cur[w]
  <2>1. pc[w] = "free" /\ h \in Jobs \ Kept /\ jobState[h] = "done"
    BY <1>8 DEF FreeJob, WorkerHolds
  <2>2. /\ jobState' = [jobState EXCEPT ![h] = "freed"]
        /\ pc' = [pc EXCEPT ![w] = "start"] /\ cur' = [cur EXCEPT ![w] = None]
    BY <1>8 DEF FreeJob
  <2>3. \A v \in Workers : cur[v] = h => v = w
    BY <2>1 DEF WorkerHolds
  <2> QED
    BY <2>1, <2>2, <2>3 DEF WorkerHolds, Executing
<1>9. ASSUME NEW c \in Clients, NEW j \in Jobs, DeleteJob(c, j) PROVE WorkerHolds'
  <2>1. SameWorkers
    BY <1>9 DEF DeleteJob, SameWorkers, Executing
  <2> QED
    BY <1>1, <1>9, <2>1 DEF DeleteJob
<1> QED
  BY <1>2, <1>3, <1>4, <1>5, <1>6, <1>7, <1>8, <1>9 DEF JobMove

\* What clients and synchronisations are to delete stays undeleted, as long as
\* the line keeps its order.
LEMMA ClientHoldsStep ==
    ASSUME Inv, JobInv, JobMove
    PROVE  ClientHolds'
<1> /\ WorkerHolds /\ QueueHolds /\ ClientHolds /\ None \notin Jobs
    /\ jobState \in [Jobs -> {"new", "queued", "active", "done", "freed"}]
    /\ held \subseteq Kept /\ Kept \subseteq Jobs
  BY ConstantsAssumption DEF JobInv, Inv, TypeOK
<1>1. ASSUME UNCHANGED UserQueue, held' \subseteq held,
             \A j \in Kept : Usable(j) => Usable(j)' \/ j \in held \ held'
      PROVE  ClientHolds'
  BY <1>1 DEF ClientHolds, Places, At, Deletes
<1>2. CASE JobsKept
  BY <1>1, <1>2 DEF JobsKept, Usable
<1>3. ASSUME NEW j \in Jobs, Submitted(j) PROVE ClientHolds'
  <2> DEFINE new == Len(UserQueue) + 1
  <2>1. /\ Places' = Places \cup {new} /\ new \notin Places
        /\ \A i \in Places : UserQueue'[i] = UserQueue[i]
        /\ UserQueue'[new] = Plain(j)
    BY <1>3, AppendPlaces DEF Submitted
  <2> HIDE DEF new
  <2>2. ~Usable(j) /\ \A x \in Jobs : Usable(x) => x # j /\ Usable(x)'
    BY <1>3 DEF Submitted, Usable
  <2>3. \A x \in held' : Usable(x)'
    BY <1>3, <2>2 DEF Submitted, Usable, ClientHolds
  <2>4. \A i \in Places', x \in Jobs : Deletes(i, x)' => i \in Places /\ Deletes(i, x)
    BY <2>1, EntryFacts DEF Deletes
  <2>5. \A i \in Places', x \in Jobs : At(i, x)' => x = j \/ (i \in Places /\ At(i, x))
    BY <2>1, EntryFacts DEF At
  <2>6. ASSUME NEW i \in Places', NEW x \in Jobs, Deletes(i, x)'
        PROVE  /\ x \in Kept \ held' /\ Usable(x)'
               /\ \A n \in Places' : At(n, x)' => n < i
    BY <1>3, <2>2, <2>4, <2>5, <2>6 DEF ClientHolds, Submitted
  <2> QED
    BY <2>3, <2>4, <2>6 DEF ClientHolds
<1>4. ASSUME NEW j \in Jobs \cup {None}, Synced(j) PROVE ClientHolds'
  <2> DEFINE new == Len(UserQueue) + 1
  <2>1. /\ Places' = Places \cup {new} /\ new \notin Places
        /\ \A i \in Places : UserQueue'[i] = UserQueue[i] /\ i < new
        /\ UserQueue'[new] = Syncer(j)
    BY <1>4, AppendPlaces DEF Synced
  <2> HIDE DEF new
  <2>2. \A x \in Jobs : Usable(x)' <=> Usable(x)
    BY <1>4 DEF Synced, Usable
  <2>3. \A i \in Places', x \in Jobs :
           Deletes(i, x)' <=> IF i = new THEN x = j ELSE Deletes(i, x)
    BY <2>1, EntryFacts DEF Deletes
  <2>4. \A i \in Places', x \in Jobs : At(i, x)' => i \in Places /\ At(i, x)
    BY <2>1, EntryFacts DEF At
  <2>5. held' = held \ {j} /\ (j \in Jobs => j \in held)
    BY <1>4 DEF Synced
  <2>6. \A x \in held' : Usable(x)'
    BY <2>2, <2>5 DEF ClientHolds
  <2>7. ASSUME NEW i \in Places', NEW x \in Jobs, Deletes(i, x)'
        PROVE  /\ x \in Kept \ held' /\ Usable(x)'
               /\ \A n \in Places' : At(n, x)' => n < i
    <3>1. CASE i = new
      BY <2>1, <2>2, <2>3, <2>4, <2>5, <2>7, <3>1 DEF ClientHolds
    <3>2. CASE i # new
      BY <2>1, <2>2, <2>3, <2>4, <2>5, <2>7, <3>2 DEF ClientHolds
    <3> QED
      BY <3>1, <3>2
  <2>8. ASSUME NEW x \in Jobs, NEW i \in Places', NEW n \in Places', Deletes(i, x)', Deletes(n, x)'
        PROVE  i = n
    BY <2>1, <2>3, <2>5, <2>8 DEF ClientHolds
  <2> QED
    BY <2>6, <2>7, <2>8 DEF ClientHolds
<1>5. ASSUME LineMoved, \A x \in Jobs : Usable(x) => Usable(x)' \/ Deletes(1, x),
             \A x \in held : ~Deletes(1, x)
      PROVE  ClientHolds'
  <2>1. /\ 1 \in Places /\ UserQueue # <<>>
        /\ \A i \in Places' : i + 1 \in Places /\ UserQueue'[i] = UserQueue[i + 1]
        /\ \A i \in Places' : i \in Nat /\ i + 1 # 1
    BY <1>5, TailPlaces, LineType DEF LineMoved, Places
  <2>2. \A i \in Places', x \in Jobs : Deletes(i, x)' => Deletes(i + 1, x)
    BY <2>1 DEF Deletes
  <2>3. \A i \in Places', x \in Jobs : At(i, x)' => At(i + 1, x)
    BY <2>1 DEF At
  <2>4. \A x \in held' : Usable(x)'
    BY <1>5 DEF LineMoved, ClientHolds
  <2>5. ASSUME NEW i \in Places', NEW x \in Jobs, Deletes(i, x)'
        PROVE  /\ x \in Kept \ held' /\ Usable(x)'
               /\ \A n \in Places' : At(n, x)' => n < i
    <3>1. i + 1 \in Places /\ Deletes(i + 1, x) /\ i + 1 # 1
      BY <2>1, <2>2, <2>5
    <3>2. ~Deletes(1, x)
      BY <2>1, <3>1 DEF ClientHolds
    <3>3. x \in Kept \ held /\ Usable(x)
      BY <3>1 DEF ClientHolds
    <3>4. ASSUME NEW n \in Places', At(n, x)' PROVE n < i
      <4>1. n + 1 \in Places /\ At(n + 1, x) /\ n \in Nat /\ i \in Nat
        BY <2>1, <2>3, <3>4
      <4>2. n + 1 < i + 1
        BY <3>1, <4>1 DEF ClientHolds
      <4> QED
        BY <4>1, <4>2
    <3> QED
      BY <1>5, <3>2, <3>3, <3>4 DEF LineMoved
  <2>6. ASSUME NEW x \in Jobs, NEW i \in Places', NEW n \in Places', Deletes(i, x)', Deletes(n, x)'
        PROVE  i = n
    <3>1. i + 1 = n + 1
      BY <2>1, <2>2, <2>6 DEF ClientHolds
    <3> QED
      BY <2>1, <3>1
  <2> QED
    BY <2>4, <2>5, <2>6 DEF ClientHolds
<1>6. ASSUME NEW w \in Workers, Began(w) PROVE ClientHolds'
  <2>1. 1 \in Places /\ Head(UserQueue) = UserQueue[1] /\ LineMoved
    BY <1>6, LineType, TailPlaces DEF Began, LineMoved
  <2>2. \A x \in Jobs : ~Deletes(1, x)
    BY <1>6, <2>1, EntryFacts DEF Began, Deletes
  <2>3. \A x \in Jobs : Usable(x) => Usable(x)'
    BY <1>6 DEF Began, Usable
  <2> QED
    BY <1>5, <2>1, <2>2, <2>3
<1>7. CASE Passed
  <2>1. LineMoved /\ 1 \in Places /\ Head(UserQueue) = UserQueue[1]
    BY <1>7, TailPlaces DEF Passed, LineMoved
  <2>2. \A x \in Jobs : Deletes(1, x) => x = Head(UserQueue).job
    BY <2>1, EntryFacts DEF Deletes
  <2>3. \A x \in held : ~Deletes(1, x)
    BY <1>7, <2>2, PassedIsDone
  <2>4. \A x \in Jobs : Usable(x) => Usable(x)' \/ Deletes(1, x)
    BY <1>7, PassedIsDone DEF Passed, Usable
  <2> QED
    BY <1>5, <2>1, <2>3, <2>4
<1>8. ASSUME NEW w \in Workers, FinishDo(w), UNCHANGED UserQueue PROVE ClientHolds'
  <2>1. \A x \in Jobs : Usable(x) => Usable(x)'
    BY <1>8 DEF FinishDo, Usable
  <2>2. held' = held
    BY <1>8 DEF FinishDo
  <2> QED
    BY <1>1, <1>8, <2>1, <2>2
<1>9. ASSUME NEW w \in Workers, FreeJob(w), UNCHANGED UserQueue PROVE ClientHolds'
  <2>1. cur[w] \in Jobs \ Kept
    BY <1>9 DEF FreeJob, WorkerHolds
  <2>2. \A x \in Kept : Usable(x) => Usable(x)'
    BY <1>9, <2>1 DEF FreeJob, Usable
  <2>3. held' = held
    BY <1>9 DEF FreeJob
  <2> QED
    BY <1>1, <1>9, <2>2, <2>3
<1>10. ASSUME NEW c \in Clients, NEW j \in Jobs, DeleteJob(c, j), UNCHANGED UserQueue
       PROVE  ClientHolds'
  <2>1. j \in held /\ held' = held \ {j}
    BY <1>10 DEF DeleteJob
  <2>2. \A x \in Kept : Usable(x) => Usable(x)' \/ x = j
    BY <1>10 DEF DeleteJob, Usable
  <2> QED
    BY <1>1, <1>10, <2>1, <2>2
<1> QED
  BY <1>2, <1>3, <1>4, <1>6, <1>7, <1>8, <1>9, <1>10 DEF JobMove

LEMMA JobInvInit ==
    ASSUME Init
    PROVE  JobInv
<1>1. UserQueue = <<>>
  BY DEF Init, UserQueue
<1>2. Places = {}
  BY <1>1 DEF Places
<1> QED
  BY <1>2, ConstantsAssumption DEF Init, JobInv, QueueHolds, WorkerHolds, ClientHolds, Executing

\* JobInv is inductive, relative to what is known of the pool.
LEMMA JobInvStep ==
    ASSUME Inv, Barrier, JobInv, [Next]_vars
    PROVE  JobInv'
BY JobMoves, QueueHoldsStep, WorkerHoldsStep, ClientHoldsStep DEF JobInv

LEMMA JobInvHolds == ShutdownOnlyIdle => (Spec => [](Inv /\ Barrier /\ JobInv))
<1> SUFFICES ASSUME ShutdownOnlyIdle PROVE Spec => [](Inv /\ Barrier /\ JobInv)
  OBVIOUS
<1>1. Init => Inv /\ Barrier /\ JobInv
  BY InitInv, JobInvInit DEF Init, Barrier, JoinOverSync, NextIsSync
<1>2. (Inv /\ Barrier /\ JobInv) /\ [Next]_vars => (Inv /\ Barrier /\ JobInv)'
  BY InvStep, BarrierStep, JobInvStep
<1> QED
  BY <1>1, <1>2, PTL DEF Spec

-----------------------------------------------------------------------------
(* What follows.                                                            *)

\* Places in the queue are those in the line, moved by an internal job.
LEMMA QueuePlaces ==
    ASSUME Inv, NEW j \in Jobs
    PROVE  \E d \in {0, 1} : /\ \A i \in Queued(j) : i - d \in Places /\ At(i - d, j)
                             /\ \A i \in Places : At(i, j) => i + d \in Queued(j)
<1>1. queue \in Seq(Entries) /\ Len(queue) \in Nat
  BY DEF Inv, TypeOK
<1>2. CASE queue # <<>> /\ Head(queue).kind \in {"join", "stop"}
  <2>1. /\ UserQueue = Tail(queue) /\ Len(Tail(queue)) = Len(queue) - 1
        /\ \A i \in 1..Len(Tail(queue)) : Tail(queue)[i] = queue[i + 1]
        /\ Head(queue) = queue[1]
    BY <1>1, <1>2, HeadTailProperties DEF UserQueue
  <2>2. 1 \notin Queued(j)
    BY <1>2, <2>1, EntryFacts DEF Queued
  <2>3. \A i \in Queued(j) : i - 1 \in Places /\ At(i - 1, j)
    <3>1. \A i \in Queued(j) : i \in Nat /\ i - 1 \in 1..Len(Tail(queue)) /\ (i - 1) + 1 = i
      BY <1>1, <2>1, <2>2 DEF Queued
    <3> QED
      BY <2>1, <3>1 DEF Queued, Places, At
  <2>4. \A i \in Places : At(i, j) => i + 1 \in Queued(j)
    BY <1>1, <2>1 DEF Queued, Places, At
  <2> QED
    BY <2>3, <2>4
<1>3. CASE ~(queue # <<>> /\ Head(queue).kind \in {"join", "stop"})
  <2>1. UserQueue = queue
    BY <1>3 DEF UserQueue
  <2>2. \A i \in Queued(j) : i - 0 \in Places /\ At(i - 0, j)
    BY <1>1, <2>1 DEF Queued, Places, At
  <2>3. \A i \in Places : At(i, j) => i + 0 \in Queued(j)
    BY <1>1, <2>1 DEF Queued, Places, At
  <2> QED
    BY <2>2, <2>3
<1> QED
  BY <1>2, <1>3

\* A queued job is queued once, others are not.
LEMMA QueuedOnce ==
    ASSUME Inv, JobInv, NEW j \in Jobs
    PROVE  Cardinality(Queued(j)) = IF jobState[j] = "queued" THEN 1 ELSE 0
<1>1. PICK d \in {0, 1} : /\ \A i \in Queued(j) : i - d \in Places /\ At(i - d, j)
                          /\ \A i \in Places : At(i, j) => i + d \in Queued(j)
  BY QueuePlaces
<1>2. CASE jobState[j] = "queued"
  <2>1. PICK i \in Places : At(i, j)
    BY <1>2 DEF JobInv, QueueHolds
  <2>2. \A n \in Queued(j) : n \in Int /\ n - d = i
    BY <1>1, <2>1 DEF JobInv, QueueHolds, Queued
  <2>3. Queued(j) = {i + d}
    BY <1>1, <2>1, <2>2 DEF Places
  <2> QED
    BY <1>2, <2>3, FS_Singleton
<1>3. CASE jobState[j] # "queued"
  <2>1. Queued(j) = {}
    BY <1>1, <1>3 DEF JobInv, QueueHolds
  <2> QED
    BY <1>3, <2>1, FS_EmptySet
<1> QED
  BY <1>2, <1>3

\* No job object is used after it was deleted, neither by a worker nor by
\* Schedule's caller nor through a synchronisation: no queued or running job
\* is ever deleted.
THEOREM JobsAliveHolds == ShutdownOnlyIdle => (Spec => []JobsAlive)
<1>1. ASSUME Inv, JobInv PROVE JobsAlive
  BY <1>1, QueuedOnce DEF JobsAlive, JobInv, WorkerHolds, Executing
<1>2. Inv /\ Barrier /\ JobInv => JobsAlive
  BY <1>1
<1> QED
  BY <1>2, JobInvHolds, PTL

\* Each step of the pool is one of the abstract pool, or none.
LEMMA AbstractStep ==
    ASSUME Inv, Barrier, JobInv, [Next]_vars
    PROVE  [Abstract!Next]_(Abstract!jobPoolVars)
<1> USE DEF Abstract!Next, Abstract!jobPoolVars
<1> /\ WorkerHolds /\ QueueHolds /\ ClientHolds /\ None \notin Jobs
    /\ jobState \in [Jobs -> {"new", "queued", "active", "done", "freed"}]
    /\ cur \in [Workers -> Jobs \cup {None}]
  BY ConstantsAssumption DEF JobInv, Inv, TypeOK
<1>1. CASE JobsKept
  BY <1>1 DEF JobsKept, RunningJobs, ExecutedJobs
<1>2. ASSUME NEW j \in Jobs, Submitted(j) PROVE Abstract!Submit(j)
  <2>1. RunningJobs' = RunningJobs /\ ExecutedJobs' = ExecutedJobs
        /\ j \notin RunningJobs \cup ExecutedJobs
    BY <1>2 DEF Submitted, RunningJobs, ExecutedJobs
  <2>2. ~Abstract!Waiting(j)
    BY <1>2 DEF Submitted, QueueHolds, Abstract!Waiting, At, Plain, Places
  <2> QED
    BY <1>2, <2>1, <2>2 DEF Submitted, Plain, Abstract!Submit, Abstract!Begun
<1>3. ASSUME NEW j \in Jobs \cup {None}, Synced(j) PROVE Abstract!Synchronize(j)
  BY <1>3 DEF Synced, Syncer, Abstract!Synchronize, RunningJobs, ExecutedJobs
<1>4. ASSUME LineMoved
      PROVE  /\ UserQueue[1] = Head(UserQueue) /\ Head(UserQueue) \in Entries
             /\ 1 \in Places
  BY <1>4, LineType, TailPlaces DEF LineMoved
<1>5. ASSUME NEW w \in Workers, Began(w) PROVE \E j \in Jobs : Abstract!Begin(j)
  <2> DEFINE h == Head(UserQueue).job
  <2>1. LineMoved /\ Head(UserQueue).kind = "job"
    BY <1>5 DEF Began
  <2>2. Head(UserQueue) = Plain(h) /\ h \in Jobs /\ At(1, h)
    BY <1>4, <2>1, EntryFacts DEF QueueHolds, At
  <2>3. jobState[h] = "queued" /\ jobState' = [jobState EXCEPT ![h] = "active"]
    BY <1>4, <1>5, <2>1, <2>2 DEF QueueHolds, Began
  <2> HIDE DEF h
  <2>4. RunningJobs' = RunningJobs \cup {h} /\ ExecutedJobs' = ExecutedJobs
    BY <2>2, <2>3 DEF RunningJobs, ExecutedJobs
  <2>5. Abstract!Begin(h)
    BY <2>1, <2>2, <2>4 DEF Abstract!Begin, LineMoved, Plain
  <2> QED
    BY <2>2, <2>5
<1>6. CASE Passed
  <2> DEFINE h == Head(UserQueue).job
  <2>1. LineMoved /\ h \in Jobs \cup {None}
    BY <1>4, <1>6 DEF Passed, Entries
  <2>2. h \in Jobs => jobState[h] = "done"
    BY <1>6, PassedIsDone
  <2>3. \A j \in Jobs : jobState[j] # "active"
    BY <1>6 DEF Passed, WorkerHolds
  <2>4. jobState' = [j \in Jobs |-> IF j = h THEN "freed" ELSE jobState[j]]
    BY <1>6 DEF Passed
  <2>5. /\ RunningJobs = {} /\ RunningJobs' = {} /\ ExecutedJobs' = ExecutedJobs
        /\ h \in ExecutedJobs \cup {None}
    BY <2>1, <2>2, <2>3, <2>4 DEF RunningJobs, ExecutedJobs
  <2>6. Abstract!Pass
    BY <1>6, <2>1, <2>5 DEF Passed, LineMoved, Abstract!Pass
  <2> QED
    BY <2>6
<1>7. ASSUME NEW w \in Workers, FinishDo(w), UNCHANGED UserQueue
      PROVE  \E j \in Jobs : Abstract!Finish(j)
  <2>1. cur[w] \in Jobs /\ jobState[cur[w]] = "active"
    BY <1>7 DEF FinishDo, WorkerHolds, Executing
  <2>2. jobState' = [jobState EXCEPT ![cur[w]] = "done"]
    BY <1>7 DEF FinishDo
  <2>3. /\ cur[w] \in RunningJobs /\ RunningJobs' = RunningJobs \ {cur[w]}
        /\ ExecutedJobs' = ExecutedJobs \cup {cur[w]}
    BY <2>1, <2>2 DEF RunningJobs, ExecutedJobs
  <2> QED
    BY <1>7, <2>1, <2>3 DEF Abstract!Finish
<1>8. ASSUME NEW j \in Jobs, jobState[j] = "done", jobState' = [jobState EXCEPT ![j] = "freed"],
             UNCHANGED UserQueue
      PROVE  UNCHANGED Abstract!jobPoolVars
  BY <1>8 DEF RunningJobs, ExecutedJobs
<1>9. ASSUME NEW w \in Workers, FreeJob(w), UNCHANGED UserQueue
      PROVE  UNCHANGED Abstract!jobPoolVars
  <2>1. cur[w] \in Jobs /\ jobState[cur[w]] = "done"
    BY <1>9 DEF FreeJob, WorkerHolds
  <2> QED
    BY <1>8, <1>9, <2>1 DEF FreeJob
<1>10. ASSUME NEW c \in Clients, NEW j \in Jobs, DeleteJob(c, j), UNCHANGED UserQueue
       PROVE  UNCHANGED Abstract!jobPoolVars
  BY <1>8, <1>10 DEF DeleteJob
<1> QED
  BY <1>1, <1>2, <1>3, <1>5, <1>6, <1>7, <1>9, <1>10, JobMoves DEF JobMove

\* The pool of threads behaves like one queue that is served in order: whatever
\* the threads, the strategy, JOB_JOIN and JOB_STOP do, jobs are begun first
\* come first served, each once, and a synchronisation is passed when all
\* before it have been executed.
THEOREM ThreadPoolImplements == ShutdownOnlyIdle => (Spec => ImplementsJobPool)
<1>1. Init => Abstract!Init
  BY DEF Init, Abstract!Init, UserQueue, RunningJobs, ExecutedJobs
<1>2. (Inv /\ Barrier /\ JobInv) /\ [Next]_vars => [Abstract!Next]_(Abstract!jobPoolVars)
  BY AbstractStep
<1> QED
  BY <1>1, <1>2, JobInvHolds, PTL DEF Spec, ImplementsJobPool, Abstract!Spec

-----------------------------------------------------------------------------
(* WaitForAllIdle, for one client and jobs that schedule no jobs.           *)

OnlyClient == (\A c, d \in Clients : c = d) /\ Chained = {}

\* A job that nobody kept is deleted by the worker that executed it.
DoneIsFreed ==
    \A j \in Jobs \ Kept : jobState[j] = "done" => \E w \in Workers : pc[w] = "free" /\ cur[w] = j

\* From the moment on where no job was open, the queue stays empty, workers
\* only become idle, and so none leaves and none is created.
Reading == {"waitFirst", "waitWorkers", "waitIdle"}
CountersRead ==
    \A c \in Clients : cpc[c] \in Reading =>
        /\ queue = <<>>
        /\ cpc[c] = "waitWorkers" => seen[c] <= ctdIdle
        /\ cpc[c] = "waitIdle" => seen[c] = ctdWorkers

WaitInv == DoneIsFreed /\ CountersRead

LEMMA DoneIsFreedStep ==
    ASSUME Inv, JobInv, DoneIsFreed, [Next]_vars PROVE DoneIsFreed'
<1> SUFFICES ASSUME NEW j \in Jobs \ Kept, jobState'[j] = "done"
             PROVE  \E w \in Workers : pc'[w] = "free" /\ cur'[w] = j
  BY DEF DoneIsFreed
<1> USE DEF Inv, TypeOK
<1>1. ASSUME jobState[j] = "done", NEW w \in Workers, pc[w] = "free", cur[w] = j,
             pc'[w] = pc[w], cur'[w] = cur[w]
      PROVE  \E v \in Workers : pc'[v] = "free" /\ cur'[v] = j
  BY <1>1
<1>2. jobState[j] = "done" => \E w \in Workers : pc[w] = "free" /\ cur[w] = j
  BY DEF DoneIsFreed
<1>3. CASE UNCHANGED vars
  BY <1>2, <1>3 DEF vars, poolVars, userVars, jobVars
<1>4. ASSUME UNCHANGED <<cur, jobState>>,
             \A w \in Workers : pc[w] = "free" => pc'[w] = "free"
      PROVE  \E v \in Workers : pc'[v] = "free" /\ cur'[v] = j
  BY <1>2, <1>4
<1>5. ASSUME NEW w \in Workers, WorkerStep(w) \/ Spurious(w) \/ \E k \in Jobs : ScheduleFromJob(w, k)
      PROVE  \E v \in Workers : pc'[v] = "free" /\ cur'[v] = j
  <2>1. CASE Start(w) \/ GoOn(w) \/ Sleep(w) \/ Wake(w) \/ Spurious(w)
    BY <2>1, <1>4 DEF Start, GoOn, Sleep, Wake, Spurious, userVars, jobVars
  <2>2. CASE JoinLeaver(w) \/ TakeStop(w)
    BY <2>2, <1>4 DEF JoinLeaver, TakeStop, userVars, jobVars
  <2>3. CASE Leave(w)
    BY <2>3, <1>4 DEF Leave, AtResize, userVars, jobVars
  <2>4. CASE Grow(w)
    <3>1. PICK new \in Workers : addThread(new) /\ pc' = [pc EXCEPT ![w] = "again", ![new] = "start"]
      BY <2>4 DEF Grow
    <3>2. pc[new] = "none" /\ pc[w] # "free"
      BY <2>4, <3>1 DEF addThread, Grow, AtResize
    <3> QED BY <2>4, <3>1, <3>2, <1>4 DEF Grow, userVars, jobVars
  <2>5. CASE NotifyAgain(w) \/ Exit(w)
    BY <2>5, <1>4 DEF NotifyAgain, Exit, NotifyAll, userVars, jobVars
  <2>6. CASE SignalFromJob(w)
    BY <2>6, <1>4 DEF SignalFromJob, NotifyOne, userVars, jobVars
  <2>7. CASE TakeJob(w) \/ TakeSync(w)
    <3>1. jobState[j] = "done" /\ pc[w] # "free"
      BY <2>7 DEF TakeJob, TakeSync, AtResize
    <3>2. PICK v \in Workers : pc[v] = "free" /\ cur[v] = j
      BY <3>1, <1>2
    <3> QED BY <2>7, <3>1, <3>2 DEF TakeJob, TakeSync
  <2>8. CASE FinishDo(w)
    <3>1. cur[w] \in Jobs
      BY <2>8 DEF FinishDo, JobInv, WorkerHolds, Executing
    <3>2. CASE cur[w] = j
      BY <2>8, <3>2 DEF FinishDo
    <3>3. CASE cur[w] # j
      <4>1. jobState[j] = "done"
        BY <2>8, <3>1, <3>3 DEF FinishDo
      <4>2. PICK v \in Workers : pc[v] = "free" /\ cur[v] = j
        BY <4>1, <1>2
      <4> QED BY <2>8, <4>2 DEF FinishDo
    <3> QED BY <3>2, <3>3
  <2>9. CASE FreeJob(w)
    <3>1. cur[w] # j /\ jobState[j] = "done"
      BY <2>9 DEF FreeJob
    <3>2. PICK v \in Workers : pc[v] = "free" /\ cur[v] = j
      BY <3>1, <1>2
    <3> QED BY <2>9, <3>1, <3>2 DEF FreeJob
  <2>10. ASSUME NEW k \in Jobs, ScheduleFromJob(w, k)
         PROVE  \E v \in Workers : pc'[v] = "free" /\ cur'[v] = j
    BY <2>10, <1>2 DEF ScheduleFromJob, clientVars
  <2> QED BY <1>5, <2>1, <2>2, <2>3, <2>4, <2>5, <2>6, <2>7, <2>8, <2>9, <2>10 DEF WorkerStep
<1>6. ASSUME NEW c \in Clients, CallInProgress(c) \/ Call(c)
      PROVE  \E v \in Workers : pc'[v] = "free" /\ cur'[v] = j
  <2>1. ASSUME NEW k \in Jobs, Schedule(c, k) \/ DeleteJob(c, k)
        PROVE  \E v \in Workers : pc'[v] = "free" /\ cur'[v] = j
    <3>1. jobState[j] = "done" /\ cur' = cur
      BY <2>1 DEF Schedule, DeleteJob
    <3>2. \A v \in Workers : pc[v] = "free" => pc'[v] = "free"
      BY <2>1 DEF Schedule, DeleteJob, schedule, addThread
    <3> QED BY <3>1, <3>2, <1>2
  <2>2. ASSUME NEW k \in Jobs \cup {None}, Sync(c, k)
        PROVE  \E v \in Workers : pc'[v] = "free" /\ cur'[v] = j
    <3>1. UNCHANGED <<cur, jobState>>
      BY <2>2 DEF Sync
    <3>2. \A v \in Workers : pc[v] = "free" => pc'[v] = "free"
      BY <2>2 DEF Sync, schedule, addThread
    <3> QED BY <3>1, <3>2, <1>4
  <2>3. CASE Signal(c) \/ StopSignal(c)
    BY <2>3, <1>4 DEF Signal, StopSignal, NotifyOne, jobVars
  <2>4. CASE \/ ReadOpenJobs(c) \/ ReadOneCounter(c) \/ ReadOtherCounter(c) \/ LookAgain(c)
             \/ WaitForAllIdle(c) \/ Timeout(c)
    BY <2>4, <1>4 DEF ReadOpenJobs, ReadOneCounter, ReadOtherCounter, LookAgain, WaitForAllIdle,
       Timeout, jobVars
  <2>5. CASE StopPush(c) \/ StopPoll(c) \/ StopJoin(c) \/ Shutdown(c)
    BY <2>5, <1>4 DEF StopPush, StopPoll, StopJoin, Shutdown, jobVars
  <2>6. ASSUME NEW n \in MaxChoices, SetWorkersMax(c, n)
        PROVE  \E v \in Workers : pc'[v] = "free" /\ cur'[v] = j
    BY <2>6, <1>4 DEF SetWorkersMax, userVars, jobVars
  <2> QED BY <1>6, <2>1, <2>2, <2>3, <2>4, <2>5, <2>6 DEF CallInProgress, Call
<1>7. CASE Tick
  BY <1>7, <1>4 DEF Tick, userVars, jobVars
<1> QED BY <1>3, <1>5, <1>6, <1>7 DEF Next

\* While the client reads, no worker is at a place where it changes the pool.
LEMMA NobodyResizes ==
    ASSUME Inv, CountersRead, OnlyClient, NEW c \in Clients, cpc[c] \in Reading, NEW w \in Workers
    PROVE  pc[w] \notin {"woken", "resize"}
<1>1. queue = <<>>
  BY DEF CountersRead
<1>2. ~Closing
  BY DEF Closing, OnlyClient, Reading
<1> QED BY <1>1, <1>2 DEF Inv, QueueShape, WokenHasEntry, ResizeHasWork

LEMMA CountersReadStep ==
    ASSUME Inv, CountersRead, OnlyClient, [Next]_vars PROVE CountersRead'
<1> SUFFICES ASSUME NEW c \in Clients, cpc'[c] \in Reading
             PROVE  /\ queue' = <<>>
                    /\ cpc'[c] = "waitWorkers" => seen'[c] <= ctdIdle'
                    /\ cpc'[c] = "waitIdle" => seen'[c] = ctdWorkers'
  BY DEF CountersRead
<1> DEFINE Goal == /\ queue' = <<>>
                   /\ cpc'[c] = "waitWorkers" => seen'[c] <= ctdIdle'
                   /\ cpc'[c] = "waitIdle" => seen'[c] = ctdWorkers'
<1>1. ctdIdle \in Nat /\ ctdWorkers \in Nat /\ seen[c] \in Nat
  BY DEF Inv, TypeOK
<1>2. ASSUME UNCHANGED <<cpc, seen, queue, ctdWorkers>>, ctdIdle' = ctdIdle \/ ctdIdle' = ctdIdle + 1
      PROVE  Goal
  BY <1>1, <1>2 DEF CountersRead
<1>3. CASE UNCHANGED vars
  BY <1>2, <1>3 DEF vars, poolVars, queueVars, sizeVars, userVars, clientVars
<1>4. ASSUME NEW w \in Workers, WorkerStep(w) \/ Spurious(w) \/ \E k \in Jobs : ScheduleFromJob(w, k)
      PROVE  Goal
  <2>1. cpc' = cpc /\ seen' = seen
    BY <1>4 DEF WorkerStep, Start, GoOn, Sleep, Wake, JoinLeaver, TakeStop, Leave, Grow, TakeJob, TakeSync,
       NotifyAgain, Exit, FinishDo, FreeJob, SignalFromJob, Spurious, ScheduleFromJob, userVars, clientVars
  <2>2. pc[w] \notin {"woken", "resize"} /\ queue = <<>>
    BY <2>1, NobodyResizes DEF CountersRead
  <2>3. CASE Start(w)
    BY <2>1, <2>3, <1>2 DEF Start, poolVars, queueVars, sizeVars
  <2>4. CASE GoOn(w)
    BY <2>2, <2>4 DEF GoOn, isConditionMet
  <2>5. CASE Sleep(w) \/ Wake(w) \/ Spurious(w)
    BY <2>1, <2>5, <1>2 DEF Sleep, Wake, Spurious, poolVars, queueVars, sizeVars
  <2>6. CASE JoinLeaver(w) \/ TakeStop(w)
    BY <2>2, <2>6 DEF JoinLeaver, TakeStop
  <2>7. CASE Leave(w) \/ Grow(w) \/ TakeJob(w) \/ TakeSync(w)
    BY <2>2, <2>7 DEF Leave, Grow, TakeJob, TakeSync, AtResize
  <2>8. CASE NotifyAgain(w) \/ Exit(w)
    BY <2>1, <2>8, <1>2 DEF NotifyAgain, Exit, poolVars, queueVars, sizeVars
  <2>9. CASE FinishDo(w) \/ FreeJob(w) \/ SignalFromJob(w)
    BY <2>1, <2>9, <1>2 DEF FinishDo, FreeJob, SignalFromJob, poolVars, queueVars, sizeVars
  <2>10. ~\E k \in Jobs : ScheduleFromJob(w, k)
    BY DEF ScheduleFromJob, OnlyClient
  <2> QED BY <1>4, <2>3, <2>4, <2>5, <2>6, <2>7, <2>8, <2>9, <2>10 DEF WorkerStep
<1>5. ASSUME NEW d \in Clients, CallInProgress(d) \/ Call(d) PROVE Goal
  <2>0. d = c
    BY DEF OnlyClient
  <2> USE <2>0 DEF Reading, Inv, TypeOK
  <2>1. CASE ReadOpenJobs(d)
    <3>1. cpc'[c] = "waitFirst" /\ ctdOpenJobs = 0 /\ queue' = queue
      BY <2>1 DEF ReadOpenJobs, poolVars, queueVars
    <3>2. queue \in Seq(Entries) /\ Len(queue) = 0
      BY <3>1 DEF CountersConsistent
    <3>3. queue = <<>>
      BY <3>2, EmptySeq
    <3> QED BY <3>1, <3>3
  <2>2. CASE ReadOneCounter(d)
    <3>1. cpc[c] = "waitFirst" /\ queue' = queue /\ ctdIdle' = ctdIdle /\ ctdWorkers' = ctdWorkers
          /\ \/ seen'[c] = ctdIdle /\ cpc'[c] = "waitWorkers"
             \/ seen'[c] = ctdWorkers /\ cpc'[c] = "waitIdle"
      BY <2>2 DEF ReadOneCounter, poolVars, queueVars, sizeVars
    <3> QED BY <3>1, <1>1 DEF CountersRead
  <2>3. CASE \/ ReadOtherCounter(d) \/ LookAgain(d) \/ WaitForAllIdle(d) \/ Timeout(d)
             \/ Signal(d) \/ StopPush(d) \/ StopSignal(d) \/ StopPoll(d) \/ StopJoin(d) \/ Shutdown(d)
    <3>1. cpc'[c] \notin Reading
      BY <2>3 DEF ReadOtherCounter, LookAgain, WaitForAllIdle, Timeout, Signal, StopPush, StopSignal,
         StopPoll, StopJoin, Shutdown
    <3> QED BY <3>1
  <2>4. ASSUME NEW k \in Jobs \cup {None},
               (k \in Jobs /\ (Schedule(d, k) \/ DeleteJob(d, k))) \/ Sync(d, k)
        PROVE  Goal
    <3>1. cpc'[c] \notin Reading
      BY <2>4 DEF Schedule, DeleteJob, Sync, clientVars
    <3> QED BY <3>1
  <2>5. ASSUME NEW n \in MaxChoices, SetWorkersMax(d, n) PROVE Goal
    <3>1. cpc'[c] \notin Reading
      BY <2>5 DEF SetWorkersMax, userVars, clientVars
    <3> QED BY <3>1
  <2> QED BY <1>5, <2>1, <2>2, <2>3, <2>4, <2>5 DEF CallInProgress, Call
<1>6. CASE Tick
  BY <1>6, <1>2 DEF Tick, queueVars, sizeVars, userVars, clientVars
<1> QED BY <1>3, <1>4, <1>5, <1>6 DEF Next

\* What the client concludes from its three reads.
LEMMA NothingIsLeft ==
    ASSUME Inv, JobInv, WaitInv, OnlyClient, NEW c \in Clients, ReadOtherCounter(c), cpc'[c] = "ready",
           NEW j \in Jobs
    PROVE  jobState[j] \in {"new", "freed"} \cup IF j \in Kept THEN {"done"} ELSE {}
<1>1. cpc[c] \in {"waitWorkers", "waitIdle"} /\ cpc[c] \in Reading
      /\ seen[c] = IF cpc[c] = "waitWorkers" THEN ctdWorkers ELSE ctdIdle
  BY DEF ReadOtherCounter, Reading, Inv, TypeOK
<1>2. queue = <<>> /\ ctdIdle \in Nat /\ ctdWorkers \in Nat /\ ~(ctdIdle < ctdWorkers)
  BY <1>1 DEF WaitInv, CountersRead, Inv, TypeOK
<1>3. \A w \in Workers : pc[w] \notin {"do", "signal", "free"}
  BY <1>2, NotAllIdle DEF Idling
<1>4. jobState[j] # "queued"
  <2>1. UserQueue = <<>>
    BY <1>2 DEF UserQueue
  <2>2. Places = {}
    BY <2>1 DEF Places
  <2> QED BY <2>2 DEF JobInv, QueueHolds
<1>5. jobState[j] # "active"
  <2>1. \A w \in Workers : cur[w] = None
    BY <1>3 DEF JobInv, WorkerHolds, Executing
  <2> QED BY <2>1, ConstantsAssumption DEF JobInv, WorkerHolds
<1>6. j \notin Kept => jobState[j] # "done"
  BY <1>3 DEF WaitInv, DoneIsFreed
<1>7. jobState[j] \in {"new", "queued", "active", "done", "freed"}
  BY DEF Inv, TypeOK
<1> QED BY <1>4, <1>5, <1>6, <1>7

\* WaitForAllIdle is right although it reads the three counters one by one and
\* without the mutex: when it returns true to the only client, every job
\* scheduled so far has been executed, and deleted if nobody kept it.
THEOREM WaitForAllIdleIsAlwaysSound ==
    ShutdownOnlyIdle /\ OnlyClient => (Spec => WaitForAllIdleIsSound)
<1> SUFFICES ASSUME ShutdownOnlyIdle, OnlyClient PROVE Spec => WaitForAllIdleIsSound
  OBVIOUS
<1>1. Init => WaitInv
  BY DEF Init, WaitInv, DoneIsFreed, CountersRead, Reading
<1>2. (Inv /\ Barrier /\ JobInv) /\ WaitInv /\ [Next]_vars => WaitInv'
  BY DoneIsFreedStep, CountersReadStep DEF WaitInv
<1>3. (Inv /\ Barrier /\ JobInv) /\ WaitInv /\ [Next]_vars =>
        [\A c \in Clients :
            ReadOtherCounter(c) /\ cpc'[c] = "ready" =>
                \A j \in Jobs : jobState[j] \in {"new", "freed"} \cup
                                                IF j \in Kept THEN {"done"} ELSE {}]_vars
  BY NothingIsLeft
<1> QED BY <1>1, <1>2, <1>3, JobInvHolds, PTL DEF Spec, WaitForAllIdleIsSound
=============================================================================
