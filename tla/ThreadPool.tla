----------------------------- MODULE ThreadPool -----------------------------
(***************************************************************************)
(* alib::threadmodel::ThreadPool: clients schedule jobs into a queue, and   *)
(* worker threads take them.  The pool grows and shrinks by itself while it *)
(* works, a leaving worker is joined by the next one that wakes up, and     *)
(* synchronisation jobs act as barriers.                                    *)
(*                                                                         *)
(* The mutex and the condition variable of the base class TCondition are    *)
(* explicit: whatever happens between acquiring and releasing the mutex is  *)
(* one step only where no thread can look at the fields in between.         *)
(* WaitForAllIdle and Shutdown do look, because they read the counters      *)
(* without the mutex.                                                       *)
(*                                                                         *)
(* The head of the sequence `queue' is the back() of the C++ list, the      *)
(* entry taken next.                                                        *)
(***************************************************************************)
EXTENDS Integers, Sequences, FiniteSets

CONSTANTS
    Clients,            \* threads that use the pool from outside
    Workers,            \* the PoolWorker objects this pool may create
    Threads,            \* the PoolWorker objects of all pools of the process
    Jobs,               \* the jobs, each scheduled at most once
    Kept,               \* those passed to Schedule, the others to ScheduleVoid
    Chained,            \* those scheduled by another job from within Do()
    None,
    Mode,               \* ResizeStrategy::Modes
    InitialMax,         \* ResizeStrategy::WorkersMax at start
    MaxChoices,         \* values clients write to WorkersMax while it runs
    WorkersMin, IncreaseThreshold, DecreaseThreshold,
    IncreaseSchedule, DecreaseSchedule,   \* 0: no delay, 1: some time
    MaxScheduled,       \* bound: number of schedule() calls
    ShutdownOnlyIdle    \* debug builds assert that Shutdown finds no open job
                        \* and that none is scheduled once it began

ASSUME ConstantsAssumption ==
    /\ IsFiniteSet(Workers) /\ Workers \subseteq Threads
    /\ Kept \subseteq Jobs /\ Chained \subseteq Jobs
    /\ None \notin Threads \cup Jobs \cup Clients
    /\ Threads \cap Clients = {}
    /\ Mode \in {"Fixed", "Auto"}
    /\ InitialMax \in Nat /\ MaxChoices \subseteq Nat
    /\ WorkersMin \in Nat /\ IncreaseThreshold \in Nat /\ DecreaseThreshold \in Nat
    /\ IncreaseSchedule \in 0..1 /\ DecreaseSchedule \in 0..1
    /\ MaxScheduled \in Nat
    /\ ShutdownOnlyIdle \in BOOLEAN

VARIABLES
    mutex,                  \* the thread that holds TCondition::mutex
    queue, ctdOpenJobs, ctdStatJobsScheduled,
    workers, ctdWorkers, ctdIdle, lastThreadToJoin,
    workerToJoin,           \* of JOB_JOIN, one object for all pools
    thread,                 \* life of the Thread objects, of all pools
    WorkersMax,             \* of Strategy, the one parameter that changes
    age,                    \* of timeOfLastSizeChange
    pc, cur,                \* where each worker is, and the job it runs
    cpc, seen,          \* where each client is, and the counter it read
    jobState, held          \* life of the jobs; those clients must delete

queueVars == <<queue, ctdOpenJobs, ctdStatJobsScheduled>>
sizeVars == <<workers, ctdWorkers, lastThreadToJoin, thread>>
tuning == <<WorkersMax, age>>
clientVars == <<cpc, seen>>
jobVars == <<jobState, held>>
poolVars == <<queueVars, sizeVars, workerToJoin, tuning>>
userVars == <<clientVars, jobVars>>
vars == <<mutex, ctdIdle, poolVars, pc, cur, userVars>>

Plain(j) == [kind |-> "job", job |-> j]
Syncer(j) == [kind |-> "sync", job |-> j]
JOB_JOIN == [kind |-> "join", job |-> None]
JOB_STOP == [kind |-> "stop", job |-> None]
Entries == [kind : {"job", "sync", "join", "stop"}, job : Jobs \cup {None}]

WorkerPCs == {"none", "start", "check", "sleep", "notified", "woken", "resize",
              "again", "leave", "do", "signal", "free"}
Idling == {"check", "sleep", "notified"}
Critical == {"check", "woken", "resize"}
ClientPCs == {"ready", "signal", "waitOpen", "waitFirst", "waitIdle",
              "waitWorkers", "waitSleep", "stopAcquire", "stopSignal", "stopPoll", "stopJoin"}

Init ==
    /\ mutex = None
    /\ queue = <<>> /\ ctdOpenJobs = 0 /\ ctdStatJobsScheduled = 0
    /\ workers = {} /\ ctdWorkers = 0 /\ ctdIdle = 0
    /\ lastThreadToJoin = None /\ workerToJoin = None
    /\ thread = [t \in Threads |-> "absent"]
    /\ WorkersMax = InitialMax /\ age = 0
    /\ pc = [w \in Workers |-> "none"] /\ cur = [w \in Workers |-> None]
    /\ cpc = [c \in Clients |-> "ready"] /\ seen = [c \in Clients |-> 0]
    /\ jobState = [j \in Jobs |-> "new"] /\ held = {}
-----------------------------------------------------------------------------
(* Helpers of the code.                                                     *)

Lesser(a, b) == IF a < b THEN a ELSE b
Greater(a, b) == IF a > b THEN a ELSE b

Overload == /\ age >= IncreaseSchedule
            /\ ctdOpenJobs >= (ctdWorkers * IncreaseThreshold) \div 100
Underload == /\ age >= DecreaseSchedule
             /\ ctdWorkers - ctdIdle <= (ctdWorkers * DecreaseThreshold) \div 100

\* One more, and one less but not none while a job is queued.
GrownSizeUnbounded == ctdWorkers + 1    \* mutant
GrownSize == Lesser(WorkersMax, ctdWorkers + 1)

ShrunkSizeNone == Greater(WorkersMin, ctdWorkers - 1)   \* mutant
ShrunkSize == Greater(WorkersMin, Greater(ctdWorkers - 1, Lesser(1, ctdOpenJobs)))

\* The size the pool should have.
GetSize ==
    IF Mode = "Fixed" THEN WorkersMax
    ELSE IF ctdWorkers < WorkersMin THEN WorkersMin
    ELSE IF ctdWorkers > WorkersMax THEN WorkersMax
    ELSE IF Overload THEN GrownSize
    ELSE IF Underload THEN ShrunkSize
    ELSE ctdWorkers

isConditionMetEarly == queue # <<>>     \* mutant
isConditionMetOffByOne ==               \* mutant
    /\ queue # <<>>
    /\ Head(queue).kind # "sync" \/ ctdIdle + 1 = ctdWorkers
isConditionMet ==
    /\ queue # <<>>
    /\ Head(queue).kind # "sync" \/ ctdIdle = ctdWorkers

\* Who of the workers moves on when c notifies one or all of them; `p' is pc
\* with what the notifying thread itself does next.
NotifyNobody(p) == pc' = p              \* mutant
NotifyOne(p) ==
    \/ /\ \E w \in Workers : pc[w] = "sleep" /\ pc' = [p EXCEPT ![w] = "notified"]
    \/ /\ \A w \in Workers : pc[w] # "sleep"
       /\ pc' = p

NotifyAll(p) ==
    pc' = [w \in Workers |-> IF pc[w] = "sleep" THEN "notified" ELSE p[w]]

\* addThread: joins and deletes the last thread of a former use of the pool,
\* then creates and starts worker w.
addThread(w) ==
    LET joined == [t \in Threads |-> IF t = lastThreadToJoin THEN "absent" ELSE thread[t]]
    IN  /\ lastThreadToJoin # None => thread[lastThreadToJoin] = "ended"
        /\ joined[w] = "absent" /\ pc[w] = "none"
        /\ thread' = [joined EXCEPT ![w] = "alive"]
        /\ lastThreadToJoin' = None
        /\ workers' = workers \cup {w}
        /\ ctdWorkers' = ctdWorkers + 1

\* Internal jobs are put where they are taken next, others at the far end.
PushNextLast(entry) ==                  \* mutant
    /\ queue' = Append(queue, entry)
    /\ ctdOpenJobs' = ctdOpenJobs + 1
    /\ UNCHANGED ctdStatJobsScheduled

PushNext(entry) ==
    /\ queue' = <<entry>> \o queue
    /\ ctdOpenJobs' = ctdOpenJobs + 1
    /\ UNCHANGED ctdStatJobsScheduled

pushAndReleaseFirst(entry) ==           \* mutant
    /\ ctdStatJobsScheduled < MaxScheduled
    /\ queue' = <<entry>> \o queue
    /\ ctdOpenJobs' = ctdOpenJobs + 1
    /\ ctdStatJobsScheduled' = ctdStatJobsScheduled + 1

pushAndRelease(entry) ==
    /\ ctdStatJobsScheduled < MaxScheduled
    /\ queue' = Append(queue, entry)
    /\ ctdOpenJobs' = ctdOpenJobs + 1
    /\ ctdStatJobsScheduled' = ctdStatJobsScheduled + 1

Pop ==
    /\ queue' = Tail(queue)
    /\ ctdOpenJobs' = ctdOpenJobs - 1
    /\ UNCHANGED ctdStatJobsScheduled
-----------------------------------------------------------------------------
(* Workers: PoolWorker::Run and ThreadPool::pop.                            *)

\* START of pop: the mutex is acquired and the worker counts itself idle.
StartUncounted(w) ==                    \* mutant
    /\ pc[w] = "start" /\ mutex = None
    /\ mutex' = w
    /\ pc' = [pc EXCEPT ![w] = "check"]
    /\ UNCHANGED <<ctdIdle, poolVars, cur, userVars>>

Start(w) ==
    /\ pc[w] = "start" /\ mutex = None
    /\ mutex' = w
    /\ ctdIdle' = ctdIdle + 1
    /\ pc' = [pc EXCEPT ![w] = "check"]
    /\ UNCHANGED <<poolVars, cur, userVars>>

\* WaitForNotification evaluates the condition: go on, or sleep.
GoOn(w) ==
    /\ pc[w] = "check" /\ isConditionMet
    /\ ctdIdle' = ctdIdle - 1
    /\ pc' = [pc EXCEPT ![w] = "woken"]
    /\ UNCHANGED <<mutex, poolVars, cur, userVars>>

Sleep(w) ==
    /\ pc[w] = "check" /\ ~isConditionMet
    /\ mutex' = None
    /\ pc' = [pc EXCEPT ![w] = "sleep"]
    /\ UNCHANGED <<ctdIdle, poolVars, cur, userVars>>

\* A condition variable may wake a waiter that nobody notified.
Spurious(w) ==
    /\ pc[w] = "sleep"
    /\ pc' = [pc EXCEPT ![w] = "notified"]
    /\ UNCHANGED <<mutex, ctdIdle, poolVars, cur, userVars>>

\* A waiter that was woken re-acquires the mutex before it looks again.
WakeUnlocked(w) ==                      \* mutant
    /\ pc[w] = "notified"
    /\ mutex' = w
    /\ pc' = [pc EXCEPT ![w] = "check"]
    /\ UNCHANGED <<ctdIdle, poolVars, cur, userVars>>

Wake(w) ==
    /\ pc[w] = "notified" /\ mutex = None
    /\ mutex' = w
    /\ pc' = [pc EXCEPT ![w] = "check"]
    /\ UNCHANGED <<ctdIdle, poolVars, cur, userVars>>

\* The job is JOB_JOIN: wait, mutex held, for that thread and dispose of it.
JoinLeaverUndisposed(w) ==              \* mutant
    /\ pc[w] = "woken" /\ Head(queue) = JOB_JOIN
    /\ thread[workerToJoin] = "ended"
    /\ Pop
    /\ pc' = [pc EXCEPT ![w] = "resize"]
    /\ UNCHANGED <<mutex, sizeVars, ctdIdle, workerToJoin, tuning, cur, userVars>>

JoinLeaver(w) ==
    /\ pc[w] = "woken" /\ Head(queue) = JOB_JOIN
    /\ thread[workerToJoin] = "ended"
    /\ thread' = [thread EXCEPT ![workerToJoin] = "absent"]
    /\ Pop
    /\ pc' = [pc EXCEPT ![w] = "resize"]
    /\ UNCHANGED <<mutex, workers, ctdWorkers, lastThreadToJoin, ctdIdle, workerToJoin,
                   tuning, cur, userVars>>

TakeStop(w) ==
    /\ pc[w] = "woken" /\ Head(queue) = JOB_STOP
    /\ Pop
    /\ pc' = [pc EXCEPT ![w] = "resize"]
    /\ UNCHANGED <<mutex, sizeVars, ctdIdle, workerToJoin, tuning, cur, userVars>>

\* The worker has dealt with an internal job or found none.
AtResize(w) ==
    \/ pc[w] = "resize"
    \/ (pc[w] = "woken" /\ Head(queue).kind \in {"job", "sync"})

\* A leaving worker asks the next worker to join it, unless it is the last.
NameLeaverAlwaysNext(w) ==              \* mutant
    /\ workerToJoin' = w
    /\ PushNext(JOB_JOIN)
    /\ UNCHANGED lastThreadToJoin

NameLeaverTooFew(w) ==                  \* mutant
    \/ /\ ctdWorkers > 2
       /\ workerToJoin' = w
       /\ PushNext(JOB_JOIN)
       /\ UNCHANGED lastThreadToJoin
    \/ /\ ctdWorkers <= 2
       /\ lastThreadToJoin' = w
       /\ UNCHANGED <<queueVars, workerToJoin>>

NameLeaver(w) ==
    \/ /\ ctdWorkers > 1
       /\ workerToJoin' = w
       /\ PushNext(JOB_JOIN)
       /\ UNCHANGED lastThreadToJoin
    \/ /\ ctdWorkers <= 1
       /\ lastThreadToJoin' = w
       /\ UNCHANGED <<queueVars, workerToJoin>>

\* The pool is too large: w leaves.
Leave(w) ==
    /\ AtResize(w) /\ GetSize < ctdWorkers
    /\ NameLeaver(w)
    /\ workers' = workers \ {w}
    /\ ctdWorkers' = ctdWorkers - 1
    /\ age' = 0
    /\ mutex' = None
    /\ pc' = [pc EXCEPT ![w] = "leave"]
    /\ UNCHANGED <<ctdIdle, thread, WorkersMax, cur, userVars>>

\* The pool is too small: w adds a thread and starts over.
Grow(w) ==
    /\ AtResize(w) /\ GetSize > ctdWorkers
    /\ \E new \in Workers :
          /\ addThread(new)
          /\ pc' = [pc EXCEPT ![w] = "again", ![new] = "start"]
    /\ age' = 0
    /\ mutex' = None
    /\ UNCHANGED <<queueVars, ctdIdle, workerToJoin, WorkersMax, cur, userVars>>

\* The size is right and the next job an ordinary one.
TakeJob(w) ==
    /\ AtResize(w) /\ GetSize = ctdWorkers
    /\ Head(queue).kind = "job"
    /\ Pop
    /\ cur' = [cur EXCEPT ![w] = Head(queue).job]
    /\ jobState' = [jobState EXCEPT ![Head(queue).job] = "active"]
    /\ mutex' = None
    /\ pc' = [pc EXCEPT ![w] = "do"]
    /\ UNCHANGED <<sizeVars, ctdIdle, workerToJoin, tuning, clientVars, held>>

\* The size is right and the next job a JobSyncer: the job it carries is deleted.
TakeSync(w) ==
    /\ AtResize(w) /\ GetSize = ctdWorkers
    /\ Head(queue).kind = "sync"
    /\ Pop
    /\ jobState' = [j \in Jobs |-> IF j = Head(queue).job THEN "freed" ELSE jobState[j]]
    /\ mutex' = None
    /\ pc' = [pc EXCEPT ![w] = "again"]
    /\ UNCHANGED <<sizeVars, ctdIdle, workerToJoin, tuning, cur, clientVars, held>>

\* ReleaseAndNotifyAll notifies after the mutex is released.
NotifyAgain(w) ==
    /\ pc[w] = "again"
    /\ NotifyAll([pc EXCEPT ![w] = "start"])
    /\ UNCHANGED <<mutex, ctdIdle, poolVars, cur, userVars>>

\* The leaver notifies, returns from Run() and its thread ends.
Exit(w) ==
    /\ pc[w] = "leave"
    /\ NotifyAll([pc EXCEPT ![w] = "none"])
    /\ thread' = [thread EXCEPT ![w] = "ended"]
    /\ UNCHANGED <<mutex, queueVars, workers, ctdWorkers, lastThreadToJoin, ctdIdle,
                   workerToJoin, tuning, cur, userVars>>

\* Job::Do returns; the job is deleted by the worker unless it was kept.
FinishDo(w) ==
    /\ pc[w] = "do"
    /\ jobState' = [jobState EXCEPT ![cur[w]] = "done"]
    /\ IF cur[w] \in Kept
       THEN /\ pc' = [pc EXCEPT ![w] = "start"]
            /\ cur' = [cur EXCEPT ![w] = None]
       ELSE /\ pc' = [pc EXCEPT ![w] = "free"]
            /\ UNCHANGED cur
    /\ UNCHANGED <<mutex, ctdIdle, poolVars, clientVars, held>>

FreeJob(w) ==
    /\ pc[w] = "free" /\ mutex = None
    /\ jobState' = [jobState EXCEPT ![cur[w]] = "freed"]
    /\ cur' = [cur EXCEPT ![w] = None]
    /\ pc' = [pc EXCEPT ![w] = "start"]
    /\ UNCHANGED <<mutex, ctdIdle, poolVars, clientVars, held>>
-----------------------------------------------------------------------------
(* Scheduling, from outside and from within a job.                          *)

\* A pool that was, or is about to be, shut down must not be used.
Accepting ==
    /\ WorkersMax > 0
    /\ ShutdownOnlyIdle => \A c \in Clients : cpc[c] # "stopAcquire"

\* schedule: the caller has the mutex for the whole of it.
schedule(entry) ==
    /\ mutex = None /\ Accepting
    /\ \/ /\ ctdWorkers = 0
          /\ \E w \in Workers : addThread(w) /\ pc' = [pc EXCEPT ![w] = "start"]
       \/ /\ ctdWorkers # 0
          /\ UNCHANGED <<sizeVars, pc>>
    /\ pushAndRelease(entry)

Schedule(c, j) ==
    /\ cpc[c] = "ready" /\ j \notin Chained /\ jobState[j] = "new"
    /\ schedule(Plain(j))
    /\ jobState' = [jobState EXCEPT ![j] = "queued"]
    /\ held' = IF j \in Kept THEN held \cup {j} ELSE held
    /\ cpc' = [cpc EXCEPT ![c] = "signal"]
    /\ UNCHANGED <<mutex, ctdIdle, workerToJoin, tuning, cur, seen>>

\* Sync, or DeleteJobDeferred of job j.
Sync(c, j) ==
    /\ cpc[c] = "ready" /\ j \in held \cup {None}
    /\ schedule(Syncer(j))
    /\ held' = held \ {j}
    /\ cpc' = [cpc EXCEPT ![c] = "signal"]
    /\ UNCHANGED <<mutex, ctdIdle, workerToJoin, tuning, cur, seen, jobState>>

Signal(c) ==
    /\ cpc[c] = "signal"
    /\ NotifyOne(pc)
    /\ cpc' = [cpc EXCEPT ![c] = "ready"]
    /\ UNCHANGED <<mutex, ctdIdle, poolVars, cur, seen, jobVars>>

\* A job schedules another one.
ScheduleFromJob(w, j) ==
    /\ pc[w] = "do" /\ j \in Chained /\ jobState[j] = "new"
    /\ mutex = None /\ Accepting /\ ctdWorkers # 0
    /\ pushAndRelease(Plain(j))
    /\ jobState' = [jobState EXCEPT ![j] = "queued"]
    /\ held' = IF j \in Kept THEN held \cup {j} ELSE held
    /\ pc' = [pc EXCEPT ![w] = "signal"]
    /\ UNCHANGED <<mutex, sizeVars, ctdIdle, workerToJoin, tuning, cur, clientVars>>

SignalFromJob(w) ==
    /\ pc[w] = "signal"
    /\ NotifyOne([pc EXCEPT ![w] = "do"])
    /\ UNCHANGED <<mutex, ctdIdle, poolVars, cur, userVars>>

\* The caller has awaited the job and deletes it.
DeleteJob(c, j) ==
    /\ cpc[c] = "ready" /\ mutex = None
    /\ j \in held /\ jobState[j] = "done"
    /\ jobState' = [jobState EXCEPT ![j] = "freed"]
    /\ held' = held \ {j}
    /\ UNCHANGED <<mutex, ctdIdle, poolVars, pc, cur, clientVars>>
-----------------------------------------------------------------------------
(* WaitForAllIdle: three reads without the mutex.                           *)

WaitForAllIdle(c) ==
    /\ cpc[c] = "ready"
    /\ cpc' = [cpc EXCEPT ![c] = "waitOpen"]
    /\ UNCHANGED <<mutex, ctdIdle, poolVars, pc, cur, seen, jobVars>>

ReadOpenJobsUnseen(c) ==                \* mutant
    /\ cpc[c] = "waitOpen"
    /\ cpc' = [cpc EXCEPT ![c] = "waitFirst"]
    /\ UNCHANGED <<mutex, ctdIdle, poolVars, pc, cur, seen, jobVars>>

ReadOpenJobs(c) ==
    /\ cpc[c] = "waitOpen"
    /\ cpc' = [cpc EXCEPT ![c] = IF ctdOpenJobs = 0 THEN "waitFirst" ELSE "waitSleep"]
    /\ UNCHANGED <<mutex, ctdIdle, poolVars, pc, cur, seen, jobVars>>

\* The operands of the comparison ctdIdle == ctdWorkers are read in either order.
ReadOneCounter(c) ==
    /\ cpc[c] = "waitFirst"
    /\ \/ /\ seen' = [seen EXCEPT ![c] = ctdIdle]
          /\ cpc' = [cpc EXCEPT ![c] = "waitWorkers"]
       \/ /\ seen' = [seen EXCEPT ![c] = ctdWorkers]
          /\ cpc' = [cpc EXCEPT ![c] = "waitIdle"]
    /\ UNCHANGED <<mutex, ctdIdle, poolVars, pc, cur, jobVars>>

\* Equal: return true.
ReadOtherCounter(c) ==
    /\ cpc[c] \in {"waitWorkers", "waitIdle"}
    /\ LET other == IF cpc[c] = "waitWorkers" THEN ctdWorkers ELSE ctdIdle
       IN  cpc' = [cpc EXCEPT ![c] = IF seen[c] = other THEN "ready" ELSE "waitSleep"]
    /\ seen' = [seen EXCEPT ![c] = 0]
    /\ UNCHANGED <<mutex, ctdIdle, poolVars, pc, cur, jobVars>>

\* Sleep and look again, or give up and return false.
LookAgain(c) ==
    /\ cpc[c] = "waitSleep"
    /\ cpc' = [cpc EXCEPT ![c] = "waitOpen"]
    /\ UNCHANGED <<mutex, ctdIdle, poolVars, pc, cur, seen, jobVars>>

Timeout(c) ==
    /\ cpc[c] = "waitSleep"
    /\ cpc' = [cpc EXCEPT ![c] = "ready"]
    /\ UNCHANGED <<mutex, ctdIdle, poolVars, pc, cur, seen, jobVars>>
-----------------------------------------------------------------------------
(* Shutdown, and changes of the strategy from outside.                      *)

Stopping == {"stopAcquire", "stopSignal", "stopPoll", "stopJoin"}

\* Returns at once if there are no workers, which it finds out without the
\* mutex.  One client shuts the pool down, not two at a time.
Shutdown(c) ==
    /\ cpc[c] = "ready"
    /\ \A d \in Clients : cpc[d] \notin Stopping
    /\ ShutdownOnlyIdle => ctdOpenJobs = 0
    /\ ctdWorkers # 0
    /\ cpc' = [cpc EXCEPT ![c] = "stopAcquire"]
    /\ UNCHANGED <<mutex, ctdIdle, poolVars, pc, cur, seen, jobVars>>

\* The workers are told to stop.
StopPush(c) ==
    /\ cpc[c] = "stopAcquire" /\ mutex = None
    /\ WorkersMax' = 0
    /\ PushNext(JOB_STOP)
    /\ cpc' = [cpc EXCEPT ![c] = "stopSignal"]
    /\ UNCHANGED <<mutex, sizeVars, ctdIdle, workerToJoin, age, pc, cur, seen, jobVars>>

StopSignal(c) ==
    /\ cpc[c] = "stopSignal"
    /\ NotifyOne(pc)
    /\ cpc' = [cpc EXCEPT ![c] = "stopPoll"]
    /\ UNCHANGED <<mutex, ctdIdle, poolVars, cur, seen, jobVars>>

\* The polling loop ends when the counter, read without the mutex, is zero.
StopPoll(c) ==
    /\ cpc[c] = "stopPoll" /\ ctdWorkers = 0
    /\ cpc' = [cpc EXCEPT ![c] = "stopJoin"]
    /\ UNCHANGED <<mutex, ctdIdle, poolVars, pc, cur, seen, jobVars>>

StopJoin(c) ==
    /\ cpc[c] = "stopJoin"
    /\ thread[lastThreadToJoin] = "ended"
    /\ thread' = [thread EXCEPT ![lastThreadToJoin] = "absent"]
    /\ lastThreadToJoin' = None
    /\ cpc' = [cpc EXCEPT ![c] = "ready"]
    /\ UNCHANGED <<mutex, queueVars, workers, ctdWorkers, ctdIdle, workerToJoin,
                   tuning, pc, cur, seen, jobVars>>

\* The fields of Strategy can be written from outside, without the mutex.
\* That is also how a pool that was shut down is brought back into service.
SetWorkersMax(c, n) ==
    /\ cpc[c] = "ready" /\ n # WorkersMax
    /\ \A d \in Clients : cpc[d] \notin Stopping
    /\ WorkersMax' = n
    /\ UNCHANGED <<mutex, queueVars, sizeVars, ctdIdle, workerToJoin, age, pc, cur,
                   userVars>>

\* The time since the last change of size exceeds the schedules.
Tick ==
    /\ age < Greater(IncreaseSchedule, DecreaseSchedule)
    /\ age' = age + 1
    /\ UNCHANGED <<mutex, queueVars, sizeVars, ctdIdle, workerToJoin, WorkersMax, pc,
                   cur, userVars>>
-----------------------------------------------------------------------------
WorkerStep(w) ==
    \/ Start(w) \/ GoOn(w) \/ Sleep(w) \/ Wake(w)
    \/ JoinLeaver(w) \/ TakeStop(w) \/ Leave(w) \/ Grow(w) \/ TakeJob(w) \/ TakeSync(w)
    \/ NotifyAgain(w) \/ Exit(w) \/ FinishDo(w) \/ FreeJob(w) \/ SignalFromJob(w)

CallInProgress(c) ==
    \/ Signal(c) \/ ReadOpenJobs(c) \/ ReadOneCounter(c) \/ ReadOtherCounter(c) \/ LookAgain(c)
    \/ StopPush(c) \/ StopSignal(c) \/ StopPoll(c) \/ StopJoin(c)

Call(c) ==
    \/ \E j \in Jobs : Schedule(c, j) \/ DeleteJob(c, j)
    \/ \E j \in Jobs \cup {None} : Sync(c, j)
    \/ WaitForAllIdle(c) \/ Timeout(c) \/ Shutdown(c)
    \/ \E n \in MaxChoices : SetWorkersMax(c, n)

Next ==
    \/ \E w \in Workers :
          WorkerStep(w) \/ Spurious(w) \/ \E j \in Jobs : ScheduleFromJob(w, j)
    \/ \E c \in Clients : CallInProgress(c) \/ Call(c)
    \/ Tick

Spec == Init /\ [][Next]_vars
-----------------------------------------------------------------------------
(* Properties.                                                              *)

\* Every field has a value of its C++ type, and pc one of the listed places.
TypeOK ==
    /\ mutex \in Workers \cup {None}
    /\ queue \in Seq(Entries)
    /\ ctdOpenJobs \in Nat /\ ctdStatJobsScheduled \in Nat
    /\ workers \in SUBSET Workers /\ ctdWorkers \in Nat /\ ctdIdle \in Nat
    /\ lastThreadToJoin \in Workers \cup {None}
    /\ workerToJoin \in Threads \cup {None}
    /\ thread \in [Threads -> {"absent", "alive", "ended"}]
    /\ WorkersMax \in Nat /\ age \in 0..1
    /\ pc \in [Workers -> WorkerPCs] /\ cur \in [Workers -> Jobs \cup {None}]
    /\ cpc \in [Clients -> ClientPCs] /\ seen \in [Clients -> Nat]
    /\ jobState \in [Jobs -> {"new", "queued", "active", "done", "freed"}]
    /\ held \in SUBSET Kept

Idle == {w \in Workers : pc[w] \in Idling}
Leavers == {w \in Workers : pc[w] = "leave" \/ (pc[w] = "none" /\ thread[w] = "ended")}
Queued(j) == {i \in 1..Len(queue) : queue[i] = Plain(j)}

\* The three counters that are kept by hand agree with what they count, at
\* every point where some thread may read them: the entries of the queue,
\* the members of the pool, and those of them that wait in pop().
CountersConsistent ==
    /\ ctdOpenJobs = Len(queue)
    /\ ctdWorkers = Cardinality(workers)
    /\ ctdIdle = Cardinality(Idle)

\* The mutex is held by the one worker that is inside the critical part of
\* pop(), so that all others find its fields at rest.
MutualExclusion == \A w \in Workers : pc[w] \in Critical <=> mutex = w

\* A worker that goes to "start working" (threadpool.cpp:308) has a job to
\* take: the queue is not empty after JOB_JOIN or JOB_STOP was removed from
\* it, and its next entry is not another internal job.
WorkAtHand ==
    \A w \in Workers :
        AtResize(w) /\ GetSize = ctdWorkers =>
            /\ queue # <<>>
            /\ Head(queue).kind \in {"job", "sync"}

\* "all are idle": when a worker takes a synchronisation job no other one is
\* outside of pop(), also where the job shows up under a JOB_JOIN that the
\* wake-up condition was evaluated for (assertion in threadpool.cpp:327).
SyncFindsAllIdle ==
    \A w \in Workers :
        AtResize(w) /\ GetSize = ctdWorkers /\ queue # <<>> /\ Head(queue).kind = "sync" =>
            ctdIdle + 1 = ctdWorkers

\* A JOB_JOIN is only ever the next entry, so there is at most one and its
\* singleton is not overwritten while it waits; and every worker that left
\* the pool is named by it or is the last one, so that its thread is joined.
EveryLeaverIsNamed ==
    /\ \A i \in 2..Len(queue) : queue[i].kind # "join"
    /\ Leavers = {w \in Workers : w = lastThreadToJoin}
                    \cup {w \in Workers : queue # <<>> /\ Head(queue) = JOB_JOIN
                                           /\ w = workerToJoin}

\* "Found a last thread to join but the number of workers is not 0. This
\* should never happen!" (threadpool.cpp:197), and its counterpart in
\* Shutdown, "The 'lastThreadToJoin' is null" (threadpool.cpp:402).
LastThreadIsTheLast ==
    /\ lastThreadToJoin # None => ctdWorkers = 0
    /\ \A c \in Clients : cpc[c] = "stopJoin" => lastThreadToJoin # None

\* No job object is used after it was deleted: a queued job is intact and
\* queued once, a running one runs in one worker.
JobsAlive ==
    /\ \A j \in Jobs : Cardinality(Queued(j)) = IF jobState[j] = "queued" THEN 1 ELSE 0
    /\ \A w \in Workers : pc[w] \in {"do", "signal"} => jobState[cur[w]] = "active"
    /\ \A v, w \in Workers : cur[v] = cur[w] /\ cur[v] # None => v = w

\* The pool does not shrink to nothing over jobs that are still queued, as
\* long as nobody sets WorkersMax to 0.
NoJobIsStranded == ctdWorkers = 0 /\ WorkersMax > 0 => queue = <<>>

\* Once Shutdown has returned no thread of the pool is left, not even one
\* that ended but was not joined.
ShutdownLeavesNoThread ==
    [][\A c \in Clients : StopJoin(c) => \A w \in Workers : thread'[w] = "absent"]_vars

\* When WaitForAllIdle returns true to the only client, every job scheduled
\* so far has been executed, and deleted by its worker if nobody kept it.
WaitForAllIdleIsSound ==
    [][\A c \in Clients :
          ReadOtherCounter(c) /\ cpc'[c] = "ready" =>
              \A j \in Jobs : jobState[j] \in {"new", "freed"} \cup
                                              IF j \in Kept THEN {"done"} ELSE {}]_vars

\* Shutdown "waits that all jobs are finalized" (threadpool.inl:565).
ShutdownFinalizesJobs ==
    [][\A c \in Clients :
          StopJoin(c) => \A j \in Jobs : jobState[j] \notin {"queued", "active"}]_vars

\* A pool never starts more threads than the strategy permits.
PoolStaysWithinMax ==
    [][ctdWorkers' > ctdWorkers =>
          ctdWorkers' <= Greater(1, Greater(WorkersMax, WorkersMin))]_vars
-----------------------------------------------------------------------------
(* Liveness: the scheduler runs every thread, and who asks for the mutex    *)
(* again and again gets it in the end.                                      *)

Fairness ==
    /\ \A w \in Workers : /\ WF_vars(WorkerStep(w))
                          /\ SF_vars(Start(w)) /\ SF_vars(Wake(w)) /\ SF_vars(FreeJob(w))
    /\ \A c \in Clients : WF_vars(CallInProgress(c)) /\ SF_vars(StopPush(c))

FairSpec == Spec /\ Fairness

\* IncreaseSchedule and DecreaseSchedule are long compared with the time a
\* worker needs to take a job: they do not elapse again and again between
\* two changes of size.
CalmSpec == FairSpec /\ <>[][~Tick]_vars

\* Every scheduled job is executed, whatever barriers and changes of size
\* come in between.
EveryJobIsExecuted ==
    \A j \in Jobs : jobState[j] = "queued" ~> jobState[j] \in {"done", "freed"}

\* The queue drains: no wake-up of a worker is lost, also not for barriers
\* and for internal jobs.
QueueDrains == (queue # <<>>) ~> (queue = <<>>)

\* A call of Shutdown returns.
ShutdownReturns ==
    \A c \in Clients : cpc[c] = "stopAcquire" ~> cpc[c] = "ready"
=============================================================================
