--------------------------- MODULE DedicatedWorker ---------------------------
(***************************************************************************)
(* alib::threadmodel::DedicatedWorker and its manager DWManager.  Every     *)
(* worker is one thread with a private queue of jobs that is sorted by      *)
(* priority.  It ends with a stop job, which has a priority like any other  *)
(* job.  The manager adds workers, removes them and waits for them.         *)
(*                                                                         *)
(* The head of a sequence `queue[w]' is the back() of the C++ list, the     *)
(* entry taken next.  The mutex of TCondition protects nothing that is read *)
(* without it except the length, so that acquire .. release is one step;    *)
(* the notification after the release is a step of its own.                 *)
(***************************************************************************)
EXTENDS Integers, Sequences, FiniteSets, FiniteSetsExt

CONSTANTS
    Workers, Clients, Jobs, None,
    Priority,           \* of each job, the number of the enumeration
    Kept,               \* jobs passed to Schedule, the others to ScheduleVoid
    Handled,            \* jobs that the overridden process() takes
    StopPriorities,     \* what callers pass to Remove and RemoveAll
    LateJobs,           \* clients schedule although the worker is being removed
    AddAgain            \* a removed worker may be added a second time

Lowest == 0
DeferredDeletion == 500
Highest == 4000

ASSUME DWAssumption ==
    /\ Priority \in [Jobs -> Lowest..Highest]
    /\ Kept \subseteq Jobs /\ Handled \subseteq Jobs
    /\ StopPriorities \subseteq Lowest..Highest
    /\ LateJobs \in BOOLEAN /\ AddAgain \in BOOLEAN
    /\ None \notin Workers \cup Jobs

VARIABLES
    workers,                        \* of DWManager
    state,                          \* Thread::state
    queue, stopJobPushed, stopJobExecuted,
    pc, cur,                        \* where a worker is, the entry it processes
    cpc, target, todo, at,          \* where a client is, and with which workers
    jobState, owner, held           \* life of a job, its worker, kept references

managerVars == <<workers, state>>
workerVars == <<queue, stopJobPushed, stopJobExecuted, pc, cur>>
clientVars == <<cpc, target, todo, at>>
jobVars == <<jobState, owner, held>>
vars == <<managerVars, workerVars, clientVars, jobVars>>

Entry(kind, j, p) == [kind |-> kind, job |-> j, priority |-> p]
Entries == [kind : {"job", "delete", "stop"}, job : Jobs \cup {None}, priority : Lowest..Highest]
\* What cur is before the first entry; after the stop job it stays as it is.
NoEntry == Entry("stop", None, Lowest)

Init ==
    /\ workers = {} /\ state = [w \in Workers |-> "Unstarted"]
    /\ queue = [w \in Workers |-> <<>>]
    /\ stopJobPushed = [w \in Workers |-> FALSE]
    /\ stopJobExecuted = [w \in Workers |-> FALSE]
    /\ pc = [w \in Workers |-> "none"] /\ cur = [w \in Workers |-> NoEntry]
    /\ cpc = [c \in Clients |-> "ready"] /\ target = [c \in Clients |-> {}]
    /\ todo = [c \in Clients |-> {}] /\ at = [c \in Clients |-> None]
    /\ jobState = [j \in Jobs |-> "new"] /\ owner = [j \in Jobs |-> None]
    /\ held = {}

Load(w) == Len(queue[w])
-----------------------------------------------------------------------------
(* The queue.                                                               *)

\* Behind all entries that have the same or a higher priority.
PositionBefore(q, p) == Max({0} \cup {i \in DOMAIN q : q[i].priority > p})  \* mutant
Position(q, p) == Max({0} \cup {i \in DOMAIN q : q[i].priority >= p})

pushAndRelease(w, entry) ==
    LET before == Position(queue[w], entry.priority)
    IN  queue' = [queue EXCEPT ![w] =
            SubSeq(@, 1, before) \o <<entry>> \o SubSeq(@, before + 1, Len(@))]

\* The notification that follows wakes the worker if it waits at that moment.
notifySleepingNobody(c) == UNCHANGED pc     \* mutant
notifySleeping(c) ==
    pc' = [w \in Workers |-> IF w = at[c] /\ pc[w] = "sleep" THEN "loop" ELSE pc[w]]

\* Debug builds assert that the worker is alive.
MaySchedule(c, w) ==
    /\ cpc[c] = "ready" /\ state[w] \in {"Started", "Running"}
    /\ LateJobs \/ (w \in workers /\ \A d \in Clients : w \notin target[d])

Schedule(c, w, j) ==
    /\ MaySchedule(c, w) /\ jobState[j] = "new"
    /\ jobState' = [jobState EXCEPT ![j] = "queued"]
    /\ owner' = [owner EXCEPT ![j] = w]
    /\ held' = IF j \in Kept THEN held \cup {j} ELSE held
    /\ pushAndRelease(w, Entry("job", j, Priority[j]))
    /\ cpc' = [cpc EXCEPT ![c] = "signal"] /\ at' = [at EXCEPT ![c] = w]
    /\ UNCHANGED <<managerVars, stopJobPushed, stopJobExecuted, pc, cur, target, todo>>

Signal(c) ==
    /\ cpc[c] \in {"signal", "stopSignal"}
    /\ notifySleeping(c)
    /\ cpc' = [cpc EXCEPT ![c] = IF @ = "signal" THEN "ready" ELSE "stop"]
    /\ at' = [at EXCEPT ![c] = None]
    /\ UNCHANGED <<managerVars, queue, stopJobPushed, stopJobExecuted, cur, target, todo, jobVars>>

\* The caller knows, from the promise in the job, that it was processed.
DeleteJob(c, j) ==
    /\ cpc[c] = "ready" /\ j \in held /\ jobState[j] = "processed"
    /\ held' = held \ {j}
    /\ jobState' = [jobState EXCEPT ![j] = "gone"]
    /\ UNCHANGED <<managerVars, workerVars, clientVars, owner>>

\* Not allowed for jobs of a priority below that of the deletion.
DeletionPriorityHighest == Highest          \* mutant
DeletionPriority == DeferredDeletion

DeleteJobDeferred(c, j) ==
    /\ j \in held /\ MaySchedule(c, owner[j]) /\ Priority[j] >= DeferredDeletion
    /\ held' = held \ {j}
    /\ pushAndRelease(owner[j], Entry("delete", j, DeletionPriority))
    /\ cpc' = [cpc EXCEPT ![c] = "signal"] /\ at' = [at EXCEPT ![c] = owner[j]]
    /\ UNCHANGED <<managerVars, stopJobPushed, stopJobExecuted, pc, cur,
                   target, todo, jobState, owner>>
-----------------------------------------------------------------------------
(* The thread of a worker: pop() and Run().                                 *)

Begin(w) ==
    /\ pc[w] = "start"
    /\ pc' = [pc EXCEPT ![w] = "loop"]
    /\ state' = [state EXCEPT ![w] = "Running"]
    /\ UNCHANGED <<workers, queue, stopJobPushed, stopJobExecuted, cur, clientVars, jobVars>>

Sleep(w) ==
    /\ pc[w] = "loop" /\ ~stopJobExecuted[w] /\ Load(w) = 0
    /\ pc' = [pc EXCEPT ![w] = "sleep"]
    /\ UNCHANGED <<managerVars, queue, stopJobPushed, stopJobExecuted, cur, clientVars, jobVars>>

Spurious(w) ==
    /\ pc[w] = "sleep"
    /\ pc' = [pc EXCEPT ![w] = "loop"]
    /\ UNCHANGED <<managerVars, queue, stopJobPushed, stopJobExecuted, cur, clientVars, jobVars>>

pop(w) ==
    /\ pc[w] = "loop" /\ ~stopJobExecuted[w] /\ Load(w) > 0
    /\ cur' = [cur EXCEPT ![w] = Head(queue[w])]
    /\ queue' = [queue EXCEPT ![w] = Tail(@)]
    /\ pc' = [pc EXCEPT ![w] = "run"]
    /\ UNCHANGED <<managerVars, stopJobPushed, stopJobExecuted, clientVars, jobVars>>

\* A job that process() takes is not deleted, whatever keepJob says.
AfterExecution(j) == IF j \in Kept \cup Handled THEN "processed" ELSE "gone"

Execute(w) ==
    LET e == cur[w]
    IN  /\ pc[w] = "run"
        /\ pc' = [pc EXCEPT ![w] = "loop"]
        /\ cur' = [cur EXCEPT ![w] = IF e.kind = "stop" THEN e ELSE NoEntry]
        /\ \/ /\ e.kind = "stop"
              /\ stopJobExecuted' = [stopJobExecuted EXCEPT ![w] = TRUE]
              /\ UNCHANGED jobState
           \/ /\ e.kind = "delete"
              /\ jobState' = [jobState EXCEPT ![e.job] = "gone"]
              /\ UNCHANGED stopJobExecuted
           \/ /\ e.kind = "job"
              /\ jobState' = [jobState EXCEPT ![e.job] = AfterExecution(e.job)]
              /\ UNCHANGED stopJobExecuted
        /\ UNCHANGED <<managerVars, queue, stopJobPushed, clientVars, owner, held>>

End(w) ==
    /\ pc[w] = "loop" /\ stopJobExecuted[w]
    /\ pc' = [pc EXCEPT ![w] = "none"]
    /\ state' = [state EXCEPT ![w] = "Done"]
    /\ UNCHANGED <<workers, queue, stopJobPushed, stopJobExecuted, cur, clientVars, jobVars>>
-----------------------------------------------------------------------------
(* The manager.  While WaitForAllIdle counts it holds the manager's lock.   *)
(* RemoveAll takes no lock: no other thread may use the manager meanwhile.  *)

Unlocked == \A c \in Clients : cpc[c] # "count" /\ target[c] \cap workers = {}

Add(c, w) ==
    /\ cpc[c] = "ready" /\ Unlocked /\ w \notin workers
    /\ state[w] = "Unstarted" \/ (AddAgain /\ state[w] = "Terminated")
    /\ workers' = workers \cup {w}
    /\ state' = [state EXCEPT ![w] = "Started"]
    /\ pc' = [pc EXCEPT ![w] = "start"]
    /\ UNCHANGED <<queue, stopJobPushed, stopJobExecuted, cur, clientVars, jobVars>>

StartStopping(c, set) ==
    /\ cpc' = [cpc EXCEPT ![c] = "stop"]
    /\ target' = [target EXCEPT ![c] = set]
    /\ todo' = [todo EXCEPT ![c] = set]
    /\ UNCHANGED <<state, workerVars, at, jobVars>>

Remove(c, w) ==
    /\ cpc[c] = "ready" /\ Unlocked /\ w \in workers
    /\ workers' = workers \ {w}
    /\ StartStopping(c, {w})

RemoveAll(c) ==
    /\ cpc[c] = "ready" /\ Unlocked /\ workers # {}
    /\ \A d \in Clients : target[d] = {}
    /\ UNCHANGED workers
    /\ StartStopping(c, workers)

\* ScheduleStop first sets the flag, which is what StopIsScheduled() reads.
MarkStop(c, w) ==
    /\ cpc[c] = "stop" /\ w \in todo[c]
    /\ todo' = [todo EXCEPT ![c] = @ \ {w}]
    /\ \/ /\ stopJobPushed[w]
          /\ UNCHANGED <<stopJobPushed, cpc, at>>
       \/ /\ ~stopJobPushed[w]
          /\ stopJobPushed' = [stopJobPushed EXCEPT ![w] = TRUE]
          /\ cpc' = [cpc EXCEPT ![c] = "stopPush"]
          /\ at' = [at EXCEPT ![c] = w]
    /\ UNCHANGED <<managerVars, queue, stopJobExecuted, pc, cur, target, jobVars>>

PushStop(c, p) ==
    /\ cpc[c] = "stopPush"
    /\ pushAndRelease(at[c], Entry("stop", None, p))
    /\ cpc' = [cpc EXCEPT ![c] = "stopSignal"]
    /\ UNCHANGED <<managerVars, stopJobPushed, stopJobExecuted, pc, cur, target, todo, at, jobVars>>

AllDone(c) == \A w \in target[c] : state[w] = "Done"

\* Waits until all threads are Done, then joins them.
Join(c) ==
    /\ cpc[c] = "stop" /\ todo[c] = {}
    /\ AllDone(c)
    /\ state' = [w \in Workers |-> IF w \in target[c] THEN "Terminated" ELSE state[w]]
    /\ workers' = workers \ target[c]
    /\ target' = [target EXCEPT ![c] = {}]
    /\ cpc' = [cpc EXCEPT ![c] = "ready"]
    /\ UNCHANGED <<workerVars, todo, at, jobVars>>

WaitForAllIdle(c) ==
    /\ cpc[c] = "ready" /\ Unlocked
    /\ cpc' = [cpc EXCEPT ![c] = "count"]
    /\ todo' = [todo EXCEPT ![c] = workers]
    /\ UNCHANGED <<managerVars, workerVars, target, at, jobVars>>

\* A busy worker makes it count again later, or give up at the timeout.
ReadLoad(c, w) ==
    /\ cpc[c] = "count" /\ w \in todo[c]
    /\ todo' = [todo EXCEPT ![c] = IF Load(w) > 0 THEN {} ELSE @ \ {w}]
    /\ cpc' = [cpc EXCEPT ![c] = IF Load(w) > 0 THEN "ready" ELSE @]
    /\ UNCHANGED <<managerVars, workerVars, target, at, jobVars>>

ReportIdle(c) ==
    /\ cpc[c] = "count" /\ todo[c] = {}
    /\ cpc' = [cpc EXCEPT ![c] = "ready"]
    /\ UNCHANGED <<managerVars, workerVars, target, todo, at, jobVars>>
-----------------------------------------------------------------------------
WorkerStep(w) == Begin(w) \/ Sleep(w) \/ pop(w) \/ Execute(w) \/ End(w)

Stopping(c) ==
    \/ Signal(c) \/ Join(c) \/ ReportIdle(c)
    \/ \E w \in Workers : MarkStop(c, w) \/ ReadLoad(c, w)
    \/ \E p \in StopPriorities : PushStop(c, p)

Use(c) ==
    \/ \E j \in Jobs : DeleteJob(c, j) \/ DeleteJobDeferred(c, j)
    \/ \E w \in Workers, j \in Jobs : Schedule(c, w, j)
    \/ \E w \in Workers : Add(c, w) \/ Remove(c, w)
    \/ RemoveAll(c) \/ WaitForAllIdle(c)

Next ==
    \/ \E w \in Workers : WorkerStep(w) \/ Spurious(w)
    \/ \E c \in Clients : Stopping(c) \/ Use(c)

\* A thread that can go on does so; nobody has to use the workers.
Fairness ==
    /\ \A w \in Workers : WF_vars(WorkerStep(w))
    /\ \A c \in Clients : WF_vars(Stopping(c))

Spec == Init /\ [][Next]_vars /\ Fairness
-----------------------------------------------------------------------------
TypeOK ==
    /\ workers \subseteq Workers
    /\ state \in [Workers -> {"Unstarted", "Started", "Running", "Done", "Terminated"}]
    /\ queue \in [Workers -> Seq(Entries)]
    /\ stopJobPushed \in [Workers -> BOOLEAN]
    /\ stopJobExecuted \in [Workers -> BOOLEAN]
    /\ pc \in [Workers -> {"none", "start", "loop", "sleep", "run"}]
    /\ cur \in [Workers -> Entries]
    /\ cpc \in [Clients -> {"ready", "signal", "stop", "stopPush", "stopSignal", "count"}]
    /\ target \in [Clients -> SUBSET Workers] /\ todo \in [Clients -> SUBSET Workers]
    /\ at \in [Clients -> Workers \cup {None}]
    /\ jobState \in [Jobs -> {"new", "queued", "processed", "gone"}]
    /\ owner \in [Jobs -> Workers \cup {None}]
    /\ held \subseteq Jobs

InHand(w) ==
    {queue[w][i] : i \in DOMAIN queue[w]} \cup (IF pc[w] = "run" THEN {cur[w]} ELSE {})

\* Whatever a worker still has to process or to delete is not deleted: neither
\* DeleteJob nor a deferred deletion overtakes the job it deletes.
JobsAlive == \A w \in Workers : \A e \in InHand(w) : e.job # None => jobState[e.job] # "gone"

\* Remove and RemoveAll, called with priority Lowest, "ensure that all other
\* commands are duly executed before exiting": of what clients scheduled in
\* time, a thread that ended leaves only entries of a priority below that of its
\* stop job.
AllExecutedBeforeExit ==
    \A w \in Workers : state[w] \in {"Done", "Terminated"} =>
        \A n \in DOMAIN queue[w] : queue[w][n].priority < cur[w].priority

\* A worker the manager does not know, and that nobody is removing, has no
\* thread: Remove and RemoveAll return only when the thread was joined.
RemovedMeansJoined ==
    \A w \in Workers : w \notin workers /\ (\A c \in Clients : w \notin target[c])
        => pc[w] = "none" /\ state[w] \in {"Unstarted", "Terminated"}

\* No job object is lost: when all workers are removed, their queues are empty
\* and the clients have disposed the jobs they were given, every job that was
\* created was deleted, but for those that process() took.
NoJobIsLost ==
    workers = {} /\ held = {} /\ (\A c \in Clients : cpc[c] = "ready")
    /\ (\A w \in Workers : queue[w] = <<>>)
        => \A j \in Jobs \ Handled : jobState[j] \in {"new", "gone"}

\* A job that is scheduled is executed, not destroyed before, and freed once; a
\* removed worker has executed all its jobs and is joined.
WorkersKeepTheirJobs ==
    TypeOK /\ JobsAlive /\ AllExecutedBeforeExit /\ NoJobIsLost /\ RemovedMeansJoined

\* WaitForAllIdle returns true only when all threads are idle; Load() is
\* documented to include the job that is currently processed.
AllIdleWhenReported ==
    [][\A c \in Clients : ReportIdle(c) => \A w \in workers : pc[w] # "run"]_vars

\* A job that was scheduled is executed, unless a stop job of a higher priority
\* ends its worker before.
EveryJobIsExecuted == \A j \in Jobs : jobState[j] = "queued" ~>
    \/ jobState[j] # "queued"
    \/ \E w \in Workers :
        owner[j] = w /\ state[w] \in {"Done", "Terminated"} /\ cur[w].priority > Priority[j]

\* Remove and RemoveAll return: no stop job is forgotten or overlooked.
RemoveReturns == \A c \in Clients : cpc[c] = "stop" ~> cpc[c] = "ready"
-----------------------------------------------------------------------------
(* The mapping that shows that the sorted list of a worker implements        *)
(* PriorityServer.  The jobs of one priority stand together in the list;      *)
(* stop jobs and deletions are jobs like any other.                          *)

Priorities == {Priority[j] : j \in Jobs} \cup {DeletionPriority} \cup StopPriorities
LastAbove(q, p) == Max({0} \cup {i \in DOMAIN q : q[i].priority > p})
JobsOf(q, p) == SubSeq(q, LastAbove(q, p) + 1, LastAbove(q, p - 1))
Running(w) == IF pc[w] = "run" THEN <<cur[w]>> ELSE <<>>

UserJobs == {Entry("job", j, Priority[j]) : j \in Jobs}
Commands == {Entry("delete", j, DeletionPriority) : j \in Kept}
                \cup {Entry("stop", None, p) : p \in StopPriorities}
Scheduled == {e \in UserJobs : owner[e.job] # None}

Server == INSTANCE PriorityServer WITH
    Jobs <- UserJobs \cup Commands, Single <- UserJobs,
    waiting <- [w \in Workers |-> [p \in Priorities |-> JobsOf(queue[w], p)]],
    running <- [w \in Workers |-> Running(w)],
    submitted <- Scheduled,
    done <- {e \in Scheduled : \A w \in Workers : e \notin InHand(w)}

\* Jobs begin in the order of their priority and, within one priority, first
\* come first served, one at a time on each worker, and each of them once.
ServesByPriority == Server!Spec
=============================================================================
