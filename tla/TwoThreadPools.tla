--------------------------- MODULE TwoThreadPools ---------------------------
(***************************************************************************)
(* Two thread pools in one process.  They share nothing but the Thread      *)
(* objects' world and the job JOB_JOIN: "we only need one instance", says   *)
(* threadpool.cpp:227, and its field workerToJoin is one variable that both *)
(* pools write under their own mutexes.                                     *)
(***************************************************************************)
EXTENDS Integers

CONSTANTS
    ClientsA, WorkersA, JobsA,
    ClientsB, WorkersB, JobsB,
    None, Mode, InitialMax, MaxChoices, WorkersMin,
    IncreaseThreshold, DecreaseThreshold, IncreaseSchedule, DecreaseSchedule,
    MaxScheduled

VARIABLES
    thread, workerToJoin,
    mutexA, queueA, ctdOpenJobsA, ctdStatJobsScheduledA, workersA, ctdWorkersA, ctdIdleA,
    lastThreadToJoinA, WorkersMaxA, ageA, pcA, curA, cpcA, seenA, jobStateA, heldA,
    mutexB, queueB, ctdOpenJobsB, ctdStatJobsScheduledB, workersB, ctdWorkersB, ctdIdleB,
    lastThreadToJoinB, WorkersMaxB, ageB, pcB, curB, cpcB, seenB, jobStateB, heldB

ownA == <<mutexA, queueA, ctdOpenJobsA, ctdStatJobsScheduledA, workersA, ctdWorkersA, ctdIdleA,
          lastThreadToJoinA, WorkersMaxA, ageA, pcA, curA, cpcA, seenA, jobStateA, heldA>>
ownB == <<mutexB, queueB, ctdOpenJobsB, ctdStatJobsScheduledB, workersB, ctdWorkersB, ctdIdleB,
          lastThreadToJoinB, WorkersMaxB, ageB, pcB, curB, cpcB, seenB, jobStateB, heldB>>
twoVars == <<thread, workerToJoin, ownA, ownB>>

PoolA == INSTANCE ThreadPool WITH
    Clients <- ClientsA, Workers <- WorkersA, Threads <- WorkersA \cup WorkersB,
    Jobs <- JobsA, Kept <- {}, Chained <- {}, ShutdownOnlyIdle <- TRUE,
    mutex <- mutexA, queue <- queueA, ctdOpenJobs <- ctdOpenJobsA,
    ctdStatJobsScheduled <- ctdStatJobsScheduledA, workers <- workersA,
    ctdWorkers <- ctdWorkersA, ctdIdle <- ctdIdleA, lastThreadToJoin <- lastThreadToJoinA,
    WorkersMax <- WorkersMaxA, age <- ageA, pc <- pcA, cur <- curA, cpc <- cpcA,
    seen <- seenA, jobState <- jobStateA, held <- heldA

PoolB == INSTANCE ThreadPool WITH
    Clients <- ClientsB, Workers <- WorkersB, Threads <- WorkersA \cup WorkersB,
    Jobs <- JobsB, Kept <- {}, Chained <- {}, ShutdownOnlyIdle <- TRUE,
    mutex <- mutexB, queue <- queueB, ctdOpenJobs <- ctdOpenJobsB,
    ctdStatJobsScheduled <- ctdStatJobsScheduledB, workers <- workersB,
    ctdWorkers <- ctdWorkersB, ctdIdle <- ctdIdleB, lastThreadToJoin <- lastThreadToJoinB,
    WorkersMax <- WorkersMaxB, age <- ageB, pc <- pcB, cur <- curB, cpc <- cpcB,
    seen <- seenB, jobState <- jobStateB, held <- heldB

Init == PoolA!Init /\ PoolB!Init

StepA == PoolA!Next /\ UNCHANGED ownB
StepB == PoolB!Next /\ UNCHANGED ownA

Next == StepA \/ StepB

Spec == Init /\ [][Next]_twoVars
-----------------------------------------------------------------------------
\* "make sure the calling thread is joined. This is either done by the next
\* worker, ..." (threadpool.cpp:276): the worker that the next one of the
\* same pool is going to join is the one that left this pool.
LeaverIsJoinedByItsPool == PoolA!EveryLeaverIsNamed /\ PoolB!EveryLeaverIsNamed
=============================================================================
