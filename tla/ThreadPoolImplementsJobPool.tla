--------------------- MODULE ThreadPoolImplementsJobPool ---------------------
(* The refinement mapping from ThreadPool to JobPool.  The internal jobs    *)
(* JOB_JOIN and JOB_STOP are not visible to the user; they are only ever    *)
(* the next entry of the queue.                                             *)
EXTENDS ThreadPool

UserQueue ==
    IF queue # <<>> /\ Head(queue).kind \in {"join", "stop"} THEN Tail(queue) ELSE queue

RunningJobs == {j \in Jobs : jobState[j] = "active"}
ExecutedJobs == {j \in Jobs : jobState[j] \in {"done", "freed"}}

Abstract == INSTANCE JobPool WITH
    line <- UserQueue, running <- RunningJobs, executed <- ExecutedJobs

\* The thread pool, with all it does to its threads, implements the job pool:
\* first come first served, each job once, synchronisations as barriers.
ImplementsJobPool == Abstract!Spec
=============================================================================
