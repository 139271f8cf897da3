------------------------------- MODULE JobPool -------------------------------
(***************************************************************************)
(* What a user of alib::threadmodel::ThreadPool may rely on, without the    *)
(* threads: jobs are begun in the order they were scheduled in, each one    *)
(* once; and a synchronisation request in between lets nothing behind it    *)
(* begin before everything in front of it has been executed.                *)
(***************************************************************************)
EXTENDS Naturals, Sequences

CONSTANTS Jobs, None

VARIABLES
    line,       \* what was scheduled and not begun: jobs and synchronisations
    running,    \* jobs begun and not executed
    executed    \* jobs executed

jobPoolVars == <<line, running, executed>>

Begun(j) == j \in running \cup executed
Waiting(j) == \E i \in 1..Len(line) : line[i] = [kind |-> "job", job |-> j]

Init == line = <<>> /\ running = {} /\ executed = {}

Submit(j) ==
    /\ ~Begun(j) /\ ~Waiting(j)
    /\ line' = Append(line, [kind |-> "job", job |-> j])
    /\ UNCHANGED <<running, executed>>

\* A synchronisation, which may carry a job that is deleted with it.
Synchronize(j) ==
    /\ line' = Append(line, [kind |-> "sync", job |-> j])
    /\ UNCHANGED <<running, executed>>

Begin(j) ==
    /\ line # <<>> /\ Head(line) = [kind |-> "job", job |-> j]
    /\ line' = Tail(line)
    /\ running' = running \cup {j}
    /\ UNCHANGED executed

Finish(j) ==
    /\ j \in running
    /\ running' = running \ {j}
    /\ executed' = executed \cup {j}
    /\ UNCHANGED line

\* The synchronisation is passed; the job it carries is past use.
Pass ==
    /\ line # <<>> /\ Head(line).kind = "sync"
    /\ running = {}
    /\ Head(line).job \in executed \cup {None}
    /\ line' = Tail(line)
    /\ UNCHANGED <<running, executed>>

Next ==
    \/ \E j \in Jobs : Submit(j) \/ Begin(j) \/ Finish(j) \/ Synchronize(j)
    \/ Synchronize(None) \/ Pass

Spec == Init /\ [][Next]_jobPoolVars
=============================================================================
