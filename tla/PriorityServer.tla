---------------------------- MODULE PriorityServer ----------------------------
(* What a set of dedicated workers promises to those who schedule jobs:     *)
(* each worker executes one job at a time, of those waiting one with the     *)
(* highest priority, and among these the one that came first.  The jobs in   *)
(* Single are submitted, and so executed, no more than once.                *)
EXTENDS Integers, Sequences

CONSTANTS Workers, Jobs, Single, Priorities

VARIABLES
    waiting,            \* of each worker and priority, the jobs in their order
    running,            \* the job of each worker: a sequence of none or one
    submitted, done     \* of the jobs in Single

vars == <<waiting, running, submitted, done>>

Init ==
    /\ waiting = [w \in Workers |-> [p \in Priorities |-> <<>>]]
    /\ running = [w \in Workers |-> <<>>]
    /\ submitted = {} /\ done = {}

Submit(w, j, p) ==
    /\ j \notin submitted
    /\ waiting' = [waiting EXCEPT ![w][p] = Append(@, j)]
    /\ submitted' = submitted \cup ({j} \cap Single)
    /\ UNCHANGED <<running, done>>

Begin(w, p) ==
    /\ running[w] = <<>> /\ waiting[w][p] # <<>>
    /\ \A q \in Priorities : q > p => waiting[w][q] = <<>>
    /\ running' = [running EXCEPT ![w] = <<Head(waiting[w][p])>>]
    /\ waiting' = [waiting EXCEPT ![w][p] = Tail(@)]
    /\ UNCHANGED <<submitted, done>>

Finish(w) ==
    /\ running[w] # <<>>
    /\ done' = done \cup ({running[w][1]} \cap Single)
    /\ running' = [running EXCEPT ![w] = <<>>]
    /\ UNCHANGED <<waiting, submitted>>

Next ==
    \E w \in Workers :
        \/ \E j \in Jobs, p \in Priorities : Submit(w, j, p)
        \/ \E p \in Priorities : Begin(w, p)
        \/ Finish(w)

Spec == Init /\ [][Next]_vars
=============================================================================
