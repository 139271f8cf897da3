-------------------------------- MODULE Thread --------------------------------
(***************************************************************************)
(* alib::Thread and its registry: a map from the thread IDs of the operating *)
(* system to Thread objects.  Objects are registered by Start() and removed  *)
(* by Join(); for threads that were not started with this class, Get()       *)
(* creates and registers an object the first time it is asked.              *)
(*                                                                         *)
(* The operating system is part of the model: it gives IDs to threads and    *)
(* may, with ReuseIDs, give an ID again once its thread was joined or, for   *)
(* a foreign thread, has ended.                                             *)
(***************************************************************************)
EXTENDS Integers, FiniteSets

CONSTANTS
    Threads,            \* objects created by the user
    SystemThreads,      \* objects that Get() may create, and main's
    Main, IDs, MainID, None,
    Foreign,            \* how many threads are started without the class
    ReuseIDs

ThreadAssumption ==
    /\ Main \in SystemThreads /\ Threads \cap SystemThreads = {}
    /\ None \notin Threads \cup SystemThreads \cup IDs
    /\ {"main", "foreign"} \cap Threads = {}
    /\ MainID \in IDs /\ Foreign \in Nat /\ ReuseIDs \in BOOLEAN

VARIABLES
    state, nativeID, c11Thread,     \* fields of the objects
    THREAD_MAP,                     \* a set of pairs: keys may come twice
    MAIN_THREAD, nextSystemThreadId,
    runs,                           \* what runs under an ID: the operating system
    used,                           \* IDs given so far
    THIS_THREAD,                    \* thread-local pointers
    joining, foreign, erased

objects == <<state, nativeID, c11Thread>>
registry == <<THREAD_MAP, MAIN_THREAD, nextSystemThreadId>>
system == <<runs, used, foreign>>
vars == <<objects, registry, system, THIS_THREAD, joining, erased>>

Objects == Threads \cup SystemThreads
FreeIDs == {n \in IDs : runs[n] = None /\ (ReuseIDs \/ n \notin used)}
Entries(n) == {t \in Objects : <<n, t>> \in THREAD_MAP}

Init ==
    /\ state = [t \in Objects |-> "Unstarted"]
    /\ nativeID = [t \in Objects |-> None]
    /\ c11Thread = [t \in Threads |-> FALSE]
    /\ THREAD_MAP = {} /\ MAIN_THREAD = None /\ nextSystemThreadId = 1
    /\ foreign = 0 /\ joining = [t \in Threads |-> "no"] /\ erased = 1
    /\ runs = [n \in IDs |-> IF n = MainID THEN "main" ELSE None] /\ used = {MainID}
    /\ THIS_THREAD = [n \in IDs |-> None]
-----------------------------------------------------------------------------
bootstrap ==
    /\ MAIN_THREAD = None /\ state[Main] = "Unstarted"
    /\ MAIN_THREAD' = Main
    /\ state' = [state EXCEPT ![Main] = "Running"]
    /\ THREAD_MAP' = THREAD_MAP \cup {<<MainID, Main>>}
    /\ UNCHANGED <<nativeID, c11Thread, nextSystemThreadId, system, THIS_THREAD, joining, erased>>

\* Users have joined their threads.  With more than one object left in the
\* map only that of main is deleted.
shutdown ==
    /\ MAIN_THREAD # None /\ \A t \in Threads : ~c11Thread[t]
    /\ state' = [state EXCEPT ![Main] = "Terminated"]
    /\ MAIN_THREAD' = None
    /\ THREAD_MAP' = IF Cardinality(THREAD_MAP) = 1 THEN {} ELSE THREAD_MAP
    /\ UNCHANGED <<nativeID, c11Thread, nextSystemThreadId, system, THIS_THREAD, joining, erased>>

\* The new thread is created and registered while the map is locked.
StartUnregistered(t, n) ==          \* mutant
    /\ MAIN_THREAD # None /\ ~c11Thread[t] /\ joining[t] = "no" /\ n \in FreeIDs
    /\ state' = [state EXCEPT ![t] = "Started"]
    /\ c11Thread' = [c11Thread EXCEPT ![t] = TRUE]
    /\ nativeID' = [nativeID EXCEPT ![t] = n]
    /\ runs' = [runs EXCEPT ![n] = t] /\ used' = used \cup {n}
    /\ THIS_THREAD' = [THIS_THREAD EXCEPT ![n] = None]
    /\ UNCHANGED <<registry, foreign, joining, erased>>
Start(t, n) ==
    /\ MAIN_THREAD # None /\ ~c11Thread[t] /\ joining[t] = "no" /\ n \in FreeIDs
    /\ state' = [state EXCEPT ![t] = "Started"]
    /\ c11Thread' = [c11Thread EXCEPT ![t] = TRUE]
    /\ nativeID' = [nativeID EXCEPT ![t] = n]
    /\ runs' = [runs EXCEPT ![n] = t] /\ used' = used \cup {n}
    /\ THIS_THREAD' = [THIS_THREAD EXCEPT ![n] = None]
    /\ THREAD_MAP' = THREAD_MAP \cup {<<n, t>>}
    /\ UNCHANGED <<MAIN_THREAD, nextSystemThreadId, foreign, joining, erased>>

threadStart(t) ==
    /\ c11Thread[t] /\ state[t] = "Started"
    /\ THIS_THREAD' = [THIS_THREAD EXCEPT ![nativeID[t]] = t]
    /\ state' = [state EXCEPT ![t] = "Running"]
    /\ UNCHANGED <<nativeID, c11Thread, registry, system, joining, erased>>

RunEnds(t) ==
    /\ t \in Threads /\ state[t] = "Running"
    /\ state' = [state EXCEPT ![t] = "Done"]
    /\ UNCHANGED <<nativeID, c11Thread, registry, system, THIS_THREAD, joining, erased>>

\* Join() may be called at any time and waits.  From now on the operating
\* system may give the ID to another thread.
Join(t) ==
    /\ c11Thread[t] /\ joining[t] = "no"
    /\ joining' = [joining EXCEPT ![t] = "wait"]
    /\ UNCHANGED <<objects, registry, system, THIS_THREAD, erased>>

JoinNative(t) ==
    /\ joining[t] = "wait" /\ state[t] = "Done"
    /\ runs' = [runs EXCEPT ![nativeID[t]] = None]
    /\ joining' = [joining EXCEPT ![t] = "erase"]
    /\ UNCHANGED <<objects, registry, used, foreign, THIS_THREAD, erased>>

\* All entries of the ID are erased; an assertion counts them.
EraseEntries(t) == {e \in THREAD_MAP : e[1] # nativeID[t]}

JoinErase(t) ==
    /\ joining[t] = "erase"
    /\ THREAD_MAP' = EraseEntries(t)
    /\ erased' = Cardinality(Entries(nativeID[t]))
    /\ c11Thread' = [c11Thread EXCEPT ![t] = FALSE]
    /\ state' = [state EXCEPT ![t] = "Terminated"]
    /\ joining' = [joining EXCEPT ![t] = "no"]
    /\ UNCHANGED <<nativeID, MAIN_THREAD, nextSystemThreadId, system, THIS_THREAD>>
-----------------------------------------------------------------------------
(* Threads that were started without the class, and the search for objects. *)

ForeignStart(n) ==
    /\ foreign < Foreign /\ n \in FreeIDs
    /\ foreign' = foreign + 1
    /\ runs' = [runs EXCEPT ![n] = "foreign"] /\ used' = used \cup {n}
    /\ THIS_THREAD' = [THIS_THREAD EXCEPT ![n] = None]
    /\ UNCHANGED <<objects, registry, joining, erased>>

ForeignEnd(n) ==
    /\ runs[n] = "foreign"
    /\ runs' = [runs EXCEPT ![n] = None]
    /\ UNCHANGED <<objects, registry, used, foreign, THIS_THREAD, joining, erased>>

\* System objects get the numbers -1, -2, ...: main's is the first.
Unused == {t \in SystemThreads \ {Main} : state[t] = "Unstarted"}

NextSystemID == nextSystemThreadId + 1

\* Get(), asked for the ID n by any thread, and GetCurrent() by the thread n.
Get(n) ==
    /\ MAIN_THREAD # None /\ runs[n] # None
    /\ IF Entries(n) # {} THEN UNCHANGED <<state, THREAD_MAP, nextSystemThreadId>>
       ELSE \E t \in Unused :
            /\ state' = [state EXCEPT ![t] = "Running"]
            /\ THREAD_MAP' = THREAD_MAP \cup {<<n, t>>}
            /\ nextSystemThreadId' = NextSystemID
    /\ UNCHANGED <<nativeID, c11Thread, MAIN_THREAD, system, THIS_THREAD, joining, erased>>

GetCurrent(n) ==
    /\ THIS_THREAD[n] = None /\ runs[n] \notin Threads
    /\ Entries(n) # {}
    /\ \E t \in Entries(n) : THIS_THREAD' = [THIS_THREAD EXCEPT ![n] = t]
    /\ UNCHANGED <<objects, registry, system, joining, erased>>
-----------------------------------------------------------------------------
ThreadStep(t) == threadStart(t) \/ RunEnds(t) \/ JoinNative(t) \/ JoinErase(t)

Next ==
    \/ bootstrap \/ shutdown
    \/ \E t \in Threads : Join(t) \/ ThreadStep(t) \/ \E n \in IDs : Start(t, n)
    \/ \E n \in IDs : ForeignStart(n) \/ ForeignEnd(n) \/ Get(n) \/ GetCurrent(n)

\* Threads end, and whoever joins one goes on then.
Fairness == \A t \in Threads : WF_vars(ThreadStep(t))

Spec == Init /\ [][Next]_vars /\ Fairness
-----------------------------------------------------------------------------
States == <<"Unstarted", "Started", "Running", "Done", "Terminated">>
Rank(s) == CHOOSE i \in DOMAIN States : States[i] = s

TypeOK ==
    /\ state \in [Objects -> {States[i] : i \in DOMAIN States}]
    /\ nativeID \in [Objects -> IDs \cup {None}]
    /\ c11Thread \in [Threads -> BOOLEAN]
    /\ THREAD_MAP \subseteq IDs \X Objects
    /\ MAIN_THREAD \in {None, Main} /\ nextSystemThreadId \in Nat
    /\ runs \in [IDs -> Threads \cup {None, "main", "foreign"}]
    /\ used \subseteq IDs /\ THIS_THREAD \in [IDs -> Objects \cup {None}]
    /\ joining \in [Threads -> {"no", "wait", "erase"}]
    /\ foreign \in 0..Foreign /\ erased \in Nat

\* "nativeID is received from a thread that was started using this class
\* Thread, then a pointer to that instance is returned": whoever asks Get()
\* for the ID of a thread that runs gets its object, and no other.
GetFindsTheThread ==
    \A n \in IDs : runs[n] \in Threads => Entries(n) = {runs[n]}

\* The assertion in Join(): exactly one entry was erased.
OneEntryErased == erased = 1

\* The life of an object goes from Unstarted to Terminated and only a new
\* Start() leads back.
LifecycleInOrder ==
    [][\A t \in Threads : state'[t] # state[t] =>
          \/ Rank(state'[t]) = Rank(state[t]) + 1
          \/ state[t] = "Terminated" /\ state'[t] = "Started"]_vars

\* "We should have exactly one thread and this is the system thread": once
\* all threads were joined, shutdown() finds nothing left but main.
ShutdownFindsOnlyMain == [][shutdown => Cardinality(THREAD_MAP) = 1]_vars

\* Join() returns.
JoinReturns == \A t \in Threads : joining[t] = "wait" ~> joining[t] = "no"
=============================================================================
