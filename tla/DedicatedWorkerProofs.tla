------------------------ MODULE DedicatedWorkerProofs ------------------------
(* Proofs that a worker keeps the jobs it is given, and that its sorted list  *)
(* implements PriorityServer, for every set of workers, clients and jobs.     *)
EXTENDS DedicatedWorker, WellFoundedInduction, SequenceTheorems, TLAPS

JobEntry(j) == Entry("job", j, Priority[j])
DeleteEntry(j) == Entry("delete", j, DeletionPriority)

\* The list is sorted by falling priority.
Ordered(q) == \A m, n \in DOMAIN q : m < n => q[m].priority >= q[n].priority

\* What a worker has in hand was given to it.
Owned ==
    \A w \in Workers : \A e \in InHand(w) :
        /\ e \in UserJobs \cup Commands
        /\ e.kind # "stop" => owner[e.job] = w

\* No job and no deletion is twice in hand of a worker.
EachOnce ==
    \A w \in Workers : \A n \in DOMAIN queue[w] : queue[w][n].kind # "stop" =>
        /\ \A m \in DOMAIN queue[w] : queue[w][m] = queue[w][n] => m = n
        /\ pc[w] = "run" => cur[w] # queue[w][n]

\* The deletion of a job is processed after the job.
DeletionBehind ==
    \A w \in Workers : \A j \in Jobs : \A n \in DOMAIN queue[w] : queue[w][n] = JobEntry(j) =>
        /\ \A m \in DOMAIN queue[w] : queue[w][m] = DeleteEntry(j) => n < m
        /\ pc[w] = "run" => cur[w] # DeleteEntry(j)

\* The state of a job tells what its worker has in hand of it.
JobLife ==
    \A j \in Jobs :
        /\ jobState[j] = "new" <=> owner[j] = None
        /\ jobState[j] = "queued" => JobEntry(j) \in InHand(owner[j])
        /\ jobState[j] = "processed" => j \in Kept \cup Handled
        /\ jobState[j] \in {"queued", "processed"} /\ j \in Kept =>
            j \in held \/ DeleteEntry(j) \in InHand(owner[j])
        /\ j \in held => j \in Kept /\ jobState[j] \in {"queued", "processed"}
        /\ \A w \in Workers :
            /\ JobEntry(j) \in InHand(w) => jobState[j] = "queued"
            /\ DeleteEntry(j) \in InHand(w) => j \notin held /\ jobState[j] \in {"queued", "processed"}

JobsInv ==
    /\ \A w \in Workers : Ordered(queue[w])
    /\ Owned /\ EachOnce /\ DeletionBehind /\ JobLife

\* The thread of a worker follows its state, and the manager knows the worker or
\* one of its callers removes it.
ThreadOfWorker ==
    \A w \in Workers :
        /\ pc[w] = "none" <=> state[w] \in {"Unstarted", "Done", "Terminated"}
        /\ pc[w] = "start" <=> state[w] = "Started"
        /\ pc[w] \in {"sleep", "run"} => ~stopJobExecuted[w]
        /\ state[w] \in {"Started", "Running", "Done"} =>
            w \in workers \/ \E c \in Clients : w \in target[c]
        /\ state[w] \in {"Done", "Terminated"} => stopJobExecuted[w]

CallOfClient ==
    \A c \in Clients :
        /\ cpc[c] \in {"ready", "signal", "count"} => target[c] = {}
        /\ cpc[c] \in {"stop", "stopPush", "stopSignal"} => todo[c] \subseteq target[c]
        /\ cpc[c] \in {"stopPush", "stopSignal"} => at[c] \in target[c]
        /\ cpc[c] = "stopPush" => stopJobPushed[at[c]]

\* Nobody schedules jobs when the stop job of a worker is on its way, so that it
\* is the last of its priority.
StopComes(w) == \E c \in Clients : cpc[c] = "stopPush" /\ at[c] = w
StopAt(w) ==
    /\ stopJobPushed[w] => state[w] = "Terminated" \/ \E c \in Clients : w \in target[c]
    /\ ~stopJobPushed[w] \/ StopComes(w) =>
        ~stopJobExecuted[w] /\ \A e \in InHand(w) : e.kind # "stop"
    /\ \A n \in DOMAIN queue[w] : queue[w][n].kind = "stop" =>
        \A m \in DOMAIN queue[w] : m > n =>
            queue[w][m].priority < queue[w][n].priority /\ queue[w][m].kind # "stop"
    /\ stopJobExecuted[w] \/ (pc[w] = "run" /\ cur[w].kind = "stop") =>
        /\ cur[w].kind = "stop"
        /\ \A n \in DOMAIN queue[w] :
            queue[w][n].priority < cur[w].priority /\ queue[w][n].kind # "stop"
StopIsLast ==
    /\ \A c, d \in Clients : cpc[c] = "stopPush" /\ cpc[d] = "stopPush" /\ at[c] = at[d] => c = d
    /\ \A w \in Workers : StopAt(w)

InTime == ~LateJobs /\ ~AddAgain
IInv == TypeOK /\ JobsInv /\ ThreadOfWorker /\ CallOfClient /\ (InTime => StopIsLast)
-----------------------------------------------------------------------------
(* Maxima, and the place of an entry in the list.                           *)

LEMMA MaxIsGreatest ==
    ASSUME NEW n \in Nat, NEW S \in SUBSET (0..n), S # {}
    PROVE  Max(S) \in S /\ \A x \in S : x <= Max(S)
<1> DEFINE T == {k \in Nat : n - k \in S}
<1>1. T # {}
  <2>1. PICK x \in S : TRUE
    OBVIOUS
  <2>2. n - x \in Nat /\ n - (n - x) = x
    OBVIOUS
  <2>3. n - x \in T
    BY <2>1, <2>2
  <2> QED BY <2>3
<1>2. PICK k \in T : \A z \in T : <<z, k>> \notin OpToRel(<, Nat)
  <2>1. T \subseteq Nat
    OBVIOUS
  <2> HIDE DEF T
  <2> QED BY <1>1, <2>1, NatLessThanWellFounded, WFMin
<1>4. \A z \in S : n - k >= z
  <2> TAKE z \in S
  <2>1. n - z \in Nat /\ n - (n - z) = z
    OBVIOUS
  <2>2. n - z \in T
    BY <2>1
  <2>3. ~(n - z < k)
    BY <1>2, <2>2 DEF OpToRel
  <2> QED BY <2>1, <2>3
<1>5. \E m \in S : \A z \in S : m >= z
  BY <1>2, <1>4
<1>6. Max(S) \in S /\ \A z \in S : Max(S) >= z
  BY <1>4 DEF Max
<1> QED BY <1>6

LEMMA EntryFields ==
    \A kind, j, p : /\ Entry(kind, j, p).kind = kind /\ Entry(kind, j, p).job = j
                    /\ Entry(kind, j, p).priority = p
BY DEF Entry

LEMMA IntervalOfNumbers == \A a, b \in Int : a..b \subseteq Int
OBVIOUS

LEMMA PriorityNumbers ==
    /\ Lowest..Highest \subseteq Int /\ Priorities \subseteq Lowest..Highest
    /\ \A e \in Entries : e.priority \in Int
<1>1. Lowest..Highest \subseteq Int
  <2>1. Lowest \in Int /\ Highest \in Int
    BY DEF Lowest, Highest
  <2> QED BY <2>1, IntervalOfNumbers
<1>2. Priorities \subseteq Lowest..Highest
  <2> SUFFICES ASSUME NEW p \in Priorities PROVE p \in Lowest..Highest
    OBVIOUS
  <2>1. CASE \E j \in Jobs : p = Priority[j]
    BY <2>1, DWAssumption
  <2>2. CASE p \in StopPriorities
    BY <2>2, DWAssumption
  <2>3. CASE p = DeletionPriority
    BY <2>3 DEF Lowest, Highest, DeletionPriority, DeferredDeletion
  <2> QED BY <2>1, <2>2, <2>3 DEF Priorities
<1>3. \A e \in Entries : e.priority \in Lowest..Highest
  BY DEF Entries
<1> QED BY <1>1, <1>2, <1>3

\* What is in a list is one of the entries that the code builds.
LEMMA EntryShape ==
    ASSUME NEW e \in UserJobs \cup Commands
    PROVE  /\ e \in Entries /\ e.priority \in Priorities
           /\ e.kind \in {"job", "delete", "stop"}
           /\ e.kind = "job" => e.job \in Jobs /\ e = JobEntry(e.job) /\ e \in UserJobs
           /\ e.kind = "delete" => e.job \in Kept /\ e.job \in Jobs /\ e = DeleteEntry(e.job)
           /\ e.kind = "stop" => e.job = None
<1>1. CASE e \in UserJobs
  BY <1>1, DWAssumption DEF UserJobs, Entry, Entries, JobEntry, Priorities, Lowest, Highest
<1>2. CASE e \in Commands
  BY <1>2, DWAssumption DEF Commands, Entry, Entries, DeleteEntry, Priorities, Lowest, Highest,
     DeletionPriority, DeferredDeletion
<1> QED BY <1>1, <1>2

\* What Schedule, DeleteJobDeferred and ScheduleStop push.
LEMMA PushedEntries ==
    /\ \A j \in Jobs : JobEntry(j) \in UserJobs
    /\ \A j \in Kept : DeleteEntry(j) \in Commands
    /\ \A p \in StopPriorities : Entry("stop", None, p) \in Commands
BY DEF UserJobs, Commands, JobEntry, DeleteEntry

\* The place of a new entry: all before it have its priority or a higher one, all
\* behind a lower one.
LEMMA PositionSplits ==
    ASSUME NEW q \in Seq(Entries), Ordered(q), NEW p \in Int
    PROVE  /\ Position(q, p) \in 0..Len(q)
           /\ \A m \in 1..Position(q, p) : q[m].priority >= p
           /\ \A m \in (Position(q, p) + 1)..Len(q) : q[m].priority < p
<1> DEFINE S == {0} \cup {i \in DOMAIN q : q[i].priority >= p}
<1>1. Len(q) \in Nat /\ DOMAIN q = 1..Len(q) /\ S \in SUBSET (0..Len(q)) /\ S # {}
  OBVIOUS
<1>2. Max(S) \in S /\ (\A x \in S : x <= Max(S)) /\ Max(S) \in 0..Len(q)
  <2> HIDE DEF S
  <2> QED BY <1>1, MaxIsGreatest
<1>3. Position(q, p) = Max(S)
  BY DEF Position
<1>4. \A m \in DOMAIN q : q[m].priority \in Int
  <2> TAKE m \in DOMAIN q
  <2>1. q[m] \in Entries
    BY <1>1
  <2> QED BY <2>1, PriorityNumbers
<1>5. \A m \in 1..Max(S) : q[m].priority >= p
  <2> TAKE m \in 1..Max(S)
  <2>1. m \in DOMAIN q /\ Max(S) \in DOMAIN q /\ Max(S) # 0
    <3> HIDE DEF S
    <3> QED BY <1>1, <1>2
  <2>4. q[Max(S)].priority >= p
    BY <1>2, <2>1
  <2>2. CASE m = Max(S)
    BY <2>4, <2>2
  <2>3. CASE m < Max(S)
    <3>1. q[m].priority >= q[Max(S)].priority
      BY <2>1, <2>3 DEF Ordered
    <3> HIDE DEF S
    <3> QED BY <2>1, <2>4, <3>1, <1>4
  <2> HIDE DEF S
  <2> QED BY <2>2, <2>3, <2>1, <1>1
<1>6. \A m \in (Max(S) + 1)..Len(q) : q[m].priority < p
  <2> TAKE m \in (Max(S) + 1)..Len(q)
  <2>1. m \in DOMAIN q /\ ~(m <= Max(S))
    <3> HIDE DEF S
    <3> QED BY <1>1, <1>2
  <2>2. m \notin S
    <3> HIDE DEF S
    <3> QED BY <1>2, <2>1
  <2> QED BY <2>1, <2>2, <1>4
<1> HIDE DEF S
<1> QED BY <1>1, <1>2, <1>3, <1>5, <1>6

Inserted(q, e, b) == SubSeq(q, 1, b) \o <<e>> \o SubSeq(q, b + 1, Len(q))

LEMMA InsertedElements ==
    ASSUME NEW q \in Seq(Entries), NEW e \in Entries, NEW b \in 0..Len(q)
    PROVE  /\ Inserted(q, e, b) \in Seq(Entries)
           /\ Len(Inserted(q, e, b)) = Len(q) + 1
           /\ \A m \in 1..b : Inserted(q, e, b)[m] = q[m]
           /\ Inserted(q, e, b)[b + 1] = e
           /\ \A m \in (b + 1)..Len(q) : Inserted(q, e, b)[m + 1] = q[m]
<1>1. /\ SubSeq(q, 1, b) \in Seq(Entries) /\ Len(SubSeq(q, 1, b)) = b
      /\ \A m \in 1..b : SubSeq(q, 1, b)[m] = q[m]
  BY SubSeqProperties
<1>2. /\ SubSeq(q, b + 1, Len(q)) \in Seq(Entries) /\ Len(SubSeq(q, b + 1, Len(q))) = Len(q) - b
      /\ \A m \in 1..(Len(q) - b) : SubSeq(q, b + 1, Len(q))[m] = q[b + m]
  BY SubSeqProperties
<1> DEFINE front == SubSeq(q, 1, b)
           back == SubSeq(q, b + 1, Len(q))
<1>3. Inserted(q, e, b) = (front \o <<e>>) \o back
  BY DEF Inserted
<1> HIDE DEF front, back
<1>4. front \o <<e>> \in Seq(Entries) /\ Len(front \o <<e>>) = b + 1
      /\ (\A m \in 1..b : (front \o <<e>>)[m] = q[m]) /\ (front \o <<e>>)[b + 1] = e
  BY <1>1 DEF front
<1>5. \A m \in (b + 1)..Len(q) : back[m - b] = q[m] /\ m - b \in 1..(Len(q) - b)
  BY <1>2 DEF back
<1>6. back \in Seq(Entries) /\ Len(back) = Len(q) - b
  BY <1>2 DEF back
<1> DEFINE fe == front \o <<e>>
<1>7. \A m \in (b + 1)..Len(q) : (fe \o back)[m + 1] = back[m - b]
  <2> HIDE DEF fe
  <2> QED BY <1>4, <1>6, <1>5 DEF fe
<1> QED BY <1>3, <1>4, <1>5, <1>6, <1>7
-----------------------------------------------------------------------------
(* The queue under pushAndRelease() and pop().                              *)

LEMMA PushEffect ==
    ASSUME TypeOK, JobsInv, NEW w \in Workers, NEW e \in UserJobs \cup Commands,
           pushAndRelease(w, e), UNCHANGED <<pc, cur>>
    PROVE  \E b \in 0..Len(queue[w]) :
           /\ queue' \in [Workers -> Seq(Entries)]
           /\ \A v \in Workers \ {w} : queue'[v] = queue[v]
           /\ Len(queue'[w]) = Len(queue[w]) + 1
           /\ \A m \in 1..b : queue'[w][m] = queue[w][m] /\ queue[w][m].priority >= e.priority
           /\ queue'[w][b + 1] = e
           /\ \A m \in (b + 1)..Len(queue[w]) :
                queue'[w][m + 1] = queue[w][m] /\ queue[w][m].priority < e.priority
<1> DEFINE b == Position(queue[w], e.priority)
<1>1. e \in Entries /\ e.priority \in Int
  BY EntryShape, PriorityNumbers
<1>2. queue[w] \in Seq(Entries) /\ Ordered(queue[w])
  BY DEF TypeOK, JobsInv
<1>3. /\ b \in 0..Len(queue[w])
      /\ \A m \in 1..b : queue[w][m].priority >= e.priority
      /\ \A m \in (b + 1)..Len(queue[w]) : queue[w][m].priority < e.priority
  BY <1>1, <1>2, PositionSplits
<1>4. queue' = [queue EXCEPT ![w] = Inserted(queue[w], e, b)]
  BY DEF pushAndRelease, Inserted, TypeOK
<1>5. /\ Inserted(queue[w], e, b) \in Seq(Entries)
      /\ Len(Inserted(queue[w], e, b)) = Len(queue[w]) + 1
      /\ \A m \in 1..b : Inserted(queue[w], e, b)[m] = queue[w][m]
      /\ Inserted(queue[w], e, b)[b + 1] = e
      /\ \A m \in (b + 1)..Len(queue[w]) : Inserted(queue[w], e, b)[m + 1] = queue[w][m]
  BY <1>1, <1>2, <1>3, InsertedElements
<1>6. queue'[w] = Inserted(queue[w], e, b) /\ queue' \in [Workers -> Seq(Entries)]
      /\ \A v \in Workers \ {w} : queue'[v] = queue[v]
  <2> HIDE DEF b
  <2> QED BY <1>4, <1>5 DEF TypeOK
<1> HIDE DEF b
<1> QED BY <1>3, <1>5, <1>6

LEMMA PushKeepsOrder ==
    ASSUME TypeOK, JobsInv, NEW w \in Workers, NEW e \in UserJobs \cup Commands,
           pushAndRelease(w, e), UNCHANGED <<pc, cur>>
    PROVE  /\ queue' \in [Workers -> Seq(Entries)]
           /\ \A v \in Workers : Ordered(queue[v])'
           /\ InHand(w)' = InHand(w) \cup {e}
           /\ \A v \in Workers \ {w} : InHand(v)' = InHand(v)
<1>1. PICK b \in 0..Len(queue[w]) :
           /\ queue' \in [Workers -> Seq(Entries)]
           /\ \A v \in Workers \ {w} : queue'[v] = queue[v]
           /\ Len(queue'[w]) = Len(queue[w]) + 1
           /\ \A m \in 1..b : queue'[w][m] = queue[w][m] /\ queue[w][m].priority >= e.priority
           /\ queue'[w][b + 1] = e
           /\ \A m \in (b + 1)..Len(queue[w]) :
                queue'[w][m + 1] = queue[w][m] /\ queue[w][m].priority < e.priority
  BY PushEffect
<1> DEFINE q == queue[w]
           r == queue'[w]
<1>2. q \in Seq(Entries) /\ r \in Seq(Entries) /\ Len(q) \in Nat /\ Len(r) = Len(q) + 1
      /\ DOMAIN q = 1..Len(q) /\ DOMAIN r = 1..(Len(q) + 1)
  BY <1>1 DEF TypeOK
<1>3. \A m \in DOMAIN r : \/ m \in 1..b /\ m \in DOMAIN q /\ r[m] = q[m]
                          \/ m = b + 1 /\ r[m] = e
                          \/ m \in (b + 2)..Len(r) /\ m - 1 \in DOMAIN q /\ r[m] = q[m - 1]
                             /\ m - 1 \in (b + 1)..Len(q)
  <2> TAKE m \in DOMAIN r
  <2>1. CASE m \in 1..b
    BY <2>1, <1>1, <1>2
  <2>2. CASE m = b + 1
    BY <2>2, <1>1
  <2>3. CASE m \in (b + 2)..Len(r)
    <3>1. m - 1 \in (b + 1)..Len(q) /\ (m - 1) + 1 = m
      BY <2>3, <1>2
    <3> QED BY <2>3, <3>1, <1>1, <1>2
  <2> HIDE DEF q, r
  <2> QED BY <1>2, <2>1, <2>2, <2>3
<1>4. e.priority \in Int /\ \A m \in DOMAIN q : q[m].priority \in Int
  <2>1. \A m \in DOMAIN q : q[m] \in Entries
    <3> HIDE DEF q
    <3> QED BY <1>2
  <2> HIDE DEF q
  <2> QED BY <2>1, EntryShape, PriorityNumbers
<1>5. Ordered(r)
  <2> SUFFICES ASSUME NEW m \in DOMAIN r, NEW n \in DOMAIN r, m < n
               PROVE  r[m].priority >= r[n].priority
    BY DEF Ordered
  <2>1. Ordered(q)
    BY DEF JobsInv
  <2>2. \A k, l \in DOMAIN q : k <= l => q[k].priority >= q[l].priority
    <3> HIDE DEF q
    <3> QED BY <2>1, <1>2, <1>4 DEF Ordered
  <2>3. (\A k \in 1..b : q[k].priority >= e.priority)
        /\ (\A k \in (b + 1)..Len(q) : q[k].priority < e.priority)
    BY <1>1
  <2> HIDE DEF q, r
  <2>4. CASE m \in 1..b
    <3>1. m \in DOMAIN q /\ r[m] = q[m] /\ r[m].priority >= e.priority
      BY <2>4, <2>3, <1>2, <1>3
    <3>2. CASE n \in 1..b
      <4>1. n \in DOMAIN q /\ r[n] = q[n]
        BY <3>2, <1>2, <1>3
      <4> QED BY <3>1, <4>1, <2>2, <1>2
    <3>3. CASE n = b + 1
      <4>1. r[n] = e
        BY <3>3, <1>2, <1>3
      <4> QED BY <3>1, <4>1
    <3>4. CASE n \in (b + 2)..Len(r)
      <4>1. n - 1 \in DOMAIN q /\ r[n] = q[n - 1]
        BY <3>4, <1>3, <1>2
      <4>2. m <= n - 1
        BY <3>4, <1>2, <2>4
      <4> QED BY <3>1, <4>1, <4>2, <2>2
    <3> QED BY <3>2, <3>3, <3>4, <1>2
  <2>5. CASE m = b + 1
    <3>1. r[m] = e /\ n \in (b + 2)..Len(r)
      BY <2>5, <1>2, <1>3
    <3>2. n - 1 \in (b + 1)..Len(q) /\ n - 1 \in DOMAIN q /\ r[n] = q[n - 1]
      BY <3>1, <1>2, <1>3
    <3>3. q[n - 1].priority < e.priority /\ q[n - 1].priority \in Int
      BY <3>2, <2>3, <1>4
    <3> QED BY <3>1, <3>2, <3>3, <1>4
  <2>6. CASE m \in (b + 2)..Len(r)
    <3>1. n \in (b + 2)..Len(r)
      BY <2>6, <1>2
    <3>2. m - 1 \in DOMAIN q /\ r[m] = q[m - 1]
      BY <2>6, <1>3, <1>2
    <3>3. n - 1 \in DOMAIN q /\ r[n] = q[n - 1]
      BY <3>1, <1>3, <1>2
    <3> QED BY <3>2, <3>3, <2>2, <1>2
  <2> QED BY <2>4, <2>5, <2>6, <1>2
<1>6. \A v \in Workers : Ordered(queue[v])'
  BY <1>1, <1>5 DEF JobsInv, Ordered
<1>7. {r[m] : m \in DOMAIN r} = {q[m] : m \in DOMAIN q} \cup {e}
  <2> HIDE DEF q, r
  <2>1. ASSUME NEW m \in DOMAIN q PROVE \E n \in DOMAIN r : r[n] = q[m]
    <3>1. CASE m \in 1..b
      <4>1. m \in DOMAIN r /\ m # b + 1 /\ ~(m \in (b + 2)..Len(r))
        BY <3>1, <1>2
      <4> QED BY <4>1, <1>3
    <3>2. CASE m \in (b + 1)..Len(q)
      <4>1. m + 1 \in DOMAIN r /\ m + 1 # b + 1 /\ ~(m + 1 \in 1..b) /\ (m + 1) - 1 = m
        BY <3>2, <1>2
      <4> QED BY <4>1, <1>3
    <3> QED BY <3>1, <3>2, <1>2
  <2>2. b + 1 \in DOMAIN r /\ r[b + 1] = e
    BY <1>1, <1>2 DEF r
  <2>3. ASSUME NEW m \in DOMAIN r PROVE r[m] = e \/ \E n \in DOMAIN q : q[n] = r[m]
    BY <1>3
  <2> QED BY <2>1, <2>2, <2>3
<1>8. InHand(w)' = InHand(w) \cup {e}
  BY <1>7 DEF InHand
<1>9. \A v \in Workers \ {w} : InHand(v)' = InHand(v)
  BY <1>1 DEF InHand
<1> QED BY <1>1, <1>6, <1>8, <1>9

\* A new entry is the only one of its job and kind, and a deletion gets behind
\* the job: its priority is not higher.
LEMMA PushKeepsJobsApart ==
    ASSUME TypeOK, JobsInv, NEW w \in Workers, NEW e \in UserJobs \cup Commands,
           pushAndRelease(w, e), UNCHANGED <<pc, cur>>,
           e.kind # "stop" => e \notin InHand(w),
           e.kind = "job" => DeleteEntry(e.job) \notin InHand(w),
           e.kind = "delete" => Priority[e.job] >= DeletionPriority
    PROVE  EachOnce' /\ DeletionBehind'
<1>1. PICK b \in 0..Len(queue[w]) :
           /\ queue' \in [Workers -> Seq(Entries)]
           /\ \A v \in Workers \ {w} : queue'[v] = queue[v]
           /\ Len(queue'[w]) = Len(queue[w]) + 1
           /\ \A m \in 1..b : queue'[w][m] = queue[w][m] /\ queue[w][m].priority >= e.priority
           /\ queue'[w][b + 1] = e
           /\ \A m \in (b + 1)..Len(queue[w]) :
                queue'[w][m + 1] = queue[w][m] /\ queue[w][m].priority < e.priority
  BY PushEffect
<1> DEFINE q == queue[w]
           r == queue'[w]
<1>2. q \in Seq(Entries) /\ r \in Seq(Entries) /\ Len(q) \in Nat /\ Len(r) = Len(q) + 1
      /\ DOMAIN q = 1..Len(q) /\ DOMAIN r = 1..(Len(q) + 1)
  BY <1>1 DEF TypeOK
<1> DEFINE old(m) == IF m <= b THEN m ELSE m - 1
<1>3. \A m \in DOMAIN r : m # b + 1 =>
        /\ old(m) \in DOMAIN q /\ r[m] = q[old(m)]
        /\ \A n \in DOMAIN r : n # b + 1 => (old(m) = old(n) => m = n) /\ (old(m) < old(n) => m < n)
  <2> TAKE m \in DOMAIN r
  <2> HAVE m # b + 1
  <2>1. CASE m \in 1..b
    BY <2>1, <1>1, <1>2
  <2>2. CASE m \in (b + 2)..Len(r)
    <3>1. m - 1 \in (b + 1)..Len(q) /\ (m - 1) + 1 = m
      BY <2>2, <1>2
    <3> QED BY <2>2, <3>1, <1>1, <1>2
  <2> HIDE DEF q, r
  <2> QED BY <1>2, <2>1, <2>2
<1>4. r[b + 1] = e /\ b + 1 \in DOMAIN r
  BY <1>1, <1>2
<1>5. \A m \in DOMAIN q : q[m] \in InHand(w)
  BY DEF InHand
<1>6. pc[w] = "run" => cur[w] \in InHand(w)
  BY DEF InHand
<1> HIDE DEF q, r, old
<1>7. \A n \in DOMAIN r : r[n].kind # "stop" =>
        /\ \A m \in DOMAIN r : r[m] = r[n] => m = n
        /\ pc[w] = "run" => cur[w] # r[n]
  <2> SUFFICES ASSUME NEW n \in DOMAIN r, r[n].kind # "stop"
               PROVE  /\ \A m \in DOMAIN r : r[m] = r[n] => m = n
                      /\ pc[w] = "run" => cur[w] # r[n]
    OBVIOUS
  <2>1. CASE n = b + 1
    BY <2>1, <1>3, <1>4, <1>5, <1>6
  <2>2. CASE n # b + 1
    <3>1. /\ \A m \in DOMAIN q : q[m] = q[old(n)] => m = old(n)
          /\ pc[w] = "run" => cur[w] # q[old(n)]
      BY <2>2, <1>3 DEF JobsInv, EachOnce, q
    <3>2. q[old(n)] # e
      BY <2>2, <1>3, <1>5
    <3> QED BY <2>2, <3>1, <3>2, <1>3, <1>4
  <2> QED BY <2>1, <2>2
<1>8. EachOnce'
  <2> SUFFICES ASSUME NEW v \in Workers, NEW n \in DOMAIN queue'[v], queue'[v][n].kind # "stop"
               PROVE  /\ \A m \in DOMAIN queue'[v] : queue'[v][m] = queue'[v][n] => m = n
                      /\ pc[v] = "run" => cur[v] # queue'[v][n]
    BY DEF EachOnce
  <2>1. CASE v = w
    BY <2>1, <1>7 DEF r
  <2>2. CASE v # w
    BY <2>2, <1>1 DEF JobsInv, EachOnce
  <2> QED BY <2>1, <2>2
<1>9. ASSUME NEW j \in Jobs, NEW n \in DOMAIN r, r[n] = JobEntry(j)
      PROVE  /\ \A m \in DOMAIN r : r[m] = DeleteEntry(j) => n < m
             /\ pc[w] = "run" => cur[w] # DeleteEntry(j)
  <2>1. JobEntry(j).kind = "job" /\ JobEntry(j).job = j /\ JobEntry(j).priority = Priority[j]
        /\ DeleteEntry(j).kind = "delete" /\ DeleteEntry(j).job = j
        /\ DeleteEntry(j).priority = DeletionPriority
    BY EntryFields DEF JobEntry, DeleteEntry
  <2>2. CASE n = b + 1
    <3>1. DeleteEntry(j) \notin InHand(w) /\ e # DeleteEntry(j)
      BY <2>1, <2>2, <1>4, <1>9
    <3> QED BY <2>2, <3>1, <1>3, <1>4, <1>5, <1>6
  <2>3. CASE n # b + 1
    <3>1. /\ \A m \in DOMAIN q : q[m] = DeleteEntry(j) => old(n) < m
          /\ pc[w] = "run" => cur[w] # DeleteEntry(j)
      BY <2>3, <1>3, <1>9 DEF JobsInv, DeletionBehind, q
    <3>2. ASSUME e = DeleteEntry(j) PROVE n < b + 1
      <4>1. e.priority \in Int /\ q[old(n)] = JobEntry(j) /\ Priority[j] >= e.priority
        BY <2>1, <2>3, <3>2, <1>3, <1>9, EntryShape, PriorityNumbers
      <4>2. q[old(n)].priority \in Int /\ ~(q[old(n)].priority < e.priority)
        BY <4>1, <2>1, <2>3, <1>2, <1>3, PriorityNumbers
      <4>3. \A m \in (b + 1)..Len(q) : q[m].priority < e.priority
        BY <1>1 DEF q
      <4>4. ~(old(n) \in (b + 1)..Len(q)) /\ old(n) \in 1..Len(q)
        BY <4>2, <4>3, <2>3, <1>2, <1>3
      <4> QED BY <4>4, <2>3, <1>2 DEF old
    <3> QED BY <2>3, <3>1, <3>2, <1>3, <1>4
  <2> QED BY <2>2, <2>3
<1>10. DeletionBehind'
  <2> SUFFICES ASSUME NEW v \in Workers, NEW j \in Jobs, NEW n \in DOMAIN queue'[v],
                      queue'[v][n] = JobEntry(j)
               PROVE  /\ \A m \in DOMAIN queue'[v] : queue'[v][m] = DeleteEntry(j) => n < m
                      /\ pc[v] = "run" => cur[v] # DeleteEntry(j)
    BY DEF DeletionBehind, JobEntry, DeleteEntry
  <2>1. CASE v = w
    BY <2>1, <1>9 DEF r
  <2>2. CASE v # w
    BY <2>2, <1>1 DEF JobsInv, DeletionBehind
  <2> QED BY <2>1, <2>2
<1> QED BY <1>8, <1>10
-----------------------------------------------------------------------------
(* The jobs: what each action that touches them leaves.                     *)

\* Steps that only move threads leave the jobs as they are.
LEMMA JobsUntouched ==
    ASSUME TypeOK, JobsInv, UNCHANGED <<queue, cur, jobVars>>,
           \A w \in Workers : pc'[w] = "run" <=> pc[w] = "run"
    PROVE  JobsInv'
<1>1. \A w \in Workers : InHand(w)' = InHand(w)
  BY DEF InHand
<1>2. Owned' /\ JobLife'
  <2>1. Owned'
    BY <1>1 DEF JobsInv, Owned, jobVars
  <2>2. \A j \in Jobs : jobState[j] # "new" => owner[j] \in Workers
    BY DEF JobsInv, JobLife, TypeOK
  <2>3. \A j \in Jobs : owner[j] \in Workers => InHand(owner[j])' = InHand(owner[j])
    BY <1>1 DEF InHand, jobVars
  <2>4. JobLife'
    BY <1>1, <2>2, <2>3 DEF JobsInv, JobLife, jobVars, JobEntry, DeleteEntry
  <2> QED BY <2>1, <2>4
<1>3. EachOnce'
  BY DEF JobsInv, EachOnce
<1>4. DeletionBehind'
  BY DEF JobsInv, DeletionBehind, JobEntry, DeleteEntry
<1> QED BY <1>2, <1>3, <1>4 DEF JobsInv, Ordered

LEMMA JobAndDeletionDiffer ==
    /\ \A j \in Jobs : JobEntry(j).kind = "job" /\ JobEntry(j).job = j
    /\ \A j \in Jobs : DeleteEntry(j).kind = "delete" /\ DeleteEntry(j).job = j
BY EntryFields DEF JobEntry, DeleteEntry

LEMMA ScheduleKeepsJobs ==
    ASSUME TypeOK, JobsInv, NEW c \in Clients, NEW w \in Workers, NEW j \in Jobs, Schedule(c, w, j)
    PROVE  JobsInv'
<1> DEFINE e == JobEntry(j)
<1>1. /\ pushAndRelease(w, e) /\ UNCHANGED <<pc, cur>> /\ jobState[j] = "new"
      /\ jobState' = [jobState EXCEPT ![j] = "queued"]
      /\ owner' = [owner EXCEPT ![j] = w]
      /\ held' = IF j \in Kept THEN held \cup {j} ELSE held
  BY DEF Schedule, JobEntry
<1>2. e \in UserJobs /\ e.kind = "job" /\ e.job = j
  BY PushedEntries, JobAndDeletionDiffer
<1>3. \A v \in Workers : JobEntry(j) \notin InHand(v) /\ DeleteEntry(j) \notin InHand(v)
  BY <1>1 DEF JobsInv, JobLife
<1> HIDE DEF e
<1>4. /\ \A v \in Workers : Ordered(queue[v])'
      /\ InHand(w)' = InHand(w) \cup {e}
      /\ \A v \in Workers \ {w} : InHand(v)' = InHand(v)
  BY <1>1, <1>2, PushKeepsOrder
<1>5. EachOnce' /\ DeletionBehind'
  BY <1>1, <1>2, <1>3, PushKeepsJobsApart DEF e
<1>6. Owned'
  <2> SUFFICES ASSUME NEW v \in Workers, NEW f \in InHand(v)'
               PROVE  f \in UserJobs \cup Commands /\ (f.kind # "stop" => owner'[f.job] = v)
    BY DEF Owned
  <2>1. CASE f \in InHand(v)
    <3>1. f \in UserJobs \cup Commands /\ (f.kind # "stop" => owner[f.job] = v)
      BY <2>1 DEF JobsInv, Owned
    <3>2. f.kind # "stop" => f.job # j
      BY <3>1, <2>1, <1>3, EntryShape
    <3>3. f.kind # "stop" => f.job \in Jobs
      BY <3>1, EntryShape
    <3> QED BY <3>1, <3>2, <3>3, <1>1 DEF TypeOK
  <2>2. CASE f = e /\ v = w
    BY <2>2, <1>1, <1>2 DEF TypeOK
  <2> QED BY <2>1, <2>2, <1>4
<1>7. JobLife'
  <2> SUFFICES ASSUME NEW k \in Jobs
      PROVE
        /\ jobState'[k] = "new" <=> owner'[k] = None
        /\ jobState'[k] = "queued" => JobEntry(k) \in InHand(owner[k])'
        /\ jobState'[k] = "processed" => k \in Kept \cup Handled
        /\ jobState'[k] \in {"queued", "processed"} /\ k \in Kept =>
            k \in held' \/ DeleteEntry(k) \in InHand(owner[k])'
        /\ k \in held' => k \in Kept /\ jobState'[k] \in {"queued", "processed"}
        /\ \A v \in Workers :
            /\ JobEntry(k) \in InHand(v)' => jobState'[k] = "queued"
            /\ DeleteEntry(k) \in InHand(v)' => k \notin held' /\ jobState'[k] \in {"queued", "processed"}
    BY DEF JobLife, JobEntry, DeleteEntry
  <2>1. CASE k = j
    <3>1. jobState'[k] = "queued" /\ owner'[k] = w /\ w # None
      BY <2>1, <1>1, DWAssumption DEF TypeOK
    <3>2. JobEntry(k) \in InHand(owner[k])'
      BY <2>1, <3>1, <1>4 DEF InHand, e
    <3>3. \A v \in Workers : DeleteEntry(k) \notin InHand(v)'
      BY <2>1, <1>2, <1>3, <1>4, JobAndDeletionDiffer
    <3>4. k \notin held
      BY <2>1, <1>1 DEF JobsInv, JobLife
    <3> QED BY <2>1, <3>1, <3>2, <3>3, <3>4, <1>1
  <2>2. CASE k # j
    <3>1. jobState'[k] = jobState[k] /\ owner'[k] = owner[k] /\ (k \in held' <=> k \in held)
      BY <2>2, <1>1 DEF TypeOK
    <3>2. JobEntry(k) # e /\ DeleteEntry(k) # e
      BY <2>2, JobAndDeletionDiffer, <1>2
    <3>3. \A v \in Workers : /\ JobEntry(k) \in InHand(v)' <=> JobEntry(k) \in InHand(v)
                             /\ DeleteEntry(k) \in InHand(v)' <=> DeleteEntry(k) \in InHand(v)
      BY <3>2, <1>4
    <3>4. jobState[k] # "new" => owner[k] \in Workers
      BY DEF JobsInv, JobLife, TypeOK
    <3>5. owner[k] \in Workers => 
             /\ JobEntry(k) \in InHand(owner[k])' <=> JobEntry(k) \in InHand(owner[k])
             /\ DeleteEntry(k) \in InHand(owner[k])' <=> DeleteEntry(k) \in InHand(owner[k])
      BY <3>1, <3>3 DEF InHand
    <3> QED BY <3>1, <3>3, <3>4, <3>5 DEF JobsInv, JobLife
  <2> QED BY <2>1, <2>2
<1> QED BY <1>4, <1>5, <1>6, <1>7 DEF JobsInv

LEMMA DeleteDeferredKeepsJobs ==
    ASSUME TypeOK, JobsInv, NEW c \in Clients, NEW j \in Jobs, DeleteJobDeferred(c, j)
    PROVE  JobsInv'
<1> DEFINE e == DeleteEntry(j)
<1>0. PICK w \in Workers : w = owner[j]
  BY DEF DeleteJobDeferred, JobsInv, JobLife, TypeOK
<1>1. /\ pushAndRelease(w, e) /\ UNCHANGED <<pc, cur, jobState, owner>> /\ j \in held
      /\ held' = held \ {j} /\ Priority[j] >= DeletionPriority
  BY <1>0 DEF DeleteJobDeferred, DeleteEntry, DeletionPriority
<1>2. j \in Kept /\ jobState[j] \in {"queued", "processed"}
      /\ \A v \in Workers : DeleteEntry(j) \notin InHand(v)
  BY <1>1 DEF JobsInv, JobLife, TypeOK
<1>3. e \in Commands /\ e.kind = "delete" /\ e.job = j
  BY <1>2, PushedEntries, JobAndDeletionDiffer
<1> HIDE DEF e
<1>4. /\ \A v \in Workers : Ordered(queue[v])'
      /\ InHand(w)' = InHand(w) \cup {e}
      /\ \A v \in Workers \ {w} : InHand(v)' = InHand(v)
  BY <1>1, <1>2, <1>3, PushKeepsOrder
<1>5. EachOnce' /\ DeletionBehind'
  BY <1>1, <1>2, <1>3, PushKeepsJobsApart DEF e
<1>6. Owned'
  <2> SUFFICES ASSUME NEW v \in Workers, NEW f \in InHand(v)'
               PROVE  f \in UserJobs \cup Commands /\ (f.kind # "stop" => owner[f.job] = v)
    BY <1>1 DEF Owned
  <2>1. CASE f \in InHand(v)
    BY <2>1 DEF JobsInv, Owned
  <2>2. CASE f = e /\ v = w
    BY <2>2, <1>0, <1>3
  <2> QED BY <2>1, <2>2, <1>4
<1>7. JobLife'
  <2> SUFFICES ASSUME NEW k \in Jobs
      PROVE
        /\ jobState[k] = "new" <=> owner[k] = None
        /\ jobState[k] = "queued" => JobEntry(k) \in InHand(owner[k])'
        /\ jobState[k] = "processed" => k \in Kept \cup Handled
        /\ jobState[k] \in {"queued", "processed"} /\ k \in Kept =>
            k \in held' \/ DeleteEntry(k) \in InHand(owner[k])'
        /\ k \in held' => k \in Kept /\ jobState[k] \in {"queued", "processed"}
        /\ \A v \in Workers :
            /\ JobEntry(k) \in InHand(v)' => jobState[k] = "queued"
            /\ DeleteEntry(k) \in InHand(v)' => k \notin held' /\ jobState[k] \in {"queued", "processed"}
    BY <1>1 DEF JobLife, JobEntry, DeleteEntry
  <2>1. JobEntry(k) # e /\ (DeleteEntry(k) = e <=> k = j)
    BY JobAndDeletionDiffer, <1>3 DEF e
  <2>2. \A v \in Workers : /\ JobEntry(k) \in InHand(v)' <=> JobEntry(k) \in InHand(v)
                           /\ k # j => (DeleteEntry(k) \in InHand(v)' <=> DeleteEntry(k) \in InHand(v))
    BY <2>1, <1>4
  <2>3. jobState[k] # "new" => owner[k] \in Workers
    BY DEF JobsInv, JobLife, TypeOK
  <2>4. owner[k] \in Workers => 
             /\ JobEntry(k) \in InHand(owner[k])' <=> JobEntry(k) \in InHand(owner[k])
             /\ k # j => (DeleteEntry(k) \in InHand(owner[k])' <=> DeleteEntry(k) \in InHand(owner[k]))
             /\ k = j => DeleteEntry(k) \in InHand(owner[k])'
    BY <1>0, <1>1, <2>1, <2>2, <1>4 DEF InHand
  <2> QED BY <2>2, <2>3, <2>4, <1>1, <1>2 DEF JobsInv, JobLife
<1> QED BY <1>4, <1>5, <1>6, <1>7 DEF JobsInv

LEMMA DeleteKeepsJobs ==
    ASSUME TypeOK, JobsInv, NEW c \in Clients, NEW j \in Jobs, DeleteJob(c, j)
    PROVE  JobsInv'
<1>1. /\ UNCHANGED <<queue, pc, cur, owner>> /\ j \in held /\ jobState[j] = "processed"
      /\ held' = held \ {j} /\ jobState' = [jobState EXCEPT ![j] = "gone"]
  BY DEF DeleteJob, workerVars
<1>2. \A w \in Workers : InHand(w)' = InHand(w)
  BY <1>1 DEF InHand
<1>3. Owned' /\ EachOnce' /\ DeletionBehind' /\ \A w \in Workers : Ordered(queue[w])'
  BY <1>1, <1>2 DEF JobsInv, Owned, EachOnce, DeletionBehind, Ordered, JobEntry, DeleteEntry
<1>4. \A k \in Jobs : jobState[k] # "new" => owner[k] \in Workers
  BY DEF JobsInv, JobLife, TypeOK
<1>5. \A k \in Jobs : owner[k] \in Workers => InHand(owner[k])' = InHand(owner[k])
  BY <1>1 DEF InHand
<1>6. \A k \in Jobs : jobState'[k] = IF k = j THEN "gone" ELSE jobState[k]
  BY <1>1 DEF TypeOK
<1>7. \A w \in Workers : JobEntry(j) \notin InHand(w) /\ DeleteEntry(j) \notin InHand(w)
  BY <1>1 DEF JobsInv, JobLife
<1>8. JobLife'
  BY <1>1, <1>2, <1>4, <1>5, <1>6, <1>7 DEF JobsInv, JobLife, JobEntry, DeleteEntry
<1> QED BY <1>3, <1>8 DEF JobsInv

LEMMA PushStopKeepsJobs ==
    ASSUME TypeOK, JobsInv, CallOfClient, NEW c \in Clients, NEW p \in StopPriorities, PushStop(c, p)
    PROVE  JobsInv'
<1> DEFINE e == Entry("stop", None, p)
<1>2. PICK w \in Workers : w = at[c]
  BY DEF PushStop, CallOfClient, TypeOK
<1>1. pushAndRelease(w, e) /\ UNCHANGED <<pc, cur, jobState, owner, held>>
  BY <1>2 DEF PushStop, jobVars
<1>3. e \in Commands /\ e.kind = "stop"
  BY PushedEntries, EntryFields
<1> HIDE DEF e
<1>4. /\ \A v \in Workers : Ordered(queue[v])'
      /\ InHand(w)' = InHand(w) \cup {e}
      /\ \A v \in Workers \ {w} : InHand(v)' = InHand(v)
  BY <1>1, <1>2, <1>3, PushKeepsOrder
<1>5. EachOnce' /\ DeletionBehind'
  BY <1>1, <1>2, <1>3, PushKeepsJobsApart
<1>6. Owned'
  BY <1>1, <1>2, <1>3, <1>4 DEF JobsInv, Owned
<1>7. \A k \in Jobs : jobState[k] # "new" => owner[k] \in Workers
  BY DEF JobsInv, JobLife, TypeOK
<1>8. \A k \in Jobs : e # JobEntry(k) /\ e # DeleteEntry(k)
  BY <1>3, JobAndDeletionDiffer
<1>11. JobLife'
  <2> SUFFICES ASSUME NEW k \in Jobs
      PROVE
        /\ jobState[k] = "new" <=> owner[k] = None
        /\ jobState[k] = "queued" => JobEntry(k) \in InHand(owner[k])'
        /\ jobState[k] = "processed" => k \in Kept \cup Handled
        /\ jobState[k] \in {"queued", "processed"} /\ k \in Kept =>
            k \in held \/ DeleteEntry(k) \in InHand(owner[k])'
        /\ k \in held => k \in Kept /\ jobState[k] \in {"queued", "processed"}
        /\ \A v \in Workers :
            /\ JobEntry(k) \in InHand(v)' => jobState[k] = "queued"
            /\ DeleteEntry(k) \in InHand(v)' => k \notin held /\ jobState[k] \in {"queued", "processed"}
    BY <1>1 DEF JobLife, JobEntry, DeleteEntry
  <2>1. \A v \in Workers : /\ JobEntry(k) \in InHand(v)' <=> JobEntry(k) \in InHand(v)
                           /\ DeleteEntry(k) \in InHand(v)' <=> DeleteEntry(k) \in InHand(v)
    BY <1>8, <1>4
  <2>2. owner[k] \in Workers =>
           /\ JobEntry(k) \in InHand(owner[k])' <=> JobEntry(k) \in InHand(owner[k])
           /\ DeleteEntry(k) \in InHand(owner[k])' <=> DeleteEntry(k) \in InHand(owner[k])
    BY <1>1, <2>1 DEF InHand
  <2> QED BY <1>7, <2>1, <2>2 DEF JobsInv, JobLife
<1> QED BY <1>4, <1>5, <1>6, <1>11 DEF JobsInv

LEMMA PopEffect ==
    ASSUME TypeOK, NEW w \in Workers, pop(w)
    PROVE  /\ queue' \in [Workers -> Seq(Entries)] /\ cur' \in [Workers -> Entries]
           /\ \A v \in Workers \ {w} : queue'[v] = queue[v] /\ cur'[v] = cur[v] /\ pc'[v] = pc[v]
           /\ Len(queue[w]) \in Nat \ {0} /\ Len(queue'[w]) = Len(queue[w]) - 1
           /\ DOMAIN queue[w] = 1..Len(queue[w]) /\ DOMAIN queue'[w] = 1..(Len(queue[w]) - 1)
           /\ \A m \in DOMAIN queue'[w] : m + 1 \in DOMAIN queue[w] /\ queue'[w][m] = queue[w][m + 1]
           /\ 1 \in DOMAIN queue[w] /\ cur'[w] = queue[w][1] /\ pc'[w] = "run" /\ pc[w] = "loop"
<1> DEFINE q == queue[w]
<1>1. q \in Seq(Entries) /\ q # <<>> /\ Len(q) > 0
  BY DEF pop, Load, TypeOK
<1>2. /\ Head(q) = q[1] /\ q[1] \in Entries /\ Tail(q) \in Seq(Entries) /\ Len(Tail(q)) = Len(q) - 1
      /\ \A m \in 1..Len(Tail(q)) : Tail(q)[m] = q[m + 1]
  <2> HIDE DEF q
  <2> QED BY <1>1, HeadTailProperties
<1>3. queue'[w] = Tail(q) /\ cur'[w] = Head(q) /\ pc'[w] = "run" /\ pc[w] = "loop"
  BY DEF pop, TypeOK
<1>4. /\ queue' \in [Workers -> Seq(Entries)] /\ cur' \in [Workers -> Entries]
      /\ \A v \in Workers \ {w} : queue'[v] = queue[v] /\ cur'[v] = cur[v] /\ pc'[v] = pc[v]
  <2>1. queue' = [queue EXCEPT ![w] = Tail(q)] /\ cur' = [cur EXCEPT ![w] = Head(q)]
        /\ pc' = [pc EXCEPT ![w] = "run"]
    BY DEF pop, TypeOK
  <2> HIDE DEF q
  <2> QED BY <2>1, <1>2 DEF TypeOK
<1>5. Len(q) \in Nat \ {0} /\ DOMAIN q = 1..Len(q) /\ 1 \in DOMAIN q /\ DOMAIN Tail(q) = 1..(Len(q) - 1)
  <2> HIDE DEF q
  <2> QED BY <1>1, <1>2
<1>6. \A m \in DOMAIN Tail(q) : m + 1 \in DOMAIN q /\ Tail(q)[m] = q[m + 1]
  <2> HIDE DEF q
  <2> QED BY <1>2, <1>5
<1> QED BY <1>2, <1>3, <1>4, <1>5, <1>6

LEMMA PopKeepsJobs ==
    ASSUME TypeOK, JobsInv, NEW w \in Workers, pop(w)
    PROVE  JobsInv' /\ \A v \in Workers : InHand(v)' = InHand(v)
<1> DEFINE q == queue[w]
           r == queue'[w]
<1>1. /\ \A v \in Workers \ {w} : queue'[v] = queue[v] /\ cur'[v] = cur[v] /\ pc'[v] = pc[v]
      /\ Len(q) \in Nat \ {0} /\ DOMAIN q = 1..Len(q) /\ DOMAIN r = 1..(Len(q) - 1)
      /\ \A m \in DOMAIN r : m + 1 \in DOMAIN q /\ r[m] = q[m + 1]
      /\ 1 \in DOMAIN q /\ cur'[w] = q[1] /\ pc'[w] = "run" /\ pc[w] = "loop"
  BY PopEffect
<1>2. {q[m] : m \in DOMAIN q} = {r[m] : m \in DOMAIN r} \cup {q[1]}
  <2> HIDE DEF q, r
  <2>1. ASSUME NEW m \in DOMAIN q, m # 1 PROVE \E n \in DOMAIN r : r[n] = q[m]
    <3>1. m - 1 \in DOMAIN r /\ (m - 1) + 1 = m
      BY <2>1, <1>1
    <3> QED BY <3>1, <1>1
  <2> QED BY <2>1, <1>1
<1>3. InHand(w)' = InHand(w)
  BY <1>1, <1>2 DEF InHand
<1>4. \A v \in Workers \ {w} : InHand(v)' = InHand(v)
  BY <1>1 DEF InHand
<1>5. \A v \in Workers : InHand(v)' = InHand(v)
  BY <1>3, <1>4
<1>6. UNCHANGED <<jobState, owner, held>>
  BY DEF pop, jobVars
<1>7. Owned'
  BY <1>5, <1>6 DEF JobsInv, Owned
<1>8. JobLife'
  <2>1. \A k \in Jobs : jobState[k] # "new" => owner[k] \in Workers
    BY DEF JobsInv, JobLife, TypeOK
  <2>2. \A k \in Jobs : owner[k] \in Workers => InHand(owner[k])' = InHand(owner[k])
    BY <1>5, <1>6 DEF InHand
  <2> QED BY <1>5, <1>6, <2>1, <2>2 DEF JobsInv, JobLife, JobEntry, DeleteEntry
<1>9. \A v \in Workers : Ordered(queue[v])'
  <2>1. Ordered(q)
    BY DEF JobsInv
  <2>2. Ordered(r)
    <3> HIDE DEF q, r
    <3> QED BY <2>1, <1>1 DEF Ordered
  <2> QED BY <2>2, <1>1 DEF JobsInv, Ordered
<1>10. EachOnce'
  <2> SUFFICES ASSUME NEW v \in Workers, NEW n \in DOMAIN queue'[v], queue'[v][n].kind # "stop"
               PROVE  /\ \A m \in DOMAIN queue'[v] : queue'[v][m] = queue'[v][n] => m = n
                      /\ pc'[v] = "run" => cur'[v] # queue'[v][n]
    BY DEF EachOnce
  <2>1. CASE v = w
    <3>1. \A m \in DOMAIN q : q[m] = q[n + 1] => m = n + 1
      BY <2>1, <1>1 DEF JobsInv, EachOnce
    <3> HIDE DEF q
    <3> QED BY <2>1, <3>1, <1>1
  <2>2. CASE v # w
    BY <2>2, <1>1 DEF JobsInv, EachOnce
  <2> QED BY <2>1, <2>2
<1>11. DeletionBehind'
  <2> SUFFICES ASSUME NEW v \in Workers, NEW j \in Jobs, NEW n \in DOMAIN queue'[v],
                      queue'[v][n] = JobEntry(j)
               PROVE  /\ \A m \in DOMAIN queue'[v] : queue'[v][m] = DeleteEntry(j) => n < m
                      /\ pc'[v] = "run" => cur'[v] # DeleteEntry(j)
    BY DEF DeletionBehind, JobEntry, DeleteEntry
  <2>1. CASE v = w
    <3>1. \A m \in DOMAIN q : q[m] = DeleteEntry(j) => n + 1 < m
      BY <2>1, <1>1 DEF JobsInv, DeletionBehind
    <3> HIDE DEF q
    <3> QED BY <2>1, <3>1, <1>1
  <2>2. CASE v # w
    BY <2>2, <1>1 DEF JobsInv, DeletionBehind
  <2> QED BY <2>1, <2>2
<1> QED BY <1>5, <1>7, <1>8, <1>9, <1>10, <1>11 DEF JobsInv

LEMMA ExecuteKeepsJobs ==
    ASSUME TypeOK, JobsInv, NEW w \in Workers, Execute(w)
    PROVE  JobsInv'
<1> DEFINE e == cur[w]
<1>1. /\ pc[w] = "run" /\ pc' = [pc EXCEPT ![w] = "loop"]
      /\ UNCHANGED <<queue, owner, held>>
      /\ \A v \in Workers \ {w} : pc'[v] = pc[v] /\ cur'[v] = cur[v]
      /\ pc'[w] = "loop"
  BY DEF Execute, TypeOK
<1>2. e \in InHand(w) /\ e \in UserJobs \cup Commands /\ (e.kind # "stop" => owner[e.job] = w)
  BY <1>1 DEF InHand, JobsInv, Owned
<1>3. \/ e.kind = "stop" /\ jobState' = jobState
      \/ e.kind = "delete" /\ jobState' = [jobState EXCEPT ![e.job] = "gone"]
      \/ e.kind = "job" /\ jobState' = [jobState EXCEPT ![e.job] = AfterExecution(e.job)]
  BY DEF Execute
<1>4. \A v \in Workers \ {w} : InHand(v)' = InHand(v)
  BY <1>1 DEF InHand
<1>5. InHand(w)' \subseteq InHand(w) /\ \A f \in InHand(w) : f # e => f \in InHand(w)'
  BY <1>1 DEF InHand
<1>6. e.kind # "stop" => e \notin InHand(w)'
  BY <1>1 DEF InHand, JobsInv, EachOnce
<1>7. Owned' /\ EachOnce' /\ DeletionBehind' /\ \A v \in Workers : Ordered(queue[v])'
  <2>1. Owned'
    BY <1>1, <1>4, <1>5 DEF JobsInv, Owned
  <2>2. EachOnce'
    BY <1>1 DEF JobsInv, EachOnce
  <2>3. DeletionBehind'
    BY <1>1 DEF JobsInv, DeletionBehind, JobEntry, DeleteEntry
  <2>4. \A v \in Workers : Ordered(queue[v])'
    BY <1>1 DEF JobsInv, Ordered
  <2> QED BY <2>1, <2>2, <2>3, <2>4
<1> HIDE DEF e
<1>8. JobLife'
  <2> SUFFICES ASSUME NEW k \in Jobs
      PROVE
        /\ jobState'[k] = "new" <=> owner[k] = None
        /\ jobState'[k] = "queued" => JobEntry(k) \in InHand(owner[k])'
        /\ jobState'[k] = "processed" => k \in Kept \cup Handled
        /\ jobState'[k] \in {"queued", "processed"} /\ k \in Kept =>
            k \in held \/ DeleteEntry(k) \in InHand(owner[k])'
        /\ k \in held => k \in Kept /\ jobState'[k] \in {"queued", "processed"}
        /\ \A v \in Workers :
            /\ JobEntry(k) \in InHand(v)' => jobState'[k] = "queued"
            /\ DeleteEntry(k) \in InHand(v)' => k \notin held /\ jobState'[k] \in {"queued", "processed"}
    BY <1>1 DEF JobLife, JobEntry, DeleteEntry
  <2>1. jobState[k] # "new" => owner[k] \in Workers
    BY DEF JobsInv, JobLife, TypeOK
  <2>2. \A v \in Workers : (JobEntry(k) \in InHand(v)' => JobEntry(k) \in InHand(v))
                           /\ (DeleteEntry(k) \in InHand(v)' => DeleteEntry(k) \in InHand(v))
    BY <1>4, <1>5
  <2>3. \A v \in Workers : (JobEntry(k) \in InHand(v) /\ JobEntry(k) # e => JobEntry(k) \in InHand(v)')
                           /\ (DeleteEntry(k) \in InHand(v) /\ DeleteEntry(k) # e => DeleteEntry(k) \in InHand(v)')
    BY <1>4, <1>5
  <2>4. owner[k] \in Workers =>
           /\ JobEntry(k) \in InHand(owner[k]) /\ JobEntry(k) # e => JobEntry(k) \in InHand(owner[k])'
           /\ DeleteEntry(k) \in InHand(owner[k]) /\ DeleteEntry(k) # e => DeleteEntry(k) \in InHand(owner[k])'
    BY <1>1, <2>3 DEF InHand
  <2>5. CASE e.kind = "stop" \/ e.job # k
    <3>1. jobState'[k] = jobState[k]
      BY <2>5, <1>3 DEF TypeOK
    <3>2. JobEntry(k) # e /\ DeleteEntry(k) # e
      BY <2>5, JobAndDeletionDiffer
    <3> QED BY <3>1, <3>2, <2>1, <2>2, <2>4 DEF JobsInv, JobLife
  <2>6. CASE e.kind = "job" /\ e.job = k
    <3>1. e = JobEntry(k) /\ e # DeleteEntry(k) /\ owner[k] = w
      BY <2>6, <1>2, EntryShape, JobAndDeletionDiffer
    <3>2. jobState[k] = "queued" /\ jobState'[k] = AfterExecution(k)
      BY <2>6, <3>1, <1>2, <1>3 DEF JobsInv, JobLife, TypeOK
    <3>3. AfterExecution(k) \in {"processed", "gone"}
          /\ (AfterExecution(k) = "processed" <=> k \in Kept \cup Handled)
      BY DEF AfterExecution
    <3>4. \A v \in Workers : JobEntry(k) \notin InHand(v)'
      <4> SUFFICES ASSUME NEW v \in Workers, JobEntry(k) \in InHand(v)' PROVE FALSE
        OBVIOUS
      <4>1. JobEntry(k) \in InHand(v) /\ JobEntry(k).kind = "job" /\ JobEntry(k).job = k
        BY <2>2, JobAndDeletionDiffer
      <4>2. v = w
        BY <4>1, <3>1 DEF JobsInv, Owned
      <4> QED BY <4>2, <3>1, <1>6, <2>6
    <3>5. \A v \in Workers : DeleteEntry(k) \in InHand(v)' =>
            k \in Kept /\ k \notin held
      <4> SUFFICES ASSUME NEW v \in Workers, DeleteEntry(k) \in InHand(v)'
                   PROVE  k \in Kept /\ k \notin held
        OBVIOUS
      <4>1. DeleteEntry(k) \in InHand(v) /\ DeleteEntry(k).kind = "delete" /\ DeleteEntry(k).job = k
        BY <2>2, JobAndDeletionDiffer
      <4>2. DeleteEntry(k) \in UserJobs \cup Commands /\ k \notin held
        BY <4>1 DEF JobsInv, Owned, JobLife
      <4> QED BY <4>1, <4>2, EntryShape
    <3>6. k \in Kept => k \in held \/ DeleteEntry(k) \in InHand(owner[k])
      BY <3>2 DEF JobsInv, JobLife
    <3> QED BY <3>1, <3>2, <3>3, <3>4, <3>5, <3>6, <2>1, <2>4 DEF JobsInv, JobLife
  <2>7. CASE e.kind = "delete" /\ e.job = k
    <3>1. e = DeleteEntry(k) /\ e # JobEntry(k) /\ owner[k] = w /\ w # None
      BY <2>7, <1>2, EntryShape, JobAndDeletionDiffer, DWAssumption
    <3>2. jobState'[k] = "gone" /\ k \notin held
      BY <2>7, <3>1, <1>2, <1>3 DEF JobsInv, JobLife, TypeOK
    <3>3. \A v \in Workers : JobEntry(k) \notin InHand(v)' /\ DeleteEntry(k) \notin InHand(v)'
      <4> SUFFICES ASSUME NEW v \in Workers, JobEntry(k) \in InHand(v)' \/ DeleteEntry(k) \in InHand(v)'
                   PROVE FALSE
        OBVIOUS
      <4>1. v = w
        BY <2>2, <3>1, JobAndDeletionDiffer DEF JobsInv, Owned
      <4>2. DeleteEntry(k) \notin InHand(v)'
        BY <4>1, <3>1, <1>6, <2>7
      <4>3. JobEntry(k) \notin InHand(v)'
        <5>1. \A n \in DOMAIN queue[w] : queue[w][n] # JobEntry(k)
          BY <3>1, <1>1 DEF JobsInv, DeletionBehind, e
        <5> QED BY <5>1, <4>1, <1>1 DEF InHand
      <4> QED BY <4>2, <4>3
    <3>4. owner[k] # None
      BY <3>1
    <3> QED BY <3>2, <3>3, <3>4
  <2> QED BY <2>5, <2>6, <2>7, <1>2, EntryShape
<1> QED BY <1>7, <1>8 DEF JobsInv

\* The other actions.
Manages(c) ==
    \/ Signal(c) \/ Join(c) \/ ReportIdle(c) \/ RemoveAll(c) \/ WaitForAllIdle(c)
    \/ \E w \in Workers : MarkStop(c, w) \/ ReadLoad(c, w) \/ Add(c, w) \/ Remove(c, w)
Moves(w) == Begin(w) \/ Sleep(w) \/ Spurious(w) \/ End(w)

\* The actions of the specification, one by one.
LEMMA StepCases ==
    ASSUME [Next]_vars
    PROVE  \/ \E c \in Clients, w \in Workers, j \in Jobs : Schedule(c, w, j)
           \/ \E c \in Clients, j \in Jobs : DeleteJob(c, j) \/ DeleteJobDeferred(c, j)
           \/ \E c \in Clients, p \in StopPriorities : PushStop(c, p)
           \/ \E w \in Workers : pop(w) \/ Execute(w) \/ Moves(w)
           \/ \E c \in Clients : Manages(c)
           \/ UNCHANGED vars
BY DEF Next, WorkerStep, Stopping, Use, Moves, Manages

LEMMA MoversLeaveJobs ==
    ASSUME TypeOK, ThreadOfWorker,
           \/ \E w \in Workers : Moves(w)
           \/ \E c \in Clients : Manages(c)
           \/ UNCHANGED vars
    PROVE  UNCHANGED <<queue, cur, jobVars>> /\ \A w \in Workers : pc'[w] = "run" <=> pc[w] = "run"
<1>1. ASSUME NEW w \in Workers, Moves(w)
      PROVE  UNCHANGED <<queue, cur, jobVars>> /\ \A v \in Workers : pc'[v] = "run" <=> pc[v] = "run"
  BY <1>1 DEF Moves, Begin, Sleep, Spurious, End, TypeOK
<1>2. ASSUME NEW c \in Clients, Manages(c)
      PROVE  UNCHANGED <<queue, cur, jobVars>> /\ \A v \in Workers : pc'[v] = "run" <=> pc[v] = "run"
  <2>1. CASE Signal(c)
    BY <2>1 DEF Signal, notifySleeping, TypeOK
  <2>2. CASE \E w \in Workers : Add(c, w)
    <3>1. PICK w \in Workers : Add(c, w)
      BY <2>2
    <3>2. w \notin workers /\ state[w] \in {"Unstarted", "Terminated"} /\ pc' = [pc EXCEPT ![w] = "start"]
          /\ UNCHANGED <<queue, cur, jobVars>>
      BY <3>1 DEF Add
    <3> QED BY <3>2 DEF TypeOK, ThreadOfWorker
  <2>3. CASE Join(c) \/ ReportIdle(c) \/ RemoveAll(c) \/ WaitForAllIdle(c)
             \/ \E w \in Workers : MarkStop(c, w) \/ ReadLoad(c, w) \/ Remove(c, w)
    BY <2>3 DEF Join, ReportIdle, RemoveAll, WaitForAllIdle, MarkStop, ReadLoad, Remove,
       StartStopping, workerVars, TypeOK
  <2> QED BY <1>2, <2>1, <2>2, <2>3 DEF Manages
<1>3. ASSUME UNCHANGED vars
      PROVE  UNCHANGED <<queue, cur, jobVars>> /\ \A v \in Workers : pc'[v] = "run" <=> pc[v] = "run"
  BY <1>3 DEF vars, workerVars
<1> QED BY <1>1, <1>2, <1>3

LEMMA MoversKeepJobs ==
    ASSUME TypeOK, JobsInv, ThreadOfWorker,
           \/ \E w \in Workers : Moves(w)
           \/ \E c \in Clients : Manages(c)
           \/ UNCHANGED vars
    PROVE  JobsInv'
BY MoversLeaveJobs, JobsUntouched

LEMMA StepKeepsJobs ==
    ASSUME TypeOK, JobsInv, ThreadOfWorker, CallOfClient, [Next]_vars
    PROVE  JobsInv'
BY StepCases, ScheduleKeepsJobs, DeleteKeepsJobs, DeleteDeferredKeepsJobs, PushStopKeepsJobs,
   PopKeepsJobs, ExecuteKeepsJobs, MoversKeepJobs
-----------------------------------------------------------------------------
(* Types, threads and calls.                                                *)

LEMMA StepKeepsTypes ==
    ASSUME TypeOK, JobsInv, ThreadOfWorker, CallOfClient, [Next]_vars
    PROVE  TypeOK'
<1>1. ASSUME NEW c \in Clients, NEW w \in Workers, NEW j \in Jobs, Schedule(c, w, j) PROVE TypeOK'
  <2>1. queue' \in [Workers -> Seq(Entries)]
    <3>1. JobEntry(j) \in UserJobs /\ pushAndRelease(w, JobEntry(j)) /\ UNCHANGED <<pc, cur>>
      BY <1>1, PushedEntries DEF Schedule, JobEntry
    <3> QED BY <3>1, PushKeepsOrder
  <2> QED BY <1>1, <2>1 DEF Schedule, TypeOK, managerVars
<1>2. ASSUME NEW c \in Clients, NEW j \in Jobs, DeleteJob(c, j) PROVE TypeOK'
  BY <1>2 DEF DeleteJob, TypeOK, managerVars, workerVars, clientVars
<1>3. ASSUME NEW c \in Clients, NEW j \in Jobs, DeleteJobDeferred(c, j) PROVE TypeOK'
  <2>1. PICK w \in Workers : w = owner[j]
    BY <1>3 DEF DeleteJobDeferred, JobsInv, JobLife, TypeOK
  <2>2. queue' \in [Workers -> Seq(Entries)]
    <3>1. DeleteEntry(j) \in Commands /\ pushAndRelease(w, DeleteEntry(j)) /\ UNCHANGED <<pc, cur>>
      BY <1>3, <2>1, PushedEntries DEF DeleteJobDeferred, DeleteEntry, JobsInv, JobLife
    <3> QED BY <3>1, PushKeepsOrder
  <2> QED BY <1>3, <2>1, <2>2 DEF DeleteJobDeferred, TypeOK, managerVars
<1>4. ASSUME NEW c \in Clients, NEW p \in StopPriorities, PushStop(c, p) PROVE TypeOK'
  <2>1. PICK w \in Workers : w = at[c]
    BY <1>4 DEF PushStop, CallOfClient, TypeOK
  <2>2. queue' \in [Workers -> Seq(Entries)]
    <3>1. Entry("stop", None, p) \in Commands /\ pushAndRelease(w, Entry("stop", None, p))
          /\ UNCHANGED <<pc, cur>>
      BY <1>4, <2>1, PushedEntries DEF PushStop
    <3> QED BY <3>1, PushKeepsOrder
  <2> QED BY <1>4, <2>2 DEF PushStop, TypeOK, managerVars, jobVars
<1>5. ASSUME NEW w \in Workers, pop(w) PROVE TypeOK'
  <2>1. queue' \in [Workers -> Seq(Entries)] /\ cur' \in [Workers -> Entries]
    BY <1>5, PopEffect
  <2> QED BY <1>5, <2>1 DEF pop, TypeOK, managerVars, clientVars, jobVars
<1>6. ASSUME NEW w \in Workers, Execute(w) PROVE TypeOK'
  <2>1. NoEntry \in Entries
    BY DEF NoEntry, Entry, Entries, Lowest, Highest
  <2>2. cur' \in [Workers -> Entries] /\ pc' \in [Workers -> {"none", "start", "loop", "sleep", "run"}]
    <3>1. cur' = [cur EXCEPT ![w] = IF cur[w].kind = "stop" THEN cur[w] ELSE NoEntry]
          /\ pc' = [pc EXCEPT ![w] = "loop"]
      BY <1>6 DEF Execute
    <3>2. cur[w] \in Entries
      BY DEF TypeOK
    <3>3. cur' \in [Workers -> Entries]
      BY <2>1, <3>1, <3>2 DEF TypeOK
    <3>4. pc' \in [Workers -> {"none", "start", "loop", "sleep", "run"}]
      BY <3>1 DEF TypeOK
    <3> QED BY <3>3, <3>4
  <2>3. jobState' \in [Jobs -> {"new", "queued", "processed", "gone"}]
        /\ stopJobExecuted' \in [Workers -> BOOLEAN]
    <3>1. AfterExecution(cur[w].job) \in {"processed", "gone"}
      BY DEF AfterExecution
    <3>2. \/ jobState' = jobState /\ stopJobExecuted' = [stopJobExecuted EXCEPT ![w] = TRUE]
          \/ jobState' = [jobState EXCEPT ![cur[w].job] = "gone"] /\ stopJobExecuted' = stopJobExecuted
          \/ jobState' = [jobState EXCEPT ![cur[w].job] = AfterExecution(cur[w].job)]
             /\ stopJobExecuted' = stopJobExecuted
      BY <1>6 DEF Execute
    <3>3. jobState' \in [Jobs -> {"new", "queued", "processed", "gone"}]
      BY <3>1, <3>2 DEF TypeOK
    <3>4. stopJobExecuted' \in [Workers -> BOOLEAN]
      BY <3>2 DEF TypeOK
    <3> QED BY <3>3, <3>4
  <2> QED BY <1>6, <2>2, <2>3 DEF Execute, TypeOK, managerVars, clientVars
<1>7. ASSUME NEW w \in Workers, Moves(w) PROVE TypeOK'
  <2>1. CASE Begin(w)
    BY <2>1 DEF Begin, TypeOK, clientVars, jobVars
  <2>2. CASE Sleep(w) \/ Spurious(w)
    <3>1. \E to \in {"loop", "sleep"} : pc' = [pc EXCEPT ![w] = to]
      BY <2>2 DEF Sleep, Spurious
    <3>2. pc' \in [Workers -> {"none", "start", "loop", "sleep", "run"}]
      BY <3>1 DEF TypeOK
    <3> QED BY <2>2, <3>2 DEF Sleep, Spurious, TypeOK, managerVars, clientVars, jobVars
  <2>3. CASE End(w)
    BY <2>3 DEF End, TypeOK, clientVars, jobVars
  <2> QED BY <1>7, <2>1, <2>2, <2>3 DEF Moves
<1>8. ASSUME NEW c \in Clients, Manages(c) PROVE TypeOK'
  <2>1. CASE Signal(c)
    <3>1. pc' \in [Workers -> {"none", "start", "loop", "sleep", "run"}]
      BY <2>1 DEF Signal, notifySleeping, TypeOK
    <3>2. cpc' \in [Clients -> {"ready", "signal", "stop", "stopPush", "stopSignal", "count"}]
          /\ at' \in [Clients -> Workers \cup {None}]
      BY <2>1 DEF Signal, TypeOK
    <3> QED BY <2>1, <3>1, <3>2 DEF Signal, TypeOK, managerVars, jobVars
  <2>2. CASE Join(c)
    BY <2>2 DEF Join, TypeOK, workerVars, jobVars
  <2>3. CASE ReportIdle(c) \/ WaitForAllIdle(c)
    BY <2>3 DEF ReportIdle, WaitForAllIdle, TypeOK, managerVars, workerVars, jobVars
  <2>4. CASE RemoveAll(c)
    BY <2>4 DEF RemoveAll, StartStopping, TypeOK, workerVars, jobVars
  <2>5. ASSUME NEW w \in Workers, MarkStop(c, w) PROVE TypeOK'
    <3>1. todo' \in [Clients -> SUBSET Workers]
      BY <2>5 DEF MarkStop, TypeOK
    <3>2. stopJobPushed' \in [Workers -> BOOLEAN]
      BY <2>5 DEF MarkStop, TypeOK
    <3>3. \/ cpc' = cpc /\ at' = at
          \/ cpc' = [cpc EXCEPT ![c] = "stopPush"] /\ at' = [at EXCEPT ![c] = w]
      BY <2>5 DEF MarkStop
    <3>4. /\ cpc' \in [Clients -> {"ready", "signal", "stop", "stopPush", "stopSignal", "count"}]
          /\ at' \in [Clients -> Workers \cup {None}]
      BY <3>3 DEF TypeOK
    <3> QED BY <2>5, <3>1, <3>2, <3>4 DEF MarkStop, TypeOK, managerVars, jobVars
  <2>6. ASSUME NEW w \in Workers, ReadLoad(c, w) PROVE TypeOK'
    BY <2>6 DEF ReadLoad, TypeOK, managerVars, workerVars, jobVars
  <2>7. ASSUME NEW w \in Workers, Add(c, w) PROVE TypeOK'
    BY <2>7 DEF Add, TypeOK, clientVars, jobVars
  <2>8. ASSUME NEW w \in Workers, Remove(c, w) PROVE TypeOK'
    BY <2>8 DEF Remove, StartStopping, TypeOK, workerVars, jobVars
  <2> QED BY <1>8, <2>1, <2>2, <2>3, <2>4, <2>5, <2>6, <2>7, <2>8 DEF Manages
<1>9. CASE UNCHANGED vars
  BY <1>9 DEF vars, managerVars, workerVars, clientVars, jobVars, TypeOK
<1> QED BY StepCases, <1>1, <1>2, <1>3, <1>4, <1>5, <1>6, <1>7, <1>8, <1>9

\* What threads and calls depend on is left alone by those who only push.
LEMMA PushersLeaveThreads ==
    ASSUME NEW c \in Clients,
           \/ \E w \in Workers, j \in Jobs : Schedule(c, w, j)
           \/ \E j \in Jobs : DeleteJob(c, j) \/ DeleteJobDeferred(c, j)
           \/ \E p \in StopPriorities : PushStop(c, p)
           \/ \E w \in Workers : MarkStop(c, w) \/ ReadLoad(c, w)
           \/ ReportIdle(c) \/ WaitForAllIdle(c)
    PROVE  UNCHANGED <<workers, state, pc, stopJobExecuted, target>>
BY DEF Schedule, DeleteJob, DeleteJobDeferred, PushStop, MarkStop, ReadLoad, ReportIdle,
   WaitForAllIdle, managerVars, workerVars, clientVars

LEMMA StepKeepsThreads ==
    ASSUME TypeOK, ThreadOfWorker, CallOfClient, [Next]_vars
    PROVE  ThreadOfWorker'
<1>1. CASE UNCHANGED <<workers, state, pc, stopJobExecuted, target>>
  BY <1>1 DEF ThreadOfWorker
<1>2. ASSUME NEW w \in Workers, pop(w) PROVE ThreadOfWorker'
  BY <1>2 DEF pop, ThreadOfWorker, TypeOK, managerVars, clientVars
<1>3. ASSUME NEW w \in Workers, Execute(w) PROVE ThreadOfWorker'
  <2>1. /\ pc[w] = "run" /\ pc' = [pc EXCEPT ![w] = "loop"]
        /\ UNCHANGED <<workers, state, target>>
        /\ (stopJobExecuted' = stopJobExecuted \/ stopJobExecuted' = [stopJobExecuted EXCEPT ![w] = TRUE])
    BY <1>3 DEF Execute, managerVars, clientVars
  <2> QED BY <2>1 DEF ThreadOfWorker, TypeOK
<1>4. ASSUME NEW w \in Workers, Moves(w) PROVE ThreadOfWorker'
  <2>1. CASE Begin(w)
    BY <2>1 DEF Begin, ThreadOfWorker, TypeOK, clientVars
  <2>2. CASE Sleep(w)
    BY <2>2 DEF Sleep, ThreadOfWorker, TypeOK, managerVars, clientVars
  <2>3. CASE Spurious(w)
    BY <2>3 DEF Spurious, ThreadOfWorker, TypeOK, managerVars, clientVars
  <2>4. CASE End(w)
    BY <2>4 DEF End, ThreadOfWorker, TypeOK, clientVars
  <2> QED BY <1>4, <2>1, <2>2, <2>3, <2>4 DEF Moves
<1>5. ASSUME NEW c \in Clients, Signal(c) PROVE ThreadOfWorker'
  BY <1>5 DEF Signal, notifySleeping, ThreadOfWorker, TypeOK, managerVars
<1>6. ASSUME NEW c \in Clients, Join(c) PROVE ThreadOfWorker'
  <2>1. /\ UNCHANGED <<pc, stopJobExecuted>>
        /\ \A w \in target[c] : state[w] = "Done"
        /\ state' = [w \in Workers |-> IF w \in target[c] THEN "Terminated" ELSE state[w]]
        /\ workers' = workers \ target[c] /\ target' = [target EXCEPT ![c] = {}]
    BY <1>6 DEF Join, AllDone, workerVars
  <2> QED BY <2>1 DEF ThreadOfWorker, TypeOK
<1>7. ASSUME NEW c \in Clients, RemoveAll(c) PROVE ThreadOfWorker'
  BY <1>7 DEF RemoveAll, StartStopping, ThreadOfWorker, TypeOK, workerVars
<1>8. ASSUME NEW c \in Clients, NEW w \in Workers, Remove(c, w) PROVE ThreadOfWorker'
  <2>1. target[c] = {} /\ UNCHANGED <<state, pc, stopJobExecuted>>
        /\ workers' = workers \ {w} /\ target' = [target EXCEPT ![c] = {w}]
    BY <1>8 DEF Remove, StartStopping, CallOfClient, workerVars
  <2> QED BY <2>1 DEF ThreadOfWorker, TypeOK
<1>9. ASSUME NEW c \in Clients, NEW w \in Workers, Add(c, w) PROVE ThreadOfWorker'
  BY <1>9 DEF Add, ThreadOfWorker, TypeOK, clientVars
<1>10. CASE UNCHANGED vars
  BY <1>1, <1>10 DEF vars, managerVars, workerVars, clientVars
<1> QED BY StepCases, PushersLeaveThreads, <1>1, <1>2, <1>3, <1>4, <1>5, <1>6, <1>7, <1>8, <1>9, <1>10
        DEF Manages

LEMMA StepKeepsCalls ==
    ASSUME TypeOK, ThreadOfWorker, CallOfClient, [Next]_vars
    PROVE  CallOfClient'
<1>1. CASE UNCHANGED <<cpc, target, todo, at, stopJobPushed>>
  BY <1>1 DEF CallOfClient
<1>2. ASSUME NEW c \in Clients, NEW w \in Workers, NEW j \in Jobs, Schedule(c, w, j) PROVE CallOfClient'
  BY <1>2 DEF Schedule, MaySchedule, CallOfClient, TypeOK
<1>3. ASSUME NEW c \in Clients, NEW j \in Jobs, DeleteJobDeferred(c, j) PROVE CallOfClient'
  BY <1>3 DEF DeleteJobDeferred, MaySchedule, CallOfClient, TypeOK
<1>4. ASSUME NEW c \in Clients, NEW p \in StopPriorities, PushStop(c, p) PROVE CallOfClient'
  BY <1>4 DEF PushStop, CallOfClient, TypeOK
<1>5. ASSUME NEW c \in Clients, Manages(c) PROVE CallOfClient'
  <2>1. CASE Signal(c)
    BY <2>1 DEF Signal, CallOfClient, TypeOK
  <2>2. CASE Join(c)
    BY <2>2 DEF Join, CallOfClient, TypeOK, workerVars
  <2>3. CASE ReportIdle(c) \/ WaitForAllIdle(c)
    <3>1. CASE ReportIdle(c)
      BY <3>1 DEF ReportIdle, CallOfClient, TypeOK, workerVars
    <3>2. CASE WaitForAllIdle(c)
      BY <3>2 DEF WaitForAllIdle, CallOfClient, TypeOK, workerVars
    <3> QED BY <2>3, <3>1, <3>2
  <2>4. CASE RemoveAll(c)
    BY <2>4 DEF RemoveAll, StartStopping, CallOfClient, TypeOK, workerVars
  <2>5. ASSUME NEW w \in Workers, MarkStop(c, w) PROVE CallOfClient'
    <3>1. CASE stopJobPushed[w]
      BY <2>5, <3>1 DEF MarkStop, CallOfClient, TypeOK
    <3>2. CASE ~stopJobPushed[w]
      BY <2>5, <3>2 DEF MarkStop, CallOfClient, TypeOK
    <3> QED BY <3>1, <3>2
  <2>6. ASSUME NEW w \in Workers, ReadLoad(c, w) PROVE CallOfClient'
    BY <2>6 DEF ReadLoad, CallOfClient, TypeOK, workerVars
  <2>7. ASSUME NEW w \in Workers, Add(c, w) PROVE CallOfClient'
    BY <2>7, <1>1 DEF Add, clientVars
  <2>8. ASSUME NEW w \in Workers, Remove(c, w) PROVE CallOfClient'
    BY <2>8 DEF Remove, StartStopping, CallOfClient, TypeOK, workerVars
  <2> QED BY <1>5, <2>1, <2>2, <2>3, <2>4, <2>5, <2>6, <2>7, <2>8 DEF Manages
<1>6. ASSUME \/ \E w \in Workers : pop(w) \/ Execute(w) \/ Moves(w)
             \/ \E c \in Clients, j \in Jobs : DeleteJob(c, j)
             \/ UNCHANGED vars
      PROVE  UNCHANGED <<cpc, target, todo, at, stopJobPushed>>
  BY <1>6 DEF pop, Execute, Moves, Begin, Sleep, Spurious, End, DeleteJob, vars, workerVars, clientVars
<1> QED BY StepCases, <1>1, <1>2, <1>3, <1>4, <1>5, <1>6
-----------------------------------------------------------------------------
(* Stop jobs, when nobody schedules jobs for a worker that is being removed.  *)

\* Steps that leave a worker and its stop job alone.
LEMMA StopUntouched ==
    ASSUME NEW w \in Workers, StopAt(w), StopComes(w)' => StopComes(w),
           queue'[w] = queue[w], cur'[w] = cur[w], pc'[w] = "run" <=> pc[w] = "run",
           stopJobPushed'[w] = stopJobPushed[w], stopJobExecuted'[w] = stopJobExecuted[w],
           state[w] = "Terminated" \/ (\E c \in Clients : w \in target[c]) =>
                state'[w] = "Terminated" \/ (\E c \in Clients : w \in target'[c])
    PROVE  StopAt(w)'
<1>1. InHand(w)' = InHand(w)
  BY DEF InHand
<1> QED BY <1>1 DEF StopAt

\* An entry is pushed that is no stop job, for a worker without one.
LEMMA PushKeepsStop ==
    ASSUME TypeOK, JobsInv, StopIsLast,
           NEW c \in Clients, NEW w \in Workers, NEW e \in UserJobs \cup Commands, e.kind # "stop",
           MaySchedule(c, w), ~LateJobs, pushAndRelease(w, e), cpc' = [cpc EXCEPT ![c] = "signal"],
           at' = [at EXCEPT ![c] = w],
           UNCHANGED <<managerVars, stopJobPushed, stopJobExecuted, pc, cur, target>>
    PROVE  StopIsLast'
<1>1. ~stopJobPushed[w]
  BY DEF MaySchedule, StopIsLast, StopAt
<1>2. \A d \in Clients : cpc'[d] = "stopPush" => d # c /\ cpc[d] = "stopPush" /\ at'[d] = at[d]
  BY DEF TypeOK
<1>3. \A v \in Workers : StopComes(v)' => StopComes(v)
  BY <1>2 DEF StopComes
<1>4. \A v \in Workers \ {w} : StopAt(v)'
  <2> TAKE v \in Workers \ {w}
  <2>1. queue'[v] = queue[v]
    BY PushEffect
  <2> QED BY <2>1, <1>3, StopUntouched DEF StopIsLast, managerVars
<1>5. StopAt(w)'
  <2>1. InHand(w)' = InHand(w) \cup {e}
    BY PushKeepsOrder
  <2>2. ~stopJobExecuted[w] /\ \A f \in InHand(w) : f.kind # "stop"
    BY <1>1 DEF StopIsLast, StopAt
  <2>3. \A f \in InHand(w)' : f.kind # "stop"
    BY <2>1, <2>2
  <2>4. \A n \in DOMAIN queue'[w] : queue'[w][n].kind # "stop"
    BY <2>3 DEF InHand
  <2>5. pc'[w] = "run" => cur'[w].kind # "stop"
    BY <2>3 DEF InHand
  <2> QED BY <1>1, <2>2, <2>3, <2>4, <2>5 DEF StopAt
<1>6. \A d, f \in Clients : cpc'[d] = "stopPush" /\ cpc'[f] = "stopPush" /\ at'[d] = at'[f] => d = f
  BY <1>2 DEF StopIsLast
<1> QED BY <1>4, <1>5, <1>6 DEF StopIsLast

LEMMA PushStopKeepsStop ==
    ASSUME TypeOK, JobsInv, CallOfClient, StopIsLast,
           NEW c \in Clients, NEW p \in StopPriorities, PushStop(c, p)
    PROVE  StopIsLast'
<1> DEFINE e == Entry("stop", None, p)
<1>1. PICK w \in Workers : w = at[c]
  BY DEF PushStop, CallOfClient, TypeOK
<1>2. /\ pushAndRelease(w, e) /\ UNCHANGED <<pc, cur, stopJobPushed, stopJobExecuted, target, state, at>>
      /\ cpc' = [cpc EXCEPT ![c] = "stopSignal"] /\ cpc[c] = "stopPush"
  BY <1>1 DEF PushStop, managerVars
<1>3. e \in Commands /\ e.kind = "stop" /\ e.priority = p
  BY PushedEntries, EntryFields
<1> HIDE DEF e
<1>4. StopComes(w) /\ stopJobPushed[w]
  BY <1>1, <1>2 DEF StopComes, CallOfClient
<1>5. \A d \in Clients : cpc'[d] = "stopPush" => d # c /\ cpc[d] = "stopPush"
  BY <1>2 DEF TypeOK
<1>6. (\A v \in Workers : StopComes(v)' => StopComes(v)) /\ ~StopComes(w)'
  BY <1>1, <1>2, <1>5 DEF StopComes, StopIsLast
<1>7. PICK b \in 0..Len(queue[w]) :
           /\ queue' \in [Workers -> Seq(Entries)]
           /\ \A v \in Workers \ {w} : queue'[v] = queue[v]
           /\ Len(queue'[w]) = Len(queue[w]) + 1
           /\ \A m \in 1..b : queue'[w][m] = queue[w][m] /\ queue[w][m].priority >= e.priority
           /\ queue'[w][b + 1] = e
           /\ \A m \in (b + 1)..Len(queue[w]) :
                queue'[w][m + 1] = queue[w][m] /\ queue[w][m].priority < e.priority
  BY <1>2, <1>3, PushEffect
<1>8. \A v \in Workers \ {w} : StopAt(v)'
  BY <1>2, <1>6, <1>7, StopUntouched DEF StopIsLast
<1>9. StopAt(w)'
  <2> DEFINE q == queue[w]
             r == queue'[w]
  <2>1. ~stopJobExecuted[w] /\ (\A n \in DOMAIN q : q[n].kind # "stop")
        /\ (pc[w] = "run" => cur[w].kind # "stop")
    BY <1>4 DEF StopIsLast, StopAt, InHand
  <2>2. DOMAIN q = 1..Len(q) /\ DOMAIN r = 1..(Len(q) + 1) /\ Len(q) \in Nat /\ b \in 0..Len(q)
    BY <1>7 DEF TypeOK
  <2>3. /\ \A m \in 1..b : r[m] = q[m]
        /\ r[b + 1] = e
        /\ \A m \in (b + 1)..Len(q) : r[m + 1] = q[m] /\ q[m].priority < e.priority
    BY <1>7
  <2> HIDE DEF q, r
  <2>4. \A m \in DOMAIN r : \/ m = b + 1
                            \/ m < b + 1 /\ r[m].kind # "stop"
                            \/ m > b + 1 /\ r[m].kind # "stop" /\ r[m].priority < e.priority
    <3> TAKE m \in DOMAIN r
    <3>1. CASE m \in 1..b
      <4>1. m \in DOMAIN q /\ m < b + 1
        BY <3>1, <2>2
      <4> QED BY <3>1, <4>1, <2>1, <2>3
    <3>2. CASE m \in (b + 2)..(Len(q) + 1)
      <4>1. m - 1 \in (b + 1)..Len(q) /\ (m - 1) + 1 = m /\ m - 1 \in DOMAIN q
        BY <3>2, <2>2
      <4>2. r[(m - 1) + 1] = q[m - 1] /\ q[m - 1].priority < e.priority
        BY <4>1, <2>3
      <4>3. r[m] = q[m - 1]
        BY <4>1, <4>2
      <4> QED BY <3>2, <4>1, <4>2, <4>3, <2>1
    <3> QED BY <3>1, <3>2, <2>2, <2>3
  <2>5. \A n \in DOMAIN r : r[n].kind = "stop" =>
            \A m \in DOMAIN r : m > n => r[m].priority < r[n].priority /\ r[m].kind # "stop"
    BY <2>2, <2>3, <2>4
  <2>6. stopJobPushed[w] => state[w] = "Terminated" \/ \E d \in Clients : w \in target[d]
    BY DEF StopIsLast, StopAt
  <2> QED BY <1>2, <1>4, <1>6, <2>1, <2>5, <2>6 DEF StopAt, r
<1>10. \A d, f \in Clients : cpc'[d] = "stopPush" /\ cpc'[f] = "stopPush" /\ at'[d] = at'[f] => d = f
  BY <1>2, <1>5 DEF StopIsLast
<1> QED BY <1>8, <1>9, <1>10 DEF StopIsLast
LEMMA MarkStopKeepsStop ==
    ASSUME TypeOK, CallOfClient, StopIsLast, NEW c \in Clients, NEW w \in Workers, MarkStop(c, w)
    PROVE  StopIsLast'
<1>1. cpc[c] = "stop" /\ w \in target[c]
      /\ UNCHANGED <<queue, cur, pc, stopJobExecuted, state, target>>
  BY DEF MarkStop, CallOfClient, managerVars
<1>2. CASE stopJobPushed[w]
  <2>1. UNCHANGED <<stopJobPushed, cpc, at>>
    BY <1>2 DEF MarkStop
  <2> QED BY <1>1, <2>1, StopUntouched DEF StopIsLast, StopComes
<1>3. CASE ~stopJobPushed[w]
  <2>1. /\ stopJobPushed' = [stopJobPushed EXCEPT ![w] = TRUE]
        /\ cpc' = [cpc EXCEPT ![c] = "stopPush"] /\ at' = [at EXCEPT ![c] = w]
    BY <1>3 DEF MarkStop
  <2>2. \A d \in Clients \ {c} : cpc'[d] = cpc[d] /\ at'[d] = at[d] /\ (cpc[d] = "stopPush" => at[d] # w)
    BY <1>3, <2>1 DEF TypeOK, CallOfClient
  <2>3. cpc'[c] = "stopPush" /\ at'[c] = w
    BY <2>1 DEF TypeOK
  <2>4. \A v \in Workers \ {w} : StopComes(v)' => StopComes(v)
    BY <2>2, <2>3 DEF StopComes
  <2>5. \A v \in Workers \ {w} : StopAt(v)'
    <3> TAKE v \in Workers \ {w}
    <3>1. stopJobPushed'[v] = stopJobPushed[v]
      BY <2>1 DEF TypeOK
    <3> QED BY <1>1, <2>4, <3>1, StopUntouched DEF StopIsLast
  <2>6. StopAt(w)'
    <3>1. InHand(w)' = InHand(w)
      BY <1>1 DEF InHand
    <3>2. ~stopJobExecuted[w] /\ \A e \in InHand(w) : e.kind # "stop"
      BY <1>3 DEF StopIsLast, StopAt
    <3>3. \E d \in Clients : w \in target'[d]
      BY <1>1
    <3> QED BY <1>1, <3>1, <3>2, <3>3 DEF StopAt, StopIsLast
  <2>7. \A d, f \in Clients : cpc'[d] = "stopPush" /\ cpc'[f] = "stopPush" /\ at'[d] = at'[f] => d = f
    BY <2>2, <2>3 DEF StopIsLast
  <2> QED BY <2>5, <2>6, <2>7 DEF StopIsLast
<1> QED BY <1>2, <1>3

\* A worker that takes the stop job has only jobs of lower priority left.
LEMMA PopKeepsStop ==
    ASSUME TypeOK, JobsInv, StopIsLast, NEW w \in Workers, pop(w)
    PROVE  StopIsLast'
<1>1. ~stopJobExecuted[w]
      /\ UNCHANGED <<stopJobPushed, stopJobExecuted, state, target, cpc, at>>
  BY DEF pop, managerVars, clientVars
<1>2. /\ \A v \in Workers \ {w} : queue'[v] = queue[v] /\ cur'[v] = cur[v] /\ pc'[v] = pc[v]
      /\ Len(queue[w]) \in Nat \ {0}
      /\ DOMAIN queue[w] = 1..Len(queue[w]) /\ DOMAIN queue'[w] = 1..(Len(queue[w]) - 1)
      /\ \A m \in DOMAIN queue'[w] : m + 1 \in DOMAIN queue[w] /\ queue'[w][m] = queue[w][m + 1]
      /\ 1 \in DOMAIN queue[w] /\ cur'[w] = queue[w][1]
  BY PopEffect
<1>3. InHand(w)' = InHand(w)
  BY PopKeepsJobs
<1>4. \A v \in Workers : StopComes(v)' = StopComes(v)
  BY <1>1 DEF StopComes
<1>5. \A v \in Workers \ {w} : StopAt(v)'
  <2> TAKE v \in Workers \ {w}
  <2> QED BY <1>1, <1>2, <1>4, StopUntouched DEF StopIsLast
<1>6. StopAt(w)'
  <2> DEFINE q == queue[w]
             r == queue'[w]
  <2>1. \A n \in DOMAIN q : q[n].kind = "stop" =>
            \A m \in DOMAIN q : m > n => q[m].priority < q[n].priority /\ q[m].kind # "stop"
    BY DEF StopIsLast, StopAt
  <2>2. /\ Len(q) \in Nat \ {0} /\ DOMAIN q = 1..Len(q) /\ DOMAIN r = 1..(Len(q) - 1)
        /\ \A m \in DOMAIN r : m + 1 \in DOMAIN q /\ r[m] = q[m + 1]
        /\ 1 \in DOMAIN q
    BY <1>2
  <2> HIDE DEF q, r
  <2>3. \A n \in DOMAIN r : r[n].kind = "stop" =>
            \A m \in DOMAIN r : m > n => r[m].priority < r[n].priority /\ r[m].kind # "stop"
    <3> TAKE n \in DOMAIN r
    <3> HAVE r[n].kind = "stop"
    <3> TAKE m \in DOMAIN r
    <3> HAVE m > n
    <3>1. n + 1 \in DOMAIN q /\ m + 1 \in DOMAIN q /\ r[n] = q[n + 1] /\ r[m] = q[m + 1] /\ m + 1 > n + 1
      BY <2>2
    <3> QED BY <2>1, <3>1
  <2>4. q[1].kind = "stop" => \A n \in DOMAIN r : r[n].priority < q[1].priority /\ r[n].kind # "stop"
    <3> HAVE q[1].kind = "stop"
    <3> TAKE n \in DOMAIN r
    <3>1. n + 1 \in DOMAIN q /\ r[n] = q[n + 1] /\ n + 1 > 1
      BY <2>2
    <3> QED BY <2>1, <2>2, <3>1
  <2>5. /\ stopJobPushed[w] => state[w] = "Terminated" \/ \E d \in Clients : w \in target[d]
        /\ ~stopJobPushed[w] \/ StopComes(w) => \A e \in InHand(w) : e.kind # "stop"
    BY DEF StopIsLast, StopAt
  <2>6. cur'[w] = q[1]
    BY <1>2 DEF q
  <2> QED BY <1>1, <1>3, <1>4, <2>3, <2>4, <2>5, <2>6 DEF StopAt, r
<1> QED BY <1>1, <1>5, <1>6 DEF StopIsLast

LEMMA ExecuteKeepsStop ==
    ASSUME TypeOK, ThreadOfWorker, StopIsLast, NEW w \in Workers, Execute(w)
    PROVE  StopIsLast'
<1>1. /\ pc[w] = "run" /\ pc' = [pc EXCEPT ![w] = "loop"] /\ ~stopJobExecuted[w]
      /\ UNCHANGED <<queue, stopJobPushed, state, target, cpc, at>>
  BY DEF Execute, managerVars, clientVars, ThreadOfWorker
<1>2. \/ /\ cur[w].kind = "stop" /\ cur' = [cur EXCEPT ![w] = cur[w]]
         /\ stopJobExecuted' = [stopJobExecuted EXCEPT ![w] = TRUE]
      \/ /\ cur[w].kind # "stop" /\ cur' = [cur EXCEPT ![w] = NoEntry]
         /\ stopJobExecuted' = stopJobExecuted
  BY DEF Execute
<1>3. \A v \in Workers : StopComes(v)' = StopComes(v)
  BY <1>1 DEF StopComes
<1>4. \A v \in Workers \ {w} : StopAt(v)'
  <2> TAKE v \in Workers \ {w}
  <2>1. queue'[v] = queue[v] /\ cur'[v] = cur[v] /\ pc'[v] = pc[v]
        /\ stopJobExecuted'[v] = stopJobExecuted[v]
    BY <1>1, <1>2 DEF TypeOK
  <2> QED BY <1>1, <1>3, <2>1, StopUntouched DEF StopIsLast
<1>5. StopAt(w)'
  <2>1. pc'[w] = "loop"
    BY <1>1 DEF TypeOK
  <2>2. InHand(w)' \subseteq InHand(w) /\ cur[w] \in InHand(w)
    BY <1>1, <2>1 DEF InHand
  <2>3. CASE cur[w].kind = "stop"
    <3>1. cur'[w] = cur[w] /\ stopJobExecuted'[w]
      BY <1>2, <2>3 DEF TypeOK
    <3>2. stopJobPushed[w] /\ ~StopComes(w)
      BY <2>2, <2>3 DEF StopIsLast, StopAt
    <3> QED BY <1>1, <1>3, <2>3, <3>1, <3>2 DEF StopAt, StopIsLast
  <2>4. CASE cur[w].kind # "stop"
    <3>1. ~stopJobExecuted'[w]
      BY <1>1, <1>2, <2>4
    <3>2. ~stopJobPushed[w] \/ StopComes(w) => \A e \in InHand(w)' : e.kind # "stop"
      BY <2>2 DEF StopIsLast, StopAt
    <3> QED BY <1>1, <1>3, <2>1, <3>1, <3>2 DEF StopAt, StopIsLast
  <2> QED BY <2>3, <2>4
<1> QED BY <1>1, <1>4, <1>5 DEF StopIsLast

LEMMA OthersKeepStop ==
    ASSUME TypeOK, ThreadOfWorker, CallOfClient, StopIsLast, ~AddAgain,
           \/ \E w \in Workers : Moves(w)
           \/ \E c \in Clients, j \in Jobs : DeleteJob(c, j)
           \/ \E c \in Clients : \/ Signal(c) \/ Join(c) \/ ReportIdle(c) \/ RemoveAll(c)
                                 \/ WaitForAllIdle(c)
                                 \/ \E w \in Workers : ReadLoad(c, w) \/ Add(c, w) \/ Remove(c, w)
           \/ UNCHANGED vars
    PROVE  StopIsLast'
<1>1. SUFFICES /\ UNCHANGED <<queue, cur, stopJobPushed, stopJobExecuted>>
               /\ \A v \in Workers : pc'[v] = "run" <=> pc[v] = "run"
               /\ \A d \in Clients : cpc'[d] = "stopPush" => cpc[d] = "stopPush" /\ at'[d] = at[d]
               /\ \A v \in Workers : state[v] = "Terminated" \/ (\E d \in Clients : v \in target[d]) =>
                      state'[v] = "Terminated" \/ (\E d \in Clients : v \in target'[d])
  <2>1. \A v \in Workers : StopComes(v)' => StopComes(v)
    BY <1>1 DEF StopComes
  <2>2. \A v \in Workers : StopAt(v)'
    <3> TAKE v \in Workers
    <3> QED BY <1>1, <2>1, StopUntouched DEF StopIsLast
  <2> QED BY <1>1, <2>2 DEF StopIsLast
<1> DEFINE Goal ==
        /\ UNCHANGED <<queue, cur, stopJobPushed, stopJobExecuted>>
        /\ \A v \in Workers : pc'[v] = "run" <=> pc[v] = "run"
        /\ \A d \in Clients : cpc'[d] = "stopPush" => cpc[d] = "stopPush" /\ at'[d] = at[d]
        /\ \A v \in Workers : state[v] = "Terminated" \/ (\E d \in Clients : v \in target[d]) =>
               state'[v] = "Terminated" \/ (\E d \in Clients : v \in target'[d])
<1>2. ASSUME NEW w \in Workers, Moves(w) PROVE Goal
  BY <1>2 DEF Moves, Begin, Sleep, Spurious, End, TypeOK, managerVars, clientVars, ThreadOfWorker
<1>3. ASSUME NEW c \in Clients, NEW j \in Jobs, DeleteJob(c, j) PROVE Goal
  BY <1>3 DEF DeleteJob, managerVars, workerVars, clientVars
<1>4. ASSUME NEW c \in Clients, Signal(c) PROVE Goal
  <2>1. \A v \in Workers : pc'[v] = "run" <=> pc[v] = "run"
    BY <1>4 DEF Signal, notifySleeping, TypeOK
  <2>2. \A d \in Clients : cpc'[d] = "stopPush" => cpc[d] = "stopPush" /\ at'[d] = at[d]
    BY <1>4 DEF Signal, TypeOK
  <2> QED BY <1>4, <2>1, <2>2 DEF Signal, managerVars
<1>5. ASSUME NEW c \in Clients, Join(c) PROVE Goal
  <2>1. \A v \in Workers : state[v] = "Terminated" \/ (\E d \in Clients : v \in target[d]) =>
               state'[v] = "Terminated" \/ (\E d \in Clients : v \in target'[d])
    BY <1>5 DEF Join, TypeOK
  <2>2. \A d \in Clients : cpc'[d] = "stopPush" => cpc[d] = "stopPush" /\ at'[d] = at[d]
    BY <1>5 DEF Join, TypeOK
  <2> QED BY <1>5, <2>1, <2>2 DEF Join, workerVars
<1>6. ASSUME NEW c \in Clients, ReportIdle(c) \/ WaitForAllIdle(c) PROVE Goal
  <2>1. UNCHANGED <<managerVars, workerVars, target, at>>
        /\ (cpc' = [cpc EXCEPT ![c] = "ready"] \/ cpc' = [cpc EXCEPT ![c] = "count"])
    BY <1>6 DEF ReportIdle, WaitForAllIdle
  <2> QED BY <2>1 DEF TypeOK, managerVars, workerVars
<1>7. ASSUME NEW c \in Clients, NEW w \in Workers, ReadLoad(c, w) PROVE Goal
  BY <1>7 DEF ReadLoad, TypeOK, managerVars, workerVars
<1>8. ASSUME NEW c \in Clients, RemoveAll(c) \/ \E w \in Workers : Remove(c, w) PROVE Goal
  <2>1. PICK set \in SUBSET Workers : StartStopping(c, set)
    BY <1>8 DEF RemoveAll, Remove, TypeOK
  <2>2. target[c] = {}
    BY <1>8 DEF RemoveAll, Remove, CallOfClient
  <2> QED BY <2>1, <2>2 DEF StartStopping, TypeOK, workerVars
<1>9. ASSUME NEW c \in Clients, NEW w \in Workers, Add(c, w) PROVE Goal
  <2>1. /\ state[w] = "Unstarted" /\ pc[w] = "none"
        /\ state' = [state EXCEPT ![w] = "Started"] /\ pc' = [pc EXCEPT ![w] = "start"]
        /\ UNCHANGED <<queue, stopJobPushed, stopJobExecuted, cur, clientVars>>
    BY <1>9 DEF Add, ThreadOfWorker
  <2> QED BY <2>1 DEF TypeOK, clientVars
<1>10. ASSUME UNCHANGED vars PROVE Goal
  BY <1>10 DEF vars, managerVars, workerVars, clientVars
<1> HIDE DEF Goal
<1>11. Goal
  BY <1>2, <1>3, <1>4, <1>5, <1>6, <1>7, <1>8, <1>9, <1>10
<1> QED BY <1>11 DEF Goal

LEMMA StepKeepsStop ==
    ASSUME TypeOK, JobsInv, ThreadOfWorker, CallOfClient, StopIsLast, InTime, [Next]_vars
    PROVE  StopIsLast'
<1>1. ~LateJobs /\ ~AddAgain
  BY DEF InTime
<1>2. ASSUME NEW c \in Clients, NEW w \in Workers, NEW j \in Jobs, Schedule(c, w, j) PROVE StopIsLast'
  <2>1. JobEntry(j) \in UserJobs /\ JobEntry(j).kind # "stop"
    BY PushedEntries, EntryFields DEF JobEntry
  <2> QED BY <1>1, <1>2, <2>1, PushKeepsStop DEF Schedule, JobEntry
<1>3. ASSUME NEW c \in Clients, NEW j \in Jobs, DeleteJobDeferred(c, j) PROVE StopIsLast'
  <2>1. PICK w \in Workers : w = owner[j]
    BY <1>3 DEF DeleteJobDeferred, JobsInv, JobLife, TypeOK
  <2>2. DeleteEntry(j) \in Commands /\ DeleteEntry(j).kind # "stop"
    BY <1>3, PushedEntries, EntryFields DEF DeleteEntry, DeleteJobDeferred, JobsInv, JobLife
  <2>3. /\ MaySchedule(c, w) /\ pushAndRelease(w, DeleteEntry(j))
        /\ cpc' = [cpc EXCEPT ![c] = "signal"] /\ at' = [at EXCEPT ![c] = w]
        /\ UNCHANGED <<managerVars, stopJobPushed, stopJobExecuted, pc, cur, target>>
    BY <1>3, <2>1 DEF DeleteJobDeferred, DeleteEntry
  <2> QED BY <1>1, <2>2, <2>3, PushKeepsStop
<1> QED BY <1>1, <1>2, <1>3, StepCases, PushStopKeepsStop, MarkStopKeepsStop, PopKeepsStop,
       ExecuteKeepsStop, OthersKeepStop DEF Manages
-----------------------------------------------------------------------------
(* The invariant.                                                           *)

LEMMA InitHolds == Init => IInv
<1> SUFFICES ASSUME Init PROVE IInv
  OBVIOUS
<1>1. NoEntry \in Entries
  BY DEF NoEntry, Entry, Entries, Lowest, Highest
<1>2. TypeOK
  BY <1>1 DEF Init, TypeOK
<1>3. \A w \in Workers : queue[w] = <<>> /\ InHand(w) = {} /\ pc[w] = "none" /\ DOMAIN queue[w] = {}
  BY DEF Init, InHand
<1>4. JobsInv
  BY <1>3 DEF Init, JobsInv, Ordered, Owned, EachOnce, DeletionBehind, JobLife
<1>5. ThreadOfWorker /\ CallOfClient
  BY DEF Init, ThreadOfWorker, CallOfClient
<1>6. StopIsLast
  BY <1>3 DEF Init, StopIsLast, StopAt, StopComes
<1> QED BY <1>2, <1>4, <1>5, <1>6 DEF IInv

\* The invariant holds always.
THEOREM Invariance == Spec => []IInv
<1>1. IInv /\ [Next]_vars => IInv'
  BY StepKeepsTypes, StepKeepsJobs, StepKeepsThreads, StepKeepsCalls, StepKeepsStop DEF IInv, InTime
<1> QED BY <1>1, InitHolds, PTL DEF Spec
\* What a worker has in hand is not deleted, for all ways to use the manager.
LEMMA NothingInHandIsGone == IInv => JobsAlive
<1> SUFFICES ASSUME IInv, NEW w \in Workers, NEW e \in InHand(w), e.job # None
             PROVE  jobState[e.job] # "gone"
  BY DEF JobsAlive
<1>1. e \in UserJobs \cup Commands
  BY DEF IInv, JobsInv, Owned
<1>2. \/ e.job \in Jobs /\ e = JobEntry(e.job)
      \/ e.job \in Jobs /\ e = DeleteEntry(e.job)
  BY <1>1, EntryShape
<1> QED BY <1>2 DEF IInv, JobsInv, JobLife

LEMMA NothingIsLost == IInv => NoJobIsLost
<1> SUFFICES ASSUME IInv, workers = {}, held = {}, \A c \in Clients : cpc[c] = "ready",
                    \A w \in Workers : queue[w] = <<>>,
                    NEW j \in Jobs \ Handled, jobState[j] \notin {"new", "gone"}
             PROVE  FALSE
  BY DEF NoJobIsLost
<1>1. jobState[j] \in {"queued", "processed"} /\ owner[j] \in Workers
  BY DEF IInv, TypeOK, JobsInv, JobLife
<1>2. InHand(owner[j]) # {}
  BY <1>1 DEF IInv, JobsInv, JobLife
<1>3. pc[owner[j]] = "run"
  BY <1>1, <1>2 DEF InHand
<1>4. state[owner[j]] \in {"Started", "Running"}
  BY <1>1, <1>3 DEF IInv, TypeOK, ThreadOfWorker
<1>5. \A c \in Clients : target[c] = {}
  BY DEF IInv, CallOfClient
<1> QED BY <1>1, <1>4, <1>5 DEF IInv, ThreadOfWorker

LEMMA RemovedWorkersAreJoined == IInv => RemovedMeansJoined
BY DEF IInv, RemovedMeansJoined, ThreadOfWorker, TypeOK

LEMMA AllIsExecuted == IInv /\ InTime => AllExecutedBeforeExit
BY DEF IInv, AllExecutedBeforeExit, ThreadOfWorker, StopIsLast, StopAt

\* However clients use the manager, also if they schedule jobs for a worker that
\* is being removed and add removed workers again: what pop() and Run() have in
\* hand is never deleted before, no job object is lost, and a removed worker
\* is joined.
THEOREM JobsAreKept == Spec => [](TypeOK /\ JobsAlive /\ NoJobIsLost /\ RemovedMeansJoined)
<1>1. IInv => TypeOK /\ JobsAlive /\ NoJobIsLost /\ RemovedMeansJoined
  BY NothingInHandIsGone, NothingIsLost, RemovedWorkersAreJoined DEF IInv
<1> QED BY <1>1, Invariance, PTL

\* If nobody schedules jobs for a worker that is being removed, nor adds a removed
\* worker again, then in addition all jobs of the priority of the stop job and
\* above are executed before DWManager::Remove and RemoveAll return.
THEOREM WorkersKeepTheirJobsAlways ==
    ASSUME ~LateJobs, ~AddAgain
    PROVE  Spec => []WorkersKeepTheirJobs
<1>1. IInv => WorkersKeepTheirJobs
  BY NothingInHandIsGone, NothingIsLost, RemovedWorkersAreJoined, AllIsExecuted
     DEF IInv, InTime, WorkersKeepTheirJobs
<1> QED BY <1>1, Invariance, PTL
-----------------------------------------------------------------------------
(* The jobs of one priority stand together in the sorted list.              *)

\* LastAbove is the one place that has the higher priorities before it.
LEMMA LastAboveSplits ==
    ASSUME NEW q \in Seq(Entries), Ordered(q), NEW p \in Int
    PROVE  /\ LastAbove(q, p) \in 0..Len(q)
           /\ \A m \in 1..LastAbove(q, p) : q[m].priority > p
           /\ \A m \in (LastAbove(q, p) + 1)..Len(q) : q[m].priority <= p
<1>1. \A m \in DOMAIN q : q[m].priority \in Int
  <2> TAKE m \in DOMAIN q
  <2>1. q[m] \in Entries
    OBVIOUS
  <2> QED BY <2>1, PriorityNumbers
<1>2. {m \in DOMAIN q : q[m].priority > p} = {m \in DOMAIN q : q[m].priority >= p + 1}
  BY <1>1
<1>3. LastAbove(q, p) = Position(q, p + 1)
  BY <1>2 DEF LastAbove, Position
<1>4. /\ Position(q, p + 1) \in 0..Len(q)
      /\ \A m \in 1..Position(q, p + 1) : q[m].priority >= p + 1
      /\ \A m \in (Position(q, p + 1) + 1)..Len(q) : q[m].priority < p + 1
  <2>1. p + 1 \in Int
    OBVIOUS
  <2> QED BY <2>1, PositionSplits
<1> DEFINE b == LastAbove(q, p)
<1>5. Len(q) \in Nat /\ DOMAIN q = 1..Len(q) /\ b \in 0..Len(q)
  BY <1>3, <1>4
<1>6. \A m \in 1..b : q[m].priority >= p + 1
  BY <1>3, <1>4
<1>7. \A m \in (b + 1)..Len(q) : q[m].priority < p + 1
  BY <1>3, <1>4
<1> HIDE DEF b
<1>8. \A m \in 1..b : q[m].priority > p
  BY <1>1, <1>5, <1>6
<1>9. \A m \in (b + 1)..Len(q) : q[m].priority <= p
  BY <1>1, <1>5, <1>7
<1> QED BY <1>5, <1>8, <1>9 DEF b

LEMMA LastAboveIsUnique ==
    ASSUME NEW q \in Seq(Entries), Ordered(q), NEW p \in Int, NEW b \in 0..Len(q),
           \A m \in 1..b : q[m].priority > p,
           \A m \in (b + 1)..Len(q) : q[m].priority <= p
    PROVE  LastAbove(q, p) = b
<1> DEFINE a == LastAbove(q, p)
<1>1. /\ a \in 0..Len(q)
      /\ \A m \in 1..a : q[m].priority > p
      /\ \A m \in (a + 1)..Len(q) : q[m].priority <= p
  BY LastAboveSplits
<1>2. Len(q) \in Nat /\ \A m \in 1..Len(q) : q[m].priority \in Int
  <2> SUFFICES ASSUME NEW m \in 1..Len(q) PROVE q[m].priority \in Int
    OBVIOUS
  <2>1. q[m] \in Entries
    OBVIOUS
  <2> QED BY <2>1, PriorityNumbers
<1> HIDE DEF a
<1>3. CASE a < b
  <2>1. b \in (a + 1)..Len(q) /\ b \in 1..b /\ b \in 1..Len(q)
    BY <1>1, <1>2, <1>3
  <2>2. q[b].priority > p /\ q[b].priority <= p /\ q[b].priority \in Int
    BY <1>1, <1>2, <2>1
  <2> QED BY <2>2
<1>4. CASE b < a
  <2>1. a \in (b + 1)..Len(q) /\ a \in 1..a /\ a \in 1..Len(q)
    BY <1>1, <1>2, <1>4
  <2>2. q[a].priority > p /\ q[a].priority <= p /\ q[a].priority \in Int
    BY <1>1, <1>2, <2>1
  <2> QED BY <2>2
<1> QED BY <1>1, <1>3, <1>4 DEF a

LEMMA LastAboveFalls ==
    ASSUME NEW q \in Seq(Entries), Ordered(q), NEW p \in Int
    PROVE  /\ LastAbove(q, p) \in 0..Len(q) /\ LastAbove(q, p - 1) \in 0..Len(q)
           /\ LastAbove(q, p) <= LastAbove(q, p - 1)
<1> DEFINE a == LastAbove(q, p)
           c == LastAbove(q, p - 1)
<1>1. a \in 0..Len(q) /\ \A m \in 1..a : q[m].priority > p
  BY LastAboveSplits
<1>2. c \in 0..Len(q) /\ \A m \in (c + 1)..Len(q) : q[m].priority <= p - 1
  <2>1. p - 1 \in Int
    OBVIOUS
  <2> QED BY <2>1, LastAboveSplits
<1>3. Len(q) \in Nat /\ \A m \in 1..Len(q) : q[m].priority \in Int
  <2> SUFFICES ASSUME NEW m \in 1..Len(q) PROVE q[m].priority \in Int
    OBVIOUS
  <2>1. q[m] \in Entries
    OBVIOUS
  <2> QED BY <2>1, PriorityNumbers
<1> HIDE DEF a, c
<1>4. CASE c < a
  <2>1. a \in (c + 1)..Len(q) /\ a \in 1..a /\ a \in 1..Len(q)
    BY <1>1, <1>2, <1>3, <1>4
  <2>2. q[a].priority > p /\ q[a].priority <= p - 1 /\ q[a].priority \in Int
    BY <1>1, <1>2, <1>3, <2>1
  <2> QED BY <2>2
<1> QED BY <1>1, <1>2, <1>4 DEF a, c

\* A stretch of the list that moved as a whole.
LEMMA StretchMoves ==
    ASSUME NEW q \in Seq(Entries), NEW r \in Seq(Entries),
           NEW a \in 0..Len(q), NEW c \in 0..Len(q), a <= c, NEW d \in Int,
           0 <= a + d, c + d <= Len(r),
           \A m \in (a + 1)..c : r[m + d] = q[m]
    PROVE  SubSeq(r, (a + d) + 1, c + d) = SubSeq(q, a + 1, c)
<1>1. Len(q) \in Nat /\ Len(r) \in Nat
  OBVIOUS
<1>2. /\ SubSeq(q, a + 1, c) \in Seq(Entries) /\ Len(SubSeq(q, a + 1, c)) = c - a
      /\ \A m \in 1..(c - a) : SubSeq(q, a + 1, c)[m] = q[a + m]
  <2>1. \A i \in (a + 1)..c : q[i] \in Entries
    BY <1>1
  <2>2. /\ SubSeq(q, a + 1, c) \in Seq(Entries)
        /\ Len(SubSeq(q, a + 1, c)) = IF a + 1 <= c THEN c - (a + 1) + 1 ELSE 0
        /\ \A m \in 1..(c - (a + 1) + 1) : SubSeq(q, a + 1, c)[m] = q[(a + 1) + m - 1]
    BY <1>1, <2>1, SubSeqProperties
  <2>3. c - (a + 1) + 1 = c - a /\ \A m \in Int : (a + 1) + m - 1 = a + m
    BY <1>1
  <2> QED BY <1>1, <2>2, <2>3
<1>3. /\ SubSeq(r, (a + d) + 1, c + d) \in Seq(Entries) /\ Len(SubSeq(r, (a + d) + 1, c + d)) = c - a
      /\ \A m \in 1..(c - a) : SubSeq(r, (a + d) + 1, c + d)[m] = r[(a + m) + d]
  <2>1. \A i \in ((a + d) + 1)..(c + d) : r[i] \in Entries
    BY <1>1
  <2> DEFINE s == SubSeq(r, (a + d) + 1, c + d)
  <2>2. /\ s \in Seq(Entries)
        /\ Len(s) = IF (a + d) + 1 <= c + d THEN (c + d) - ((a + d) + 1) + 1 ELSE 0
        /\ \A m \in 1..((c + d) - ((a + d) + 1) + 1) : s[m] = r[((a + d) + 1) + m - 1]
    BY <1>1, <2>1, SubSeqProperties
  <2>3. (c + d) - ((a + d) + 1) + 1 = c - a /\ \A m \in Int : ((a + d) + 1) + m - 1 = (a + m) + d
    BY <1>1
  <2> HIDE DEF s
  <2>4. Len(s) = c - a
    BY <1>1, <2>2
  <2>5. \A m \in 1..(c - a) : s[m] = r[(a + m) + d]
    BY <2>2, <2>3
  <2> QED BY <2>2, <2>4, <2>5 DEF s
<1>4. \A m \in 1..(c - a) : r[(a + m) + d] = q[a + m]
  <2> TAKE m \in 1..(c - a)
  <2>1. a + m \in (a + 1)..c
    BY <1>1
  <2> QED BY <2>1
<1> DEFINE s == SubSeq(r, (a + d) + 1, c + d)
           u == SubSeq(q, a + 1, c)
<1> HIDE DEF s, u
<1>5. s \in Seq(Entries) /\ u \in Seq(Entries) /\ Len(s) = Len(u) /\ \A m \in 1..Len(s) : s[m] = u[m]
  BY <1>2, <1>3, <1>4 DEF s, u
<1>6. s = u
  BY <1>5, SeqEqual
<1> QED BY <1>6 DEF s, u
\* The list r is the sorted list q with the entry e behind its first b entries.
PutAt(q, r, e, b) ==
    /\ b \in 0..Len(q) /\ Len(r) = Len(q) + 1
    /\ \A m \in 1..b : r[m] = q[m] /\ q[m].priority >= e.priority
    /\ r[b + 1] = e
    /\ \A m \in (b + 1)..Len(q) : r[m + 1] = q[m] /\ q[m].priority < e.priority

LEMMA LastAbovePushed ==
    ASSUME NEW q \in Seq(Entries), Ordered(q), NEW r \in Seq(Entries), Ordered(r),
           NEW e \in Entries, NEW b \in Nat, PutAt(q, r, e, b), NEW p \in Int
    PROVE  IF e.priority > p THEN LastAbove(r, p) = LastAbove(q, p) + 1 /\ LastAbove(q, p) >= b
                             ELSE LastAbove(r, p) = LastAbove(q, p) /\ LastAbove(q, p) <= b
<1> DEFINE a == LastAbove(q, p)
<1>1. /\ a \in 0..Len(q)
      /\ \A m \in 1..a : q[m].priority > p
      /\ \A m \in (a + 1)..Len(q) : q[m].priority <= p
  BY LastAboveSplits
<1>2. /\ Len(q) \in Nat /\ Len(r) = Len(q) + 1 /\ b \in 0..Len(q) /\ e.priority \in Int
      /\ \A m \in 1..Len(q) : q[m].priority \in Int
  <2>1. \A m \in 1..Len(q) : q[m] \in Entries
    OBVIOUS
  <2> QED BY <2>1, PriorityNumbers DEF PutAt
<1>3. \A m \in 1..Len(r) : \/ m <= b /\ m \in 1..Len(q) /\ r[m] = q[m]
                           \/ m = b + 1 /\ r[m] = e
                           \/ m > b + 1 /\ m - 1 \in (b + 1)..Len(q) /\ r[m] = q[m - 1]
  <2> TAKE m \in 1..Len(r)
  <2>1. CASE m <= b
    <3>1. m \in 1..b /\ m \in 1..Len(q)
      BY <2>1, <1>2
    <3> QED BY <2>1, <3>1 DEF PutAt
  <2>2. CASE m = b + 1
    BY <2>2 DEF PutAt
  <2>3. CASE m > b + 1
    <3>1. m - 1 \in (b + 1)..Len(q) /\ (m - 1) + 1 = m
      BY <2>3, <1>2
    <3> QED BY <2>3, <3>1 DEF PutAt
  <2> QED BY <2>1, <2>2, <2>3, <1>2
<1>4. /\ \A m \in 1..b : q[m].priority >= e.priority
      /\ \A m \in (b + 1)..Len(q) : q[m].priority < e.priority
  BY DEF PutAt
<1> HIDE DEF a
<1>5. CASE e.priority > p
  <2>1. a >= b
    <3> SUFFICES ASSUME a < b PROVE FALSE
      BY <1>1, <1>2
    <3>1. a + 1 \in 1..b /\ a + 1 \in (a + 1)..Len(q) /\ a + 1 \in 1..Len(q)
      BY <1>1, <1>2
    <3>2. q[a + 1].priority >= e.priority /\ q[a + 1].priority <= p /\ q[a + 1].priority \in Int
      BY <3>1, <1>1, <1>2, <1>4
    <3> QED BY <3>2, <1>2, <1>5
  <2>2. a + 1 \in 0..Len(r)
    BY <1>1, <1>2
  <2>3. \A m \in 1..(a + 1) : r[m].priority > p
    <3> TAKE m \in 1..(a + 1)
    <3>1. m \in 1..Len(r)
      BY <1>1, <1>2
    <3>2. CASE m <= b /\ r[m] = q[m]
      BY <3>2, <2>1, <1>1, <1>2
    <3>3. CASE r[m] = e
      BY <3>3, <1>5
    <3>4. CASE m - 1 \in (b + 1)..Len(q) /\ r[m] = q[m - 1]
      BY <3>4, <1>1, <1>2
    <3> QED BY <3>1, <3>2, <3>3, <3>4, <1>3
  <2>4. \A m \in ((a + 1) + 1)..Len(r) : r[m].priority <= p
    <3> TAKE m \in ((a + 1) + 1)..Len(r)
    <3>1. m \in 1..Len(r) /\ m > b + 1
      BY <1>1, <1>2, <2>1
    <3>2. m - 1 \in (b + 1)..Len(q) /\ r[m] = q[m - 1]
      BY <3>1, <1>2, <1>3
    <3>3. m - 1 \in (a + 1)..Len(q)
      BY <3>2, <1>1, <1>2
    <3> QED BY <3>2, <3>3, <1>1
  <2>5. LastAbove(r, p) = a + 1
    BY <2>2, <2>3, <2>4, LastAboveIsUnique
  <2> QED BY <1>5, <2>1, <2>5 DEF a
<1>6. CASE ~(e.priority > p)
  <2>1. a <= b
    <3> SUFFICES ASSUME b < a PROVE FALSE
      BY <1>1, <1>2
    <3>1. a \in 1..a /\ a \in (b + 1)..Len(q) /\ a \in 1..Len(q)
      BY <1>1, <1>2
    <3>2. q[a].priority < e.priority /\ q[a].priority > p /\ q[a].priority \in Int
      BY <3>1, <1>1, <1>2, <1>4
    <3> QED BY <3>2, <1>2, <1>6
  <2>2. a \in 0..Len(r)
    BY <1>1, <1>2
  <2>3. \A m \in 1..a : r[m].priority > p
    <3> TAKE m \in 1..a
    <3>1. m \in 1..Len(r) /\ m <= b
      BY <1>1, <1>2, <2>1
    <3>2. r[m] = q[m]
      BY <3>1, <1>2, <1>3
    <3> QED BY <3>2, <1>1
  <2>4. \A m \in (a + 1)..Len(r) : r[m].priority <= p
    <3> TAKE m \in (a + 1)..Len(r)
    <3>1. m \in 1..Len(r)
      BY <1>1, <1>2
    <3>2. CASE m \in 1..Len(q) /\ r[m] = q[m]
      BY <3>2, <1>1, <1>2
    <3>3. CASE r[m] = e
      BY <3>3, <1>2, <1>6
    <3>4. CASE m - 1 \in (b + 1)..Len(q) /\ r[m] = q[m - 1]
      BY <3>4, <2>1, <1>1, <1>2
    <3> QED BY <3>1, <3>2, <3>3, <3>4, <1>3
  <2>5. LastAbove(r, p) = a
    BY <2>2, <2>3, <2>4, LastAboveIsUnique
  <2> QED BY <1>6, <2>1, <2>5 DEF a
<1> QED BY <1>5, <1>6

\* A pushed entry is the last of its priority, the others stay as they were.
LEMMA JobsOfPushed ==
    ASSUME NEW q \in Seq(Entries), Ordered(q), NEW r \in Seq(Entries), Ordered(r),
           NEW e \in Entries, NEW b \in Nat, PutAt(q, r, e, b), NEW p \in Int
    PROVE  JobsOf(r, p) = IF p = e.priority THEN Append(JobsOf(q, p), e) ELSE JobsOf(q, p)
<1> DEFINE a == LastAbove(q, p)
           c == LastAbove(q, p - 1)
           ar == LastAbove(r, p)
           cr == LastAbove(r, p - 1)
<1>1. a \in 0..Len(q) /\ c \in 0..Len(q) /\ a <= c
  BY LastAboveFalls
<1>2. IF e.priority > p THEN ar = a + 1 /\ a >= b ELSE ar = a /\ a <= b
  BY LastAbovePushed
<1>3. IF e.priority > p - 1 THEN cr = c + 1 /\ c >= b ELSE cr = c /\ c <= b
  <2>1. p - 1 \in Int
    OBVIOUS
  <2> QED BY <2>1, LastAbovePushed
<1>4. JobsOf(q, p) = SubSeq(q, a + 1, c) /\ JobsOf(r, p) = SubSeq(r, ar + 1, cr)
  BY DEF JobsOf
<1>5. Len(q) \in Nat /\ Len(r) = Len(q) + 1 /\ b \in 0..Len(q) /\ e.priority \in Int /\ r[b + 1] = e
  BY PriorityNumbers DEF PutAt
<1>6. /\ \A m \in 1..b : r[m] = q[m]
      /\ \A m \in (b + 1)..Len(q) : r[m + 1] = q[m]
  BY DEF PutAt
<1>7. \A m \in (b + 1)..Len(q) : q[m].priority < e.priority /\ q[m].priority \in Int
  <2>1. \A m \in 1..Len(q) : q[m] \in Entries
    OBVIOUS
  <2>2. \A m \in (b + 1)..Len(q) : q[m] \in Entries
    BY <2>1, <1>5
  <2> QED BY <2>2, PriorityNumbers DEF PutAt
<1>8. \A m \in (a + 1)..c : q[m].priority <= p /\ q[m].priority > p - 1
  <2>1. /\ \A m \in 1..c : q[m].priority > p - 1
        /\ \A m \in (a + 1)..Len(q) : q[m].priority <= p
    <3>1. p - 1 \in Int
      OBVIOUS
    <3> QED BY <3>1, LastAboveSplits
  <2> HIDE DEF a, c
  <2> QED BY <2>1, <1>1, <1>5
<1> HIDE DEF a, c, ar, cr
<1>9. CASE p > e.priority
  <2>1. ar = a + 0 /\ cr = c + 0 /\ c <= b
    BY <1>1, <1>2, <1>3, <1>5, <1>9
  <2>2. \A m \in (a + 1)..c : r[m + 0] = q[m]
    BY <1>1, <1>5, <1>6, <2>1
  <2>3. SubSeq(r, (a + 0) + 1, c + 0) = SubSeq(q, a + 1, c)
    BY <1>1, <1>5, <2>1, <2>2, StretchMoves
  <2>4. SubSeq(r, ar + 1, cr) = SubSeq(q, a + 1, c)
    BY <2>1, <2>3
  <2>5. p # e.priority
    BY <1>5, <1>9
  <2> QED BY <1>4, <2>4, <2>5
<1>10. CASE p < e.priority
  <2>1. ar = a + 1 /\ cr = c + 1 /\ a >= b
    BY <1>1, <1>2, <1>3, <1>5, <1>10
  <2>2. \A m \in (a + 1)..c : r[m + 1] = q[m]
    BY <1>1, <1>5, <1>6, <2>1
  <2>3. SubSeq(r, (a + 1) + 1, c + 1) = SubSeq(q, a + 1, c)
    BY <1>1, <1>5, <2>1, <2>2, StretchMoves
  <2>4. SubSeq(r, ar + 1, cr) = SubSeq(q, a + 1, c)
    BY <2>1, <2>3
  <2>5. p # e.priority
    BY <1>5, <1>10
  <2> QED BY <1>4, <2>4, <2>5
<1>11. CASE p = e.priority
  <2>1. ar = a /\ a <= b /\ cr = c + 1 /\ c >= b
    BY <1>1, <1>2, <1>3, <1>5, <1>11
  <2>2. c = b
    <3> SUFFICES ASSUME c > b PROVE FALSE
      BY <1>1, <1>5, <2>1
    <3>1. c \in (b + 1)..Len(q) /\ c \in (a + 1)..c
      BY <1>1, <1>5, <2>1
    <3>2. q[c].priority < p /\ q[c].priority > p - 1 /\ q[c].priority \in Int
      BY <3>1, <1>7, <1>8, <1>11
    <3> QED BY <3>2
  <2> DEFINE s == SubSeq(q, a + 1, b)
             u == SubSeq(r, a + 1, b + 1)
  <2>3. s \in Seq(Entries) /\ Len(s) = b - a /\ \A m \in 1..(b - a) : s[m] = q[a + m]
    <3>1. \A i \in (a + 1)..b : q[i] \in Entries
      BY <1>1, <1>5
    <3>2. /\ s \in Seq(Entries) /\ Len(s) = IF a + 1 <= b THEN b - (a + 1) + 1 ELSE 0
          /\ \A m \in 1..(b - (a + 1) + 1) : s[m] = q[(a + 1) + m - 1]
      BY <1>1, <1>5, <3>1, SubSeqProperties
    <3>3. b - (a + 1) + 1 = b - a /\ \A m \in Int : (a + 1) + m - 1 = a + m
      BY <1>1, <1>5
    <3> HIDE DEF s
    <3> QED BY <1>1, <1>5, <2>1, <3>2, <3>3
  <2>4. u \in Seq(Entries) /\ Len(u) = (b - a) + 1 /\ \A m \in 1..((b - a) + 1) : u[m] = r[a + m]
    <3>1. \A i \in (a + 1)..(b + 1) : r[i] \in Entries
      BY <1>1, <1>5
    <3>2. /\ u \in Seq(Entries) /\ Len(u) = IF a + 1 <= b + 1 THEN (b + 1) - (a + 1) + 1 ELSE 0
          /\ \A m \in 1..((b + 1) - (a + 1) + 1) : u[m] = r[(a + 1) + m - 1]
      BY <1>1, <1>5, <3>1, SubSeqProperties
    <3>3. (b + 1) - (a + 1) + 1 = (b - a) + 1 /\ \A m \in Int : (a + 1) + m - 1 = a + m
      BY <1>1, <1>5
    <3> HIDE DEF u
    <3> QED BY <1>1, <1>5, <2>1, <3>2, <3>3
  <2> HIDE DEF s, u
  <2>5. /\ Append(s, e) \in Seq(Entries) /\ Len(Append(s, e)) = (b - a) + 1
        /\ \A m \in 1..(b - a) : Append(s, e)[m] = s[m]
        /\ Append(s, e)[(b - a) + 1] = e
    BY <2>3, AppendProperties
  <2>6. \A m \in 1..((b - a) + 1) : u[m] = Append(s, e)[m]
    <3> TAKE m \in 1..((b - a) + 1)
    <3>1. CASE m \in 1..(b - a)
      <4>1. a + m \in 1..b
        BY <3>1, <1>1, <1>5
      <4> QED BY <3>1, <4>1, <1>6, <2>3, <2>4, <2>5
    <3>2. CASE m = (b - a) + 1
      <4>1. a + m = b + 1
        BY <3>2, <1>1, <1>5
      <4> QED BY <3>2, <4>1, <1>5, <2>4, <2>5
    <3>3. m \in 1..(b - a) \/ m = (b - a) + 1
      BY <1>1, <1>5, <2>1
    <3> QED BY <3>1, <3>2, <3>3
  <2>7. u = Append(s, e)
    BY <2>4, <2>5, <2>6, SeqEqual
  <2> QED BY <1>4, <1>11, <2>1, <2>2, <2>7 DEF s, u
<1> QED BY <1>5, <1>9, <1>10, <1>11
\* The entry that pop() takes is the first of its priority, and nothing of a higher
\* priority is in the list; the others stay as they were.
LEMMA JobsOfPopped ==
    ASSUME NEW q \in Seq(Entries), Ordered(q), q # <<>>, NEW r \in Seq(Entries), Ordered(r),
           Len(r) = Len(q) - 1, \A m \in 1..Len(r) : r[m] = q[m + 1], NEW p \in Int
    PROVE  /\ p > q[1].priority => JobsOf(q, p) = <<>>
           /\ p = q[1].priority => /\ JobsOf(q, p) # <<>> /\ Head(JobsOf(q, p)) = q[1]
                                   /\ JobsOf(r, p) = Tail(JobsOf(q, p))
           /\ p # q[1].priority => JobsOf(r, p) = JobsOf(q, p)
<1> DEFINE h == q[1].priority
           a == LastAbove(q, p)
           c == LastAbove(q, p - 1)
           Cut(n) == IF n = 0 THEN 0 ELSE n - 1
<1>1. /\ Len(q) \in Nat \ {0} /\ Len(r) \in Nat /\ h \in Int
      /\ \A m \in 1..Len(q) : q[m].priority \in Int /\ q[m].priority <= h
  <2>1. Len(q) \in Nat \ {0} /\ Len(r) \in Nat /\ DOMAIN q = 1..Len(q) /\ 1 \in 1..Len(q)
    OBVIOUS
  <2>2. \A m \in 1..Len(q) : q[m] \in Entries
    BY <2>1
  <2>3. \A m \in 1..Len(q) : q[m].priority \in Int
    BY <2>2, PriorityNumbers
  <2>4. \A m \in 1..Len(q) : q[m].priority <= h
    <3> TAKE m \in 1..Len(q)
    <3>1. m = 1 \/ 1 < m
      BY <2>1
    <3> QED BY <2>1, <2>3, <3>1 DEF Ordered
  <2> QED BY <2>1, <2>3, <2>4
<1> HIDE DEF h
<1>2. \A x \in Int : LastAbove(q, x) \in 0..Len(q) /\ LastAbove(r, x) = Cut(LastAbove(q, x))
  <2> TAKE x \in Int
  <2> DEFINE b == LastAbove(q, x)
  <2>1. /\ b \in 0..Len(q)
        /\ \A m \in 1..b : q[m].priority > x
        /\ \A m \in (b + 1)..Len(q) : q[m].priority <= x
    BY LastAboveSplits
  <2> HIDE DEF b
  <2>2. Cut(b) \in 0..Len(r)
    BY <1>1, <2>1
  <2>3. \A m \in 1..Cut(b) : r[m].priority > x
    <3> TAKE m \in 1..Cut(b)
    <3>1. m + 1 \in 1..b /\ m \in 1..Len(r)
      BY <1>1, <2>1
    <3> QED BY <2>1, <3>1
  <2>4. \A m \in (Cut(b) + 1)..Len(r) : r[m].priority <= x
    <3> TAKE m \in (Cut(b) + 1)..Len(r)
    <3>1. m + 1 \in (b + 1)..Len(q) /\ m \in 1..Len(r)
      BY <1>1, <2>1
    <3> QED BY <2>1, <3>1
  <2>5. LastAbove(r, x) = Cut(b)
    BY <2>2, <2>3, <2>4, LastAboveIsUnique
  <2> QED BY <2>1, <2>5 DEF b
<1>3. a \in 0..Len(q) /\ c \in 0..Len(q) /\ a <= c
  BY LastAboveFalls
<1>4. /\ \A m \in 1..a : q[m].priority > p
      /\ \A m \in (a + 1)..Len(q) : q[m].priority <= p
      /\ \A m \in 1..c : q[m].priority > p - 1
      /\ \A m \in (c + 1)..Len(q) : q[m].priority <= p - 1
  <2>1. p - 1 \in Int
    OBVIOUS
  <2> QED BY <2>1, LastAboveSplits
<1>5. JobsOf(q, p) = SubSeq(q, a + 1, c) /\ JobsOf(r, p) = SubSeq(r, Cut(a) + 1, Cut(c))
  <2>1. p - 1 \in Int
    OBVIOUS
  <2> QED BY <1>2, <2>1 DEF JobsOf
<1> HIDE DEF a, c
<1>6. 1 \in 1..Len(q) /\ q[1].priority = h
  BY <1>1 DEF h
<1>7. CASE p > h
  <2>1. a = 0 /\ c = 0
    <3>1. a # 0 => 1 \in 1..a
      BY <1>1, <1>3
    <3>2. c # 0 => 1 \in 1..c
      BY <1>1, <1>3
    <3>3. ~(h > p) /\ ~(h > p - 1)
      BY <1>1, <1>7
    <3> QED BY <1>4, <1>6, <3>1, <3>2, <3>3
  <2>2. SubSeq(q, 1, 0) = <<>> /\ SubSeq(r, 1, 0) = <<>>
    BY SubSeqEmpty
  <2>3. JobsOf(q, p) = <<>> /\ JobsOf(r, p) = <<>>
    BY <1>5, <2>1, <2>2
  <2> QED BY <1>1, <1>7, <2>3 DEF h
<1>8. CASE p < h
  <2>1. a > 0 /\ c > 0
    <3>1. a = 0 => 1 \in (a + 1)..Len(q)
      BY <1>1
    <3>2. ~(h <= p)
      BY <1>1, <1>8
    <3> QED BY <1>3, <1>4, <1>6, <3>1, <3>2, <1>1
  <2>2. Cut(a) = a + (-1) /\ Cut(c) = c + (-1) /\ 0 <= a + (-1) /\ c + (-1) <= Len(r) /\ -1 \in Int
    BY <1>1, <1>3, <2>1
  <2>3. \A m \in (a + 1)..c : r[m + (-1)] = q[m]
    <3> TAKE m \in (a + 1)..c
    <3>1. m + (-1) \in 1..Len(r) /\ (m + (-1)) + 1 = m
      BY <1>1, <1>3, <2>1
    <3> QED BY <3>1
  <2>4. SubSeq(r, (a + (-1)) + 1, c + (-1)) = SubSeq(q, a + 1, c)
    BY <1>1, <1>3, <2>2, <2>3, StretchMoves
  <2>5. JobsOf(r, p) = JobsOf(q, p)
    BY <1>5, <2>2, <2>4
  <2> QED BY <1>1, <1>8, <2>5 DEF h
<1>9. CASE p = h
  <2>1. a = 0
    <3>1. a # 0 => 1 \in 1..a
      BY <1>1, <1>3
    <3> QED BY <1>1, <1>4, <1>6, <1>9, <3>1
  <2>2. c > 0
    <3>1. c = 0 => 1 \in (c + 1)..Len(q)
      BY <1>1
    <3>2. ~(h <= p - 1)
      BY <1>1, <1>9
    <3> QED BY <1>3, <1>4, <1>6, <3>1, <3>2, <1>1
  <2> DEFINE s == SubSeq(q, 1, c)
             u == SubSeq(r, 1, c - 1)
  <2>3. JobsOf(q, p) = s /\ JobsOf(r, p) = u
    <3>1. Cut(a) + 1 = 1 /\ a + 1 = 1 /\ Cut(c) = c - 1
      BY <1>3, <2>1, <2>2
    <3> HIDE DEF Cut
    <3> QED BY <1>5, <3>1
  <2>4. s \in Seq(Entries) /\ Len(s) = c /\ \A m \in 1..c : s[m] = q[m]
    <3>1. \A i \in 1..c : q[i] \in Entries
      BY <1>1, <1>3
    <3>2. /\ s \in Seq(Entries) /\ Len(s) = IF 1 <= c THEN c - 1 + 1 ELSE 0
          /\ \A m \in 1..(c - 1 + 1) : s[m] = q[1 + m - 1]
      BY <1>1, <1>3, <3>1, SubSeqProperties
    <3>3. c - 1 + 1 = c /\ \A m \in Int : 1 + m - 1 = m
      BY <1>1, <1>3
    <3> HIDE DEF s
    <3> QED BY <1>1, <1>3, <2>2, <3>2, <3>3
  <2>5. u \in Seq(Entries) /\ Len(u) = c - 1 /\ \A m \in 1..(c - 1) : u[m] = r[m]
    <3>1. \A i \in 1..(c - 1) : r[i] \in Entries
      BY <1>1, <1>3
    <3>2. /\ u \in Seq(Entries) /\ Len(u) = IF 1 <= c - 1 THEN (c - 1) - 1 + 1 ELSE 0
          /\ \A m \in 1..((c - 1) - 1 + 1) : u[m] = r[1 + m - 1]
      BY <1>1, <1>3, <3>1, SubSeqProperties
    <3>3. (c - 1) - 1 + 1 = c - 1 /\ \A m \in Int : 1 + m - 1 = m
      BY <1>1, <1>3
    <3> HIDE DEF u
    <3> QED BY <1>1, <1>3, <2>2, <3>2, <3>3
  <2> HIDE DEF s, u
  <2>6. s # <<>> /\ 1 \in 1..c
    BY <2>2, <2>4, <1>3
  <2>7. /\ Head(s) = s[1] /\ Tail(s) \in Seq(Entries) /\ Len(Tail(s)) = c - 1
        /\ \A m \in 1..(c - 1) : Tail(s)[m] = s[m + 1]
    BY <2>4, <2>6, HeadTailProperties
  <2>8. \A m \in 1..(c - 1) : u[m] = Tail(s)[m]
    <3> TAKE m \in 1..(c - 1)
    <3>1. m + 1 \in 1..c /\ m \in 1..Len(r)
      BY <1>1, <1>3
    <3> QED BY <2>4, <2>5, <2>7, <3>1
  <2>9. u = Tail(s)
    BY <2>5, <2>7, <2>8, SeqEqual
  <2> QED BY <1>1, <1>9, <2>3, <2>4, <2>6, <2>7, <2>9 DEF h
<1> QED BY <1>1, <1>7, <1>8, <1>9
-----------------------------------------------------------------------------
(* The workers implement PriorityServer.                                    *)

LEMMA InitRefines == Init => Server!Init
<1> SUFFICES ASSUME Init PROVE Server!Init
  OBVIOUS
<1>1. \A w \in Workers : Running(w) = <<>> /\ queue[w] = <<>>
  BY DEF Init, Running
<1>2. \A p \in Priorities : JobsOf(<<>>, p) = <<>>
  <2> TAKE p \in Priorities
  <2>1. <<>> \in Seq(Entries) /\ Ordered(<<>>) /\ p \in Int /\ Len(<<>>) = 0
    BY PriorityNumbers DEF Ordered
  <2>2. LastAbove(<<>>, p) \in 0..0 /\ LastAbove(<<>>, p - 1) \in 0..0
    BY <2>1, LastAboveFalls
  <2>3. LastAbove(<<>>, p) = 0 /\ LastAbove(<<>>, p - 1) = 0
    BY <2>2
  <2> QED BY <2>3, SubSeqEmpty DEF JobsOf
<1>3. Scheduled = {}
  <2> SUFFICES ASSUME NEW e \in Scheduled PROVE FALSE
    OBVIOUS
  <2>1. e.job \in Jobs /\ owner[e.job] # None
    BY EntryFields DEF Scheduled, UserJobs
  <2> QED BY <2>1 DEF Init
<1> QED BY <1>1, <1>2, <1>3 DEF Server!Init

\* Scheduled, and what of it is done, as they are mapped.
DoneJobs == {e \in Scheduled : \A w \in Workers : e \notin InHand(w)}

LEMMA PushRefines ==
    ASSUME TypeOK, JobsInv, NEW w \in Workers, NEW e \in UserJobs \cup Commands,
           pushAndRelease(w, e), UNCHANGED <<pc, cur>>,
           e \notin Scheduled, Scheduled' = Scheduled \cup ({e} \cap UserJobs)
    PROVE  Server!Submit(w, e, e.priority)
<1>1. e \in Entries /\ e.priority \in Priorities
  BY EntryShape
<1>2. PICK b \in 0..Len(queue[w]) :
           /\ queue' \in [Workers -> Seq(Entries)]
           /\ \A v \in Workers \ {w} : queue'[v] = queue[v]
           /\ Len(queue'[w]) = Len(queue[w]) + 1
           /\ \A m \in 1..b : queue'[w][m] = queue[w][m] /\ queue[w][m].priority >= e.priority
           /\ queue'[w][b + 1] = e
           /\ \A m \in (b + 1)..Len(queue[w]) :
                queue'[w][m + 1] = queue[w][m] /\ queue[w][m].priority < e.priority
  BY PushEffect
<1>3. PutAt(queue[w], queue'[w], e, b)
  BY <1>2 DEF PutAt
<1>4. queue[w] \in Seq(Entries) /\ Ordered(queue[w]) /\ queue'[w] \in Seq(Entries) /\ Ordered(queue'[w])
  <2>1. Ordered(queue[w])'
    BY PushKeepsOrder
  <2> QED BY <1>2, <2>1 DEF TypeOK, JobsInv, Ordered
<1>5. \A p \in Priorities : JobsOf(queue'[w], p) =
          IF p = e.priority THEN Append(JobsOf(queue[w], p), e) ELSE JobsOf(queue[w], p)
  <2> DEFINE q == queue[w]
             r == queue'[w]
  <2>1. q \in Seq(Entries) /\ Ordered(q) /\ r \in Seq(Entries) /\ Ordered(r) /\ PutAt(q, r, e, b) /\ b \in Nat
    <3>1. Len(queue[w]) \in Nat
      BY <1>4
    <3> QED BY <1>2, <1>3, <1>4, <3>1
  <2> HIDE DEF q, r
  <2>2. \A p \in Priorities : JobsOf(r, p) = IF p = e.priority THEN Append(JobsOf(q, p), e) ELSE JobsOf(q, p)
    <3> TAKE p \in Priorities
    <3>1. p \in Int
      BY PriorityNumbers
    <3> QED BY <1>1, <2>1, <3>1, JobsOfPushed
  <2> QED BY <2>2 DEF q, r
<1> DEFINE before == [v \in Workers |-> [p \in Priorities |-> JobsOf(queue[v], p)]]
           after == [v \in Workers |-> [p \in Priorities |-> JobsOf(queue'[v], p)]]
<1>6. after = [before EXCEPT ![w][e.priority] = Append(@, e)]
  <2>1. \A v \in Workers \ {w} : after[v] = before[v]
    BY <1>2
  <2>2. after[w] = [before[w] EXCEPT ![e.priority] = Append(@, e)]
    BY <1>1, <1>5
  <2>3. before = [v \in Workers |-> before[v]] /\ after = [v \in Workers |-> after[v]]
    OBVIOUS
  <2> HIDE DEF before, after
  <2> QED BY <2>1, <2>2, <2>3
<1>7. InHand(w)' = InHand(w) \cup {e} /\ \A v \in Workers \ {w} : InHand(v)' = InHand(v)
  BY PushKeepsOrder
<1>8. DoneJobs' = DoneJobs
  BY <1>7 DEF DoneJobs
<1>9. \A v \in Workers : Running(v)' = Running(v)
  BY DEF Running
<1> HIDE DEF before, after
<1> QED BY <1>6, <1>8, <1>9 DEF Server!Submit, before, after, DoneJobs
LEMMA PopRefines ==
    ASSUME TypeOK, JobsInv, NEW w \in Workers, pop(w)
    PROVE  \E p \in Priorities : Server!Begin(w, p)
<1> DEFINE q == queue[w]
           r == queue'[w]
<1>1. /\ \A v \in Workers \ {w} : queue'[v] = queue[v] /\ cur'[v] = cur[v] /\ pc'[v] = pc[v]
      /\ cur'[w] = q[1] /\ pc'[w] = "run" /\ pc[w] = "loop" /\ owner' = owner
  BY PopEffect DEF pop, jobVars
<1>2. /\ q \in Seq(Entries) /\ q # <<>> /\ r \in Seq(Entries) /\ Len(r) = Len(q) - 1
      /\ \A m \in 1..Len(r) : r[m] = q[m + 1]
  <2>1. Len(q) # 0 /\ q \in Seq(Entries) /\ r \in Seq(Entries) /\ Len(r) = Len(q) - 1
    BY PopEffect DEF TypeOK
  <2>2. DOMAIN r = 1..Len(r) /\ \A m \in DOMAIN r : r[m] = q[m + 1]
    BY <2>1, PopEffect
  <2> HIDE DEF q, r
  <2> QED BY <2>1, <2>2
<1>3. Ordered(q) /\ Ordered(r)
  <2>1. \A v \in Workers : Ordered(queue[v])'
    BY PopKeepsJobs DEF JobsInv
  <2> QED BY <2>1 DEF JobsInv, Ordered
<1>4. q[1] \in InHand(w) /\ q[1].priority \in Priorities
  <2>1. 1 \in DOMAIN q
    BY PopEffect
  <2>2. q[1] \in InHand(w)
    BY <2>1 DEF InHand
  <2> QED BY <2>2, EntryShape DEF JobsInv, Owned
<1> DEFINE h == q[1].priority
<1>5. \A p \in Priorities : /\ p > h => JobsOf(q, p) = <<>>
                            /\ p = h => /\ JobsOf(q, p) # <<>> /\ Head(JobsOf(q, p)) = q[1]
                                        /\ JobsOf(r, p) = Tail(JobsOf(q, p))
                            /\ p # h => JobsOf(r, p) = JobsOf(q, p)
  <2> TAKE p \in Priorities
  <2>1. p \in Int
    BY PriorityNumbers
  <2> HIDE DEF q, r
  <2> QED BY <1>2, <1>3, <2>1, JobsOfPopped
<1> DEFINE before == [v \in Workers |-> [p \in Priorities |-> JobsOf(queue[v], p)]]
           after == [v \in Workers |-> [p \in Priorities |-> JobsOf(queue'[v], p)]]
<1>6. after = [before EXCEPT ![w][h] = Tail(@)]
  <2>1. \A v \in Workers \ {w} : after[v] = before[v]
    BY <1>1
  <2>2. after[w] = [before[w] EXCEPT ![h] = Tail(@)]
    BY <1>4, <1>5
  <2>3. before = [v \in Workers |-> before[v]] /\ after = [v \in Workers |-> after[v]]
    OBVIOUS
  <2> HIDE DEF before, after, h
  <2> QED BY <2>1, <2>2, <2>3
<1>7. before[w][h] # <<>> /\ Head(before[w][h]) = q[1] /\ \A p \in Priorities : p > h => before[w][p] = <<>>
  BY <1>4, <1>5
<1>8. DoneJobs' = DoneJobs /\ Scheduled' = Scheduled
  <2>1. \A v \in Workers : InHand(v)' = InHand(v)
    BY PopKeepsJobs
  <2> QED BY <1>1, <2>1 DEF DoneJobs, Scheduled
<1>9. /\ Running(w) = <<>> /\ Running(w)' = <<q[1]>>
      /\ \A v \in Workers \ {w} : Running(v)' = Running(v)
  BY <1>1 DEF Running
<1>10. [v \in Workers |-> Running(v)'] = [[v \in Workers |-> Running(v)] EXCEPT ![w] = <<Head(before[w][h])>>]
  <2> HIDE DEF before
  <2> QED BY <1>7, <1>9
<1> HIDE DEF before, after
<1>11. Server!Begin(w, h)
  BY <1>6, <1>7, <1>8, <1>9, <1>10 DEF Server!Begin, before, after, DoneJobs
<1> QED BY <1>4, <1>11

LEMMA ExecuteRefines ==
    ASSUME TypeOK, JobsInv, NEW w \in Workers, Execute(w)
    PROVE  Server!Finish(w)
<1>1. /\ pc[w] = "run" /\ pc' = [pc EXCEPT ![w] = "loop"]
      /\ queue' = queue /\ owner' = owner /\ \A v \in Workers \ {w} : cur'[v] = cur[v]
  BY DEF Execute, TypeOK
<1>2. pc'[w] = "loop" /\ \A v \in Workers \ {w} : pc'[v] = pc[v]
  BY <1>1 DEF TypeOK
<1>3. /\ Running(w) = <<cur[w]>> /\ Running(w)' = <<>>
      /\ \A v \in Workers \ {w} : Running(v)' = Running(v)
  BY <1>1, <1>2 DEF Running
<1>4. /\ InHand(w)' \cup {cur[w]} = InHand(w) /\ cur[w] \in InHand(w)
      /\ \A v \in Workers \ {w} : InHand(v)' = InHand(v)
  BY <1>1, <1>2 DEF InHand
<1>5. Scheduled' = Scheduled
  BY <1>1 DEF Scheduled
<1>6. cur[w] \in UserJobs => cur[w] \in Scheduled /\ \A v \in Workers : cur[w] \notin InHand(v)'
  <2> HAVE cur[w] \in UserJobs
  <2>1. cur[w].kind = "job"
    BY EntryFields DEF UserJobs
  <2>2. owner[cur[w].job] = w /\ w # None
    BY <1>4, <2>1, DWAssumption DEF JobsInv, Owned
  <2>3. cur[w] \notin InHand(w)'
    <3> SUFFICES ASSUME cur[w] \in InHand(w)' PROVE FALSE
      OBVIOUS
    <3>1. PICK n \in DOMAIN queue[w] : cur[w] = queue[w][n]
      BY <1>1, <1>2 DEF InHand
    <3> QED BY <1>1, <2>1, <3>1 DEF JobsInv, EachOnce
  <2>4. \A v \in Workers \ {w} : cur[w] \notin InHand(v)'
    BY <1>4, <2>1, <2>2 DEF JobsInv, Owned
  <2> QED BY <2>2, <2>3, <2>4 DEF Scheduled
<1>7. DoneJobs' = DoneJobs \cup ({cur[w]} \cap UserJobs)
  <2>1. Scheduled \subseteq UserJobs
    BY DEF Scheduled
  <2>2. \A e \in Scheduled : (\A v \in Workers : e \notin InHand(v)') <=>
                             (\A v \in Workers : e \notin InHand(v)) \/ e = cur[w]
    <3> TAKE e \in Scheduled
    <3>1. CASE e = cur[w]
      BY <1>6, <2>1, <3>1
    <3>2. CASE e # cur[w]
      BY <1>4, <3>2
    <3> QED BY <3>1, <3>2
  <2>3. DoneJobs' = {e \in Scheduled : \A v \in Workers : e \notin InHand(v)'}
    BY <1>5 DEF DoneJobs
  <2> QED BY <1>6, <2>1, <2>2, <2>3 DEF DoneJobs
<1>8. [v \in Workers |-> Running(v)'] = [[v \in Workers |-> Running(v)] EXCEPT ![w] = <<>>]
  BY <1>3
<1>9. Running(w) # <<>> /\ Running(w)[1] = cur[w]
  BY <1>3
<1> QED BY <1>1, <1>5, <1>7, <1>8, <1>9 DEF Server!Finish, DoneJobs

\* Nobody schedules, takes or executes an entry.
LEMMA NothingServed ==
    ASSUME UNCHANGED <<queue, cur, owner>>, \A w \in Workers : pc'[w] = "run" <=> pc[w] = "run"
    PROVE  UNCHANGED Server!vars
<1>1. \A w \in Workers : InHand(w)' = InHand(w) /\ Running(w)' = Running(w)
  BY DEF InHand, Running
<1>2. Scheduled' = Scheduled
  BY DEF Scheduled
<1> QED BY <1>1, <1>2 DEF Server!vars

LEMMA StepRefines ==
    ASSUME TypeOK, JobsInv, ThreadOfWorker, CallOfClient, [Next]_vars
    PROVE  [Server!Next]_(Server!vars)
<1>1. ASSUME NEW c \in Clients, NEW w \in Workers, NEW j \in Jobs, Schedule(c, w, j) PROVE Server!Next
  <2> DEFINE e == JobEntry(j)
  <2>1. /\ pushAndRelease(w, e) /\ UNCHANGED <<pc, cur>> /\ jobState[j] = "new"
        /\ owner' = [owner EXCEPT ![j] = w]
    BY <1>1 DEF Schedule, JobEntry
  <2>2. e \in UserJobs /\ e.job = j
    BY PushedEntries, JobAndDeletionDiffer
  <2>3. owner[j] = None /\ w # None
    BY <2>1, DWAssumption DEF JobsInv, JobLife
  <2> HIDE DEF e
  <2>4. e \notin Scheduled
    BY <2>2, <2>3 DEF Scheduled
  <2>5. \A f \in UserJobs : f.job \in Jobs /\ (f.job = j => f = e)
    <3> TAKE f \in UserJobs
    <3>1. PICK k \in Jobs : f = JobEntry(k)
      BY DEF UserJobs, JobEntry
    <3>2. f.job = k
      BY <3>1, JobAndDeletionDiffer
    <3> QED BY <3>1, <3>2 DEF e
  <2>6. Scheduled' = Scheduled \cup ({e} \cap UserJobs)
    BY <2>1, <2>2, <2>3, <2>5 DEF Scheduled, TypeOK
  <2>7. Server!Submit(w, e, e.priority)
    BY <2>1, <2>2, <2>4, <2>6, PushRefines
  <2> QED BY <2>2, <2>7, EntryShape DEF Server!Next
<1>2. ASSUME NEW w \in Workers, NEW e \in Commands, pushAndRelease(w, e), UNCHANGED <<pc, cur, owner>>
      PROVE  Server!Next
  <2>1. e \notin UserJobs
    BY EntryFields DEF UserJobs, Commands
  <2>2. e \notin Scheduled /\ Scheduled' = Scheduled \cup ({e} \cap UserJobs)
    BY <1>2, <2>1 DEF Scheduled
  <2>3. Server!Submit(w, e, e.priority)
    BY <1>2, <2>2, PushRefines
  <2> QED BY <2>3, EntryShape DEF Server!Next
<1>3. ASSUME NEW c \in Clients, NEW j \in Jobs, DeleteJobDeferred(c, j) PROVE Server!Next
  <2>1. PICK w \in Workers : w = owner[j]
    BY <1>3 DEF DeleteJobDeferred, JobsInv, JobLife, TypeOK
  <2>2. DeleteEntry(j) \in Commands /\ pushAndRelease(w, DeleteEntry(j)) /\ UNCHANGED <<pc, cur, owner>>
    BY <1>3, <2>1, PushedEntries DEF DeleteJobDeferred, DeleteEntry, JobsInv, JobLife
  <2> QED BY <1>2, <2>2
<1>4. ASSUME NEW c \in Clients, NEW p \in StopPriorities, PushStop(c, p) PROVE Server!Next
  <2>1. PICK w \in Workers : w = at[c]
    BY <1>4 DEF PushStop, CallOfClient, TypeOK
  <2>2. Entry("stop", None, p) \in Commands /\ pushAndRelease(w, Entry("stop", None, p))
        /\ UNCHANGED <<pc, cur, owner>>
    BY <1>4, <2>1, PushedEntries DEF PushStop, jobVars
  <2> QED BY <1>2, <2>2
<1>5. ASSUME NEW w \in Workers, pop(w) PROVE Server!Next
  BY <1>5, PopRefines DEF Server!Next
<1>6. ASSUME NEW w \in Workers, Execute(w) PROVE Server!Next
  BY <1>6, ExecuteRefines DEF Server!Next
<1>7. ASSUME NEW c \in Clients, NEW j \in Jobs, DeleteJob(c, j) PROVE UNCHANGED Server!vars
  BY <1>7, NothingServed DEF DeleteJob, workerVars
<1>8. ASSUME \/ \E w \in Workers : Moves(w)
             \/ \E c \in Clients : Manages(c)
             \/ UNCHANGED vars
      PROVE  UNCHANGED Server!vars
  <2>1. UNCHANGED <<queue, cur, jobVars>> /\ \A w \in Workers : pc'[w] = "run" <=> pc[w] = "run"
    BY <1>8, MoversLeaveJobs
  <2> QED BY <2>1, NothingServed DEF jobVars
<1> QED BY StepCases, <1>1, <1>3, <1>4, <1>5, <1>6, <1>7, <1>8

\* The sorted list of pushAndRelease() and pop() serves as PriorityServer says:
\* the highest priority first, first come first served within one priority, one
\* entry at a time, each job once; with no condition on how clients use it.
THEOREM WorkersServeByPriority == Spec => ServesByPriority
<1>1. IInv /\ [Next]_vars => [Server!Next]_(Server!vars)
  BY StepRefines DEF IInv
<1> QED BY <1>1, InitRefines, Invariance, PTL DEF Spec, ServesByPriority, Server!Spec
=============================================================================
