--------------------------- MODULE SharedHandle ---------------------------
(* SharedPtr, SharedVal and TSharedMonoVal: handles that share contents with a reference counter. *)
(* A handle is used by one thread at a time and may be handed over; handles of different threads  *)
(* share contents. The counter is atomic; an assignment is a sequence of steps: it gives up the   *)
(* old contents, destroys them when it was the last, and only then takes the new ones.            *)
EXTENDS Naturals, FiniteSets

CONSTANTS
    Threads, Handles, Contents, nullptr,
    MaxSurplus      \* bound: contents whose counter may run too high

SharedHandleAssumption ==
    IsFiniteSet(Handles) /\ IsFiniteSet(Threads) /\ nullptr \notin Contents

VARIABLES
    members,    \* what a handle points to
    refCount,
    alive,      \* the contents that are constructed
    owner,      \* the thread that may use a handle
    task,       \* what a thread is doing
    surplus     \* handles lost by the assignment of handles with the same contents

shVars == <<members, refCount, alive, owner, task, surplus>>

NoTask == [op |-> "none"]

Init ==
    /\ members = [h \in Handles |-> nullptr]
    /\ refCount = [c \in Contents |-> 0]
    /\ alive = {}
    /\ owner \in [Handles -> Threads]
    /\ task = [t \in Threads |-> NoTask]
    /\ surplus = [c \in Contents |-> 0]

Mine(t, h) == owner[h] = t /\ task[t] = NoTask

\* mutant: the value before the decrement is taken for the one after it
GiveUp_reread(t, h, op, g) ==
    LET c == members[h]
    IN  /\ refCount' = IF c = nullptr THEN refCount ELSE [refCount EXCEPT ![c] = @ - 1]
        /\ task' = [task EXCEPT ![t] =
             [op |-> op, to |-> h, from |-> g, left |-> c,
              destroys |-> c # nullptr /\ refCount[c] = 0]]

\* refCount.fetch_sub(1) == 1 decides whether the contents are destroyed in the next step.
GiveUp(t, h, op, g) ==
    LET c == members[h]
    IN  /\ refCount' = IF c = nullptr THEN refCount ELSE [refCount EXCEPT ![c] = @ - 1]
        /\ task' = [task EXCEPT ![t] =
             [op |-> op, to |-> h, from |-> g, left |-> c,
              destroys |-> c # nullptr /\ refCount[c] = 1]]

\* Copy assignment, also the copy constructor for a handle that is null; the same contents: return.
CopyAssign(t, h, g) ==
    /\ Mine(t, h) /\ Mine(t, g) /\ h # g
    /\ members[h] # members[g]
    /\ GiveUp(t, h, "copy", g)
    /\ UNCHANGED <<members, alive, owner, surplus>>

\* Move assignment and move constructor. With the same contents nothing is given up, while the
\* other handle is nulled in the last step: the counter keeps one handle too many.
MoveAssign(t, h, g) ==
    /\ Mine(t, h) /\ Mine(t, g) /\ h # g
    /\ IF members[h] # members[g]
       THEN GiveUp(t, h, "move", g)
       ELSE /\ \A c \in Contents : surplus[c] < MaxSurplus
            /\ task' = [task EXCEPT ![t] = [op |-> "move", to |-> h, from |-> g, left |-> nullptr,
                                            destroys |-> FALSE]]
            /\ UNCHANGED refCount
    /\ UNCHANGED <<members, alive, owner, surplus>>

\* The destructor, SetNulled() and the assignment of nullptr; InsertDerived(), which builds new
\* contents afterwards.
SetNulled(t, h) ==
    /\ Mine(t, h) /\ members[h] # nullptr
    /\ GiveUp(t, h, "null", h)
    /\ UNCHANGED <<members, alive, owner, surplus>>

InsertDerived(t, h) ==
    /\ Mine(t, h)
    /\ GiveUp(t, h, "insert", h)
    /\ UNCHANGED <<members, alive, owner, surplus>>

\* The contents are destructed and their memory is freed.
DestroyLeft(t) ==
    /\ task[t] # NoTask /\ task[t].destroys
    /\ alive' = alive \ {task[t].left}
    /\ task' = [task EXCEPT ![t].destroys = FALSE]
    /\ UNCHANGED <<members, refCount, owner, surplus>>

\* The counter when one more handle points to c.
Counted(c) == IF c = nullptr THEN refCount ELSE [refCount EXCEPT ![c] = @ + 1]

\* The last step of an operation.
Store(t) ==
    LET h == task[t].to
        g == task[t].from
        c == members[g]
    IN  /\ task[t] # NoTask /\ ~task[t].destroys
        /\ \/ /\ task[t].op = "copy"
              /\ members' = [members EXCEPT ![h] = c]
              /\ refCount' = Counted(c)
              /\ UNCHANGED <<alive, surplus>>
           \/ /\ task[t].op = "move"
              /\ members' = [members EXCEPT ![h] = c, ![g] = nullptr]
              /\ surplus' = IF c # nullptr /\ members[h] = c THEN [surplus EXCEPT ![c] = @ + 1]
                            ELSE surplus
              /\ UNCHANGED <<refCount, alive>>
           \/ /\ task[t].op = "null"
              /\ members' = [members EXCEPT ![h] = nullptr]
              /\ UNCHANGED <<refCount, alive, surplus>>
           \/ /\ task[t].op = "insert"
              /\ \E n \in Contents \ alive :
                    /\ surplus[n] = 0 /\ \A h2 \in Handles : members[h2] = n => h2 = h
                    /\ members' = [members EXCEPT ![h] = n]
                    /\ refCount' = [refCount EXCEPT ![n] = 1]
                    /\ alive' = alive \cup {n}
              /\ UNCHANGED surplus
        /\ task' = [task EXCEPT ![t] = NoTask]
        /\ UNCHANGED owner

\* The program passes a handle to another thread, in a way that synchronises the two.
HandOver(t, h, u) ==
    /\ Mine(t, h) /\ u # t
    /\ owner' = [owner EXCEPT ![h] = u]
    /\ UNCHANGED <<members, refCount, alive, task, surplus>>

Next ==
    \E t \in Threads :
        \/ \E h, g \in Handles : CopyAssign(t, h, g) \/ MoveAssign(t, h, g)
        \/ \E h \in Handles : SetNulled(t, h) \/ InsertDerived(t, h)
        \/ DestroyLeft(t)
        \/ Store(t)
        \/ \E h \in Handles, u \in Threads : HandOver(t, h, u)

Spec == Init /\ [][Next]_shVars

-----------------------------------------------------------------------------
TypeOK ==
    /\ members \in [Handles -> Contents \cup {nullptr}]
    /\ refCount \in [Contents -> Nat]
    /\ alive \subseteq Contents
    /\ owner \in [Handles -> Threads]

\* A handle whose contents were given up still shows them until the assignment stores.
GivenUp(h) == \E t \in Threads : task[t] # NoTask /\ task[t].to = h /\ task[t].left # nullptr

Holders(c) == {h \in Handles : members[h] = c /\ ~GivenUp(h)}

\* No handle points to destroyed contents, whatever other threads do with theirs.
HandlesPointToLiving == \A c \in Contents : Holders(c) # {} => c \in alive

\* The counter is the number of handles, but for the handles lost in a move assignment between
\* two handles of the same contents.
CountIsHandles == \A c \in alive : refCount[c] = Cardinality(Holders(c)) + surplus[c]

\* Contents without a handle are about to be destroyed, by one thread: the last of two threads
\* that give up their handles at the same time destroys them, and none destroys them twice.
LastHandleDestroys ==
    \A c \in Contents :
        LET destroyers == {t \in Threads : task[t] # NoTask /\ task[t].destroys /\ task[t].left = c}
        IN  /\ Cardinality(destroyers) <= 1
            /\ destroyers # {} => c \in alive /\ Holders(c) = {}
            /\ c \in alive /\ Holders(c) = {} /\ surplus[c] = 0 => destroyers # {}
=============================================================================
