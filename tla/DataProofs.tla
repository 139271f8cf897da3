------------------------------ MODULE DataProofs ------------------------------
(* Proofs about shared handles, the allocators and the camps of MCData: what   *)
(* it states of them holds for every number of threads, handles, sizes and     *)
(* camps, and for every length of a behaviour.                                 *)
EXTENDS MCData, FiniteSetTheorems, SequenceTheorems, TLAPS

\* A step is one of one component.
LEMMA OneComponentMoves ==
    ASSUME [DataNext]_dataVars
    PROVE  /\ component' = component
           /\ component = "SharedHandle" => [Handle!Next]_handleVars
           /\ component = "MonoAllocator" => [Mono!Next]_monoVars
BY DEF DataNext, dataVars, OnlyData, Rest
-----------------------------------------------------------------------------
(* SharedHandle                                                              *)

Works(t) == task[t] # Handle!NoTask

Tasks == [op : {"copy", "move", "null", "insert"}, to : SharingHandles, from : SharingHandles,
          left : SharedContents \cup {nullptr}, destroys : BOOLEAN]

HandleTypes ==
    /\ Handle!TypeOK
    /\ surplus \in [SharedContents -> Nat]
    /\ task \in [HandleThreads -> {Handle!NoTask} \cup Tasks]

\* An assignment works on handles of its thread; the left one still shows what it has given up,
\* or is null, or the two show the same.
TaskFits(t) ==
    LET h == task[t].to
        g == task[t].from
    IN  /\ owner[h] = t /\ owner[g] = t
        /\ h = g <=> task[t].op \in {"null", "insert"}
        /\ task[t].destroys => task[t].left # nullptr
        /\ task[t].left # nullptr => /\ members[h] = task[t].left
                                     /\ h # g => members[g] # task[t].left
        /\ task[t].left = nullptr => members[h] = nullptr \/ (task[t].op = "move" /\ members[g] = members[h])

Destroying(t, c) == Works(t) /\ task[t].destroys /\ task[t].left = c

\* Contents without a handle have one thread that is about to destroy them.
DestroyersInv ==
    \A c \in SharedContents :
        /\ \A t, u \in HandleThreads : Destroying(t, c) /\ Destroying(u, c) => t = u
        /\ \A t \in HandleThreads : Destroying(t, c) => c \in alive /\ Handle!Holders(c) = {}
        /\ c \in alive /\ Handle!Holders(c) = {} /\ surplus[c] = 0
             => \E t \in HandleThreads : Destroying(t, c)

HandleInv ==
    component = "SharedHandle" =>
        /\ HandleTypes
        /\ \A t \in HandleThreads : Works(t) => TaskFits(t)
        /\ Handle!HandlesPointToLiving
        /\ Handle!CountIsHandles
        /\ DestroyersInv
Gone(h) == Works(owner[h]) /\ task[owner[h]].to = h /\ task[owner[h]].left # nullptr

\* Of a handle only its owner can have given up the contents.
LEMMA HoldersByOwner ==
    ASSUME HandleTypes, \A t \in HandleThreads : Works(t) => TaskFits(t)
    PROVE  \A c \in SharedContents : Handle!Holders(c) = {h \in SharingHandles : members[h] = c /\ ~Gone(h)}
<1>1. \A h \in SharingHandles : Handle!GivenUp(h) <=> Gone(h)
  BY DEF HandleTypes, Handle!TypeOK, Handle!GivenUp, Gone, Works, TaskFits
<1> QED BY <1>1 DEF Handle!Holders

LEMMA HoldersByOwnerAfter ==
    ASSUME HandleTypes', (\A t \in HandleThreads : Works(t) => TaskFits(t))'
    PROVE  \A c \in SharedContents :
             Handle!Holders(c)' = {h \in SharingHandles : members'[h] = c /\ ~Gone(h)'}
<1>1. \A h \in SharingHandles : Handle!GivenUp(h)' <=> Gone(h)'
  BY DEF HandleTypes, Handle!TypeOK, Handle!GivenUp, Gone, Works, TaskFits
<1> QED BY <1>1 DEF Handle!Holders

\* Counting handles.
LEMMA CountOfHandles ==
    ASSUME NEW S \in SUBSET SharingHandles, NEW h \in SharingHandles
    PROVE  /\ Handle!Cardinality(S) \in Nat
           /\ Handle!Cardinality(S) = 0 <=> S = {}
           /\ h \notin S => Handle!Cardinality(S \cup {h}) = Handle!Cardinality(S) + 1
           /\ h \in S => Handle!Cardinality(S \ {h}) = Handle!Cardinality(S) - 1
<1>1. \A X : Handle!Cardinality(X) = Cardinality(X) /\ Handle!IsFiniteSet(X) = IsFiniteSet(X)
  BY Zenon DEF Handle!Cardinality, Cardinality, Handle!IsFiniteSet, IsFiniteSet
<1>2. IsFiniteSet(S)
  BY <1>1, HandlesAssumption, FS_Subset DEF Handle!SharedHandleAssumption
<1>3. Cardinality(S) \in Nat /\ (Cardinality(S) = 0 <=> S = {})
  BY <1>2, FS_CardinalityType, FS_EmptySet
<1>4. h \notin S => Cardinality(S \cup {h}) = Cardinality(S) + 1
  BY <1>2, FS_AddElement
<1>5. h \in S => Cardinality(S \ {h}) = Cardinality(S) - 1
  BY <1>2, FS_RemoveElement
<1> QED BY <1>1, <1>3, <1>4, <1>5

LEMMA InitHandles == ASSUME DataInit PROVE HandleInv
<1> SUFFICES ASSUME component = "SharedHandle" PROVE HandleInv
  BY DEF HandleInv
<1>1. Handle!Init
  BY DEF DataInit
<1>2. HandleTypes
  BY <1>1 DEF HandleTypes, Handle!Init, Handle!TypeOK
<1>3. \A t \in HandleThreads : ~Works(t)
  BY <1>1 DEF Handle!Init, Works
<1>4. \A c \in SharedContents : Handle!Holders(c) = {}
  BY <1>1, HandlesAssumption DEF Handle!Init, Handle!Holders, Handle!SharedHandleAssumption
<1>5. alive = {}
  BY <1>1 DEF Handle!Init
<1> QED BY <1>2, <1>3, <1>4, <1>5
        DEF HandleInv, Handle!HandlesPointToLiving, Handle!CountIsHandles, DestroyersInv, Destroying
LastHolder(h) == members[h] # nullptr /\ refCount[members[h]] = 1

\* The task that gives up what h shows.
Leaving(op, h, g, last) ==
    [op |-> op, to |-> h, from |-> g, left |-> members[h], destroys |-> last]

\* Giving up: the last holder, and no other one, is to destroy the contents.
LEMMA GiveUpKeepsHandles ==
    ASSUME HandleInv, component = "SharedHandle", component' = component,
           NEW t \in HandleThreads, NEW h \in SharingHandles, NEW g \in SharingHandles,
           NEW op \in {"copy", "move", "null", "insert"},
           Handle!Mine(t, h), Handle!Mine(t, g), h = g <=> op \in {"null", "insert"},
           h # g => members[h] # members[g],
           Handle!GiveUp(t, h, op, g), UNCHANGED <<members, alive, owner, surplus>>
    PROVE  HandleInv'
<1> DEFINE c == members[h]
<1>1. /\ HandleTypes
      /\ \A u \in HandleThreads : Works(u) => TaskFits(u)
      /\ Handle!HandlesPointToLiving
      /\ Handle!CountIsHandles
      /\ DestroyersInv
  BY DEF HandleInv
<1>2. /\ owner[h] = t /\ owner[g] = t /\ ~Works(t)
      /\ c \in SharedContents \cup {nullptr} /\ nullptr \notin SharedContents
      /\ nullptr # c => refCount[c] \in Nat
  BY <1>1, HandlesAssumption DEF Handle!Mine, Works, HandleTypes, Handle!TypeOK, Handle!SharedHandleAssumption
<1>3. c # nullptr => h \in Handle!Holders(c) /\ c \in alive
  <2>1. ~Gone(h)
    BY <1>2 DEF Gone
  <2>2. c # nullptr => h \in Handle!Holders(c)
    BY <1>1, <1>2, <2>1, HoldersByOwner
  <2> QED BY <1>1, <1>2, <2>2 DEF Handle!HandlesPointToLiving
<1>. PICK last \in BOOLEAN : last = LastHolder(h)
  BY DEF LastHolder
<1>0. last <=> (c # nullptr /\ refCount[c] = 1)
  BY DEF LastHolder
<1>4. /\ task' = [task EXCEPT ![t] = Leaving(op, h, g, last)]
      /\ c = nullptr => refCount' = refCount
      /\ c # nullptr => refCount' = [refCount EXCEPT ![c] = @ - 1]
      /\ UNCHANGED <<members, alive, owner, surplus, component>>
  BY DEF Handle!GiveUp, Leaving, LastHolder
<1>5. c # nullptr => /\ refCount[c] = Handle!Cardinality(Handle!Holders(c)) + surplus[c]
                     /\ refCount[c] # 0
                     /\ refCount[c] = 1 => Handle!Holders(c) = {h} /\ surplus[c] = 0
                     /\ refCount[c] # 1 => Handle!Holders(c) # {h} \/ surplus[c] # 0
  <2> SUFFICES ASSUME c # nullptr PROVE
        /\ refCount[c] = Handle!Cardinality(Handle!Holders(c)) + surplus[c]
        /\ refCount[c] # 0
        /\ refCount[c] = 1 => Handle!Holders(c) = {h} /\ surplus[c] = 0
        /\ refCount[c] # 1 => Handle!Holders(c) # {h} \/ surplus[c] # 0
    OBVIOUS
  <2>1. c \in SharedContents /\ surplus[c] \in Nat
    BY <1>1, <1>2 DEF HandleTypes
  <2>2. refCount[c] = Handle!Cardinality(Handle!Holders(c)) + surplus[c]
    BY <1>1, <1>3, <2>1 DEF Handle!CountIsHandles
  <2> DEFINE H == Handle!Holders(c)
  <2>3. H \in SUBSET SharingHandles /\ h \in H
    BY <1>3 DEF Handle!Holders
  <2>4. /\ Handle!Cardinality(H) \in Nat /\ (Handle!Cardinality(H) = 0 <=> H = {})
        /\ Handle!Cardinality(H \ {h}) = Handle!Cardinality(H) - 1
        /\ (Handle!Cardinality(H \ {h}) = 0 <=> H \ {h} = {})
    <3> HIDE DEF H
    <3>1. H \ {h} \in SUBSET SharingHandles
      BY <2>3
    <3> QED BY <2>3, <3>1, CountOfHandles
  <2>5. H = {h} <=> Handle!Cardinality(H) = 1
    <3> HIDE DEF H
    <3> QED BY <2>3, <2>4
  <2> QED
    <3> HIDE DEF H
    <3>1. refCount[c] = Handle!Cardinality(H) + surplus[c]
      BY <2>2 DEF H
    <3>2. /\ refCount[c] # 0
          /\ refCount[c] = 1 => H = {h} /\ surplus[c] = 0
          /\ refCount[c] # 1 => H # {h} \/ surplus[c] # 0
      BY <2>1, <2>3, <2>4, <2>5, <3>1
    <3> QED BY <3>1, <3>2 DEF H
<1>6. HandleTypes'
  <2>1. Leaving(op, h, g, last) \in Tasks
    BY <1>2 DEF Tasks, Leaving
  <2>2. refCount' \in [SharedContents -> Nat]
    BY <1>1, <1>2, <1>4, <1>5 DEF HandleTypes, Handle!TypeOK
  <2> QED BY <1>1, <1>4, <2>1, <2>2 DEF HandleTypes, Handle!TypeOK
<1>7. (\A u \in HandleThreads : Works(u) => TaskFits(u))'
  <2> SUFFICES ASSUME NEW u \in HandleThreads, Works(u)' PROVE TaskFits(u)'
    OBVIOUS
  <2>1. CASE u = t
    <3>1. task'[u] = Leaving(op, h, g, last)
      BY <1>1, <1>4, <2>1 DEF HandleTypes
    <3>2. /\ task'[u].op = op /\ task'[u].to = h /\ task'[u].from = g
          /\ task'[u].left = members[h]
          /\ task'[u].destroys = last
      BY <3>1 DEF Leaving
    <3> QED BY <1>0, <1>2, <1>4, <3>2, <2>1 DEF TaskFits
  <2>2. CASE u # t
    <3>1. task'[u] = task[u]
      BY <1>1, <1>4, <2>2 DEF HandleTypes
    <3> QED BY <1>1, <1>4, <3>1 DEF TaskFits, Works
  <2> QED BY <2>1, <2>2
<1>8. /\ \A k \in SharingHandles : k # h => (Gone(k)' <=> Gone(k))
      /\ c # nullptr => Gone(h)'
      /\ ~Gone(h)
  <2>1. \A u \in HandleThreads : u # t => task'[u] = task[u]
    BY <1>1, <1>4 DEF HandleTypes
  <2>2. task'[t] = Leaving(op, h, g, last)
    BY <1>1, <1>4 DEF HandleTypes
  <2>3. Works(t)' /\ ~Works(t)
    BY <1>2, <2>2 DEF Works, Leaving, Handle!NoTask
  <2>4. \A k \in SharingHandles : owner'[k] = owner[k] /\ owner[k] \in HandleThreads
    BY <1>1, <1>4 DEF HandleTypes, Handle!TypeOK
  <2> QED BY <1>2, <1>4, <2>1, <2>2, <2>3, <2>4 DEF Gone, Works, Leaving
<1>9. \A d \in SharedContents :
        Handle!Holders(d)' = IF d = c THEN Handle!Holders(d) \ {h} ELSE Handle!Holders(d)
  <2> SUFFICES ASSUME NEW d \in SharedContents PROVE
        Handle!Holders(d)' = IF d = c THEN Handle!Holders(d) \ {h} ELSE Handle!Holders(d)
    OBVIOUS
  <2>1. Handle!Holders(d) = {k \in SharingHandles : members[k] = d /\ ~Gone(k)}
    BY <1>1, HoldersByOwner
  <2>2. Handle!Holders(d)' = {k \in SharingHandles : members[k] = d /\ ~Gone(k)'}
    BY <1>4, <1>6, <1>7, HoldersByOwnerAfter
  <2> QED BY <1>2, <1>8, <2>1, <2>2
<1>10. /\ \A u \in HandleThreads, d \in SharedContents : u # t => (Destroying(u, d)' <=> Destroying(u, d))
       /\ \A d \in SharedContents : ~Destroying(t, d)
       /\ \A d \in SharedContents : Destroying(t, d)' <=> d = c /\ refCount[c] = 1
  <2>1. \A u \in HandleThreads : u # t => task'[u] = task[u]
    BY <1>1, <1>4 DEF HandleTypes
  <2>2. task'[t] = Leaving(op, h, g, last)
    BY <1>1, <1>4 DEF HandleTypes
  <2>3. Works(t)' /\ ~Works(t)
    BY <1>2, <2>2 DEF Works, Leaving, Handle!NoTask
  <2>4. task'[t].left = members[h] /\ task'[t].destroys = last
    BY <2>2 DEF Leaving
  <2>5. \A d \in SharedContents : Destroying(t, d)' <=> (d = c /\ refCount[c] = 1)
    BY <1>0, <1>2, <2>3, <2>4 DEF Destroying
  <2>6. \A d \in SharedContents : ~Destroying(t, d)
    BY <2>3 DEF Destroying
  <2>7. \A u \in HandleThreads, d \in SharedContents : u # t => (Destroying(u, d)' <=> Destroying(u, d))
    BY <2>1 DEF Destroying, Works
  <2> QED BY <2>5, <2>6, <2>7
<1>11. Handle!HandlesPointToLiving'
  BY <1>1, <1>4, <1>9 DEF Handle!HandlesPointToLiving
<1>12. Handle!CountIsHandles'
  <2> SUFFICES ASSUME NEW d \in SharedContents, d \in alive PROVE
        refCount'[d] = Handle!Cardinality(Handle!Holders(d)') + surplus[d]
    BY <1>1, <1>4 DEF Handle!CountIsHandles, HandleTypes, Handle!TypeOK
  <2>0. refCount[d] = Handle!Cardinality(Handle!Holders(d)) + surplus[d]
    BY <1>1 DEF Handle!CountIsHandles
  <2>1. CASE d # c
    BY <1>1, <1>2, <1>4, <1>9, <2>0, <2>1 DEF HandleTypes, Handle!TypeOK
  <2>2. CASE d = c
    <3> DEFINE H == Handle!Holders(c)
    <3>1. H \in SUBSET SharingHandles /\ h \in H /\ Handle!Holders(d)' = H \ {h}
      BY <1>2, <1>3, <1>9, <2>2 DEF Handle!Holders
    <3>2. /\ Handle!Cardinality(H \ {h}) = Handle!Cardinality(H) - 1
          /\ Handle!Cardinality(H) \in Nat
      <4> HIDE DEF H
      <4> QED BY <3>1, CountOfHandles
    <3>3. refCount'[c] = refCount[c] - 1 /\ surplus[c] \in Nat
      BY <1>1, <1>2, <1>4, <2>2 DEF HandleTypes, Handle!TypeOK
    <3> QED BY <2>0, <2>2, <3>1, <3>2, <3>3
  <2> QED BY <2>1, <2>2
<1>13. DestroyersInv'
  <2> SUFFICES ASSUME NEW d \in SharedContents PROVE
        /\ \A u, v \in HandleThreads : Destroying(u, d)' /\ Destroying(v, d)' => u = v
        /\ \A u \in HandleThreads : Destroying(u, d)' => d \in alive /\ Handle!Holders(d)' = {}
        /\ d \in alive /\ Handle!Holders(d)' = {} /\ surplus[d] = 0
             => \E u \in HandleThreads : Destroying(u, d)'
    BY <1>4 DEF DestroyersInv
  <2>1. /\ \A u, v \in HandleThreads : Destroying(u, d) /\ Destroying(v, d) => u = v
        /\ \A u \in HandleThreads : Destroying(u, d) => d \in alive /\ Handle!Holders(d) = {}
        /\ d \in alive /\ Handle!Holders(d) = {} /\ surplus[d] = 0
             => \E u \in HandleThreads : Destroying(u, d)
    BY <1>1 DEF DestroyersInv
  <2>2. CASE d # c
    BY <1>9, <1>10, <2>1, <2>2
  <2>3. CASE d = c
    <3>1. h \in Handle!Holders(d) /\ d \in alive /\ c # nullptr
      BY <1>2, <1>3, <2>3
    <3>2. \A u \in HandleThreads : ~Destroying(u, d)
      BY <2>1, <3>1
    <3>3. \A u \in HandleThreads : Destroying(u, d)' <=> u = t /\ refCount[c] = 1
      BY <1>10, <2>3, <3>2
    <3>4. Handle!Holders(d)' = Handle!Holders(d) \ {h}
      BY <1>9, <2>3
    <3>5. Handle!Holders(d)' = {} <=> Handle!Holders(d) = {h}
      BY <3>1, <3>4
    <3> QED BY <1>5, <2>3, <3>1, <3>3, <3>5
  <2> QED BY <2>2, <2>3
<1> QED BY <1>6, <1>7, <1>11, <1>12, <1>13 DEF HandleInv
\* What neither gives up nor stores: counters and handles stay, and so do the threads that
\* are to destroy contents.
LEMMA QuietStepKeepsHandles ==
    ASSUME HandleInv, component = "SharedHandle", component' = component,
           HandleTypes', (\A t \in HandleThreads : Works(t) => TaskFits(t))',
           \A h \in SharingHandles : Gone(h)' <=> Gone(h),
           \A t \in HandleThreads, c \in SharedContents : Destroying(t, c)' <=> Destroying(t, c),
           UNCHANGED <<members, refCount, alive, surplus>>
    PROVE  HandleInv'
<1>1. /\ HandleTypes
      /\ \A u \in HandleThreads : Works(u) => TaskFits(u)
      /\ Handle!HandlesPointToLiving
      /\ Handle!CountIsHandles
      /\ DestroyersInv
  BY DEF HandleInv
<1>2. \A c \in SharedContents : Handle!Holders(c)' = Handle!Holders(c)
  <2> SUFFICES ASSUME NEW d \in SharedContents PROVE Handle!Holders(d)' = Handle!Holders(d)
    OBVIOUS
  <2>1. Handle!Holders(d) = {k \in SharingHandles : members[k] = d /\ ~Gone(k)}
    BY <1>1, HoldersByOwner
  <2>2. Handle!Holders(d)' = {k \in SharingHandles : members'[k] = d /\ ~Gone(k)'}
    BY HoldersByOwnerAfter
  <2> QED BY <2>1, <2>2
<1>3. Handle!HandlesPointToLiving'
  BY <1>1, <1>2 DEF Handle!HandlesPointToLiving
<1>4. Handle!CountIsHandles'
  BY <1>1, <1>2 DEF Handle!CountIsHandles, HandleTypes, Handle!TypeOK
<1>5. DestroyersInv'
  BY <1>1, <1>2 DEF DestroyersInv
<1> QED BY <1>3, <1>4, <1>5 DEF HandleInv

\* A move between handles of the same contents gives nothing up.
LEMMA MoveOfSameKeepsHandles ==
    ASSUME HandleInv, component = "SharedHandle", component' = component,
           NEW t \in HandleThreads, NEW h \in SharingHandles, NEW g \in SharingHandles,
           Handle!MoveAssign(t, h, g), members[h] = members[g]
    PROVE  HandleInv'
<1> DEFINE moving == [op |-> "move", to |-> h, from |-> g, left |-> nullptr, destroys |-> FALSE]
<1>1. HandleTypes /\ \A u \in HandleThreads : Works(u) => TaskFits(u)
  BY DEF HandleInv
<1>2. /\ owner[h] = t /\ owner[g] = t /\ ~Works(t) /\ h # g
      /\ task' = [task EXCEPT ![t] = moving]
      /\ UNCHANGED <<members, refCount, alive, owner, surplus>>
  BY DEF Handle!MoveAssign, Handle!Mine, Works
<1>3. HandleTypes'
  <2>1. moving \in Tasks
    BY DEF Tasks
  <2> HIDE DEF moving
  <2> QED BY <1>1, <1>2, <2>1 DEF HandleTypes, Handle!TypeOK
<1>4. \A u \in HandleThreads : u # t => task'[u] = task[u]
  BY <1>1, <1>2 DEF HandleTypes
<1>5. task'[t] = moving
  BY <1>1, <1>2 DEF HandleTypes
<1>6. (\A u \in HandleThreads : Works(u) => TaskFits(u))'
  <2> SUFFICES ASSUME NEW u \in HandleThreads, Works(u)' PROVE TaskFits(u)'
    OBVIOUS
  <2>1. CASE u = t
    BY <1>2, <1>5, <2>1 DEF TaskFits
  <2>2. CASE u # t
    BY <1>1, <1>2, <1>4, <2>2 DEF TaskFits, Works
  <2> QED BY <2>1, <2>2
<1>7. \A k \in SharingHandles : Gone(k)' <=> Gone(k)
  <2>1. \A k \in SharingHandles : owner'[k] = owner[k] /\ owner[k] \in HandleThreads
    BY <1>1, <1>2 DEF HandleTypes, Handle!TypeOK
  <2> QED BY <1>2, <1>4, <1>5, <2>1 DEF Gone, Works
<1>8. \A u \in HandleThreads, c \in SharedContents : Destroying(u, c)' <=> Destroying(u, c)
  <2>1. ~task'[t].destroys
    BY <1>5
  <2> QED BY <1>2, <1>4, <2>1 DEF Destroying, Works
<1> QED BY <1>2, <1>3, <1>6, <1>7, <1>8, QuietStepKeepsHandles

\* A handle is handed over between two assignments only.
LEMMA HandOverKeepsHandles ==
    ASSUME HandleInv, component = "SharedHandle", component' = component,
           NEW t \in HandleThreads, NEW h \in SharingHandles, NEW u \in HandleThreads,
           Handle!HandOver(t, h, u)
    PROVE  HandleInv'
<1>1. HandleTypes /\ \A v \in HandleThreads : Works(v) => TaskFits(v)
  BY DEF HandleInv
<1>2. /\ owner[h] = t /\ ~Works(t)
      /\ owner' = [owner EXCEPT ![h] = u]
      /\ UNCHANGED <<members, refCount, alive, task, surplus>>
  BY DEF Handle!HandOver, Handle!Mine, Works
<1>3. HandleTypes'
  BY <1>1, <1>2 DEF HandleTypes, Handle!TypeOK
<1>4. \A v \in HandleThreads : Works(v) => /\ task[v].to \in SharingHandles \ {h}
                                            /\ task[v].from \in SharingHandles \ {h}
  BY <1>1, <1>2 DEF HandleTypes, Works, TaskFits, Tasks
<1>5. \A k \in SharingHandles \ {h} : owner'[k] = owner[k]
  BY <1>1, <1>2 DEF HandleTypes, Handle!TypeOK
<1>6. (\A v \in HandleThreads : Works(v) => TaskFits(v))'
  BY <1>1, <1>2, <1>4, <1>5 DEF TaskFits, Works
<1>7. \A k \in SharingHandles : Gone(k)' <=> Gone(k)
  <2>1. ~Gone(h)
    BY <1>2 DEF Gone
  <2>2. owner'[h] = u
    BY <1>1, <1>2 DEF HandleTypes, Handle!TypeOK
  <2>3. ~Gone(h)'
    BY <1>2, <1>4, <2>2 DEF Gone, Works
  <2> QED BY <1>2, <1>5, <2>1, <2>3 DEF Gone, Works
<1>8. \A v \in HandleThreads, c \in SharedContents : Destroying(v, c)' <=> Destroying(v, c)
  BY <1>2 DEF Destroying, Works
<1> QED BY <1>2, <1>3, <1>6, <1>7, <1>8, QuietStepKeepsHandles

\* Contents are destroyed by the one thread that has to, and nobody points to them.
LEMMA DestroyLeftKeepsHandles ==
    ASSUME HandleInv, component = "SharedHandle", component' = component,
           NEW t \in HandleThreads, Handle!DestroyLeft(t)
    PROVE  HandleInv'
<1> DEFINE c == task[t].left
<1>1. /\ HandleTypes
      /\ \A u \in HandleThreads : Works(u) => TaskFits(u)
      /\ Handle!HandlesPointToLiving
      /\ Handle!CountIsHandles
      /\ DestroyersInv
  BY DEF HandleInv
<1>2. /\ Works(t) /\ task[t].destroys /\ task[t] \in Tasks
      /\ alive' = alive \ {c}
      /\ task' = [task EXCEPT ![t] = [task[t] EXCEPT !.destroys = FALSE]]
      /\ UNCHANGED <<members, refCount, owner, surplus>>
  BY <1>1 DEF Handle!DestroyLeft, Works, HandleTypes
<1>3. c \in SharedContents
  BY <1>1, <1>2 DEF TaskFits, Tasks
<1>4. HandleTypes'
  <2>1. [task[t] EXCEPT !.destroys = FALSE] \in Tasks
    BY <1>2 DEF Tasks
  <2> QED BY <1>1, <1>2, <2>1 DEF HandleTypes, Handle!TypeOK
<1>5. \A u \in HandleThreads : u # t => task'[u] = task[u]
  BY <1>1, <1>2 DEF HandleTypes
<1>6. /\ task'[t].op = task[t].op /\ task'[t].to = task[t].to
      /\ task'[t].from = task[t].from /\ task'[t].left = task[t].left
      /\ task'[t].destroys = FALSE /\ Works(t)'
  <2>1. task'[t] = [task[t] EXCEPT !.destroys = FALSE]
    BY <1>1, <1>2 DEF HandleTypes
  <2>2. task'[t].op \in {"copy", "move", "null", "insert"}
    BY <1>2, <2>1 DEF Tasks
  <2> QED BY <1>2, <2>1, <2>2 DEF Tasks, Works, Handle!NoTask
<1>7. (\A u \in HandleThreads : Works(u) => TaskFits(u))'
  <2> SUFFICES ASSUME NEW u \in HandleThreads, Works(u)' PROVE TaskFits(u)'
    OBVIOUS
  <2>1. CASE u = t
    BY <1>1, <1>2, <1>6, <2>1 DEF TaskFits
  <2>2. CASE u # t
    BY <1>1, <1>2, <1>5, <2>2 DEF TaskFits, Works
  <2> QED BY <2>1, <2>2
<1>8. \A d \in SharedContents : Handle!Holders(d)' = Handle!Holders(d)
  <2> SUFFICES ASSUME NEW d \in SharedContents PROVE Handle!Holders(d)' = Handle!Holders(d)
    OBVIOUS
  <2>1. Handle!Holders(d) = {k \in SharingHandles : members[k] = d /\ ~Gone(k)}
    BY <1>1, HoldersByOwner
  <2>2. Handle!Holders(d)' = {k \in SharingHandles : members[k] = d /\ ~Gone(k)'}
    BY <1>2, <1>4, <1>7, HoldersByOwnerAfter
  <2>3. \A k \in SharingHandles : owner'[k] = owner[k] /\ owner[k] \in HandleThreads
    BY <1>1, <1>2 DEF HandleTypes, Handle!TypeOK
  <2>4. \A k \in SharingHandles : Gone(k)' <=> Gone(k)
    BY <1>2, <1>5, <1>6, <2>3 DEF Gone, Works
  <2> QED BY <2>1, <2>2, <2>4
<1>9. /\ \A u \in HandleThreads, d \in SharedContents : u # t => (Destroying(u, d)' <=> Destroying(u, d))
      /\ \A d \in SharedContents : ~Destroying(t, d)'
      /\ \A d \in SharedContents : Destroying(t, d) <=> d = c
  BY <1>2, <1>5, <1>6 DEF Destroying, Works
<1>10. Handle!Holders(c) = {}
  BY <1>1, <1>3, <1>9 DEF DestroyersInv
<1>11. Handle!HandlesPointToLiving'
  BY <1>1, <1>2, <1>8, <1>10 DEF Handle!HandlesPointToLiving
<1>12. Handle!CountIsHandles'
  BY <1>1, <1>2, <1>8 DEF Handle!CountIsHandles, HandleTypes, Handle!TypeOK
<1>13. DestroyersInv'
  <2> SUFFICES ASSUME NEW d \in SharedContents PROVE
        /\ \A u, v \in HandleThreads : Destroying(u, d)' /\ Destroying(v, d)' => u = v
        /\ \A u \in HandleThreads : Destroying(u, d)' => d \in alive' /\ Handle!Holders(d)' = {}
        /\ d \in alive' /\ Handle!Holders(d)' = {} /\ surplus[d] = 0
             => \E u \in HandleThreads : Destroying(u, d)'
    BY <1>2 DEF DestroyersInv
  <2>1. /\ \A u, v \in HandleThreads : Destroying(u, d) /\ Destroying(v, d) => u = v
        /\ \A u \in HandleThreads : Destroying(u, d) => d \in alive /\ Handle!Holders(d) = {}
        /\ d \in alive /\ Handle!Holders(d) = {} /\ surplus[d] = 0
             => \E u \in HandleThreads : Destroying(u, d)
    BY <1>1 DEF DestroyersInv
  <2>2. \A u \in HandleThreads : Destroying(u, d)' <=> Destroying(u, d) /\ u # t
    BY <1>9
  <2>3. CASE d = c
    <3>1. \A u \in HandleThreads : ~Destroying(u, d)'
      BY <1>9, <2>1, <2>2, <2>3
    <3> QED BY <1>2, <2>3, <3>1
  <2>4. CASE d # c
    BY <1>2, <1>8, <1>9, <2>1, <2>2, <2>4
  <2> QED BY <2>3, <2>4
<1> QED BY <1>4, <1>7, <1>11, <1>12, <1>13 DEF HandleInv
\* The end of an assignment: the other handles show what they did, and the left one is no more
\* one that has given up its contents.
LEMMA StoreFrees ==
    ASSUME HandleTypes, \A u \in HandleThreads : Works(u) => TaskFits(u),
           NEW t \in HandleThreads, Works(t), ~task[t].destroys,
           members' \in [SharingHandles -> SharedContents \cup {nullptr}],
           \A k \in SharingHandles \ {task[t].to, task[t].from} : members'[k] = members[k],
           task' = [task EXCEPT ![t] = Handle!NoTask], owner' = owner,
           refCount' \in [SharedContents -> Nat], alive' \subseteq SharedContents,
           surplus' \in [SharedContents -> Nat]
    PROVE  /\ HandleTypes' /\ (\A u \in HandleThreads : Works(u) => TaskFits(u))'
           /\ \A k \in SharingHandles : Gone(k)' <=> Gone(k) /\ k # task[t].to
           /\ \A u \in HandleThreads, d \in SharedContents : Destroying(u, d)' <=> Destroying(u, d)
           /\ \A d \in SharedContents :
                Handle!Holders(d)' = {k \in SharingHandles : members'[k] = d /\ (~Gone(k) \/ k = task[t].to)}
<1>1. HandleTypes'
  BY DEF HandleTypes, Handle!TypeOK
<1>2. \A u \in HandleThreads : u # t => task'[u] = task[u]
  BY DEF HandleTypes
<1>3. task'[t] = Handle!NoTask /\ ~Works(t)' /\ task[t].to \in SharingHandles
  BY DEF HandleTypes, Works, Tasks
<1>4. \A k \in SharingHandles : owner'[k] = owner[k] /\ owner[k] \in HandleThreads
  BY DEF HandleTypes, Handle!TypeOK
<1>5. (\A u \in HandleThreads : Works(u) => TaskFits(u))'
  <2> SUFFICES ASSUME NEW u \in HandleThreads, Works(u)' PROVE TaskFits(u)'
    OBVIOUS
  <2>1. u # t /\ Works(u) /\ task'[u] = task[u] /\ task[u] \in Tasks /\ TaskFits(u) /\ TaskFits(t)
    BY <1>2, <1>3 DEF Works, HandleTypes
  <2>2. task[u].to \notin {task[t].to, task[t].from} /\ task[u].from \notin {task[t].to, task[t].from}
    BY <2>1 DEF TaskFits
  <2>3. members'[task[u].to] = members[task[u].to] /\ members'[task[u].from] = members[task[u].from]
    BY <2>1, <2>2 DEF Tasks
  <2> QED BY <2>1, <2>3 DEF TaskFits
<1>6. \A k \in SharingHandles : Gone(k)' <=> Gone(k) /\ k # task[t].to
  BY <1>2, <1>3, <1>4 DEF Gone, Works, TaskFits
<1>7. \A u \in HandleThreads, d \in SharedContents : Destroying(u, d)' <=> Destroying(u, d)
  BY <1>2, <1>3 DEF Destroying, Works
<1>8. \A d \in SharedContents :
        Handle!Holders(d)' = {k \in SharingHandles : members'[k] = d /\ (~Gone(k) \/ k = task[t].to)}
  <2>1. \A d \in SharedContents :
          Handle!Holders(d)' = {k \in SharingHandles : members'[k] = d /\ ~Gone(k)'}
    BY <1>1, <1>5, HoldersByOwnerAfter
  <2> QED BY <1>6, <2>1
<1> QED BY <1>1, <1>5, <1>6, <1>7, <1>8

LEMMA StoreKeepsHandles ==
    ASSUME HandleInv, component = "SharedHandle", component' = component,
           NEW t \in HandleThreads, Handle!Store(t)
    PROVE  HandleInv'
<1> DEFINE h == task[t].to
           g == task[t].from
           c == members[g]
<1>1. /\ HandleTypes
      /\ \A u \in HandleThreads : Works(u) => TaskFits(u)
      /\ Handle!HandlesPointToLiving
      /\ Handle!CountIsHandles
      /\ DestroyersInv
  BY DEF HandleInv
<1>2. /\ Works(t) /\ ~task[t].destroys /\ task[t] \in Tasks /\ TaskFits(t)
      /\ task' = [task EXCEPT ![t] = Handle!NoTask] /\ owner' = owner
  BY <1>1 DEF Handle!Store, Works, HandleTypes
<1>3. /\ h \in SharingHandles /\ g \in SharingHandles
      /\ c \in SharedContents \cup {nullptr} /\ nullptr \notin SharedContents
      /\ owner[h] = t /\ owner[g] = t
  BY <1>1, <1>2, HandlesAssumption
     DEF Tasks, TaskFits, HandleTypes, Handle!TypeOK, Handle!SharedHandleAssumption
<1>4. /\ h # g => ~Gone(g)
      /\ Gone(h) \/ members[h] = nullptr \/ (task[t].op = "move" /\ members[h] = c)
      /\ h = g <=> task[t].op \in {"null", "insert"}
  BY <1>2, <1>3 DEF Gone, TaskFits
<1>5. \A d \in SharedContents : Handle!Holders(d) = {k \in SharingHandles : members[k] = d /\ ~Gone(k)}
  BY <1>1, HoldersByOwner
<1>6. /\ \A k \in SharingHandles : members[k] \in SharedContents \cup {nullptr}
      /\ \A d \in SharedContents : refCount[d] \in Nat /\ surplus[d] \in Nat
  BY <1>1 DEF HandleTypes, Handle!TypeOK
<1>7. CASE task[t].op = "copy"
  <2>1. /\ members' = [members EXCEPT ![h] = c]
        /\ c = nullptr => refCount' = refCount
        /\ c # nullptr => refCount' = [refCount EXCEPT ![c] = @ + 1]
        /\ UNCHANGED <<alive, surplus>>
    BY <1>7 DEF Handle!Store, Handle!Counted
  <2>2. /\ members' \in [SharingHandles -> SharedContents \cup {nullptr}]
        /\ \A k \in SharingHandles : members'[k] = IF k = h THEN c ELSE members[k]
        /\ refCount' \in [SharedContents -> Nat]
        /\ \A d \in SharedContents : refCount'[d] = IF d = c THEN refCount[d] + 1 ELSE refCount[d]
        /\ alive' \subseteq SharedContents /\ surplus' \in [SharedContents -> Nat]
    BY <1>1, <1>3, <2>1 DEF HandleTypes, Handle!TypeOK
  <2>3. /\ HandleTypes' /\ (\A u \in HandleThreads : Works(u) => TaskFits(u))'
        /\ \A u \in HandleThreads, d \in SharedContents : Destroying(u, d)' <=> Destroying(u, d)
        /\ \A d \in SharedContents :
             Handle!Holders(d)' = {k \in SharingHandles : members'[k] = d /\ (~Gone(k) \/ k = h)}
    BY <1>1, <1>2, <2>2, StoreFrees, ZenonT(40)
  <2>4. \A d \in SharedContents : h \notin Handle!Holders(d)
    BY <1>3, <1>4, <1>5, <1>7
  <2>5. \A d \in SharedContents : Handle!Holders(d)' =
           IF d = c THEN Handle!Holders(d) \cup {h} ELSE Handle!Holders(d)
    <3> SUFFICES ASSUME NEW d \in SharedContents PROVE
          Handle!Holders(d)' = IF d = c THEN Handle!Holders(d) \cup {h} ELSE Handle!Holders(d)
      OBVIOUS
    <3>1. Handle!Holders(d) = {k \in SharingHandles : members[k] = d /\ ~Gone(k)}
      BY <1>5
    <3>2. Handle!Holders(d)' = {k \in SharingHandles : members'[k] = d /\ (~Gone(k) \/ k = h)}
      BY <2>3
    <3>3. h \notin Handle!Holders(d)
      BY <2>4
    <3> HIDE DEF h, c
    <3>4. h \in SharingHandles
      BY <1>3
    <3> QED BY <2>2, <3>1, <3>2, <3>3, <3>4
  <2>6. c # nullptr => g \in Handle!Holders(c)
    BY <1>3, <1>4, <1>5, <1>7
  <2>7. Handle!HandlesPointToLiving'
    BY <1>1, <1>3, <2>1, <2>5, <2>6 DEF Handle!HandlesPointToLiving
  <2>8. Handle!CountIsHandles'
    <3> SUFFICES ASSUME NEW d \in SharedContents, d \in alive PROVE
          refCount'[d] = Handle!Cardinality(Handle!Holders(d)') + surplus[d]
      BY <2>1, <2>2 DEF Handle!CountIsHandles
    <3>1. refCount[d] = Handle!Cardinality(Handle!Holders(d)) + surplus[d]
      BY <1>1 DEF Handle!CountIsHandles
    <3>2. Handle!Holders(d) \in SUBSET SharingHandles
      BY <1>5
    <3>3. /\ Handle!Cardinality(Handle!Holders(d) \cup {h}) = Handle!Cardinality(Handle!Holders(d)) + 1
          /\ Handle!Cardinality(Handle!Holders(d)) \in Nat
      <4>1. h \notin Handle!Holders(d) /\ h \in SharingHandles
        BY <1>3, <2>4
      <4> HIDE DEF h
      <4> QED BY <3>2, <4>1, CountOfHandles
    <3>4. /\ refCount[d] \in Nat /\ surplus[d] \in Nat
          /\ refCount'[d] = IF d = c THEN refCount[d] + 1 ELSE refCount[d]
          /\ Handle!Holders(d)' = IF d = c THEN Handle!Holders(d) \cup {h} ELSE Handle!Holders(d)
      BY <1>6, <2>2, <2>5
    <3> HIDE DEF h, c
    <3>5. CASE d = c
      BY <3>1, <3>3, <3>4, <3>5
    <3>6. CASE d # c
      BY <3>1, <3>4, <3>6
    <3> QED BY <3>5, <3>6
  <2>9. DestroyersInv'
    <3> SUFFICES ASSUME NEW d \in SharedContents PROVE
          /\ \A u, v \in HandleThreads : Destroying(u, d)' /\ Destroying(v, d)' => u = v
          /\ \A u \in HandleThreads : Destroying(u, d)' => d \in alive /\ Handle!Holders(d)' = {}
          /\ d \in alive /\ Handle!Holders(d)' = {} /\ surplus[d] = 0
               => \E u \in HandleThreads : Destroying(u, d)'
      BY <2>1 DEF DestroyersInv
    <3>1. d = c => Handle!Holders(d) # {}
      BY <1>3, <2>6
    <3> QED BY <1>1, <2>3, <2>5, <3>1 DEF DestroyersInv
  <2> QED BY <2>3, <2>7, <2>8, <2>9 DEF HandleInv
<1>8. CASE task[t].op = "move"
  <2> DEFINE same == c # nullptr /\ members[h] = c
  <2>0. h # g
    BY <1>4, <1>8
  <2>1. /\ members' = [members EXCEPT ![h] = c, ![g] = nullptr]
        /\ same => surplus' = [surplus EXCEPT ![c] = @ + 1]
        /\ ~same => surplus' = surplus
        /\ UNCHANGED <<refCount, alive>>
    BY <1>8 DEF Handle!Store
  <2>2. /\ members' \in [SharingHandles -> SharedContents \cup {nullptr}]
        /\ \A k \in SharingHandles : members'[k] = IF k = g THEN nullptr ELSE IF k = h THEN c ELSE members[k]
        /\ refCount' \in [SharedContents -> Nat]
        /\ \A d \in SharedContents : surplus'[d] = IF d = c /\ same THEN surplus[d] + 1 ELSE surplus[d]
        /\ alive' \subseteq SharedContents /\ surplus' \in [SharedContents -> Nat]
    BY <1>1, <1>3, <2>0, <2>1 DEF HandleTypes, Handle!TypeOK
  <2>3. /\ HandleTypes' /\ (\A u \in HandleThreads : Works(u) => TaskFits(u))'
        /\ \A u \in HandleThreads, d \in SharedContents : Destroying(u, d)' <=> Destroying(u, d)
        /\ \A d \in SharedContents :
             Handle!Holders(d)' = {k \in SharingHandles : members'[k] = d /\ (~Gone(k) \/ k = h)}
    BY <1>1, <1>2, <2>2, StoreFrees, ZenonT(40)
  <2>4. \A d \in SharedContents : h \in Handle!Holders(d) <=> d = c /\ same
    <3>1. members[h] = c /\ c # nullptr => ~Gone(h)
      BY <1>2, <1>3, <2>0 DEF Gone, TaskFits
    <3> QED BY <1>3, <1>4, <1>5, <3>1
  <2>5. \A d \in SharedContents : Handle!Holders(d)' =
           IF d = c THEN (Handle!Holders(d) \ {g}) \cup {h} ELSE Handle!Holders(d)
    <3> SUFFICES ASSUME NEW d \in SharedContents PROVE
          Handle!Holders(d)' = IF d = c THEN (Handle!Holders(d) \ {g}) \cup {h} ELSE Handle!Holders(d)
      OBVIOUS
    <3>1. Handle!Holders(d) = {k \in SharingHandles : members[k] = d /\ ~Gone(k)}
      BY <1>5
    <3>2. Handle!Holders(d)' = {k \in SharingHandles : members'[k] = d /\ (~Gone(k) \/ k = h)}
      BY <2>3
    <3>3. h \in Handle!Holders(d) <=> d = c /\ same
      BY <2>4
    <3>4. d # c => g \notin Handle!Holders(d)
      BY <3>1
    <3>5. d # nullptr
      BY <1>3
    <3> HIDE DEF h, g, same
    <3>6. h \in SharingHandles /\ g \in SharingHandles
      BY <1>3
    <3>7. CASE d = c
      BY <2>0, <2>2, <3>1, <3>2, <3>5, <3>6, <3>7
    <3>8. CASE d # c
      BY <2>0, <2>2, <3>1, <3>2, <3>3, <3>4, <3>5, <3>6, <3>8
    <3> QED BY <3>7, <3>8
  <2>6. c # nullptr => g \in Handle!Holders(c) /\ c \in alive
    BY <1>1, <1>3, <1>4, <1>5, <2>0 DEF Handle!HandlesPointToLiving
  <2>7. Handle!HandlesPointToLiving'
    BY <1>1, <1>3, <2>1, <2>5, <2>6 DEF Handle!HandlesPointToLiving
  <2>8. Handle!CountIsHandles'
    <3> SUFFICES ASSUME NEW d \in SharedContents, d \in alive PROVE
          refCount[d] = Handle!Cardinality(Handle!Holders(d)') + surplus'[d]
      BY <2>1, <2>2 DEF Handle!CountIsHandles
    <3>1. refCount[d] = Handle!Cardinality(Handle!Holders(d)) + surplus[d]
      BY <1>1 DEF Handle!CountIsHandles
    <3>2. CASE d # c
      BY <2>2, <2>5, <3>1, <3>2
    <3>3. CASE d = c
      <4> DEFINE H == Handle!Holders(d)
      <4>1. H \in SUBSET SharingHandles /\ g \in H /\ (h \in H <=> same)
        BY <1>3, <1>5, <2>4, <2>6, <3>3
      <4>2. /\ Handle!Holders(d)' = (H \ {g}) \cup {h}
            /\ refCount[d] = Handle!Cardinality(H) + surplus[d]
            /\ surplus'[d] = IF same THEN surplus[d] + 1 ELSE surplus[d]
            /\ surplus[d] \in Nat
        BY <1>6, <2>2, <2>5, <3>1, <3>3
      <4> HIDE DEF H, h, g, same
      <4>3. H \ {g} \in SUBSET SharingHandles
        BY <4>1
      <4>31. h \in SharingHandles /\ g \in SharingHandles
        BY <1>3 DEF h, g
      <4>4. /\ Handle!Cardinality(H \ {g}) = Handle!Cardinality(H) - 1
            /\ Handle!Cardinality(H) \in Nat
        BY <4>1, <4>31, CountOfHandles
      <4>5. CASE same
        <5>1. (H \ {g}) \cup {h} = H \ {g}
          BY <2>0, <4>1, <4>5
        <5>2. Handle!Holders(d)' = H \ {g}
          BY <4>2, <5>1
        <5>3. Handle!Cardinality(Handle!Holders(d)') = Handle!Cardinality(H) - 1
          BY <4>4, <5>2
        <5> QED BY <4>2, <4>4, <4>5, <5>3
      <4>6. CASE ~same
        <5>1. Handle!Cardinality((H \ {g}) \cup {h}) = Handle!Cardinality(H \ {g}) + 1
          <6>1. h \notin H \ {g}
            BY <4>1, <4>6
          <6> QED BY <4>3, <4>31, <6>1, CountOfHandles
        <5> QED BY <4>2, <4>4, <4>6, <5>1
      <4> QED BY <4>5, <4>6
    <3> QED BY <3>2, <3>3
  <2>9. DestroyersInv'
    <3> SUFFICES ASSUME NEW d \in SharedContents PROVE
          /\ \A u, v \in HandleThreads : Destroying(u, d)' /\ Destroying(v, d)' => u = v
          /\ \A u \in HandleThreads : Destroying(u, d)' => d \in alive /\ Handle!Holders(d)' = {}
          /\ d \in alive /\ Handle!Holders(d)' = {} /\ surplus'[d] = 0
               => \E u \in HandleThreads : Destroying(u, d)'
      BY <2>1 DEF DestroyersInv
    <3>1. d = c => Handle!Holders(d) # {} /\ Handle!Holders(d)' # {}
      BY <1>3, <2>5, <2>6
    <3>2. d # c => surplus'[d] = surplus[d]
      BY <2>2
    <3> QED BY <1>1, <2>3, <2>5, <3>1, <3>2 DEF DestroyersInv
  <2> QED BY <2>3, <2>7, <2>8, <2>9 DEF HandleInv
<1>9. CASE task[t].op = "null"
  <2>1. /\ members' = [members EXCEPT ![h] = nullptr]
        /\ UNCHANGED <<refCount, alive, surplus>>
    BY <1>9 DEF Handle!Store
  <2>2. /\ members' \in [SharingHandles -> SharedContents \cup {nullptr}]
        /\ \A k \in SharingHandles : members'[k] = IF k = h THEN nullptr ELSE members[k]
        /\ refCount' \in [SharedContents -> Nat]
        /\ alive' \subseteq SharedContents /\ surplus' \in [SharedContents -> Nat]
    BY <1>1, <1>3, <2>1 DEF HandleTypes, Handle!TypeOK
  <2>3. /\ HandleTypes' /\ (\A u \in HandleThreads : Works(u) => TaskFits(u))'
        /\ \A u \in HandleThreads, d \in SharedContents : Destroying(u, d)' <=> Destroying(u, d)
        /\ \A d \in SharedContents :
             Handle!Holders(d)' = {k \in SharingHandles : members'[k] = d /\ (~Gone(k) \/ k = h)}
    BY <1>1, <1>2, <2>2, StoreFrees, ZenonT(40)
  <2>4. \A d \in SharedContents : Handle!Holders(d)' = Handle!Holders(d)
    <3> SUFFICES ASSUME NEW d \in SharedContents PROVE Handle!Holders(d)' = Handle!Holders(d)
      OBVIOUS
    <3>1. Handle!Holders(d) = {k \in SharingHandles : members[k] = d /\ ~Gone(k)}
      BY <1>5
    <3>2. Handle!Holders(d)' = {k \in SharingHandles : members'[k] = d /\ (~Gone(k) \/ k = h)}
      BY <2>3
    <3>3. h \notin Handle!Holders(d) /\ d # nullptr
      BY <1>3, <1>4, <1>9, <3>1
    <3> HIDE DEF h
    <3> QED BY <2>2, <3>1, <3>2, <3>3
  <2>5. Handle!HandlesPointToLiving'
    BY <1>1, <2>1, <2>4 DEF Handle!HandlesPointToLiving
  <2>6. Handle!CountIsHandles'
    BY <1>1, <2>1, <2>4 DEF Handle!CountIsHandles, HandleTypes, Handle!TypeOK
  <2>7. DestroyersInv'
    BY <1>1, <2>1, <2>3, <2>4 DEF DestroyersInv
  <2> QED BY <2>3, <2>5, <2>6, <2>7 DEF HandleInv
<1>10. CASE task[t].op = "insert"
  <2>1. PICK n \in SharedContents \ alive :
          /\ surplus[n] = 0
          /\ members' = [members EXCEPT ![h] = n]
          /\ refCount' = [refCount EXCEPT ![n] = 1]
          /\ alive' = alive \cup {n}
          /\ UNCHANGED surplus
    BY <1>10 DEF Handle!Store
  <2>2. /\ members' \in [SharingHandles -> SharedContents \cup {nullptr}]
        /\ \A k \in SharingHandles : members'[k] = IF k = h THEN n ELSE members[k]
        /\ refCount' \in [SharedContents -> Nat]
        /\ \A d \in SharedContents : refCount'[d] = IF d = n THEN 1 ELSE refCount[d]
        /\ alive' \subseteq SharedContents /\ surplus' \in [SharedContents -> Nat]
    BY <1>1, <1>3, <2>1 DEF HandleTypes, Handle!TypeOK
  <2>3. /\ HandleTypes' /\ (\A u \in HandleThreads : Works(u) => TaskFits(u))'
        /\ \A u \in HandleThreads, d \in SharedContents : Destroying(u, d)' <=> Destroying(u, d)
        /\ \A d \in SharedContents :
             Handle!Holders(d)' = {k \in SharingHandles : members'[k] = d /\ (~Gone(k) \/ k = h)}
    BY <1>1, <1>2, <1>3, <1>4, <1>10, <2>2, StoreFrees
  <2>4. \A d \in SharedContents : h \notin Handle!Holders(d)
    BY <1>3, <1>4, <1>5, <1>10
  <2>5. Handle!Holders(n) = {}
    BY <1>1, <2>1 DEF Handle!HandlesPointToLiving
  <2>6. \A d \in SharedContents : Handle!Holders(d)' = IF d = n THEN {h} ELSE Handle!Holders(d)
    <3> SUFFICES ASSUME NEW d \in SharedContents PROVE
          Handle!Holders(d)' = IF d = n THEN {h} ELSE Handle!Holders(d)
      OBVIOUS
    <3>1. Handle!Holders(d) = {k \in SharingHandles : members[k] = d /\ ~Gone(k)}
      BY <1>5
    <3>2. Handle!Holders(d)' = {k \in SharingHandles : members'[k] = d /\ (~Gone(k) \/ k = h)}
      BY <2>3
    <3>3. h \notin Handle!Holders(d) /\ (d = n => Handle!Holders(d) = {})
      BY <2>4, <2>5
    <3>4. h \in SharingHandles
      BY <1>3
    <3> HIDE DEF h
    <3> QED BY <2>2, <3>1, <3>2, <3>3, <3>4
  <2>7. Handle!HandlesPointToLiving'
    BY <1>1, <2>1, <2>6 DEF Handle!HandlesPointToLiving
  <2>8. Handle!CountIsHandles'
    <3> SUFFICES ASSUME NEW d \in SharedContents, d \in alive' PROVE
          refCount'[d] = Handle!Cardinality(Handle!Holders(d)') + surplus[d]
      BY <2>1, <2>2 DEF Handle!CountIsHandles
    <3>1. CASE d # n
      <4>1. refCount[d] = Handle!Cardinality(Handle!Holders(d)) + surplus[d]
        BY <1>1, <2>1, <3>1 DEF Handle!CountIsHandles
      <4>2. refCount'[d] = refCount[d] /\ Handle!Holders(d)' = Handle!Holders(d)
        BY <2>2, <2>6, <3>1
      <4> QED BY <4>1, <4>2
    <3>2. CASE d = n
      <4>1. Handle!Cardinality({}) = 0
        BY CountOfHandles, <1>3
      <4>2. Handle!Cardinality({h}) = 1
        <5> HIDE DEF h
        <5>1. {} \in SUBSET SharingHandles /\ {} \cup {h} = {h}
          OBVIOUS
        <5>2. Handle!Cardinality({} \cup {h}) = Handle!Cardinality({}) + 1
          BY <1>3, <5>1, CountOfHandles
        <5> QED BY <4>1, <5>1, <5>2
      <4>3. Handle!Holders(d)' = {h}
        BY <2>6, <3>2
      <4>4. Handle!Cardinality(Handle!Holders(d)') = 1
        BY <4>2, <4>3
      <4> QED BY <2>1, <2>2, <3>2, <4>4
    <3> QED BY <3>1, <3>2
  <2>9. DestroyersInv'
    <3> SUFFICES ASSUME NEW d \in SharedContents PROVE
          /\ \A u, v \in HandleThreads : Destroying(u, d)' /\ Destroying(v, d)' => u = v
          /\ \A u \in HandleThreads : Destroying(u, d)' => d \in alive' /\ Handle!Holders(d)' = {}
          /\ d \in alive' /\ Handle!Holders(d)' = {} /\ surplus[d] = 0
               => \E u \in HandleThreads : Destroying(u, d)'
      BY <2>1 DEF DestroyersInv
    <3>1. d = n => \A u \in HandleThreads : ~Destroying(u, d)
      BY <1>1, <2>1 DEF DestroyersInv
    <3> QED BY <1>1, <2>1, <2>3, <2>6, <3>1 DEF DestroyersInv
  <2> QED BY <2>3, <2>7, <2>8, <2>9 DEF HandleInv
<1> QED BY <1>2, <1>7, <1>8, <1>9, <1>10 DEF Tasks
LEMMA StepKeepsHandles == HandleInv /\ [DataNext]_dataVars => HandleInv'
<1> SUFFICES ASSUME HandleInv, [DataNext]_dataVars, component = "SharedHandle" PROVE HandleInv'
  BY OneComponentMoves DEF HandleInv
<1>1. component' = component /\ [Handle!Next]_handleVars
  BY OneComponentMoves
<1>2. ASSUME NEW t \in HandleThreads, NEW h \in SharingHandles, NEW g \in SharingHandles,
             Handle!CopyAssign(t, h, g)
      PROVE  HandleInv'
  BY <1>1, <1>2, GiveUpKeepsHandles DEF Handle!CopyAssign
<1>3. ASSUME NEW t \in HandleThreads, NEW h \in SharingHandles, NEW g \in SharingHandles,
             Handle!MoveAssign(t, h, g)
      PROVE  HandleInv'
  <2>1. CASE members[h] = members[g]
    BY <1>1, <1>3, <2>1, MoveOfSameKeepsHandles
  <2>2. CASE members[h] # members[g]
    BY <1>1, <1>3, <2>2, GiveUpKeepsHandles DEF Handle!MoveAssign
  <2> QED BY <2>1, <2>2
<1>4. ASSUME NEW t \in HandleThreads, NEW h \in SharingHandles,
             Handle!SetNulled(t, h) \/ Handle!InsertDerived(t, h)
      PROVE  HandleInv'
  BY <1>1, <1>4, GiveUpKeepsHandles DEF Handle!SetNulled, Handle!InsertDerived
<1>5. CASE UNCHANGED handleVars
  BY <1>1, <1>5 DEF handleVars, HandleInv, HandleTypes, Handle!TypeOK, Works, TaskFits,
       Handle!HandlesPointToLiving, Handle!CountIsHandles, Handle!Holders, Handle!GivenUp,
       DestroyersInv, Destroying
<1> QED BY <1>1, <1>2, <1>3, <1>4, <1>5, DestroyLeftKeepsHandles, StoreKeepsHandles,
           HandOverKeepsHandles DEF Handle!Next

\* The number of destroyers, as the property counts it.
LEMMA OneDestroyer ==
    ASSUME HandleInv, component = "SharedHandle" PROVE Handle!LastHandleDestroys
<1> SUFFICES ASSUME NEW c \in SharedContents PROVE
      LET destroyers == {t \in HandleThreads : task[t] # Handle!NoTask /\ task[t].destroys /\ task[t].left = c}
      IN  /\ Handle!Cardinality(destroyers) <= 1
          /\ destroyers # {} => c \in alive /\ Handle!Holders(c) = {}
          /\ c \in alive /\ Handle!Holders(c) = {} /\ surplus[c] = 0 => destroyers # {}
  BY DEF Handle!LastHandleDestroys
<1> DEFINE D == {t \in HandleThreads : task[t] # Handle!NoTask /\ task[t].destroys /\ task[t].left = c}
<1>1. /\ \A t, u \in D : t = u
      /\ \A t \in D : c \in alive /\ Handle!Holders(c) = {}
      /\ c \in alive /\ Handle!Holders(c) = {} /\ surplus[c] = 0 => \E t \in HandleThreads : t \in D
  BY DEF HandleInv, DestroyersInv, Destroying, Works
<1>2. Handle!Cardinality(D) <= 1
  <2> HIDE DEF D
  <2>1. Handle!Cardinality(D) = Cardinality(D)
    BY Zenon DEF Handle!Cardinality, Cardinality, Handle!IsFiniteSet, IsFiniteSet
  <2>2. CASE D = {}
    BY <2>1, <2>2, FS_EmptySet
  <2>3. CASE D # {}
    <3>1. PICK t : t \in D
      BY <2>3
    <3>2. \A u \in D : u = t
      BY <1>1, <3>1
    <3>3. D = {t}
      BY <3>1, <3>2
    <3> QED BY <2>1, <3>3, FS_Singleton
  <2> QED BY <2>2, <2>3
<1> QED BY <1>1, <1>2

\* Shared handles: whatever threads do with their own, no handle points to destroyed contents,
\* the counter is the number of handles but for those lost in a move between handles of the same
\* contents, and the last handle destroys them, once.
THEOREM LastHandleAlwaysDestroys == DataSpec => []LastHandleDestroys
<1>1. DataInit => HandleInv
  BY InitHandles
<1>2. HandleInv => LastHandleDestroys
  BY OneDestroyer DEF HandleInv, HandleTypes, LastHandleDestroys
<1> QED BY <1>1, <1>2, StepKeepsHandles, PTL DEF DataSpec
-----------------------------------------------------------------------------
(* Facts about lists                                                         *)

LEMMA ListElements ==
    ASSUME NEW S, NEW seq \in Seq(S)
    PROVE  Len(seq) \in Nat /\ DOMAIN seq = 1..Len(seq) /\ \A i \in DOMAIN seq : seq[i] \in S
OBVIOUS

\* What a list names, and that it names nothing twice.
Items(c) == {c[p] : p \in DOMAIN c}

Once(c) == \A p, q \in DOMAIN c : c[p] = c[q] => p = q

LEMMA FunctionsAreLists ==
    ASSUME NEW S, NEW k \in Nat, NEW f \in [1..k -> S]
    PROVE  f \in Seq(S)
OBVIOUS

LEMMA LeastOfNaturals ==
    ASSUME NEW S \in SUBSET Nat, S # {}
    PROVE  \E m \in S : \A k \in S : m <= k
<1>1. PICK m \in S : \A k \in S : <<k, m>> \notin OpToRel(<, Nat)
  BY NatLessThanWellFounded, WFMin
<1>2. ASSUME NEW k \in S, k < m PROVE FALSE
  <2>1. k \in Nat /\ m \in Nat
    OBVIOUS
  <2>2. <<k, m>> \in OpToRel(<, Nat)
    <3>1. <<k, m>> \in Nat \X Nat /\ <<k, m>>[1] < <<k, m>>[2]
      BY <1>2, <2>1
    <3> QED BY <3>1, Zenon DEF OpToRel
  <2> QED BY <1>1, <2>2
<1>3. \A k \in S : k \in Nat /\ m \in Nat
  OBVIOUS
<1>4. \A k \in S : m <= k
  BY <1>2, <1>3
<1> QED BY <1>4

LEMMA Appending ==
    ASSUME NEW S, NEW c \in Seq(S), NEW d \in Seq(S)
    PROVE  /\ c \o d \in Seq(S) /\ Len(c \o d) = Len(c) + Len(d)
           /\ \A p \in DOMAIN c : p \in DOMAIN (c \o d) /\ (c \o d)[p] = c[p]
           /\ \A q \in DOMAIN d : Len(c) + q \in DOMAIN (c \o d) /\ (c \o d)[Len(c) + q] = d[q]
           /\ \A p \in DOMAIN (c \o d) :
                (p \in DOMAIN c /\ (c \o d)[p] = c[p])
                \/ (p - Len(c) \in DOMAIN d /\ (c \o d)[p] = d[p - Len(c)])
OBVIOUS

LEMMA AppendedItems ==
    ASSUME NEW S, NEW c \in Seq(S), NEW d \in Seq(S)
    PROVE  /\ Items(c \o d) = Items(c) \cup Items(d)
           /\ Once(c) /\ Once(d) /\ Items(c) \cap Items(d) = {} => Once(c \o d)
           /\ Once(c \o d) => Once(c) /\ Once(d) /\ Items(c) \cap Items(d) = {}
<1> DEFINE e == c \o d
           n == Len(c)
<1>1. n \in Nat /\ DOMAIN c = 1..n /\ Len(d) \in Nat /\ DOMAIN d = 1..Len(d)
      /\ Len(e) = n + Len(d) /\ DOMAIN e = 1..(n + Len(d))
  OBVIOUS
<1>2. /\ \A p \in DOMAIN c : p \in DOMAIN e /\ e[p] = c[p]
      /\ \A q \in DOMAIN d : n + q \in DOMAIN e /\ e[n + q] = d[q]
  OBVIOUS
<1>3. \A p \in DOMAIN e : (p \in DOMAIN c /\ e[p] = c[p]) \/ (p - n \in DOMAIN d /\ e[p] = d[p - n])
  OBVIOUS
<1> HIDE DEF e, n
<1>4. Items(e) = Items(c) \cup Items(d)
  BY <1>2, <1>3 DEF Items
<1>5. ASSUME Once(c), Once(d), Items(c) \cap Items(d) = {} PROVE Once(e)
  <2> SUFFICES ASSUME NEW p \in DOMAIN e, NEW q \in DOMAIN e, e[p] = e[q] PROVE p = q
    BY DEF Once
  <2>1. p \in Nat /\ q \in Nat
    BY <1>1
  <2>2. CASE p \in DOMAIN c /\ e[p] = c[p] /\ q \in DOMAIN c /\ e[q] = c[q]
    BY <1>5, <2>2 DEF Once
  <2>3. CASE p - n \in DOMAIN d /\ e[p] = d[p - n] /\ q - n \in DOMAIN d /\ e[q] = d[q - n]
    <3>1. p - n = q - n
      BY <1>5, <2>3 DEF Once
    <3> QED BY <1>1, <2>1, <3>1
  <2>4. CASE p \in DOMAIN c /\ e[p] = c[p] /\ q - n \in DOMAIN d /\ e[q] = d[q - n]
    BY <1>5, <2>4 DEF Items
  <2>5. CASE p - n \in DOMAIN d /\ e[p] = d[p - n] /\ q \in DOMAIN c /\ e[q] = c[q]
    BY <1>5, <2>5 DEF Items
  <2> QED BY <1>3, <2>2, <2>3, <2>4, <2>5
<1>6. ASSUME Once(e) PROVE Once(c) /\ Once(d) /\ Items(c) \cap Items(d) = {}
  <2>1. Once(c)
    BY <1>2, <1>6 DEF Once
  <2>2. ASSUME NEW p \in DOMAIN d, NEW q \in DOMAIN d, d[p] = d[q] PROVE p = q
    <3>1. n + p = n + q
      BY <1>2, <1>6, <2>2 DEF Once
    <3> QED BY <1>1, <3>1
  <2>3. ASSUME NEW p \in DOMAIN c, NEW q \in DOMAIN d, c[p] = d[q] PROVE FALSE
    <3>1. p = n + q
      BY <1>2, <1>6, <2>3 DEF Once
    <3> QED BY <1>1, <3>1
  <2> QED BY <2>1, <2>2, <2>3 DEF Once, Items
<1> QED BY <1>4, <1>5, <1>6 DEF e

LEMMA Splitting ==
    ASSUME NEW S, NEW c \in Seq(S), NEW n \in 1..(Len(c) + 1)
    PROVE  LET a == SubSeq(c, 1, n - 1)
               b == SubSeq(c, n, Len(c))
           IN  /\ a \in Seq(S) /\ Len(a) = n - 1 /\ b \in Seq(S) /\ Len(b) = Len(c) - (n - 1)
               /\ a \o b = c
               /\ \A p \in DOMAIN a : p \in DOMAIN c /\ a[p] = c[p]
               /\ \A p \in DOMAIN b : n - 1 + p \in DOMAIN c /\ b[p] = c[n - 1 + p]
<1> DEFINE a == SubSeq(c, 1, n - 1)
           b == SubSeq(c, n, Len(c))
<1>1. a \in Seq(S) /\ Len(a) = n - 1 /\ \A p \in 1..(n - 1) : p \in DOMAIN c /\ a[p] = c[p]
  OBVIOUS
<1>2. b \in Seq(S) /\ Len(b) = Len(c) - (n - 1)
      /\ \A p \in 1..(Len(c) - (n - 1)) : n - 1 + p \in DOMAIN c /\ b[p] = c[n - 1 + p]
  OBVIOUS
<1> HIDE DEF a, b
<1>3. a \o b \in Seq(S) /\ Len(a \o b) = Len(c)
  BY <1>1, <1>2
<1>4. \A p \in 1..Len(c) : (a \o b)[p] = c[p]
  <2> TAKE p \in 1..Len(c)
  <2>1. CASE p <= n - 1
    BY <1>1, <1>2, <2>1
  <2>2. CASE p > n - 1
    <3>1. (a \o b)[p] = b[p - (n - 1)]
      BY <1>1, <1>2, <2>2
    <3>2. p - (n - 1) \in 1..(Len(c) - (n - 1)) /\ n - 1 + (p - (n - 1)) = p
      BY <2>2
    <3> QED BY <1>2, <3>1, <3>2
  <2>3. p \in Int /\ n \in Int
    OBVIOUS
  <2>4. p <= n - 1 \/ p > n - 1
    BY <2>3
  <2> QED BY <2>1, <2>2, <2>4, Zenon
<1>5. a \o b = c
  BY <1>3, <1>4, SeqEqual
<1>6. DOMAIN a = 1..(n - 1) /\ DOMAIN b = 1..(Len(c) - (n - 1))
  BY <1>1, <1>2
<1>7. /\ a \in Seq(S) /\ Len(a) = n - 1 /\ b \in Seq(S) /\ Len(b) = Len(c) - (n - 1)
      /\ a \o b = c
      /\ \A p \in DOMAIN a : p \in DOMAIN c /\ a[p] = c[p]
      /\ \A p \in DOMAIN b : n - 1 + p \in DOMAIN c /\ b[p] = c[n - 1 + p]
  <2>1. \A p \in DOMAIN a : p \in DOMAIN c /\ a[p] = c[p]
    BY <1>1, <1>6
  <2>2. \A p \in DOMAIN b : n - 1 + p \in DOMAIN c /\ b[p] = c[n - 1 + p]
    BY <1>2, <1>6
  <2> QED BY <1>1, <1>2, <1>5, <2>1, <2>2
<1> QED BY <1>7, Zenon DEF a, b

LEMMA TurnedRound ==
    ASSUME NEW S, NEW c \in Seq(S)
    PROVE  LET r == [i \in 1..Len(c) |-> c[(Len(c) - i) + 1]]
           IN  r \in Seq(S) /\ Len(r) = Len(c) /\ Items(r) = Items(c) /\ (Once(c) => Once(r))
<1> DEFINE n == Len(c)
           r == [i \in 1..n |-> c[(n - i) + 1]]
<1>1. n \in Nat /\ DOMAIN c = 1..n /\ \A i \in 1..n : c[i] \in S /\ (n - i) + 1 \in 1..n /\ (n - ((n - i) + 1)) + 1 = i
  OBVIOUS
<1> HIDE DEF n
<1>2. r \in Seq(S) /\ Len(r) = n /\ DOMAIN r = 1..n
  BY <1>1
<1>3. \A i \in 1..n : r[i] = c[(n - i) + 1]
  OBVIOUS
<1>4. \A i \in 1..n : r[(n - i) + 1] = c[i]
  BY <1>1, <1>3
<1> HIDE DEF r
<1>5. Items(r) = Items(c)
  <2>1. ASSUME NEW i \in 1..n PROVE r[i] \in Items(c)
    BY <1>1, <1>3 DEF Items
  <2>2. ASSUME NEW i \in 1..n PROVE c[i] \in Items(r)
    BY <1>1, <1>2, <1>4 DEF Items
  <2>3. Items(c) = {c[i] : i \in 1..n} /\ Items(r) = {r[i] : i \in 1..n}
    BY <1>1, <1>2 DEF Items
  <2> QED BY <2>1, <2>2, <2>3
<1>6. ASSUME Once(c), NEW p \in 1..n, NEW q \in 1..n, r[p] = r[q] PROVE p = q
  <2>1. (n - p) + 1 = (n - q) + 1
    BY <1>1, <1>3, <1>6 DEF Once
  <2> QED BY <1>1, <2>1
<1>7. Once(c) => Once(r)
  BY <1>2, <1>6 DEF Once
<1> QED BY <1>2, <1>5, <1>7 DEF r, n

LEMMA Removing ==
    ASSUME NEW S, NEW f \in Seq(S), NEW r \in DOMAIN f
    PROVE  LET g == SubSeq(f, 1, r - 1) \o SubSeq(f, r + 1, Len(f))
           IN  /\ g \in Seq(S) /\ Len(g) = Len(f) - 1
               /\ Once(f) => Once(g) /\ Items(g) = Items(f) \ {f[r]}
<1> DEFINE a == SubSeq(f, 1, r - 1)
           b == SubSeq(f, r, Len(f))
           d == SubSeq(f, r + 1, Len(f))
           x == f[r]
<1>1. r \in 1..(Len(f) + 1) /\ r + 1 \in 1..(Len(f) + 1) /\ Len(f) \in Nat /\ r \in 1..Len(f) /\ x \in S
  OBVIOUS
<1>2. /\ a \in Seq(S) /\ Len(a) = r - 1 /\ b \in Seq(S) /\ Len(b) = Len(f) - (r - 1)
      /\ a \o b = f /\ \A i \in DOMAIN b : b[i] = f[r - 1 + i]
  BY <1>1, Splitting, Zenon
<1>3. d \in Seq(S) /\ Len(d) = Len(f) - r /\ \A i \in 1..(Len(f) - r) : d[i] = f[r + i]
  BY <1>1
<1> HIDE DEF a, b, d, x
<1>4. b = <<x>> \o d
  <2>1. Len(<<x>> \o d) = Len(b) /\ <<x>> \o d \in Seq(S)
    <3>1. <<x>> \in Seq(S) /\ Len(<<x>>) = 1
      BY <1>1
    <3>2. <<x>> \o d \in Seq(S) /\ Len(<<x>> \o d) = 1 + Len(d)
      BY <1>3, <3>1
    <3> QED BY <1>1, <1>2, <1>3, <3>2, SMTT(20)
  <2>2. \A i \in 1..Len(b) : b[i] = (<<x>> \o d)[i]
    <3> TAKE i \in 1..Len(b)
    <3>1. i \in DOMAIN b /\ i \in Int /\ b[i] = f[r - 1 + i]
      BY <1>2
    <3>2. CASE i = 1
      <4>1. (<<x>> \o d)[1] = x /\ r - 1 + 1 = r
        BY <1>1, <1>3
      <4> QED BY <3>1, <3>2, <4>1 DEF x
    <3>3. CASE i # 1
      <4>1. i - 1 \in 1..(Len(f) - r) /\ r - 1 + i = r + (i - 1)
        <5>1. i \in 1..(Len(f) - (r - 1))
          BY <1>2
        <5>2. r \in Int /\ Len(f) \in Int /\ i \in Int /\ i >= 1 /\ i <= Len(f) - (r - 1)
          BY <1>1, <3>1, <5>1
        <5>3. i - 1 >= 1 /\ i - 1 <= Len(f) - r /\ r - 1 + i = r + (i - 1) /\ i - 1 \in Int
          BY <3>3, <5>2
        <5> QED BY <5>3
      <4>2. (<<x>> \o d)[1 + (i - 1)] = d[i - 1]
        <5>1. i - 1 \in DOMAIN d
          BY <1>3, <4>1
        <5>2. <<x>> \in Seq(S) /\ Len(<<x>>) = 1
          BY <1>1
        <5>3. (<<x>> \o d)[Len(<<x>>) + (i - 1)] = d[i - 1]
          <6>1. \A q \in DOMAIN d : (<<x>> \o d)[Len(<<x>>) + q] = d[q]
            <7>1. d \in Seq(S) /\ <<x>> \in Seq(S)
              BY <1>3, <5>2
            <7>2. \A e \in Seq(S), g \in Seq(S) : \A q \in DOMAIN g : (e \o g)[Len(e) + q] = g[q]
              BY Appending
            <7> QED BY <7>1, <7>2
          <6> QED BY <5>1, <6>1
        <5> QED BY <5>2, <5>3
      <4>3. 1 + (i - 1) = i
        BY <3>1
      <4> QED BY <1>3, <3>1, <4>1, <4>2, <4>3
    <3> QED BY <3>2, <3>3
  <2> QED BY <1>2, <2>1, <2>2, SeqEqual
<1>5. a \o d \in Seq(S) /\ Len(a \o d) = Len(f) - 1
  <2>1. a \o d \in Seq(S) /\ Len(a \o d) = Len(a) + Len(d)
    BY <1>2, <1>3, Appending, Zenon
  <2>2. r \in Int /\ Len(f) \in Int /\ Len(a) = r - 1 /\ Len(d) = Len(f) - r
    BY <1>1, <1>2, <1>3
  <2>3. Len(a) + Len(d) = Len(f) - 1
    BY <2>2
  <2> QED BY <2>1, <2>3
<1>6. <<x>> \in Seq(S) /\ Items(<<x>>) = {x}
  BY <1>1 DEF Items
<1>7. ASSUME Once(f) PROVE Once(a \o d) /\ Items(a \o d) = Items(f) \ {x}
  <2>1. Once(a) /\ Once(b) /\ Items(a) \cap Items(b) = {} /\ Items(f) = Items(a) \cup Items(b)
    <3>1. a \in Seq(S) /\ b \in Seq(S) /\ a \o b = f /\ Once(a \o b)
      BY <1>2, <1>7
    <3>2. Items(a \o b) = Items(a) \cup Items(b)
      BY <3>1, AppendedItems, ZenonT(40)
    <3>3. Once(a) /\ Once(b) /\ Items(a) \cap Items(b) = {}
      BY <3>1, AppendedItems, ZenonT(40)
    <3> QED BY <3>1, <3>2, <3>3
  <2>2. Once(d) /\ {x} \cap Items(d) = {} /\ Items(b) = {x} \cup Items(d)
    BY <1>3, <1>4, <1>6, <2>1, AppendedItems
  <2>3. Items(a \o d) = Items(a) \cup Items(d) /\ Once(a \o d)
    BY <1>2, <1>3, <2>1, <2>2, AppendedItems
  <2> QED BY <2>1, <2>2, <2>3
<1> QED BY <1>5, <1>7 DEF a, d, x

LEMMA InFront ==
    ASSUME NEW S, NEW c \in Seq(S), NEW x \in S
    PROVE  LET d == <<x>> \o c
           IN  /\ d \in Seq(S) /\ d # <<>> /\ Len(d) = Len(c) + 1 /\ Head(d) = x
               /\ Items(d) = Items(c) \cup {x}
               /\ Once(c) /\ x \notin Items(c) => Once(d)
               /\ c # <<>> => d[Len(d)] = c[Len(c)]
<1> DEFINE d == <<x>> \o c
<1>1. <<x>> \in Seq(S) /\ Items(<<x>>) = {x} /\ Once(<<x>>) /\ Len(<<x>>) = 1
  BY DEF Items, Once
<1>2. d \in Seq(S) /\ d # <<>> /\ Len(d) = Len(c) + 1 /\ Head(d) = x
  OBVIOUS
<1>3. Items(d) = Items(c) \cup {x} /\ (Once(c) /\ x \notin Items(c) => Once(d))
  <2>1. /\ Items(<<x>> \o c) = Items(<<x>>) \cup Items(c)
        /\ Once(<<x>>) /\ Once(c) /\ Items(<<x>>) \cap Items(c) = {} => Once(<<x>> \o c)
    BY <1>1, AppendedItems, ZenonT(40)
  <2> HIDE DEF d
  <2>2. Items(d) = Items(<<x>>) \cup Items(c)
    BY <2>1 DEF d
  <2>3. Once(c) /\ x \notin Items(c) => Items(<<x>>) \cap Items(c) = {}
    BY <1>1
  <2> QED BY <1>1, <2>1, <2>2, <2>3 DEF d
<1>4. c # <<>> => d[Len(d)] = c[Len(c)]
  OBVIOUS
<1> QED BY <1>2, <1>3, <1>4

\* Buffer i is j or was filled before it.
Below(i, j, c) == \E p, q \in DOMAIN c : p <= q /\ c[p] = j /\ c[q] = i

LEMMA BelowStays ==
    ASSUME NEW S, NEW c \in Seq(S), NEW x \in S, NEW i, NEW j, Below(i, j, c)
    PROVE  Below(i, j, <<x>> \o c)
<1> DEFINE d == <<x>> \o c
<1>1. PICK p, q \in DOMAIN c : p <= q /\ c[p] = j /\ c[q] = i
  BY DEF Below
<1>2. p \in Nat /\ q \in Nat /\ \A k \in DOMAIN c : 1 + k \in DOMAIN d /\ d[1 + k] = c[k]
  OBVIOUS
<1> HIDE DEF d
<1>3. 1 + p \in DOMAIN d /\ d[1 + p] = j /\ 1 + q \in DOMAIN d /\ d[1 + q] = i /\ 1 + p <= 1 + q
  BY <1>1, <1>2
<1> QED BY <1>3 DEF Below, d

LEMMA BelowBehind ==
    ASSUME NEW S, NEW c \in Seq(S), Once(c), NEW n \in DOMAIN c, NEW i, NEW j, Below(i, j, c),
           j \in Items(SubSeq(c, n, Len(c)))
    PROVE  Below(i, j, SubSeq(c, n, Len(c)))
<1> DEFINE b == SubSeq(c, n, Len(c))
<1>1. PICK p, q \in DOMAIN c : p <= q /\ c[p] = j /\ c[q] = i
  BY DEF Below
<1>2. PICK k \in DOMAIN b : b[k] = j
  BY DEF Items
<1>3. DOMAIN b = 1..(Len(c) - (n - 1)) /\ \A k2 \in DOMAIN b : b[k2] = c[n - 1 + k2] /\ n - 1 + k2 \in DOMAIN c
  OBVIOUS
<1>4. n \in Nat /\ Len(c) \in Nat /\ DOMAIN c = 1..Len(c)
  OBVIOUS
<1> HIDE DEF b
<1>5. p = n - 1 + k
  BY <1>1, <1>2, <1>3 DEF Once
<1>6. p - (n - 1) \in DOMAIN b /\ q - (n - 1) \in DOMAIN b /\ p - (n - 1) <= q - (n - 1)
  BY <1>1, <1>3, <1>4, <1>5
<1>7. n - 1 + (p - (n - 1)) = p /\ n - 1 + (q - (n - 1)) = q
  BY <1>4, <1>1
<1>8. b[p - (n - 1)] = j /\ b[q - (n - 1)] = i
  BY <1>1, <1>3, <1>6, <1>7
<1> QED BY <1>6, <1>8 DEF Below, b

LEMMA BelowOnce ==
    ASSUME NEW S, NEW c \in Seq(S), Once(c), NEW i, NEW j, NEW k, Below(i, j, c), Below(j, k, c)
    PROVE  Below(i, k, c)
<1>1. PICK p, q \in DOMAIN c : p <= q /\ c[p] = j /\ c[q] = i
  BY DEF Below
<1>2. PICK r, s \in DOMAIN c : r <= s /\ c[r] = k /\ c[s] = j
  BY DEF Below
<1>3. s = p
  BY <1>1, <1>2 DEF Once
<1>4. p \in Nat /\ q \in Nat /\ r \in Nat
  OBVIOUS
<1>5. r <= q
  BY <1>1, <1>2, <1>3, <1>4
<1> QED BY <1>1, <1>2, <1>5 DEF Below

-----------------------------------------------------------------------------
(* MonoAllocator                                                             *)

EndsAligned(end) == \A a \in MonoAlignments : end % a = 0

\* The buffers bs, each filled up to a place between its header and its end.
Sound(bs) ==
    /\ bs \in Seq([act : Nat, end : Nat])
    /\ \A i \in DOMAIN bs :
        MonoHeader <= bs[i].act /\ bs[i].act <= bs[i].end /\ EndsAligned(bs[i].end)

\* The allocator, in its first buffer.
SelfBlock == [buffer |-> 1, at |-> MonoHeader, size |-> MonoSelfSize, alignment |-> 1]

MonoBlocks == [buffer : Nat, at : Nat, size : Nat \ {0}, alignment : {1, 2, 4}]

\* The blocks ms lie where the buffers bs are filled, aligned and apart; own tells whether one
\* of them is the allocator itself.
Placed(bs, ms, own) ==
    /\ ms \subseteq MonoBlocks
    /\ \A m \in ms : /\ m.buffer \in DOMAIN bs
                     /\ MonoHeader <= m.at /\ m.at + m.size <= bs[m.buffer].act
                     /\ m.at % m.alignment = 0
                     /\ m.alignment \in MonoAlignments \/ (own /\ m = SelfBlock)
    /\ \A m, n \in ms :
        m # n /\ m.buffer = n.buffer => m.at + m.size <= n.at \/ n.at + n.size <= m.at
    /\ own => SelfBlock \in ms

\* Each buffer is in one place of one of the two lists, the first buffer at the end of the chain.
ListedOnce(bs, c, f) ==
    /\ c \in Seq(DOMAIN bs) /\ f \in Seq(DOMAIN bs)
    /\ c # <<>> /\ c[Len(c)] = 1
    /\ Once(c) /\ Once(f)
    /\ Items(c) \cap Items(f) = {} /\ Items(c) \cup Items(f) = DOMAIN bs
    /\ Len(c) + Len(f) = Len(bs)

MonoSnapshots == [buffer : Nat, actFill : Nat, covers : SUBSET MonoBlocks]

\* A snapshot covers what lies below it.
SnapshotFits(s, bs, c, own) ==
    /\ s.buffer \in Items(c)
    /\ MonoHeader <= s.actFill /\ s.actFill <= bs[s.buffer].end
    /\ own => SelfBlock \in s.covers
    /\ \A m \in s.covers :
        /\ Below(m.buffer, s.buffer, c)
        /\ m.buffer = s.buffer => m.at + m.size <= s.actFill

Snapped(sn, bs, c, own) ==
    /\ sn \in Seq(MonoSnapshots)
    /\ \A k \in DOMAIN sn : SnapshotFits(sn[k], bs, c, own)
    /\ \A j, k \in DOMAIN sn : j < k => Below(sn[j].buffer, sn[k].buffer, c)

\* Buffers bs with blocks ms, listed in c and f.
Orderly(bs, ms, c, f, own) ==
    /\ Sound(bs)
    /\ ListedOnce(bs, c, f)
    /\ \A i \in Items(f) : bs[i].act = MonoHeader
    /\ Placed(bs, ms, own)
    /\ \A m \in ms : m.buffer \in Items(c)

InUse ==
    /\ nextBuffersUsableSize \in Nat /\ EndsAligned(nextBuffersUsableSize)
    /\ self \in BOOLEAN /\ external \in BOOLEAN
    /\ chain # <<>>
    /\ Orderly(buffers, blocks, chain, recyclables, self)
    /\ Snapped(snapshots, buffers, chain, self)

Destructed ==
    /\ nextBuffersUsableSize \in Nat
    /\ self \in BOOLEAN /\ external \in BOOLEAN
    /\ chain = <<>> /\ recyclables = <<>> /\ blocks = {}
    /\ Sound(buffers)
    /\ Mono!DestructFreesAll

MonoInv == component = "MonoAllocator" => InUse \/ Destructed

\* The constants, as the proofs use them.
LEMMA MonoConstants ==
    /\ MonoHeader \in Nat /\ MonoFirstSize \in Nat /\ MonoSelfSize \in Nat \ {0}
    /\ MonoFirstSize > MonoHeader + MonoSelfSize
    /\ MonoGrowth \in Nat /\ MonoGrowth % 100 = 0 /\ MonoSizeRange \in Nat \ {0}
    /\ MonoSizes \subseteq Nat \ {0} /\ MonoAlignments \subseteq {1, 2, 4}
    /\ EndsAligned(MonoFirstSize)
    /\ \A s \in MonoSizes, b \in MonoAlignments : EndsAligned(s + Mono!firstOffset(MonoHeader, b) + b)
BY MonoAssumption DEF Mono!MonoAllocatorAssumption, Mono!BuffersEndAligned, EndsAligned

\* Aligning moves up, and not behind an aligned end.
LEMMA Aligning ==
    ASSUME NEW x \in Nat, NEW a \in {1, 2, 4}
    PROVE  /\ Mono!firstOffset(x, a) \in Nat /\ Mono!firstOffset(x, a) >= x
           /\ Mono!firstOffset(x, a) % a = 0
           /\ \A e \in Nat : e % a = 0 /\ x <= e => Mono!firstOffset(x, a) <= e
<1>1. CASE a = 1
  BY <1>1 DEF Mono!firstOffset
<1>2. CASE a = 2
  BY <1>2 DEF Mono!firstOffset
<1>3. CASE a = 4
  BY <1>3 DEF Mono!firstOffset
<1> QED BY <1>1, <1>2, <1>3

\* What fits does lie before the end: the difference that the code takes modulo the range of
\* size_t is not negative.
LEMMA FitsBeforeEnd ==
    ASSUME NEW b \in [act : Nat, end : Nat], b.act <= b.end, EndsAligned(b.end),
           NEW a \in MonoAlignments, NEW n \in Nat, Mono!fits(b, n, a)
    PROVE  Mono!aligned(b, a) + n <= b.end
<1>1. a \in {1, 2, 4} /\ b.end % a = 0 /\ b.act \in Nat /\ b.end \in Nat
  BY MonoConstants DEF EndsAligned
<1>2. Mono!aligned(b, a) \in Nat /\ Mono!aligned(b, a) <= b.end
  BY <1>1, Aligning DEF Mono!aligned
<1>3. \A x \in Nat, r \in Nat \ {0} : x % r <= x /\ x % r \in Nat
  OBVIOUS
<1>4. (b.end - Mono!aligned(b, a)) % MonoSizeRange <= b.end - Mono!aligned(b, a)
  <2>1. b.end - Mono!aligned(b, a) \in Nat
    BY <1>1, <1>2
  <2> QED BY <1>3, <2>1, MonoConstants
<1>5. (b.end - Mono!aligned(b, a)) % MonoSizeRange \in Nat
  <2>1. b.end - Mono!aligned(b, a) \in Nat
    BY <1>1, <1>2
  <2> QED BY <1>3, <2>1, MonoConstants
<1>6. (b.end - Mono!aligned(b, a)) % MonoSizeRange >= n
  BY DEF Mono!fits
<1> QED BY <1>1, <1>2, <1>4, <1>5, <1>6

\* Buffer j has the space for a block, and all are the buffers with it.
Fills(all, block, bs, j, n, a) ==
    /\ Mono!aligned(bs[j], a) + n <= bs[j].end
    /\ all = [bs EXCEPT ![j] = Mono!Filled(bs[j], n, a)]
    /\ block = Mono!Block(j, bs[j], n, a)

LEMMA FillingEnds ==
    ASSUME NEW bs, NEW j \in DOMAIN bs, NEW a, NEW n, NEW all, NEW block, Sound(bs), Fills(all, block, bs, j, n, a)
    PROVE  DOMAIN all = DOMAIN bs /\ \A i \in DOMAIN bs : all[i].end = bs[i].end
<1>1. bs \in Seq([act : Nat, end : Nat])
  BY DEF Sound
<1>2. bs[j] \in [act : Nat, end : Nat]
  BY <1>1, ListElements
<1>3. \A b \in [act : Nat, end : Nat] : \A x : [b EXCEPT !.act = x].end = b.end
  OBVIOUS
<1>4. Mono!Filled(bs[j], n, a).end = bs[j].end
  BY <1>2, <1>3 DEF Mono!Filled
<1> QED BY <1>4 DEF Fills

\* Filling a buffer of the chain that has the space keeps all blocks apart.
LEMMA FillingKeeps ==
    ASSUME NEW bs, NEW ms, NEW c, NEW f, NEW own, Orderly(bs, ms, c, f, own), NEW j \in Items(c),
           NEW a \in MonoAlignments, NEW n \in Nat \ {0}, NEW all, NEW block, Fills(all, block, bs, j, n, a)
    PROVE  Orderly(all, ms \cup {block}, c, f, own)
<1>0. /\ Sound(bs) /\ Placed(bs, ms, own) /\ ListedOnce(bs, c, f) /\ j \in DOMAIN bs
      /\ \A i \in Items(f) : bs[i].act = MonoHeader /\ i \in DOMAIN bs /\ i # j
      /\ \A m \in ms : m.buffer \in Items(c)
  BY DEF Orderly, ListedOnce
<1> DEFINE at == Mono!aligned(bs[j], a)
           filled == [act |-> at + n, end |-> bs[j].end]
<1>1. /\ bs \in Seq([act : Nat, end : Nat]) /\ bs[j] \in [act : Nat, end : Nat]
      /\ MonoHeader <= bs[j].act /\ bs[j].act <= bs[j].end /\ EndsAligned(bs[j].end)
      /\ j \in Nat /\ a \in {1, 2, 4} /\ MonoHeader \in Nat
  <2>1. bs \in Seq([act : Nat, end : Nat])
    BY <1>0 DEF Sound
  <2>2. DOMAIN bs = 1..Len(bs) /\ \A i \in DOMAIN bs : bs[i] \in [act : Nat, end : Nat]
    BY <2>1, ListElements
  <2> QED BY <1>0, <2>1, <2>2, MonoConstants DEF Sound
<1>2. at \in Nat /\ bs[j].act <= at /\ at % a = 0 /\ at + n <= bs[j].end
  BY <1>1, Aligning DEF Mono!aligned, Fills
<1>4. all = [bs EXCEPT ![j] = filled] /\ block = [buffer |-> j, at |-> at, size |-> n, alignment |-> a]
  <2>1. Mono!Filled(bs[j], n, a) = filled
    <3>1. \A b \in [act : Nat, end : Nat] : \A x : [b EXCEPT !.act = x] = [act |-> x, end |-> b.end]
      OBVIOUS
    <3> QED BY <1>1, <3>1 DEF Mono!Filled
  <2> QED BY <2>1 DEF Mono!Block, Fills
<1> HIDE DEF at
<1>3. filled \in [act : Nat, end : Nat] /\ block \in MonoBlocks
  BY <1>1, <1>2, <1>4 DEF MonoBlocks
<1>5. /\ all \in Seq([act : Nat, end : Nat]) /\ DOMAIN all = DOMAIN bs /\ Len(all) = Len(bs)
      /\ all[j] = filled /\ \A i \in DOMAIN bs : i # j => all[i] = bs[i]
  BY <1>0, <1>1, <1>3, <1>4
<1>6. /\ all[j].act = at + n /\ all[j].end = bs[j].end
      /\ \A i \in DOMAIN bs : all[i].end = bs[i].end /\ bs[i].act <= all[i].act
  <2>1. all[j].act = at + n /\ all[j].end = bs[j].end
    BY <1>5
  <2>2. bs \in Seq([act : Nat, end : Nat])
    BY <1>1
  <2>3. \A i \in DOMAIN bs : bs[i] \in [act : Nat, end : Nat]
    BY <2>2, ListElements
  <2>4. \A i \in DOMAIN bs : bs[i].act \in Nat
    BY <2>3
  <2>5. \A i \in DOMAIN bs : all[i].end = bs[i].end
    BY <1>5, <2>1
  <2>6. \A i \in DOMAIN bs : bs[i].act <= all[i].act
    <3>1. bs[j].act <= all[j].act
      BY <1>0, <1>1, <1>2, <2>1, <2>4
    <3>2. \A i \in DOMAIN bs : i # j => bs[i].act <= all[i].act
      BY <1>5, <2>4
    <3> QED BY <3>1, <3>2
  <2> QED BY <2>1, <2>5, <2>6
<1> HIDE DEF filled
<1>61. \A i \in DOMAIN bs : /\ bs[i].act \in Nat /\ bs[i].end \in Nat
                            /\ all[i].act \in Nat /\ all[i].end \in Nat
  <2>0. bs \in Seq([act : Nat, end : Nat]) /\ all \in Seq([act : Nat, end : Nat])
    BY <1>1, <1>5
  <2>1. \A i \in DOMAIN bs : bs[i] \in [act : Nat, end : Nat]
    BY <2>0, ListElements
  <2>2. \A i \in DOMAIN all : all[i] \in [act : Nat, end : Nat]
    BY <2>0, ListElements
  <2> QED BY <1>5, <2>1, <2>2
<1>7. Sound(all)
  <2>1. ASSUME NEW i \in DOMAIN bs
        PROVE  MonoHeader <= all[i].act /\ all[i].act <= all[i].end /\ EndsAligned(all[i].end)
    <3>1. MonoHeader <= bs[i].act /\ bs[i].act <= bs[i].end /\ EndsAligned(bs[i].end)
      BY <1>0 DEF Sound
    <3>2. all[i].end = bs[i].end /\ bs[i].act <= all[i].act
      BY <1>6
    <3>3. CASE i = j
      BY <1>1, <1>2, <1>6, <1>61, <3>1, <3>2, <3>3
    <3>4. CASE i # j
      BY <1>5, <3>1, <3>4
    <3> QED BY <3>3, <3>4
  <2> QED BY <1>5, <2>1 DEF Sound
<1>8. block.buffer = j /\ block.at = at /\ block.size = n /\ block.alignment = a
  BY <1>4
<1>9. \A m \in ms :
        /\ m \in MonoBlocks /\ m.buffer \in DOMAIN bs
        /\ MonoHeader <= m.at /\ m.at + m.size <= bs[m.buffer].act
        /\ m.at % m.alignment = 0
        /\ m.alignment \in MonoAlignments \/ (own /\ m = SelfBlock)
  BY <1>0 DEF Placed
<1>10. \A m \in ms : m.at + m.size <= all[m.buffer].act
  <2> TAKE m \in ms
  <2>1. m.at + m.size \in Nat /\ bs[m.buffer].act \in Nat /\ all[m.buffer].act \in Nat
    BY <1>9, <1>61 DEF MonoBlocks
  <2> QED BY <1>6, <1>9, <2>1
<1>11. \A m \in ms : m.buffer = j => m.at + m.size <= block.at
  <2> TAKE m \in ms
  <2>1. m.at + m.size \in Nat /\ bs[j].act \in Nat
    <3>1. bs[j].act \in Nat
      BY <1>1
    <3>2. m \in MonoBlocks
      BY <1>9
    <3> QED BY <3>1, <3>2 DEF MonoBlocks
  <2> QED BY <1>2, <1>8, <1>9, <2>1
<1>12. Placed(all, ms \cup {block}, own)
  <2>1. ms \cup {block} \subseteq MonoBlocks
    BY <1>3, <1>9
  <2>2. ASSUME NEW m \in ms \cup {block}
        PROVE /\ m.buffer \in DOMAIN all
              /\ MonoHeader <= m.at /\ m.at + m.size <= all[m.buffer].act
              /\ m.at % m.alignment = 0
              /\ m.alignment \in MonoAlignments \/ (own /\ m = SelfBlock)
    <3>1. CASE m \in ms
      BY <1>5, <1>9, <1>10, <3>1
    <3>2. CASE m = block
      <4>1. MonoHeader <= at
        BY <1>1, <1>2
      <4>2. block.at + block.size = all[j].act /\ j \in DOMAIN all
        BY <1>0, <1>5, <1>6, <1>8
      <4>3. all[j].act <= all[j].act
        BY <1>0, <1>61
      <4> QED BY <1>2, <1>8, <3>2, <4>1, <4>2, <4>3
    <3> QED BY <3>1, <3>2
  <2>3. ASSUME NEW m \in ms \cup {block}, NEW k \in ms \cup {block}, m # k, m.buffer = k.buffer
        PROVE m.at + m.size <= k.at \/ k.at + k.size <= m.at
    <3>1. CASE m \in ms /\ k \in ms
      BY <1>0, <2>3, <3>1 DEF Placed
    <3>2. CASE m = block \/ k = block
      BY <1>8, <1>11, <2>3, <3>2
    <3> QED BY <3>1, <3>2
  <2>4. own => SelfBlock \in ms \cup {block}
    BY <1>0 DEF Placed
  <2> QED BY <2>1, <2>2, <2>3, <2>4 DEF Placed
<1>13. ListedOnce(all, c, f)
  BY <1>0, <1>5 DEF ListedOnce
<1>14. \A i \in Items(f) : all[i].act = MonoHeader
  BY <1>0, <1>5
<1>15. \A m \in ms \cup {block} : m.buffer \in Items(c)
  BY <1>0, <1>8
<1>16. Orderly(all, ms \cup {block}, c, f, own)
  BY <1>7, <1>12, <1>13, <1>14, <1>15 DEF Orderly
<1> QED BY <1>16

\* A recyclable buffer becomes the current one.
LEMMA ReusingKeeps ==
    ASSUME NEW bs, NEW ms, NEW c, NEW f, NEW own, Orderly(bs, ms, c, f, own), NEW r \in DOMAIN f
    PROVE  Orderly(bs, ms, <<f[r]>> \o c, Mono!RemoveAt(f, r), own)
<1> DEFINE d == <<f[r]>> \o c
           g == Mono!RemoveAt(f, r)
<1>1. /\ Sound(bs) /\ Placed(bs, ms, own)
      /\ \A i \in Items(f) : bs[i].act = MonoHeader
      /\ \A m \in ms : m.buffer \in Items(c)
  BY DEF Orderly
<1>2. /\ c \in Seq(DOMAIN bs) /\ f \in Seq(DOMAIN bs)
      /\ c # <<>> /\ c[Len(c)] = 1
      /\ Once(c) /\ Once(f)
      /\ Items(c) \cap Items(f) = {} /\ Items(c) \cup Items(f) = DOMAIN bs
      /\ Len(c) + Len(f) = Len(bs)
  BY DEF Orderly, ListedOnce
<1>3. f[r] \in DOMAIN bs /\ f[r] \in Items(f)
  BY <1>2 DEF Items
<1>4. /\ d \in Seq(DOMAIN bs) /\ d # <<>> /\ Len(d) = Len(c) + 1
      /\ Items(d) = Items(c) \cup {f[r]} /\ Once(d) /\ d[Len(d)] = 1
  <2>1. f[r] \notin Items(c)
    BY <1>2, <1>3
  <2> HIDE DEF d
  <2> QED BY <1>2, <1>3, <2>1, InFront DEF d
<1>5. g \in Seq(DOMAIN bs) /\ Len(g) = Len(f) - 1 /\ Once(g) /\ Items(g) = Items(f) \ {f[r]}
  <2>1. g = SubSeq(f, 1, r - 1) \o SubSeq(f, r + 1, Len(f))
    BY DEF Mono!RemoveAt
  <2> HIDE DEF g
  <2>2. f \in Seq(DOMAIN bs) /\ Once(f)
    BY <1>2
  <2> QED BY <2>1, <2>2, Removing
<1>6. Len(c) \in Nat /\ Len(f) \in Nat /\ Len(c) + Len(f) = Len(bs)
  <2>1. c \in Seq(DOMAIN bs) /\ f \in Seq(DOMAIN bs)
    BY <1>2
  <2>2. Len(c) \in Nat /\ Len(f) \in Nat
    BY <2>1
  <2> QED BY <1>2, <2>2
<1> HIDE DEF d, g
<1>7. ListedOnce(bs, d, g)
  <2>1. Len(d) + Len(g) = Len(bs)
    <3>1. Len(d) = Len(c) + 1 /\ Len(g) = Len(f) - 1
      BY <1>4, <1>5
    <3> QED BY <1>6, <3>1
  <2>2. Items(d) \cap Items(g) = {} /\ Items(d) \cup Items(g) = DOMAIN bs
    BY <1>2, <1>3, <1>4, <1>5
  <2> QED BY <1>4, <1>5, <2>1, <2>2 DEF ListedOnce
<1>8. Orderly(bs, ms, d, g, own)
  BY <1>1, <1>4, <1>5, <1>7 DEF Orderly
<1> QED BY <1>8 DEF d, g

\* A new buffer becomes the current one.
LEMMA GrowingKeeps ==
    ASSUME NEW bs, NEW ms, NEW c, NEW f, NEW own, Orderly(bs, ms, c, f, own),
           NEW s \in Nat, EndsAligned(s), MonoHeader <= s
    PROVE  LET all == Append(bs, Mono!NewBuffer(s))
           IN  /\ Orderly(all, ms, <<Len(bs) + 1>> \o c, f, own)
               /\ DOMAIN bs \subseteq DOMAIN all /\ \A i \in DOMAIN bs : all[i] = bs[i]
               /\ all[Len(bs) + 1] = [act |-> MonoHeader, end |-> s]
<1> DEFINE x == Len(bs) + 1
           b == [act |-> MonoHeader, end |-> s]
           all == Append(bs, b)
           d == <<x>> \o c
<1>1. /\ bs \in Seq([act : Nat, end : Nat])
      /\ \A i \in DOMAIN bs :
            MonoHeader <= bs[i].act /\ bs[i].act <= bs[i].end /\ EndsAligned(bs[i].end)
      /\ \A i \in Items(f) : bs[i].act = MonoHeader
      /\ \A m \in ms : m.buffer \in Items(c)
  BY DEF Orderly, Sound
<1>2. /\ c \in Seq(DOMAIN bs) /\ f \in Seq(DOMAIN bs)
      /\ c # <<>> /\ c[Len(c)] = 1
      /\ Once(c) /\ Once(f)
      /\ Items(c) \cap Items(f) = {} /\ Items(c) \cup Items(f) = DOMAIN bs
      /\ Len(c) + Len(f) = Len(bs)
  BY DEF Orderly, ListedOnce
<1>3. b \in [act : Nat, end : Nat] /\ Mono!NewBuffer(s) = b
  BY MonoConstants DEF Mono!NewBuffer
<1> HIDE DEF b
<1>4. /\ all \in Seq([act : Nat, end : Nat]) /\ Len(all) = x /\ DOMAIN all = DOMAIN bs \cup {x}
      /\ x \notin DOMAIN bs /\ all[x] = b /\ \A i \in DOMAIN bs : all[i] = bs[i]
  BY <1>1, <1>3
<1> HIDE DEF all
<1>5. c \in Seq(DOMAIN all) /\ f \in Seq(DOMAIN all)
  <2>1. DOMAIN bs \subseteq DOMAIN all
    BY <1>4
  <2>2. c \in Seq(DOMAIN bs) /\ f \in Seq(DOMAIN bs)
    BY <1>2
  <2> HIDE DEF x
  <2> QED BY <2>1, <2>2
<1>6. Items(c) \subseteq DOMAIN bs /\ Items(f) \subseteq DOMAIN bs
  BY <1>2
<1>7. Len(c) \in Nat /\ Len(f) \in Nat /\ Len(bs) \in Nat /\ Len(c) + Len(f) = Len(bs)
  <2>1. c \in Seq(DOMAIN bs) /\ f \in Seq(DOMAIN bs)
    BY <1>2
  <2>2. bs \in Seq([act : Nat, end : Nat])
    BY <1>1
  <2>3. Len(c) \in Nat /\ Len(f) \in Nat
    BY <2>1
  <2>4. Len(bs) \in Nat
    BY <2>2
  <2> QED BY <1>2, <2>3, <2>4
<1> HIDE DEF x
<1>8. /\ d \in Seq(DOMAIN all) /\ d # <<>> /\ Len(d) = Len(c) + 1
      /\ Items(d) = Items(c) \cup {x} /\ Once(d) /\ d[Len(d)] = 1
  <2>1. x \notin Items(c) /\ x \in DOMAIN all
    BY <1>4, <1>6
  <2> HIDE DEF d
  <2> QED BY <1>2, <1>5, <2>1, InFront DEF d
<1> HIDE DEF d
<1>9. ListedOnce(all, d, f)
  <2>1. Len(d) + Len(f) = Len(all)
    <3>1. Len(d) = Len(c) + 1 /\ Len(all) = Len(bs) + 1
      BY <1>4, <1>8 DEF x
    <3> QED BY <1>7, <3>1
  <2>2. Items(d) \cap Items(f) = {} /\ Items(d) \cup Items(f) = DOMAIN all
    BY <1>2, <1>4, <1>6, <1>8
  <2> QED BY <1>2, <1>5, <1>8, <2>1, <2>2 DEF ListedOnce
<1>10. Sound(all)
  <2>1. b.act = MonoHeader /\ b.end = s /\ MonoHeader <= b.act /\ b.act <= b.end
    BY MonoConstants DEF b
  <2> QED BY <1>1, <1>4, <2>1 DEF Sound
<1>11. Placed(all, ms, own)
  <2>1. Placed(bs, ms, own)
    BY DEF Orderly
  <2> QED BY <1>4, <2>1 DEF Placed
<1>12. Orderly(all, ms, d, f, own)
  BY <1>1, <1>4, <1>6, <1>8, <1>9, <1>10, <1>11 DEF Orderly
<1> QED BY <1>3, <1>4, <1>12 DEF all, b, d, x

LEMMA LeastIsIn ==
    ASSUME NEW I \in SUBSET Nat, I # {}
    PROVE  Mono!Min(I) \in I
<1>1. PICK m \in I : \A k \in I : m <= k
  BY LeastOfNaturals
<1> QED BY <1>1 DEF Mono!Min

\* The size of the next buffer stays a multiple of the alignments.
LEMMA SizesGrowAligned ==
    ASSUME NEW s \in Nat, EndsAligned(s)
    PROVE  (s * MonoGrowth) \div 100 \in Nat /\ EndsAligned((s * MonoGrowth) \div 100)
<1>1. PICK g \in Nat : MonoGrowth = 100 * g
  <2>1. MonoGrowth \in Nat /\ MonoGrowth % 100 = 0
    BY MonoConstants
  <2>2. MonoGrowth \div 100 \in Nat /\ MonoGrowth = 100 * (MonoGrowth \div 100)
    BY <2>1
  <2> QED BY <2>2
<1>2. (s * MonoGrowth) \div 100 = s * g
  BY <1>1
<1>3. s * g \in Nat
  BY <1>1
<1>4. ASSUME NEW a \in MonoAlignments PROVE (s * g) % a = 0
  <2>1. a \in {1, 2, 4} /\ s % a = 0
    BY MonoConstants DEF EndsAligned
  <2>2. PICK k \in Nat : s = a * k
    <3>1. s \div a \in Nat /\ s = a * (s \div a)
      BY <2>1
    <3> QED BY <3>1
  <2>3. s * g = a * (k * g)
    BY <1>1, <2>1, <2>2
  <2>4. PICK p \in Nat : p = k * g
    BY <1>1, <2>2
  <2>5. (a * p) % a = 0
    BY <2>1, <2>4
  <2> QED BY <2>3, <2>4, <2>5
<1> QED BY <1>2, <1>3, <1>4 DEF EndsAligned

\* What a request gets when it is served: with bs the buffers and keep the other blocks.
LEMMA ServingKeeps ==
    ASSUME NEW bs, NEW keep, chain # <<>>, Orderly(bs, keep, chain, recyclables, self),
           nextBuffersUsableSize \in Nat, EndsAligned(nextBuffersUsableSize),
           NEW n \in MonoSizes, NEW a \in MonoAlignments, Mono!Serve(bs, keep, n, a)
    PROVE  /\ Orderly(buffers', blocks', chain', recyclables', self)
           /\ chain' # <<>>
           /\ nextBuffersUsableSize' \in Nat /\ EndsAligned(nextBuffersUsableSize')
           /\ \A i \in DOMAIN bs : i \in DOMAIN buffers' /\ buffers'[i].end = bs[i].end
           /\ chain' = chain \/ \E x \in DOMAIN buffers' : chain' = <<x>> \o chain
<1> DEFINE Use(all, j) == /\ buffers' = [all EXCEPT ![j] = Mono!Filled(@, n, a)]
                          /\ blocks' = keep \cup {Mono!Block(j, all[j], n, a)}
           h == Head(chain)
           r == Mono!SelectInSeq(recyclables, LAMBDA j : Mono!fits(bs[j], n, a))
           s == Mono!nextBUS(n, a)
<1>1. /\ Sound(bs) /\ ListedOnce(bs, chain, recyclables)
      /\ chain \in Seq(DOMAIN bs) /\ recyclables \in Seq(DOMAIN bs)
      /\ h \in Items(chain) /\ Items(chain) \subseteq DOMAIN bs
  <2>1. Sound(bs) /\ ListedOnce(bs, chain, recyclables)
        /\ chain \in Seq(DOMAIN bs) /\ recyclables \in Seq(DOMAIN bs) /\ Items(chain) \subseteq DOMAIN bs
    BY DEF Orderly, ListedOnce
  <2>2. 1 \in DOMAIN chain /\ h = chain[1]
    BY <2>1
  <2> QED BY <2>1, <2>2 DEF Items
<1>2. n \in Nat \ {0}
  BY MonoConstants
<1>3. ASSUME NEW all, NEW j \in DOMAIN all, Use(all, j), Mono!aligned(all[j], a) + n <= all[j].end,
             NEW c, NEW f, Orderly(all, keep, c, f, self), j \in Items(c)
      PROVE  /\ Orderly(buffers', blocks', c, f, self)
             /\ DOMAIN buffers' = DOMAIN all /\ \A i \in DOMAIN all : buffers'[i].end = all[i].end
  <2>1. PICK b : b = buffers'
    OBVIOUS
  <2>2. PICK m : m = Mono!Block(j, all[j], n, a)
    OBVIOUS
  <2>3. Fills(b, m, all, j, n, a)
    BY <1>3, <2>1, <2>2 DEF Fills
  <2>4. Orderly(b, keep \cup {m}, c, f, self) /\ DOMAIN b = DOMAIN all /\ \A i \in DOMAIN all : b[i].end = all[i].end
    <3>1. Orderly(all, keep, c, f, self) /\ j \in Items(c) /\ n \in Nat \ {0}
      BY <1>2, <1>3
    <3>2. Orderly(b, keep \cup {m}, c, f, self)
      BY <3>1, <2>3, FillingKeeps, Zenon
    <3>3. Sound(all) /\ n \in Nat
      BY <3>1 DEF Orderly
    <3> QED BY <3>2, <3>3, <2>3, FillingEnds
  <2> QED BY <1>3, <2>1, <2>2, <2>4
<1>4. ASSUME NEW j \in DOMAIN bs, Mono!fits(bs[j], n, a)
      PROVE  Mono!aligned(bs[j], a) + n <= bs[j].end
  <2>1. bs \in Seq([act : Nat, end : Nat]) /\ bs[j].act <= bs[j].end /\ EndsAligned(bs[j].end)
    BY <1>1 DEF Sound
  <2>2. bs[j] \in [act : Nat, end : Nat]
    BY <2>1, ListElements
  <2>3. n \in Nat
    BY <1>2
  <2> QED BY <1>4, <2>1, <2>2, <2>3, FitsBeforeEnd
<1>5. CASE /\ Mono!fits(bs[h], n, a) /\ Use(bs, h)
           /\ UNCHANGED <<chain, recyclables, nextBuffersUsableSize>>
  BY <1>1, <1>3, <1>4, <1>5
<1>6. CASE /\ r # 0 /\ Use(bs, recyclables[r])
           /\ chain' = <<recyclables[r]>> \o chain /\ recyclables' = Mono!RemoveAt(recyclables, r)
           /\ UNCHANGED nextBuffersUsableSize
  <2> DEFINE I == {i \in 1..Len(recyclables) : Mono!fits(bs[recyclables[i]], n, a)}
             x == recyclables[r]
             d == <<x>> \o chain
             g == Mono!RemoveAt(recyclables, r)
  <2>1. r = IF I # {} THEN Mono!Min(I) ELSE 0
    BY DEF Mono!SelectInSeq
  <2>2. I # {} /\ r = Mono!Min(I) /\ I \in SUBSET Nat
    BY <1>6, <2>1
  <2>3. r \in I
    <3> HIDE DEF I
    <3> QED BY <2>2, LeastIsIn
  <2>4. r \in DOMAIN recyclables /\ x \in DOMAIN bs /\ Mono!fits(bs[x], n, a)
    BY <1>1, <2>3
  <2> HIDE DEF I, r
  <2>5. Orderly(bs, keep, d, g, self)
    BY <2>4, ReusingKeeps
  <2>6. x \in Items(d) /\ d # <<>>
    BY <1>1, <2>4, InFront
  <2> HIDE DEF d, g, x
  <2>7. buffers' = [bs EXCEPT ![x] = Mono!Filled(@, n, a)] /\ blocks' = keep \cup {Mono!Block(x, bs[x], n, a)}
        /\ chain' = d /\ recyclables' = g /\ nextBuffersUsableSize' = nextBuffersUsableSize
    BY <1>6 DEF x, d, g
  <2>8. /\ Orderly(buffers', blocks', d, g, self)
        /\ DOMAIN buffers' = DOMAIN bs /\ \A i \in DOMAIN bs : buffers'[i].end = bs[i].end
    BY <1>3, <1>4, <2>4, <2>5, <2>6, <2>7
  <2> QED BY <2>4, <2>6, <2>7, <2>8 DEF d
<1>7. CASE /\ Use(Append(bs, Mono!NewBuffer(s)), Len(bs) + 1)
           /\ chain' = <<Len(bs) + 1>> \o chain
           /\ nextBuffersUsableSize' = IF s = nextBuffersUsableSize
                                       THEN (s * MonoGrowth) \div 100
                                       ELSE nextBuffersUsableSize
           /\ UNCHANGED recyclables
  <2> DEFINE all == Append(bs, Mono!NewBuffer(s))
             x == Len(bs) + 1
             d == <<x>> \o chain
             q == Mono!firstOffset(MonoHeader, a)
  <2>1. /\ MonoHeader \in Nat /\ a \in {1, 2, 4} /\ EndsAligned(n + q + a)
    BY MonoConstants
  <2>2. q \in Nat /\ MonoHeader <= q
    BY <2>1, Aligning
  <2> HIDE DEF q
  <2>3. s \in Nat /\ EndsAligned(s) /\ q + n <= s
    <3>1. s = IF n + q > nextBuffersUsableSize THEN n + q + a ELSE nextBuffersUsableSize
      BY DEF Mono!nextBUS, Mono!Required, q
    <3>2. CASE n + q > nextBuffersUsableSize
      BY <1>2, <2>1, <2>2, <3>1, <3>2
    <3>3. CASE ~(n + q > nextBuffersUsableSize)
      BY <1>2, <2>1, <2>2, <3>1, <3>3
    <3> QED BY <3>2, <3>3
  <2> HIDE DEF s
  <2>4. MonoHeader <= s
    BY <1>2, <2>1, <2>2, <2>3
  <2>5. /\ Orderly(all, keep, d, recyclables, self)
        /\ DOMAIN bs \subseteq DOMAIN all /\ \A i \in DOMAIN bs : all[i] = bs[i]
        /\ all[x] = [act |-> MonoHeader, end |-> s]
    BY <2>3, <2>4, GrowingKeeps
  <2>6. d # <<>> /\ x \in Items(d) /\ x \in DOMAIN all
    <3>1. d \in Seq(DOMAIN all) /\ Items(d) \subseteq DOMAIN all
      BY <2>5 DEF Orderly, ListedOnce
    <3>2. d # <<>> /\ 1 \in DOMAIN d /\ d[1] = x
      BY <1>1
    <3> QED BY <3>1, <3>2 DEF Items
  <2> HIDE DEF all, d
  <2>7. Mono!aligned(all[x], a) + n <= all[x].end
    <3>1. Mono!aligned(all[x], a) = q /\ all[x].end = s
      BY <2>5 DEF Mono!aligned, q
    <3> QED BY <2>3, <3>1
  <2> HIDE DEF x
  <2>8. buffers' = [all EXCEPT ![x] = Mono!Filled(@, n, a)] /\ blocks' = keep \cup {Mono!Block(x, all[x], n, a)}
        /\ chain' = d /\ recyclables' = recyclables
    BY <1>7 DEF x, d, all
  <2>9. /\ Orderly(buffers', blocks', d, recyclables, self)
        /\ DOMAIN buffers' = DOMAIN all /\ \A i \in DOMAIN all : buffers'[i].end = all[i].end
    BY <1>3, <2>5, <2>6, <2>7, <2>8
  <2>10. nextBuffersUsableSize' \in Nat /\ EndsAligned(nextBuffersUsableSize')
    <3>1. nextBuffersUsableSize' = IF s = nextBuffersUsableSize THEN (s * MonoGrowth) \div 100 ELSE nextBuffersUsableSize
      BY <1>7
    <3>2. (s * MonoGrowth) \div 100 \in Nat /\ EndsAligned((s * MonoGrowth) \div 100)
      BY <2>3, SizesGrowAligned
    <3> QED BY <3>1, <3>2
  <2>11. \A i \in DOMAIN bs : i \in DOMAIN buffers' /\ buffers'[i].end = bs[i].end
    BY <2>5, <2>9
  <2> QED BY <2>6, <2>8, <2>9, <2>10, <2>11 DEF d
<1> QED BY <1>5, <1>6, <1>7 DEF Mono!Serve

\* Taking a block back from the end of the current buffer leaves the others where they are.
LEMMA TakingBackKeeps ==
    ASSUME chain # <<>>, Orderly(buffers, blocks, chain, recyclables, self), NEW m \in blocks,
           self => m.at # MonoHeader \/ m.buffer # 1
    PROVE  /\ Orderly(Mono!TakenBack(m), blocks \ {m}, chain, recyclables, self)
           /\ DOMAIN Mono!TakenBack(m) = DOMAIN buffers
           /\ \A i \in DOMAIN buffers : Mono!TakenBack(m)[i].end = buffers[i].end
<1> DEFINE h == Head(chain)
           bs == Mono!TakenBack(m)
           ms == blocks \ {m}
<1>1. /\ Sound(buffers) /\ Placed(buffers, blocks, self) /\ ListedOnce(buffers, chain, recyclables)
      /\ \A i \in Items(recyclables) : buffers[i].act = MonoHeader
      /\ \A k \in blocks : k.buffer \in Items(chain)
  BY DEF Orderly
<1>2. /\ h \in DOMAIN buffers /\ \A i \in Items(recyclables) : i # h /\ i \in DOMAIN buffers
  <2>1. chain \in Seq(DOMAIN buffers) /\ Items(chain) \cap Items(recyclables) = {}
        /\ Items(chain) \cup Items(recyclables) = DOMAIN buffers
    BY <1>1 DEF ListedOnce
  <2>2. 1 \in DOMAIN chain /\ h = chain[1]
    BY <2>1
  <2> QED BY <2>1, <2>2 DEF Items
<1>3. /\ buffers \in Seq([act : Nat, end : Nat]) /\ MonoHeader \in Nat
      /\ \A i \in DOMAIN buffers : buffers[i] \in [act : Nat, end : Nat]
  <2>1. buffers \in Seq([act : Nat, end : Nat])
    BY <1>1 DEF Sound
  <2> QED BY <2>1, ListElements, MonoConstants
<1>4. \A k \in blocks :
        /\ k \in MonoBlocks /\ k.buffer \in DOMAIN buffers
        /\ MonoHeader <= k.at /\ k.at + k.size <= buffers[k.buffer].act
        /\ k.at % k.alignment = 0
        /\ k.alignment \in MonoAlignments \/ (self /\ k = SelfBlock)
  BY <1>1 DEF Placed
<1>5. self => SelfBlock \in ms
  <2>1. self => SelfBlock \in blocks
    BY <1>1 DEF Placed
  <2> QED BY <2>1 DEF SelfBlock
<1>6. CASE bs = buffers
  <2>1. Placed(buffers, ms, self)
    BY <1>1, <1>5 DEF Placed
  <2>2. Orderly(buffers, ms, chain, recyclables, self)
    BY <1>1, <2>1 DEF Orderly
  <2> QED BY <1>6, <2>2
<1>7. CASE m.buffer = h /\ buffers[h].act - m.size = m.at /\ bs = [buffers EXCEPT ![h].act = @ - m.size]
  <2> DEFINE b == [act |-> m.at, end |-> buffers[h].end]
  <2>3. m \in MonoBlocks /\ m.at \in Nat /\ m.size \in Nat \ {0} /\ MonoHeader <= m.at
    BY <1>4 DEF MonoBlocks
  <2>4. m.at + m.size = buffers[h].act /\ buffers[h].act \in Nat /\ buffers[h].end \in Nat
    BY <1>2, <1>3, <1>7, <2>3
  <2>5. bs = [buffers EXCEPT ![h] = b]
    <3>1. \A d \in [act : Nat, end : Nat] : \A x : [d EXCEPT !.act = d.act - x] = [act |-> d.act - x, end |-> d.end]
      OBVIOUS
    <3>2. [buffers[h] EXCEPT !.act = buffers[h].act - m.size] = b
      BY <1>2, <1>3, <1>7, <3>1
    <3> QED BY <1>7, <3>2
  <2>51. b \in [act : Nat, end : Nat] /\ b.act = m.at /\ b.end = buffers[h].end
    BY <2>3, <2>4
  <2> HIDE DEF bs, b
  <2>1. /\ bs \in Seq([act : Nat, end : Nat])
        /\ DOMAIN bs = DOMAIN buffers /\ Len(bs) = Len(buffers)
        /\ bs[h] = b /\ \A i \in DOMAIN buffers : i # h => bs[i] = buffers[i]
    BY <1>2, <1>3, <2>5, <2>51
  <2>2. bs[h].act = m.at /\ bs[h].end = buffers[h].end
    BY <2>1, <2>51
  <2>6. \A i \in DOMAIN buffers : bs[i].end = buffers[i].end
    BY <2>1, <2>2
  <2>7. Sound(bs)
    <3>1. ASSUME NEW i \in DOMAIN bs
          PROVE  MonoHeader <= bs[i].act /\ bs[i].act <= bs[i].end /\ EndsAligned(bs[i].end)
      <4>1. MonoHeader <= buffers[i].act /\ buffers[i].act <= buffers[i].end /\ EndsAligned(buffers[i].end)
        BY <1>1, <2>1 DEF Sound
      <4>2. CASE i = h
        BY <2>2, <2>3, <2>4, <4>1, <4>2
      <4>3. CASE i # h
        BY <2>1, <4>1, <4>3
      <4> QED BY <4>2, <4>3
    <3> QED BY <2>1, <3>1 DEF Sound
  <2>8. ASSUME NEW k \in ms PROVE k.at + k.size <= bs[k.buffer].act
    <3>1. k \in MonoBlocks /\ k.at \in Nat /\ k.size \in Nat \ {0} /\ k # m /\ k \in blocks
      BY <1>4 DEF MonoBlocks
    <3>2. CASE k.buffer = h
      <4>1. m.at + m.size <= k.at \/ k.at + k.size <= m.at
        BY <1>1, <1>7, <3>1, <3>2 DEF Placed
      <4>2. k.at + k.size <= buffers[h].act
        BY <1>4, <3>1, <3>2
      <4> QED BY <2>2, <2>3, <2>4, <3>1, <3>2, <4>1, <4>2
    <3>3. CASE k.buffer # h
      BY <1>4, <2>1, <3>1, <3>3
    <3> QED BY <3>2, <3>3
  <2>9. Placed(bs, ms, self)
    <3>1. \A k, n \in ms : k # n /\ k.buffer = n.buffer => k.at + k.size <= n.at \/ n.at + n.size <= k.at
      BY <1>1 DEF Placed
    <3> QED BY <1>4, <1>5, <2>1, <2>8, <3>1 DEF Placed
  <2>10. ListedOnce(bs, chain, recyclables)
    BY <1>1, <2>1 DEF ListedOnce
  <2>11. \A i \in Items(recyclables) : bs[i].act = MonoHeader
    BY <1>1, <1>2, <2>1
  <2>12. Orderly(bs, ms, chain, recyclables, self)
    BY <1>1, <2>7, <2>9, <2>10, <2>11 DEF Orderly
  <2> QED BY <2>1, <2>6, <2>12 DEF bs
<1> QED BY <1>6, <1>7 DEF Mono!TakenBack

\* Snapshots stay what they are while buffers keep their ends and the chain grows.
LEMMA SnapshotsStay ==
    ASSUME NEW bs, NEW all, NEW c, NEW d, NEW sn, NEW own, Snapped(sn, bs, c, own),
           c \in Seq(DOMAIN bs), \A i \in DOMAIN bs : i \in DOMAIN all /\ all[i].end = bs[i].end,
           d = c \/ \E x \in DOMAIN all : d = <<x>> \o c
    PROVE  Snapped(sn, all, d, own)
<1>1. c \in Seq(DOMAIN all)
  <2>1. DOMAIN bs \subseteq DOMAIN all
    OBVIOUS
  <2> QED BY <2>1
<1>2. \A i, j : Below(i, j, c) => Below(i, j, d)
  BY <1>1, BelowStays
<1>3. Items(c) \subseteq Items(d) /\ Items(c) \subseteq DOMAIN bs
  <2>1. Items(c) \subseteq DOMAIN bs
    BY DEF Items
  <2>2. CASE d = c
    BY <2>1, <2>2
  <2>3. ASSUME NEW x \in DOMAIN all, d = <<x>> \o c PROVE Items(c) \subseteq Items(d)
    BY <1>1, <2>3, InFront
  <2> QED BY <2>1, <2>2, <2>3
<1>4. ASSUME NEW k \in DOMAIN sn PROVE SnapshotFits(sn[k], all, d, own)
  <2>1. SnapshotFits(sn[k], bs, c, own)
    BY DEF Snapped
  <2>2. sn[k].buffer \in DOMAIN bs
    BY <1>3, <2>1 DEF SnapshotFits
  <2> QED BY <1>2, <1>3, <2>1, <2>2 DEF SnapshotFits
<1>5. \A j, k \in DOMAIN sn : j < k => Below(sn[j].buffer, sn[k].buffer, d)
  BY <1>2 DEF Snapped
<1>6. sn \in Seq(MonoSnapshots)
  BY DEF Snapped
<1> QED BY <1>4, <1>5, <1>6 DEF Snapped

\* The buffers after a reset to position n of the chain.
BuffersReset(bs, c, n, fill) ==
    [i \in DOMAIN bs |->
        IF i = c[n] THEN [bs[i] EXCEPT !.act = fill]
        ELSE IF \E k \in 1..n - 1 : c[k] = i THEN Mono!NewBuffer(bs[i].end)
        ELSE bs[i]]

\* A reset puts the buffers above position n on the other list and keeps the blocks that lie
\* below the mark.
MayReset(bs, ms, c, n, fill, kept, own) ==
    /\ n \in DOMAIN c
    /\ fill \in Nat /\ MonoHeader <= fill /\ fill <= bs[c[n]].end
    /\ kept \subseteq ms /\ (own => SelfBlock \in kept)
    /\ \A m \in kept : m.buffer \in Items(SubSeq(c, n, Len(c)))
    /\ \A m \in kept : m.buffer = c[n] => m.at + m.size <= fill

\* What a reset does to each buffer.
ResetEach(all, bs, c, n, fill) ==
    /\ DOMAIN all = DOMAIN bs
    /\ all \in Seq([act : Nat, end : Nat])
    /\ \A i \in DOMAIN bs :
        all[i] = [act |-> IF i = c[n] THEN fill
                          ELSE IF i \in Items(SubSeq(c, 1, n - 1)) THEN MonoHeader
                          ELSE bs[i].act,
                  end |-> bs[i].end]

LEMMA ResetOfEach ==
    ASSUME NEW bs, NEW ms, NEW c, NEW f, NEW own, NEW n, NEW fill, NEW kept,
           Orderly(bs, ms, c, f, own), MayReset(bs, ms, c, n, fill, kept, own)
    PROVE  ResetEach(BuffersReset(bs, c, n, fill), bs, c, n, fill)
<1> DEFINE all == BuffersReset(bs, c, n, fill)
           a == SubSeq(c, 1, n - 1)
           new(i) == [act |-> IF i = c[n] THEN fill
                              ELSE IF i \in Items(a) THEN MonoHeader
                              ELSE bs[i].act,
                      end |-> bs[i].end]
<1>1. /\ bs \in Seq([act : Nat, end : Nat]) /\ MonoHeader \in Nat
      /\ DOMAIN bs = 1..Len(bs) /\ Len(bs) \in Nat
      /\ \A i \in DOMAIN bs : bs[i] \in [act : Nat, end : Nat]
  <2>1. bs \in Seq([act : Nat, end : Nat])
    BY DEF Orderly, Sound
  <2> QED BY <2>1, ListElements, MonoConstants
<1>2. \A i : (\E k \in 1..n - 1 : c[k] = i) <=> i \in Items(a)
  <2>1. Len(a) = n - 1 /\ DOMAIN a = 1..n - 1 /\ \A k \in 1..n - 1 : a[k] = c[k]
    BY DEF Orderly, ListedOnce, MayReset
  <2> HIDE DEF a
  <2> QED BY <2>1 DEF Items
<1>3. ASSUME NEW i \in DOMAIN bs PROVE all[i] = new(i) /\ new(i) \in [act : Nat, end : Nat]
  <2>1. bs[i] \in [act : Nat, end : Nat]
    BY <1>1
  <2>2. \A d \in [act : Nat, end : Nat] : /\ \A x : [d EXCEPT !.act = x] = [act |-> x, end |-> d.end]
                                        /\ d = [act |-> d.act, end |-> d.end]
    OBVIOUS
  <2> fill \in Nat
    BY DEF MayReset
  <2>3. [bs[i] EXCEPT !.act = fill] = [act |-> fill, end |-> bs[i].end] /\ bs[i] = [act |-> bs[i].act, end |-> bs[i].end]
        /\ bs[i].act \in Nat /\ bs[i].end \in Nat
    BY <2>1, <2>2
  <2>4. Mono!NewBuffer(bs[i].end) = [act |-> MonoHeader, end |-> bs[i].end]
    BY DEF Mono!NewBuffer
  <2>5. all[i] = IF i = c[n] THEN [bs[i] EXCEPT !.act = fill]
                 ELSE IF i \in Items(a) THEN Mono!NewBuffer(bs[i].end)
                 ELSE bs[i]
    <3> HIDE DEF a
    <3> QED BY <1>2, Zenon DEF BuffersReset
  <2> HIDE DEF all, a
  <2>6. CASE i = c[n]
    BY <2>3, <2>5, <2>6
  <2>7. CASE i # c[n] /\ i \in Items(a)
    BY <1>1, <2>3, <2>4, <2>5, <2>7
  <2>8. CASE i # c[n] /\ i \notin Items(a)
    BY <2>3, <2>5, <2>8
  <2> QED BY <2>6, <2>7, <2>8
<1>4. DOMAIN all = DOMAIN bs
  BY DEF BuffersReset
<1> HIDE DEF new
<1>5. all \in Seq([act : Nat, end : Nat])
  <2>1. all = [i \in 1..Len(bs) |-> new(i)]
    <3>1. all = [i \in DOMAIN bs |-> all[i]]
      BY DEF BuffersReset
    <3> HIDE DEF all
    <3> QED BY <1>1, <1>3, <3>1
  <2> HIDE DEF all
  <2>2. all \in [1..Len(bs) -> [act : Nat, end : Nat]]
    BY <1>1, <1>3, <2>1
  <2> QED BY <1>1, <2>2, FunctionsAreLists, Zenon
<1>6. \A i \in DOMAIN bs : all[i] = new(i)
  BY <1>3
<1> QED BY <1>4, <1>5, <1>6, Zenon DEF ResetEach, all, new, a

LEMMA ResettingKeeps ==
    ASSUME NEW bs, NEW ms, NEW c, NEW f, NEW own, NEW n, NEW fill, NEW kept,
           Orderly(bs, ms, c, f, own), MayReset(bs, ms, c, n, fill, kept, own)
    PROVE  Orderly(BuffersReset(bs, c, n, fill), kept, SubSeq(c, n, Len(c)),
                   Mono!Reverse(SubSeq(c, 1, n - 1)) \o f, own)
<1> DEFINE all == BuffersReset(bs, c, n, fill)
           a == SubSeq(c, 1, n - 1)
           b == SubSeq(c, n, Len(c))
           r == Mono!Reverse(a)
           g == r \o f
<1>1. /\ Sound(bs) /\ Placed(bs, ms, own)
      /\ \A i \in Items(f) : bs[i].act = MonoHeader
      /\ \A m \in ms : m.buffer \in Items(c)
  BY DEF Orderly
<1>2. /\ c \in Seq(DOMAIN bs) /\ f \in Seq(DOMAIN bs)
      /\ c # <<>> /\ c[Len(c)] = 1
      /\ Once(c) /\ Once(f)
      /\ Items(c) \cap Items(f) = {} /\ Items(c) \cup Items(f) = DOMAIN bs
      /\ Len(c) + Len(f) = Len(bs)
  BY DEF Orderly, ListedOnce
<1>3. /\ c \in Seq(DOMAIN bs) /\ Len(c) \in Nat /\ Len(f) \in Nat /\ Len(c) + Len(f) = Len(bs)
      /\ n \in Nat /\ 1 <= n /\ n <= Len(c)
  <2>1. c \in Seq(DOMAIN bs) /\ f \in Seq(DOMAIN bs)
    BY <1>2
  <2>2. Len(c) \in Nat /\ Len(f) \in Nat /\ DOMAIN c = 1..Len(c)
    BY <2>1
  <2>3. n \in 1..Len(c)
    BY <2>2 DEF MayReset
  <2> QED BY <1>2, <2>1, <2>2, <2>3
<1>4. /\ a \in Seq(DOMAIN bs) /\ Len(a) = n - 1 /\ b \in Seq(DOMAIN bs) /\ Len(b) = Len(c) - (n - 1)
      /\ a \o b = c
      /\ \A p \in DOMAIN b : b[p] = c[n - 1 + p]
  <2>1. PICK S : S = DOMAIN bs
    OBVIOUS
  <2>2. c \in Seq(S) /\ n \in 1..(Len(c) + 1)
    BY <1>3, <2>1
  <2>3. /\ a \in Seq(S) /\ Len(a) = n - 1 /\ b \in Seq(S) /\ Len(b) = Len(c) - (n - 1)
        /\ a \o b = c
        /\ \A p \in DOMAIN a : p \in DOMAIN c /\ a[p] = c[p]
        /\ \A p \in DOMAIN b : n - 1 + p \in DOMAIN c /\ b[p] = c[n - 1 + p]
    BY <2>2, Splitting, Zenon
  <2> QED BY <2>1, <2>3
<1>5. /\ DOMAIN all = DOMAIN bs /\ all \in Seq([act : Nat, end : Nat])
      /\ \A i \in DOMAIN bs :
            all[i] = [act |-> IF i = c[n] THEN fill ELSE IF i \in Items(a) THEN MonoHeader ELSE bs[i].act,
                      end |-> bs[i].end]
  <2>1. ResetEach(all, bs, c, n, fill)
    BY ResetOfEach, Zenon DEF all
  <2> QED BY <2>1, Zenon DEF ResetEach, a
<1> HIDE DEF all, a, b
<1>6. Once(a) /\ Once(b) /\ Items(a) \cap Items(b) = {} /\ Items(c) = Items(a) \cup Items(b)
  <2>1. a \in Seq(DOMAIN bs) /\ b \in Seq(DOMAIN bs) /\ Once(a \o b) /\ a \o b = c
    BY <1>2, <1>4
  <2>2. Once(a) /\ Once(b) /\ Items(a) \cap Items(b) = {}
    BY <2>1, AppendedItems, ZenonT(40)
  <2>3. Items(a \o b) = Items(a) \cup Items(b)
    BY <2>1, AppendedItems, ZenonT(40)
  <2> QED BY <2>1, <2>2, <2>3
<1>7. r \in Seq(DOMAIN bs) /\ Len(r) = n - 1 /\ Items(r) = Items(a) /\ Once(r)
  BY <1>4, <1>6, TurnedRound DEF Mono!Reverse
<1> HIDE DEF r
<1>8. /\ g \in Seq(DOMAIN bs) /\ Len(g) = n - 1 + Len(f) /\ Items(g) = Items(a) \cup Items(f) /\ Once(g)
  <2>1. f \in Seq(DOMAIN bs) /\ Once(f) /\ Items(r) \cap Items(f) = {}
    BY <1>2, <1>6, <1>7
  <2>2. g \in Seq(DOMAIN bs) /\ Len(g) = Len(r) + Len(f)
    BY <1>7, <2>1, Appending, SMTT(20)
  <2>3. Items(g) = Items(r) \cup Items(f) /\ Once(g)
    BY <1>7, <2>1, AppendedItems
  <2> QED BY <1>7, <2>2, <2>3
<1> HIDE DEF g
<1>9. b # <<>> /\ b[Len(b)] = 1 /\ c[n] \in Items(b)
  <2>1. Len(b) \in Nat /\ Len(b) >= 1 /\ DOMAIN b = 1..Len(b)
    <3>1. Len(b) = Len(c) - (n - 1) /\ b \in Seq(DOMAIN bs)
      BY <1>4
    <3>2. DOMAIN b = 1..Len(b) /\ Len(b) \in Nat
      BY <3>1
    <3> QED BY <1>3, <3>1, <3>2
  <2>2. Len(b) \in DOMAIN b /\ n - 1 + Len(b) = Len(c) /\ 1 \in DOMAIN b /\ n - 1 + 1 = n
    <3>1. Len(b) = Len(c) - (n - 1)
      BY <1>4
    <3> QED BY <1>3, <2>1, <3>1
  <2>3. b[Len(b)] = c[Len(c)] /\ b[1] = c[n]
    BY <1>4, <2>2
  <2>4. c[n] \in Items(b)
    BY <2>2, <2>3 DEF Items
  <2>5. c[Len(c)] = 1
    BY <1>2
  <2>6. b # <<>>
    <3>1. Len(<<>>) = 0
      OBVIOUS
    <3> QED BY <2>1, <3>1
  <2> QED BY <2>3, <2>4, <2>5, <2>6
<1>10. /\ Len(all) = Len(bs) /\ DOMAIN all = DOMAIN bs
  <2>1. bs \in Seq([act : Nat, end : Nat])
    BY <1>1 DEF Sound
  <2> QED BY <1>5, <2>1
<1>11. ListedOnce(all, b, g)
  <2>1. Items(b) \cap Items(g) = {} /\ Items(b) \cup Items(g) = DOMAIN all
    BY <1>2, <1>6, <1>8, <1>10
  <2>2. Len(b) + Len(g) = Len(all)
    <3>1. Len(b) = Len(c) - (n - 1) /\ Len(g) = n - 1 + Len(f) /\ Len(all) = Len(bs)
      BY <1>4, <1>8, <1>10
    <3>2. Len(c) + Len(f) = Len(bs) /\ Len(c) \in Nat /\ Len(f) \in Nat /\ n \in Nat
      BY <1>2, <1>3
    <3> QED BY <3>1, <3>2
  <2>3. b \in Seq(DOMAIN all) /\ g \in Seq(DOMAIN all)
    BY <1>4, <1>8, <1>10
  <2> QED BY <1>6, <1>8, <1>9, <2>1, <2>2, <2>3 DEF ListedOnce
<1>12. /\ all[c[n]].act = fill /\ all[c[n]].end = bs[c[n]].end
       /\ \A i \in Items(a) : all[i].act = MonoHeader
       /\ \A i \in DOMAIN bs : i # c[n] /\ i \notin Items(a) => all[i].act = bs[i].act
       /\ \A i \in DOMAIN bs : all[i].end = bs[i].end
  <2>1. c[n] \in DOMAIN bs /\ c[n] \notin Items(a) /\ Items(a) \subseteq DOMAIN bs
    BY <1>2, <1>6, <1>9
  <2> QED BY <1>5, <2>1
<1>13. Sound(all)
  <2>1. ASSUME NEW i \in DOMAIN all
        PROVE  MonoHeader <= all[i].act /\ all[i].act <= all[i].end /\ EndsAligned(all[i].end)
    <3>1. MonoHeader <= bs[i].act /\ bs[i].act <= bs[i].end /\ EndsAligned(bs[i].end) /\ i \in DOMAIN bs
      BY <1>1, <1>10 DEF Sound
    <3>2. bs[i].act \in Nat /\ bs[i].end \in Nat /\ MonoHeader \in Nat
      <4>1. bs \in Seq([act : Nat, end : Nat])
        BY <1>1 DEF Sound
      <4>2. bs[i] \in [act : Nat, end : Nat]
        BY <3>1, <4>1, ListElements
      <4> QED BY <4>2, MonoConstants
    <3>3. CASE i = c[n]
      BY <1>12, <3>1, <3>3 DEF MayReset
    <3>4. CASE i # c[n] /\ i \in Items(a)
      BY <1>12, <3>1, <3>2, <3>4
    <3>5. CASE i # c[n] /\ i \notin Items(a)
      BY <1>12, <3>1, <3>5
    <3> QED BY <3>3, <3>4, <3>5
  <2> QED BY <1>5, <2>1 DEF Sound
<1>14. \A i \in Items(g) : all[i].act = MonoHeader
  <2>1. \A i \in Items(f) : i \in DOMAIN bs /\ i # c[n] /\ i \notin Items(a)
    BY <1>2, <1>6, <1>9
  <2> QED BY <1>1, <1>8, <1>12, <2>1
<1>15. Placed(all, kept, own)
  <2>1. ASSUME NEW m \in kept
        PROVE  /\ m \in MonoBlocks /\ m.buffer \in DOMAIN all
               /\ MonoHeader <= m.at /\ m.at + m.size <= all[m.buffer].act
               /\ m.at % m.alignment = 0
               /\ m.alignment \in MonoAlignments \/ (own /\ m = SelfBlock)
    <3>1. /\ m \in MonoBlocks /\ m.buffer \in DOMAIN bs
          /\ MonoHeader <= m.at /\ m.at + m.size <= bs[m.buffer].act
          /\ m.at % m.alignment = 0
          /\ m.alignment \in MonoAlignments \/ (own /\ m = SelfBlock)
      BY <1>1 DEF Placed, MayReset
    <3>2. m.buffer \in Items(b) /\ (m.buffer = c[n] => m.at + m.size <= fill)
      BY DEF b, MayReset
    <3>3. m.at + m.size <= all[m.buffer].act
      <4>1. m.buffer \notin Items(a)
        BY <1>6, <3>2
      <4>2. CASE m.buffer = c[n]
        BY <1>12, <3>2, <4>2
      <4>3. CASE m.buffer # c[n]
        BY <1>12, <3>1, <4>1, <4>3
      <4> QED BY <4>2, <4>3
    <3> QED BY <1>10, <3>1, <3>3
  <2>2. \A k, m \in kept : k # m /\ k.buffer = m.buffer => k.at + k.size <= m.at \/ m.at + m.size <= k.at
    BY <1>1 DEF Placed, MayReset
  <2>3. kept \subseteq MonoBlocks
    BY <2>1
  <2>4. own => SelfBlock \in kept
    BY DEF MayReset
  <2> QED BY <2>1, <2>2, <2>3, <2>4 DEF Placed
<1>16. \A m \in kept : m.buffer \in Items(b)
  BY DEF b, MayReset
<1>17. Orderly(all, kept, b, g, own)
  BY <1>11, <1>13, <1>14, <1>15, <1>16 DEF Orderly
<1> QED BY <1>17 DEF all, b, g, r, a

LEMMA AboveInFront ==
    ASSUME NEW S, NEW c \in Seq(S), c # <<>>
    PROVE  Head(c) \in Items(c) /\ \A i \in Items(c) : Below(i, Head(c), c)
<1>1. 1 \in DOMAIN c /\ c[1] = Head(c) /\ \A q \in DOMAIN c : 1 <= q
  OBVIOUS
<1> QED BY <1>1 DEF Items, Below

\* The snapshots up to the one of a reset stay what they are.
LEMMA SnapshotsAfterReset ==
    ASSUME NEW bs, NEW ms, NEW c, NEW f, NEW own, NEW n, NEW fill, NEW kept, NEW sn, NEW k,
           Orderly(bs, ms, c, f, own), MayReset(bs, ms, c, n, fill, kept, own),
           Snapped(sn, bs, c, own), k \in DOMAIN sn, c[n] = sn[k].buffer
    PROVE  Snapped(SubSeq(sn, 1, k), BuffersReset(bs, c, n, fill), SubSeq(c, n, Len(c)), own)
<1> DEFINE all == BuffersReset(bs, c, n, fill)
           b == SubSeq(c, n, Len(c))
           t == SubSeq(sn, 1, k)
<1>1. DOMAIN all = DOMAIN bs /\ \A i \in DOMAIN bs : all[i].end = bs[i].end
  <2>1. ResetEach(all, bs, c, n, fill)
    BY ResetOfEach, Zenon
  <2> QED BY <2>1 DEF ResetEach
<1>2. PICK S : S = DOMAIN bs
  OBVIOUS
<1>3. c \in Seq(S) /\ Once(c) /\ n \in DOMAIN c
  BY <1>2 DEF Orderly, ListedOnce, MayReset
<1>4. sn \in Seq(MonoSnapshots)
  BY DEF Snapped
<1>5. t \in Seq(MonoSnapshots) /\ DOMAIN t = 1..k /\ k \in Nat
      /\ \A j \in 1..k : j \in DOMAIN sn /\ t[j] = sn[j]
  BY <1>4
<1>6. b \in Seq(S) /\ c[n] \in Items(b)
  <2>1. b \in Seq(S) /\ 1 \in DOMAIN b /\ b[1] = c[n]
    BY <1>3
  <2> HIDE DEF b
  <2> QED BY <2>1 DEF Items
<1>7. \A i, j : Below(i, j, c) /\ j \in Items(b) => Below(i, j, b)
  BY <1>3, BelowBehind
<1> HIDE DEF all, b, t
<1>8. \A i, j : Below(i, j, b) => i \in Items(b)
  BY DEF Below, Items
<1>9. ASSUME NEW j \in 1..k PROVE SnapshotFits(sn[j], bs, c, own) /\ sn[j].buffer \in Items(b)
  <2>1. SnapshotFits(sn[j], bs, c, own)
    BY <1>5 DEF Snapped
  <2>2. CASE j = k
    BY <1>6, <2>1, <2>2
  <2>3. CASE j # k
    <3>1. j < k
      BY <1>5, <2>3
    <3>2. Below(sn[j].buffer, sn[k].buffer, c)
      BY <1>5, <3>1 DEF Snapped
    <3> QED BY <1>6, <1>7, <1>8, <2>1, <3>2
  <2> QED BY <2>2, <2>3
<1>10. ASSUME NEW j \in 1..k PROVE SnapshotFits(t[j], all, b, own)
  <2>1. SnapshotFits(sn[j], bs, c, own) /\ sn[j].buffer \in Items(b) /\ t[j] = sn[j]
    BY <1>5, <1>9
  <2>2. sn[j].buffer \in Items(c) /\ Items(c) \subseteq DOMAIN bs
    BY <1>2, <1>3, <2>1 DEF SnapshotFits, Items
  <2>3. sn[j].actFill <= all[sn[j].buffer].end
    BY <1>1, <2>1, <2>2 DEF SnapshotFits
  <2>4. \A m \in sn[j].covers : Below(m.buffer, sn[j].buffer, b)
    BY <1>7, <2>1 DEF SnapshotFits
  <2> QED BY <2>1, <2>3, <2>4 DEF SnapshotFits
<1>11. \A i, j \in 1..k : i < j => Below(t[i].buffer, t[j].buffer, b)
  BY <1>5, <1>7, <1>9 DEF Snapped
<1> QED BY <1>5, <1>10, <1>11 DEF Snapped, all, b, t

-----------------------------------------------------------------------------
(* One lemma per action                                                      *)

LEMMA SnapshotKeeps == ASSUME InUse, Mono!TakeSnapshot PROVE InUse'
<1> DEFINE h == Head(chain)
           x == [buffer |-> h, actFill |-> buffers[h].act, covers |-> blocks]
<1>1. /\ UNCHANGED <<buffers, chain, recyclables, nextBuffersUsableSize, self, external, blocks>>
      /\ snapshots' = Append(snapshots, x)
  BY DEF Mono!TakeSnapshot
<1>2. /\ Sound(buffers) /\ Placed(buffers, blocks, self) /\ chain \in Seq(DOMAIN buffers)
      /\ \A m \in blocks : m.buffer \in Items(chain)
      /\ Snapped(snapshots, buffers, chain, self) /\ chain # <<>>
  BY DEF InUse, Orderly, ListedOnce
<1>3. h \in Items(chain) /\ h \in DOMAIN buffers /\ \A i \in Items(chain) : Below(i, h, chain)
  <2>1. PICK S : S = DOMAIN buffers
    OBVIOUS
  <2>2. chain \in Seq(S) /\ chain # <<>>
    BY <1>2, <2>1
  <2>3. h \in Items(chain) /\ \A i \in Items(chain) : Below(i, h, chain)
    BY <2>2, AboveInFront
  <2>4. Items(chain) \subseteq S
    BY <2>2 DEF Items
  <2> QED BY <2>1, <2>3, <2>4
<1>4. buffers[h] \in [act : Nat, end : Nat] /\ MonoHeader <= buffers[h].act /\ buffers[h].act <= buffers[h].end
      /\ h \in Nat
  <2>1. buffers \in Seq([act : Nat, end : Nat])
    BY <1>2 DEF Sound
  <2>2. DOMAIN buffers \subseteq Nat
    BY <2>1
  <2> QED BY <1>2, <1>3, <2>1, <2>2, ListElements DEF Sound
<1>5. x \in MonoSnapshots
  BY <1>2, <1>4 DEF MonoSnapshots, Placed
<1>51. x.buffer = h /\ x.actFill = buffers[h].act /\ x.covers = blocks
  OBVIOUS
<1> HIDE DEF x
<1>6. SnapshotFits(x, buffers, chain, self)
  <2>1. \A m \in blocks : m.buffer = h => m.at + m.size <= buffers[h].act
    BY <1>2 DEF Placed
  <2>2. self => SelfBlock \in blocks
    BY <1>2 DEF Placed
  <2> QED BY <1>2, <1>3, <1>4, <1>51, <2>1, <2>2 DEF SnapshotFits
<1>7. snapshots \in Seq(MonoSnapshots)
  BY <1>2 DEF Snapped
<1>8. PICK n \in Nat : n = Len(snapshots)
  BY <1>7
<1>9. /\ snapshots' \in Seq(MonoSnapshots) /\ DOMAIN snapshots' = 1..(n + 1) /\ snapshots'[n + 1] = x
      /\ DOMAIN snapshots = 1..n /\ \A k \in 1..n : snapshots'[k] = snapshots[k]
  BY <1>1, <1>5, <1>7, <1>8
<1>10. ASSUME NEW k \in DOMAIN snapshots' PROVE SnapshotFits(snapshots'[k], buffers, chain, self)
  <2>1. CASE k = n + 1
    BY <1>6, <1>9, <2>1
  <2>2. CASE k # n + 1
    <3>1. k \in 1..n
      BY <1>9, <2>2
    <3> QED BY <1>2, <1>9, <3>1 DEF Snapped
  <2> QED BY <2>1, <2>2
<1>11. ASSUME NEW j \in DOMAIN snapshots', NEW k \in DOMAIN snapshots', j < k
       PROVE  Below(snapshots'[j].buffer, snapshots'[k].buffer, chain)
  <2>1. j \in 1..n
    BY <1>9, <1>11
  <2>2. CASE k = n + 1
    <3>1. SnapshotFits(snapshots[j], buffers, chain, self) /\ snapshots'[j] = snapshots[j]
      BY <1>2, <1>9, <2>1 DEF Snapped
    <3> QED BY <1>3, <1>9, <1>51, <2>2, <3>1 DEF SnapshotFits
  <2>3. CASE k # n + 1
    <3>1. k \in 1..n
      BY <1>9, <2>3
    <3> QED BY <1>2, <1>9, <1>11, <2>1, <3>1 DEF Snapped
  <2> QED BY <2>2, <2>3
<1>12. Snapped(snapshots', buffers, chain, self)
  BY <1>9, <1>10, <1>11 DEF Snapped
<1> QED BY <1>1, <1>12 DEF InUse

LEMMA AllocatingKeeps ==
    ASSUME InUse, NEW n \in MonoSizes, NEW a \in MonoAlignments, Mono!allocate(n, a)
    PROVE  InUse'
<1>1. /\ chain # <<>> /\ Orderly(buffers, blocks, chain, recyclables, self)
      /\ nextBuffersUsableSize \in Nat /\ EndsAligned(nextBuffersUsableSize)
      /\ Snapped(snapshots, buffers, chain, self) /\ chain \in Seq(DOMAIN buffers)
      /\ Mono!Serve(buffers, blocks, n, a) /\ UNCHANGED <<self, external, snapshots>>
  BY DEF InUse, Orderly, ListedOnce, Mono!allocate
<1>2. /\ Orderly(buffers', blocks', chain', recyclables', self)
      /\ chain' # <<>>
      /\ nextBuffersUsableSize' \in Nat /\ EndsAligned(nextBuffersUsableSize')
      /\ \A i \in DOMAIN buffers : i \in DOMAIN buffers' /\ buffers'[i].end = buffers[i].end
      /\ chain' = chain \/ \E x \in DOMAIN buffers' : chain' = <<x>> \o chain
  BY <1>1, ServingKeeps, Zenon
<1>3. Snapped(snapshots, buffers', chain', self)
  BY <1>1, <1>2, SnapshotsStay, Zenon
<1> QED BY <1>1, <1>2, <1>3, Zenon DEF InUse

LEMMA ReallocatingKeeps ==
    ASSUME InUse, NEW m \in blocks, NEW n \in MonoSizes, Mono!reallocate(m, n)
    PROVE  InUse'
<1> DEFINE bs == Mono!TakenBack(m)
           ms == blocks \ {m}
<1>1. /\ chain # <<>> /\ Orderly(buffers, blocks, chain, recyclables, self)
      /\ nextBuffersUsableSize \in Nat /\ EndsAligned(nextBuffersUsableSize)
      /\ Snapped(snapshots, buffers, chain, self) /\ chain \in Seq(DOMAIN buffers)
      /\ Placed(buffers, blocks, self)
      /\ self => m.at # MonoHeader \/ m.buffer # 1
      /\ Mono!Serve(bs, ms, n, m.alignment) /\ UNCHANGED <<self, external, snapshots>>
  BY DEF InUse, Orderly, ListedOnce, Mono!reallocate
<1>2. m.alignment \in MonoAlignments
  BY <1>1 DEF Placed, SelfBlock
<1>3. /\ Orderly(bs, ms, chain, recyclables, self)
      /\ DOMAIN bs = DOMAIN buffers /\ \A i \in DOMAIN buffers : bs[i].end = buffers[i].end
  BY <1>1, TakingBackKeeps, Zenon
<1> HIDE DEF bs, ms
<1>4. /\ Orderly(buffers', blocks', chain', recyclables', self)
      /\ chain' # <<>>
      /\ nextBuffersUsableSize' \in Nat /\ EndsAligned(nextBuffersUsableSize')
      /\ \A i \in DOMAIN bs : i \in DOMAIN buffers' /\ buffers'[i].end = bs[i].end
      /\ chain' = chain \/ \E x \in DOMAIN buffers' : chain' = <<x>> \o chain
  BY <1>1, <1>2, <1>3, ServingKeeps, Zenon
<1>5. \A i \in DOMAIN buffers : i \in DOMAIN buffers' /\ buffers'[i].end = buffers[i].end
  BY <1>3, <1>4
<1>6. Snapped(snapshots, buffers', chain', self)
  BY <1>1, <1>4, <1>5, SnapshotsStay, Zenon
<1> QED BY <1>1, <1>4, <1>6, Zenon DEF InUse

\* A reset to position n, with what it leaves of the blocks and the snapshots.
LEMMA ResetKeeps ==
    ASSUME InUse, NEW n, NEW fill, NEW kept, NEW sn,
           MayReset(buffers, blocks, chain, n, fill, kept, self),
           Snapped(sn, BuffersReset(buffers, chain, n, fill), SubSeq(chain, n, Len(chain)), self),
           buffers' = Mono!ResetBuffers(n, fill), chain' = SubSeq(chain, n, Len(chain)),
           recyclables' = Mono!Recycled(n), blocks' = kept, snapshots' = sn,
           UNCHANGED <<nextBuffersUsableSize, self, external>>
    PROVE  InUse'
<1>1. buffers' = BuffersReset(buffers, chain, n, fill)
  BY Zenon DEF BuffersReset, Mono!ResetBuffers
<1>2. Orderly(buffers, blocks, chain, recyclables, self)
  BY DEF InUse
<1>3. Orderly(BuffersReset(buffers, chain, n, fill), kept, SubSeq(chain, n, Len(chain)),
              Mono!Reverse(SubSeq(chain, 1, n - 1)) \o recyclables, self)
  BY <1>2, ResettingKeeps, Zenon
<1>4. recyclables' = Mono!Reverse(SubSeq(chain, 1, n - 1)) \o recyclables
  BY Zenon DEF Mono!Recycled
<1>5. Orderly(buffers', blocks', chain', recyclables', self')
  BY <1>1, <1>3, <1>4, Zenon
<1>6. chain' # <<>>
  BY <1>5 DEF Orderly, ListedOnce
<1>7. Snapped(snapshots', buffers', chain', self')
  BY <1>1, Zenon
<1> QED BY <1>5, <1>6, <1>7, Zenon DEF InUse

LEMMA ResetToSnapshotKeeps ==
    ASSUME InUse, NEW k \in DOMAIN snapshots, Mono!Reset(k)
    PROVE  InUse'
<1> DEFINE s == snapshots[k]
           n == Mono!SelectInSeq(chain, LAMBDA i : i = s.buffer)
           kept == blocks \cap s.covers
           b == SubSeq(chain, n, Len(chain))
<1>1. /\ n # 0 /\ buffers' = Mono!ResetBuffers(n, s.actFill) /\ chain' = SubSeq(chain, n, Len(chain))
      /\ recyclables' = Mono!Recycled(n) /\ blocks' = kept /\ snapshots' = SubSeq(snapshots, 1, k)
      /\ UNCHANGED <<nextBuffersUsableSize, self, external>>
  BY Zenon DEF Mono!Reset
<1>2. /\ Orderly(buffers, blocks, chain, recyclables, self) /\ Snapped(snapshots, buffers, chain, self)
      /\ chain \in Seq(DOMAIN buffers) /\ Once(chain) /\ Placed(buffers, blocks, self)
  BY DEF InUse, Orderly, ListedOnce
<1>3. n \in DOMAIN chain /\ chain[n] = s.buffer
  <2> DEFINE I == {i \in 1..Len(chain) : chain[i] = s.buffer}
  <2>1. n = IF I # {} THEN Mono!Min(I) ELSE 0
    BY DEF Mono!SelectInSeq
  <2>2. I # {} /\ n = Mono!Min(I) /\ I \in SUBSET Nat
    BY <1>1, <2>1
  <2>3. n \in I
    <3> HIDE DEF I
    <3> QED BY <2>2, LeastIsIn
  <2> HIDE DEF n
  <2> QED BY <1>2, <2>3
<1> HIDE DEF n
<1>4. SnapshotFits(s, buffers, chain, self) /\ s.actFill \in Nat
  <2>1. snapshots \in Seq(MonoSnapshots)
    BY <1>2 DEF Snapped
  <2>2. s \in MonoSnapshots
    BY <2>1, ListElements
  <2> QED BY <1>2, <2>2 DEF Snapped, MonoSnapshots
<1>5. MayReset(buffers, blocks, chain, n, s.actFill, kept, self)
  <2>1. PICK S : S = DOMAIN buffers
    OBVIOUS
  <2>2. chain \in Seq(S)
    BY <1>2, <2>1
  <2>3. s.buffer \in Items(b)
    <3>1. 1 \in DOMAIN b /\ b[1] = chain[n]
      BY <1>3, <2>2
    <3> HIDE DEF b
    <3> QED BY <1>3, <3>1 DEF Items
  <2>4. \A m \in kept : Below(m.buffer, s.buffer, chain)
    BY <1>4 DEF SnapshotFits
  <2>5. \A m \in kept : Below(m.buffer, s.buffer, b)
    BY <1>2, <1>3, <2>2, <2>3, <2>4, BelowBehind
  <2> HIDE DEF b
  <2>6. \A m \in kept : m.buffer \in Items(b)
    BY <2>5 DEF Below, Items
  <2>7. self => SelfBlock \in kept
    BY <1>2, <1>4 DEF Placed, SnapshotFits
  <2>8. \A m \in kept : m.buffer = chain[n] => m.at + m.size <= s.actFill
    BY <1>3, <1>4 DEF SnapshotFits
  <2>9. MonoHeader <= s.actFill /\ s.actFill <= buffers[chain[n]].end
    BY <1>3, <1>4 DEF SnapshotFits
  <2>10. kept \subseteq blocks
    OBVIOUS
  <2> HIDE DEF kept, s
  <2> QED BY <1>3, <1>4, <2>6, <2>7, <2>8, <2>9, <2>10 DEF MayReset, b
<1>6. Snapped(SubSeq(snapshots, 1, k), BuffersReset(buffers, chain, n, s.actFill), b, self)
  BY <1>2, <1>3, <1>5, SnapshotsAfterReset, Zenon
<1> HIDE DEF s, kept
<1> QED BY <1>1, <1>5, <1>6, ResetKeeps, Zenon DEF b

LEMMA ResetAllKeeps == ASSUME InUse, Mono!ResetAll PROVE InUse'
<1> DEFINE n == Len(chain)
           fill == IF self THEN MonoHeader + MonoSelfSize ELSE MonoHeader
           kept == {m \in blocks : self /\ m.buffer = chain[n] /\ m.at = MonoHeader}
           b == SubSeq(chain, n, n)
<1>1. /\ buffers' = Mono!ResetBuffers(n, fill) /\ chain' = b
      /\ recyclables' = Mono!Recycled(n) /\ blocks' = kept /\ snapshots' = <<>>
      /\ UNCHANGED <<nextBuffersUsableSize, self, external>>
  BY Zenon DEF Mono!ResetAll
<1>2. /\ Orderly(buffers, blocks, chain, recyclables, self) /\ Sound(buffers)
      /\ chain \in Seq(DOMAIN buffers) /\ chain # <<>> /\ chain[n] = 1 /\ Placed(buffers, blocks, self)
      /\ self \in BOOLEAN
  BY DEF InUse, Orderly, ListedOnce
<1>3. PICK S : S = DOMAIN buffers
  OBVIOUS
<1>4. chain \in Seq(S) /\ n \in DOMAIN chain /\ n \in Nat /\ 1 \in S
  BY <1>2, <1>3
<1>5. 1 \in Items(b)
  <2>1. 1 \in DOMAIN b /\ b[1] = chain[n]
    BY <1>4
  <2> HIDE DEF b, n
  <2> QED BY <1>2, <2>1 DEF Items
<1>6. /\ MonoHeader \in Nat /\ MonoSelfSize \in Nat \ {0}
  BY MonoConstants
<1>7. /\ buffers[1] \in [act : Nat, end : Nat]
      /\ MonoHeader <= buffers[1].act /\ buffers[1].act <= buffers[1].end
  <2>1. buffers \in Seq([act : Nat, end : Nat]) /\ 1 \in DOMAIN buffers
    BY <1>2, <1>3, <1>4 DEF Sound
  <2> QED BY <1>2, <2>1, ListElements DEF Sound
<1>8. /\ SelfBlock.buffer = 1 /\ SelfBlock.at = MonoHeader /\ SelfBlock.size = MonoSelfSize
  BY DEF SelfBlock
<1>9. self => SelfBlock \in kept /\ MonoHeader + MonoSelfSize <= buffers[1].act
  <2>1. self => SelfBlock \in blocks
    BY <1>2 DEF Placed
  <2> QED BY <1>2, <1>8, <2>1 DEF Placed
<1>10. fill \in Nat /\ MonoHeader <= fill /\ fill <= buffers[1].end
  <2>1. CASE self
    BY <1>6, <1>7, <1>9, <2>1
  <2>2. CASE ~self
    BY <1>6, <1>7, <2>2
  <2> QED BY <2>1, <2>2
<1>11. ASSUME NEW m \in kept PROVE m.buffer = 1 /\ m.at + m.size <= fill
  <2>1. self /\ m.buffer = 1 /\ m.at = MonoHeader /\ m \in blocks /\ SelfBlock \in blocks
    BY <1>2, <1>9
  <2>2. m.size \in Nat \ {0}
    BY <1>2, <2>1 DEF Placed, MonoBlocks
  <2>3. m = SelfBlock
    <3>1. m # SelfBlock => m.at + m.size <= SelfBlock.at \/ SelfBlock.at + SelfBlock.size <= m.at
      BY <1>2, <1>8, <2>1 DEF Placed
    <3> QED BY <1>6, <1>8, <2>1, <2>2, <3>1
  <2>4. fill = MonoHeader + MonoSelfSize
    BY <2>1
  <2> HIDE DEF fill
  <2> QED BY <1>6, <1>8, <2>1, <2>3, <2>4
<1>12. kept \subseteq blocks
  OBVIOUS
<1> HIDE DEF kept, fill
<1>13. MayReset(buffers, blocks, chain, n, fill, kept, self)
  <2>1. \A m \in kept : m.buffer \in Items(SubSeq(chain, n, Len(chain)))
    BY <1>5, <1>11
  <2> QED BY <1>2, <1>4, <1>9, <1>10, <1>11, <1>12, <2>1, Zenon DEF MayReset
<1>14. Snapped(<<>>, BuffersReset(buffers, chain, n, fill), b, self)
  BY DEF Snapped
<1> QED BY <1>1, <1>13, <1>14, ResetKeeps, Zenon

LEMMA DestroyingFrees ==
    ASSUME InUse, Mono!Destruct
    PROVE  Destructed'
<1> DEFINE n == Len(chain)
           a == SubSeq(chain, 1, n - 1)
           b == SubSeq(chain, n, n)
           mine == IF external THEN a ELSE chain
<1>1. /\ chain' = <<>> /\ recyclables' = <<>> /\ blocks' = {} /\ snapshots' = <<>>
      /\ freed' = recyclables \o mine
      /\ UNCHANGED <<buffers, nextBuffersUsableSize, self, external>>
  BY DEF Mono!Destruct
<1>2. /\ Sound(buffers) /\ chain \in Seq(DOMAIN buffers) /\ recyclables \in Seq(DOMAIN buffers)
      /\ chain # <<>> /\ chain[n] = 1 /\ Once(chain) /\ Once(recyclables)
      /\ Items(chain) \cap Items(recyclables) = {}
      /\ Items(chain) \cup Items(recyclables) = DOMAIN buffers
      /\ external \in BOOLEAN /\ self \in BOOLEAN /\ nextBuffersUsableSize \in Nat
  BY DEF InUse, Orderly, ListedOnce
<1>3. PICK S : S = DOMAIN buffers
  OBVIOUS
<1>4. chain \in Seq(S) /\ recyclables \in Seq(S) /\ n \in 1..(n + 1) /\ n \in Nat /\ n >= 1
  BY <1>2, <1>3
<1>5. a \in Seq(S) /\ b \in Seq(S) /\ a \o b = chain
  BY <1>4, Splitting, Zenon
<1>6. Items(b) = {1}
  <2>1. DOMAIN b = {1} /\ b[1] = chain[n]
    BY <1>2, <1>4
  <2> HIDE DEF b, n
  <2> QED BY <1>2, <2>1 DEF Items
<1> HIDE DEF a, b
<1>7. Once(a) /\ Items(a) \cap {1} = {} /\ Items(chain) = Items(a) \cup {1}
  <2>1. Items(a \o b) = Items(a) \cup Items(b)
    BY <1>5, AppendedItems, ZenonT(40)
  <2>2. Once(a \o b)
    BY <1>2, <1>5
  <2>3. Once(a) /\ Items(a) \cap Items(b) = {}
    BY <1>5, <2>2, AppendedItems, ZenonT(40)
  <2> QED BY <1>5, <1>6, <2>1, <2>3
<1>8. /\ mine \in Seq(S) /\ Once(mine)
      /\ Items(mine) = Items(chain) \ (IF external THEN {1} ELSE {})
  <2>1. CASE external
    BY <1>5, <1>7, <2>1
  <2>2. CASE ~external
    BY <1>2, <1>4, <2>2
  <2> QED BY <2>1, <2>2
<1>9. external => 1 \notin Items(recyclables)
  BY <1>2, <1>7
<1> HIDE DEF mine
<1>10. Once(freed') /\ Items(freed') = DOMAIN buffers \ (IF external THEN {1} ELSE {})
  <2>1. Items(recyclables) \cap Items(mine) = {}
    BY <1>2, <1>8
  <2>2. Items(freed') = Items(recyclables) \cup Items(mine)
    BY <1>1, <1>4, <1>8, AppendedItems
  <2>3. Once(freed')
    BY <1>1, <1>2, <1>4, <1>8, <2>1, AppendedItems
  <2> QED BY <1>2, <1>8, <1>9, <2>2, <2>3
<1>11. Mono!DestructFreesAll'
  <2>1. Mono!IsInjective(freed')
    BY <1>10 DEF Once, Mono!IsInjective
  <2>2. Mono!ToSet(freed') = Items(freed')
    BY DEF Mono!ToSet, Items
  <2> QED BY <1>1, <1>10, <2>1, <2>2 DEF Mono!DestructFreesAll
<1>12. Sound(buffers')
  BY <1>1, <1>2
<1> QED BY <1>1, <1>2, <1>11, <1>12 DEF Destructed

LEMMA InitMono == ASSUME DataInit, component = "MonoAllocator" PROVE InUse
<1> DEFINE new == [act |-> MonoHeader, end |-> MonoFirstSize]
           begun == [act |-> MonoHeader + MonoSelfSize, end |-> MonoFirstSize]
<1>1. Mono!Init
  BY DEF DataInit
<1>2. /\ self \in BOOLEAN /\ external \in BOOLEAN
      /\ chain = <<1>> /\ recyclables = <<>> /\ snapshots = <<>>
      /\ nextBuffersUsableSize = (MonoFirstSize * MonoGrowth) \div 100
  BY <1>1 DEF Mono!Init
<1>3. /\ MonoHeader \in Nat /\ MonoFirstSize \in Nat /\ MonoSelfSize \in Nat \ {0}
      /\ MonoFirstSize > MonoHeader + MonoSelfSize /\ EndsAligned(MonoFirstSize)
  BY MonoConstants
<1>4. nextBuffersUsableSize \in Nat /\ EndsAligned(nextBuffersUsableSize)
  BY <1>2, <1>3, SizesGrowAligned
<1>5. /\ self => buffers = <<begun>> /\ blocks = {SelfBlock}
      /\ ~self => buffers = <<new>> /\ blocks = {}
  <2>1. PICK h \in Nat : h = MonoHeader
    BY <1>3
  <2>2. Mono!firstOffset(h, 1) = h
    BY DEF Mono!firstOffset
  <2>3. Mono!NewBuffer(MonoFirstSize) = new
    BY DEF Mono!NewBuffer
  <2>4. Mono!aligned(new, 1) = MonoHeader
    BY <2>1, <2>2 DEF Mono!aligned
  <2>5. Mono!Filled(new, MonoSelfSize, 1) = begun
    BY <2>4 DEF Mono!Filled
  <2>6. Mono!Block(1, new, MonoSelfSize, 1) = SelfBlock
    BY <2>4, Zenon DEF Mono!Block, SelfBlock
  <2> HIDE DEF new, begun
  <2> QED BY <1>1, <2>3, <2>5, <2>6, Zenon DEF Mono!Init
<1>6. /\ Sound(buffers) /\ DOMAIN buffers = {1} /\ Len(buffers) = 1
      /\ self => buffers[1].act = MonoHeader + MonoSelfSize
  <2>1. PICK b \in [act : Nat, end : Nat] :
          /\ buffers = <<b>> /\ MonoHeader <= b.act /\ b.act <= b.end /\ EndsAligned(b.end)
          /\ self => b.act = MonoHeader + MonoSelfSize
    <3>1. /\ new \in [act : Nat, end : Nat] /\ begun \in [act : Nat, end : Nat]
          /\ MonoHeader <= new.act /\ new.act <= new.end /\ EndsAligned(new.end)
          /\ MonoHeader <= begun.act /\ begun.act <= begun.end /\ EndsAligned(begun.end)
          /\ begun.act = MonoHeader + MonoSelfSize
      BY <1>3
    <3> HIDE DEF new, begun
    <3>2. CASE self
      BY <1>5, <3>1, <3>2
    <3>3. CASE ~self
      BY <1>5, <3>1, <3>3
    <3> QED BY <3>2, <3>3
  <2>2. <<b>> \in Seq([act : Nat, end : Nat]) /\ DOMAIN <<b>> = {1} /\ Len(<<b>>) = 1 /\ <<b>>[1] = b
    OBVIOUS
  <2> QED BY <2>1, <2>2 DEF Sound
<1>7. /\ SelfBlock \in MonoBlocks
      /\ SelfBlock.buffer = 1 /\ SelfBlock.at = MonoHeader /\ SelfBlock.size = MonoSelfSize
      /\ SelfBlock.at % SelfBlock.alignment = 0
  BY <1>3 DEF SelfBlock, MonoBlocks
<1>8. Placed(buffers, blocks, self)
  <2>1. CASE self
    BY <1>3, <1>5, <1>6, <1>7, <2>1 DEF Placed
  <2>2. CASE ~self
    BY <1>5, <2>2 DEF Placed
  <2> QED BY <2>1, <2>2
<1>9. ListedOnce(buffers, chain, recyclables) /\ Items(chain) = {1} /\ Items(recyclables) = {}
  <2>1. /\ chain \in Seq({1}) /\ recyclables \in Seq({1}) /\ chain # <<>> /\ Len(chain) = 1
        /\ Len(recyclables) = 0 /\ chain[1] = 1 /\ DOMAIN chain = {1} /\ DOMAIN recyclables = {}
    BY <1>2
  <2>2. Items(chain) = {1} /\ Items(recyclables) = {} /\ Once(chain) /\ Once(recyclables)
    BY <2>1 DEF Items, Once
  <2> QED BY <1>6, <2>1, <2>2 DEF ListedOnce
<1>10. \A m \in blocks : m.buffer \in Items(chain)
  BY <1>2, <1>5, <1>7, <1>9
<1>11. Snapped(snapshots, buffers, chain, self)
  BY <1>2 DEF Snapped
<1>12. Orderly(buffers, blocks, chain, recyclables, self)
  BY <1>6, <1>8, <1>9, <1>10 DEF Orderly
<1>13. chain # <<>>
  BY <1>2
<1> QED BY <1>2, <1>4, <1>11, <1>12, <1>13 DEF InUse

LEMMA StepKeepsMono == MonoInv /\ [DataNext]_dataVars => MonoInv'
<1> SUFFICES ASSUME MonoInv, [DataNext]_dataVars, component = "MonoAllocator" PROVE MonoInv'
  BY OneComponentMoves DEF MonoInv
<1>1. component' = component /\ [Mono!Next]_monoVars
  BY OneComponentMoves
<1>2. InUse \/ Destructed
  BY DEF MonoInv
<1>3. CASE UNCHANGED monoVars
  BY <1>1, <1>2, <1>3 DEF monoVars, MonoInv, InUse, Destructed, Mono!DestructFreesAll, Mono!Alive
<1>4. CASE Mono!Next /\ InUse
  <2>1. ASSUME NEW n \in MonoSizes, NEW a \in MonoAlignments, Mono!allocate(n, a) PROVE InUse'
    BY <1>4, <2>1, AllocatingKeeps
  <2>2. ASSUME NEW m \in blocks, NEW n \in MonoSizes, Mono!reallocate(m, n) PROVE InUse'
    BY <1>4, <2>2, ReallocatingKeeps
  <2>3. ASSUME Mono!TakeSnapshot PROVE InUse'
    BY <1>4, <2>3, SnapshotKeeps
  <2>4. ASSUME NEW k \in DOMAIN snapshots, Mono!Reset(k) PROVE InUse'
    BY <1>4, <2>4, ResetToSnapshotKeeps
  <2>5. ASSUME Mono!ResetAll PROVE InUse'
    BY <1>4, <2>5, ResetAllKeeps
  <2>6. ASSUME Mono!Destruct PROVE Destructed'
    BY <1>4, <2>6, DestroyingFrees
  <2>7. InUse' \/ Destructed'
    BY <1>4, <2>1, <2>2, <2>3, <2>4, <2>5, <2>6, Zenon DEF Mono!Next
  <2> QED BY <2>7 DEF MonoInv
\* A destructed allocator is not used any more.
<1>5. ASSUME Mono!Next, Destructed PROVE FALSE
  <2>1. chain = <<>>
    BY <1>5 DEF Destructed
  <2> QED BY <1>5, <2>1 DEF Mono!Next, Mono!allocate, Mono!reallocate, Mono!TakeSnapshot, Mono!Reset,
                            Mono!ResetAll, Mono!Destruct, Mono!Alive
<1> QED BY <1>1, <1>2, <1>3, <1>4, <1>5

LEMMA MonoIsSound ==
    ASSUME MonoInv, component = "MonoAllocator"
    PROVE  /\ Mono!TypeOK
           /\ Mono!BlocksLieInTheirBuffer
           /\ Mono!BlocksAreDisjoint
           /\ Mono!BuffersAreListedOnce
           /\ Mono!DestructFreesAll
<1>1. CASE Destructed
  <2>1. /\ buffers \in Seq([act : Nat, end : Nat]) /\ chain = <<>> /\ recyclables = <<>> /\ blocks = {}
        /\ nextBuffersUsableSize \in Nat /\ self \in BOOLEAN /\ external \in BOOLEAN
    BY <1>1 DEF Destructed, Sound
  <2>2. chain \in Seq(DOMAIN buffers) /\ recyclables \in Seq(DOMAIN buffers)
    BY <2>1
  <2> QED BY <1>1, <2>1, <2>2 DEF Destructed, Mono!TypeOK, Mono!BlocksLieInTheirBuffer,
             Mono!BlocksAreDisjoint, Mono!BuffersAreListedOnce, Mono!Alive
<1>2. CASE InUse
  <2>1. /\ Sound(buffers) /\ ListedOnce(buffers, chain, recyclables) /\ Placed(buffers, blocks, self)
        /\ \A i \in Items(recyclables) : buffers[i].act = MonoHeader
        /\ \A m \in blocks : m.buffer \in Items(chain)
        /\ chain # <<>> /\ nextBuffersUsableSize \in Nat /\ self \in BOOLEAN /\ external \in BOOLEAN
    BY <1>2 DEF InUse, Orderly
  <2>2. Mono!TypeOK
    BY <2>1 DEF Mono!TypeOK, Sound, ListedOnce
  <2>3. Mono!BlocksLieInTheirBuffer
    <3> SUFFICES ASSUME NEW m \in blocks
                 PROVE  /\ m.at >= MonoHeader
                        /\ m.at + m.size <= buffers[m.buffer].end
                        /\ m.at % m.alignment = 0
      BY DEF Mono!BlocksLieInTheirBuffer
    <3>1. /\ m \in MonoBlocks /\ m.buffer \in DOMAIN buffers
          /\ MonoHeader <= m.at /\ m.at + m.size <= buffers[m.buffer].act /\ m.at % m.alignment = 0
      BY <2>1 DEF Placed
    <3>2. buffers[m.buffer] \in [act : Nat, end : Nat] /\ buffers[m.buffer].act <= buffers[m.buffer].end
      <4>1. buffers \in Seq([act : Nat, end : Nat])
        BY <2>1 DEF Sound
      <4> QED BY <2>1, <3>1, <4>1, ListElements DEF Sound
    <3>3. m.at \in Nat /\ m.size \in Nat
      BY <3>1 DEF MonoBlocks
    <3>4. MonoHeader \in Nat
      BY MonoConstants
    <3> QED BY <3>1, <3>2, <3>3, <3>4
  <2>4. Mono!BlocksAreDisjoint
    BY <2>1 DEF Placed, Mono!BlocksAreDisjoint
  <2>5. Mono!BuffersAreListedOnce
    <3>1. PICK S : S = DOMAIN buffers
      OBVIOUS
    <3>2. /\ chain \in Seq(S) /\ recyclables \in Seq(S) /\ Items(chain) \cup Items(recyclables) = S
          /\ Len(chain) + Len(recyclables) = Len(buffers)
      BY <2>1, <3>1 DEF ListedOnce
    <3>3. Items(chain \o recyclables) = S
      <4>1. chain \in Seq(S) /\ recyclables \in Seq(S)
        BY <3>2
      <4>2. Items(chain \o recyclables) = Items(chain) \cup Items(recyclables)
        BY <4>1, AppendedItems, ZenonT(40)
      <4> QED BY <3>2, <4>2
    <3>4. Len(chain \o recyclables) = Len(buffers)
      BY <3>2
    <3>5. /\ Mono!ToSet(chain) = Items(chain) /\ Mono!ToSet(recyclables) = Items(recyclables)
          /\ Mono!ToSet(chain \o recyclables) = Items(chain \o recyclables)
      BY Zenon DEF Mono!ToSet, Items
    <3> QED BY <2>1, <3>1, <3>3, <3>4, <3>5, Zenon DEF Mono!BuffersAreListedOnce
  <2>6. Mono!DestructFreesAll
    BY <2>1 DEF Mono!DestructFreesAll, Mono!Alive
  <2> QED BY <2>2, <2>3, <2>4, <2>5, <2>6
<1> QED BY <1>1, <1>2 DEF MonoInv

\* The monotonic allocator: whatever sequence of allocations, reallocations, snapshots and resets,
\* a block lies aligned in its buffer and shares no byte with another one, each buffer is in one
\* of the two lists once, and the destructor frees each one once.
THEOREM MemoryIsAlwaysHandedOutOnce == DataSpec => []MemoryIsHandedOutOnce
<1>1. DataInit => MonoInv
  BY InitMono DEF MonoInv
<1>2. MonoInv => MemoryIsHandedOutOnce
  BY MonoIsSound DEF MemoryIsHandedOutOnce
<1> QED BY <1>1, <1>2, StepKeepsMono, PTL DEF DataSpec
-----------------------------------------------------------------------------
(* PoolAllocator                                                             *)

LEMMA PowersDouble ==
    ASSUME NEW n \in Nat
    PROVE  2 ^ n \in Nat /\ 2 ^ n >= 1 /\ 2 ^ (n + 1) = 2 * 2 ^ n
<1> DEFINE A == SUBSET (1..n)
           B == {X \cup {n + 1} : X \in A}
<1>1. /\ IsFiniteSet(1..n) /\ Cardinality(1..n) = n
      /\ IsFiniteSet(1..n + 1) /\ Cardinality(1..n + 1) = n + 1
  <2>1. 1 \in Int /\ n \in Int /\ n + 1 \in Int /\ (1 > n => n = 0) /\ ~(1 > n + 1)
    OBVIOUS
  <2>2. IsFiniteSet(1..n) /\ Cardinality(1..n) = IF 1 > n THEN 0 ELSE n - 1 + 1
    BY <2>1, FS_Interval
  <2>3. IsFiniteSet(1..n + 1) /\ Cardinality(1..n + 1) = IF 1 > n + 1 THEN 0 ELSE n + 1 - 1 + 1
    BY <2>1, FS_Interval
  <2> QED BY <2>1, <2>2, <2>3
<1>2. IsFiniteSet(A) /\ Cardinality(A) = 2 ^ n
  BY <1>1, FS_SUBSET
<1>3. IsFiniteSet(SUBSET (1..n + 1)) /\ Cardinality(SUBSET (1..n + 1)) = 2 ^ (n + 1)
  BY <1>1, FS_SUBSET
<1>4. n + 1 \notin 1..n /\ 1..n + 1 = 1..n \cup {n + 1}
  OBVIOUS
<1>5. SUBSET (1..n + 1) = A \cup B
  <2>1. ASSUME NEW X \in SUBSET (1..n + 1) PROVE X \in A \cup B
    <3>1. CASE n + 1 \in X
      <4>1. X \ {n + 1} \in A /\ X = (X \ {n + 1}) \cup {n + 1}
        BY <1>4, <3>1
      <4> QED BY <4>1
    <3>2. CASE n + 1 \notin X
      BY <1>4, <3>2
    <3> QED BY <3>1, <3>2
  <2>2. ASSUME NEW X \in A PROVE X \cup {n + 1} \in SUBSET (1..n + 1) /\ X \in SUBSET (1..n + 1)
    BY <1>4
  <2> HIDE DEF A
  <2> QED BY <2>1, <2>2
<1>6. A \cap B = {}
  BY <1>4
<1> DEFINE f == [X \in A |-> X \cup {n + 1}]
<1>7. f \in Bijection(A, B)
  <2>1. f \in [A -> B]
    OBVIOUS
  <2>2. \A X, Y \in A : f[X] = f[Y] => X = Y
    <3> TAKE X, Y \in A
    <3>1. f[X] = X \cup {n + 1} /\ f[Y] = Y \cup {n + 1} /\ n + 1 \notin X /\ n + 1 \notin Y
      BY <1>4
    <3> HIDE DEF f
    <3> QED BY <3>1
  <2>3. \A Z \in B : \E X \in A : f[X] = Z
    OBVIOUS
  <2> HIDE DEF f, A, B
  <2>4. f \in Injection(A, B)
    BY <2>1, <2>2, Zenon DEF Injection, IsInjective
  <2>5. f \in Surjection(A, B)
    BY <2>1, <2>3, Zenon DEF Surjection
  <2> QED BY <2>4, <2>5, Zenon DEF Bijection
<1> HIDE DEF A, B, f
<1>8. IsFiniteSet(B) /\ Cardinality(B) = Cardinality(A)
  <2>1. ExistsBijection(A, B)
    BY <1>7, Zenon DEF ExistsBijection
  <2> QED BY <1>2, <2>1, FS_Bijection
<1>9. Cardinality(A \cup B) = Cardinality(A) + Cardinality(B) - Cardinality(A \cap B)
  BY <1>2, <1>8, FS_Union
<1>10. Cardinality(A \cap B) = 0 /\ Cardinality(A) \in Nat /\ Cardinality(A) # 0
  <2>1. {} \in A
    BY DEF A
  <2> QED BY <1>2, <1>6, <2>1, FS_EmptySet, FS_CardinalityType
<1>11. PICK p, q : p = 2 ^ n /\ q = 2 ^ (n + 1)
  OBVIOUS
<1>12. p \in Nat /\ p # 0 /\ q = p + p - 0
  BY <1>2, <1>3, <1>5, <1>8, <1>9, <1>10, <1>11, Zenon
<1>13. p >= 1 /\ q = 2 * p
  BY <1>12
<1> QED BY <1>11, <1>12, <1>13, Zenon

LEMMA PowersGrow ==
    ASSUME NEW m \in Nat, NEW n \in Nat
    PROVE  /\ m <= n => 2 ^ m <= 2 ^ n
           /\ m < n => 2 * 2 ^ m <= 2 ^ n
           /\ n < 2 ^ n
<1>1. ASSUME NEW a \in Nat, NEW b \in Nat, a <= b PROVE 2 ^ a <= 2 ^ b
  <2> DEFINE Bad == {c \in Nat : a <= c /\ ~(2 ^ a <= 2 ^ c)}
  <2> SUFFICES ASSUME Bad # {} PROVE FALSE
    BY <1>1
  <2>1. PICK c \in Bad : \A d \in Bad : c <= d
    BY LeastOfNaturals
  <2>2. c \in Nat /\ a <= c /\ ~(2 ^ a <= 2 ^ c) /\ 2 ^ a \in Nat
    BY PowersDouble
  <2>3. c # a
    BY <2>2
  <2>4. c - 1 \in Nat /\ a <= c - 1 /\ c - 1 + 1 = c /\ ~(c <= c - 1)
    BY <2>2, <2>3
  <2>5. 2 ^ a <= 2 ^ (c - 1)
    BY <2>1, <2>4
  <2>6. 2 ^ (c - 1) \in Nat /\ 2 ^ (c - 1 + 1) = 2 * 2 ^ (c - 1)
    BY <2>4, PowersDouble
  <2>7. 2 ^ c = 2 * 2 ^ (c - 1)
    BY <2>4, <2>6
  <2> QED BY <2>2, <2>5, <2>6, <2>7
<1>2. ASSUME m < n PROVE 2 * 2 ^ m <= 2 ^ n
  <2>1. m + 1 \in Nat /\ m + 1 <= n
    BY <1>2
  <2>2. 2 ^ (m + 1) <= 2 ^ n
    BY <1>1, <2>1
  <2> QED BY <2>2, PowersDouble
<1>3. n < 2 ^ n
  <2> DEFINE Bad == {c \in Nat : ~(c < 2 ^ c)}
  <2> SUFFICES ASSUME Bad # {} PROVE FALSE
    OBVIOUS
  <2>1. PICK c \in Bad : \A d \in Bad : c <= d
    BY LeastOfNaturals
  <2>2. c \in Nat /\ ~(c < 2 ^ c)
    OBVIOUS
  <2>3. c # 0
    BY <2>2, PowersDouble
  <2>4. c - 1 \in Nat /\ c - 1 + 1 = c /\ ~(c <= c - 1)
    BY <2>2, <2>3
  <2>5. c - 1 < 2 ^ (c - 1)
    BY <2>1, <2>4
  <2>6. 2 ^ (c - 1) \in Nat /\ 2 ^ (c - 1 + 1) = 2 * 2 ^ (c - 1)
    BY <2>4, PowersDouble
  <2>7. 2 ^ c = 2 * 2 ^ (c - 1)
    BY <2>4, <2>6
  <2> QED BY <2>2, <2>4, <2>5, <2>6, <2>7
<1> QED BY <1>1, <1>2, <1>3

LEMMA HighestBit ==
    ASSUME NEW n \in Nat, n >= 1
    PROVE  \E k \in Nat : Pool!MSB(n) = k /\ k >= 1 /\ 2 ^ (k - 1) <= n /\ n < 2 ^ k
<1> DEFINE Above == {k \in Nat : n < 2 ^ k}
           Fits(k) == 2 ^ (k - 1) <= n /\ n < 2 ^ k
<1>1. n \in Above
  BY PowersGrow
<1>2. PICK k \in Above : \A j \in Above : k <= j
  BY <1>1, LeastOfNaturals
<1>3. k \in Nat /\ n < 2 ^ k /\ k <= n
  BY <1>1, <1>2
<1>4. k # 0
  <2> SUFFICES ASSUME k = 0 PROVE FALSE
    OBVIOUS
  <2>1. n < 2 ^ 0 /\ 2 ^ 0 = 1
    <3>1. 2 ^ 0 = 1
      OBVIOUS
    <3>2. 2 ^ k = 2 ^ 0
      OBVIOUS
    <3> QED BY <1>3, <3>1, <3>2, Zenon
  <2>2. n < 1
    BY <2>1, Zenon
  <2> QED BY <2>2
<1>5. k - 1 \in Nat /\ ~(k <= k - 1) /\ k \in 1..n + 1
  BY <1>3, <1>4
<1>6. ~(n < 2 ^ (k - 1))
  BY <1>2, <1>5
<1>7. Fits(k)
  BY <1>3, <1>5, <1>6, PowersDouble
<1>8. Pool!MSB(n) = CHOOSE j \in 1..n + 1 : Fits(j)
  BY DEF Pool!MSB
<1> HIDE DEF Fits
<1>9. Pool!MSB(n) \in 1..n + 1 /\ Fits(Pool!MSB(n))
  BY <1>5, <1>7, <1>8
<1> QED BY <1>9 DEF Fits

LEMMA PoolConstants ==
    /\ PoolSmallest \in Nat /\ PoolHooks \in Nat /\ PoolHooks >= 1 /\ MaxAllocated \in Nat
    /\ \A s \in PoolRequests : s \in Nat /\ s >= 1 /\ s <= 2 ^ (PoolSmallest + PoolHooks - 1)
<1>1. Pool!PoolAllocatorAssumption
  BY PoolAssumption
<1> QED BY <1>1 DEF Pool!PoolAllocatorAssumption

\* The stack whose blocks are the smallest that are large enough.
Suits(s, i) ==
    /\ i \in Nat
    /\ s <= 2 ^ (i + PoolSmallest)
    /\ i > 0 => 2 ^ (i - 1 + PoolSmallest) < s

LEMMA RemainderOfOne ==
    ASSUME NEW p \in Nat, NEW n \in Nat, p <= n, n < 2 * p PROVE n % p = n - p
OBVIOUS

LEMMA HookSuits == ASSUME NEW s \in Nat, s >= 1 PROVE Suits(s, Pool!hookIndex(s))
<1> DEFINE m == PoolSmallest
<1>1. m \in Nat /\ 2 ^ m \in Nat /\ 0 + m = m
  BY PoolConstants, PowersDouble
<1>2. CASE s < 2 ^ m
  BY <1>1, <1>2 DEF Suits, Pool!hookIndex
<1>3. CASE ~(s < 2 ^ m)
  <2>1. PICK k \in Nat : Pool!MSB(s) = k /\ k >= 1 /\ 2 ^ (k - 1) <= s /\ s < 2 ^ k
    BY HighestBit
  <2>2. ~(k <= m)
    <3>1. ASSUME k <= m PROVE FALSE
      <4>1. 2 ^ k <= 2 ^ m /\ 2 ^ k \in Nat
        BY <1>1, <3>1, PowersGrow, PowersDouble
      <4> QED BY <1>1, <1>3, <2>1, <4>1
    <3> QED BY <3>1
  <2>3. PICK j \in Nat : j = k - 1 /\ j >= m /\ k = j + 1
    BY <1>1, <2>1, <2>2
  <2>4. 2 ^ j \in Nat /\ 2 ^ j <= s /\ s < 2 * 2 ^ j /\ 2 ^ (j + 1) = 2 * 2 ^ j
    BY <2>1, <2>3, PowersDouble
  <2>5. s % 2 ^ j = s - 2 ^ j
    BY <2>4, RemainderOfOne
  <2>6. Pool!hookIndex(s) = (IF s % 2 ^ j = 0 THEN j ELSE j + 1) - m
    BY <1>3, <2>1, <2>3 DEF Pool!hookIndex
  <2>7. CASE s = 2 ^ j
    <3>1. PICK i \in Nat : i = j - m /\ i + m = j
      BY <1>1, <2>3
    <3>2. Pool!hookIndex(s) = i
      BY <2>4, <2>5, <2>6, <2>7, <3>1
    <3>3. ASSUME i > 0 PROVE 2 ^ (i - 1 + m) < s
      <4>1. i - 1 + m \in Nat /\ i - 1 + m < j
        BY <1>1, <3>1, <3>3
      <4>2. 2 * 2 ^ (i - 1 + m) <= 2 ^ j /\ 2 ^ (i - 1 + m) \in Nat /\ 2 ^ (i - 1 + m) >= 1
        BY <4>1, PowersGrow, PowersDouble
      <4> QED BY <2>4, <2>7, <4>2
    <3> QED BY <2>4, <2>7, <3>1, <3>2, <3>3 DEF Suits
  <2>8. CASE s # 2 ^ j
    <3>1. PICK i \in Nat : i = j + 1 - m /\ i + m = j + 1 /\ i - 1 + m = j
      BY <1>1, <2>3
    <3>2. Pool!hookIndex(s) = i
      <4>1. PICK p \in Nat : p = 2 ^ j
        BY <2>4
      <4>2. s - p # 0
        BY <2>4, <2>8, <4>1
      <4>3. s % 2 ^ j # 0
        BY <2>5, <4>1, <4>2, Zenon
      <4>4. PICK c : c = IF s % 2 ^ j = 0 THEN j ELSE j + 1
        OBVIOUS
      <4>5. c = j + 1 /\ Pool!hookIndex(s) = c - m
        BY <2>6, <4>3, <4>4, Zenon
      <4>6. PICK h : h = Pool!hookIndex(s)
        OBVIOUS
      <4>7. h = c - m /\ c = j + 1 /\ c \in Int /\ m \in Int
        BY <1>1, <4>5, <4>6
      <4>8. h = i
        BY <3>1, <4>7
      <4> QED BY <4>6, <4>8
    <3>3. s <= 2 ^ (i + m) /\ 2 ^ (i - 1 + m) < s
      BY <2>4, <2>8, <3>1
    <3> QED BY <3>2, <3>3 DEF Suits
  <2> QED BY <2>7, <2>8
<1> QED BY <1>2, <1>3

LEMMA OneSuits ==
    ASSUME NEW s \in Nat, NEW i, NEW j, Suits(s, i), Suits(s, j)
    PROVE  i = j
<1>1. ASSUME NEW a, NEW b, Suits(s, a), Suits(s, b), a < b PROVE FALSE
  <2>1. /\ a \in Nat /\ b \in Nat /\ b > 0 /\ PoolSmallest \in Nat
        /\ s <= 2 ^ (a + PoolSmallest) /\ 2 ^ (b - 1 + PoolSmallest) < s
    BY <1>1, PoolConstants DEF Suits
  <2>2. /\ a + PoolSmallest \in Nat /\ b - 1 + PoolSmallest \in Nat
        /\ a + PoolSmallest <= b - 1 + PoolSmallest
    BY <1>1, <2>1
  <2>3. /\ 2 ^ (a + PoolSmallest) <= 2 ^ (b - 1 + PoolSmallest)
        /\ 2 ^ (a + PoolSmallest) \in Nat /\ 2 ^ (b - 1 + PoolSmallest) \in Nat
    BY <2>2, PowersGrow, PowersDouble
  <2> QED BY <2>1, <2>3
<1>2. i \in Nat /\ j \in Nat
  BY DEF Suits
<1> QED BY <1>1, <1>2

LEMMA SizesOfHooks ==
    ASSUME NEW i \in Nat
    PROVE  /\ Pool!GetAllocationSize(i) \in Nat /\ Pool!GetAllocationSize(i) >= 1
           /\ Pool!hookIndex(Pool!GetAllocationSize(i)) = i
<1>1. PoolSmallest \in Nat /\ i + PoolSmallest \in Nat
  BY PoolConstants
<1>2. PICK s : s = 2 ^ (i + PoolSmallest)
  OBVIOUS
<1>3. s \in Nat /\ s >= 1
  BY <1>1, <1>2, PowersDouble
<1>4. ASSUME i > 0 PROVE 2 ^ (i - 1 + PoolSmallest) < s
  <2>1. i - 1 + PoolSmallest \in Nat /\ i - 1 + PoolSmallest < i + PoolSmallest
    BY <1>1, <1>4
  <2>2. /\ 2 * 2 ^ (i - 1 + PoolSmallest) <= 2 ^ (i + PoolSmallest)
        /\ 2 ^ (i - 1 + PoolSmallest) \in Nat /\ 2 ^ (i - 1 + PoolSmallest) >= 1
    BY <1>1, <2>1, PowersGrow, PowersDouble
  <2> QED BY <1>2, <1>3, <2>2
<1>5. Suits(s, i)
  BY <1>2, <1>3, <1>4 DEF Suits
<1>6. Pool!hookIndex(s) = i
  BY <1>3, <1>5, HookSuits, OneSuits
<1> QED BY <1>2, <1>3, <1>6 DEF Pool!GetAllocationSize

LEMMA RequestsHaveHooks ==
    ASSUME NEW s \in PoolRequests
    PROVE  s \in Nat /\ s >= 1 /\ Pool!hookIndex(s) \in 0..PoolHooks - 1
<1>1. s \in Nat /\ s >= 1 /\ s <= 2 ^ (PoolSmallest + PoolHooks - 1)
  BY PoolConstants
<1>2. PICK i \in Nat : i = Pool!hookIndex(s) /\ Suits(s, i)
  BY <1>1, HookSuits DEF Suits
<1>3. PoolSmallest \in Nat /\ PoolHooks \in Nat /\ PoolHooks >= 1
  BY PoolConstants
<1>4. ASSUME i >= PoolHooks PROVE FALSE
  <2>1. /\ PoolSmallest + PoolHooks - 1 \in Nat /\ i - 1 + PoolSmallest \in Nat
        /\ PoolSmallest + PoolHooks - 1 <= i - 1 + PoolSmallest /\ i > 0
    BY <1>3, <1>4
  <2>2. /\ 2 ^ (PoolSmallest + PoolHooks - 1) <= 2 ^ (i - 1 + PoolSmallest)
        /\ 2 ^ (PoolSmallest + PoolHooks - 1) \in Nat /\ 2 ^ (i - 1 + PoolSmallest) \in Nat
    BY <2>1, PowersGrow, PowersDouble
  <2>3. 2 ^ (i - 1 + PoolSmallest) < s
    BY <1>2, <2>1 DEF Suits
  <2> QED BY <1>1, <2>2, <2>3
<1> QED BY <1>1, <1>2, <1>3, <1>4

PoolStacks == 0..PoolHooks - 1

\* What a caller knows of its block of a true size.
Granted(r, true) ==
    /\ r.size \in Nat /\ r.size >= 1
    /\ Pool!hookIndex(r.size) \in PoolStacks
    /\ true = Pool!GetAllocationSize(Pool!hookIndex(r.size))
    /\ r.granted \in {r.size, true}

\* Stacks h over the blocks p, of which u are with the callers: a free block is in one place,
\* in the stack of its size.
Stacks(h) == h \in [PoolStacks -> Seq(1..MaxAllocated)]

FreeBlocks(h, p, u) ==
    \A i \in PoolStacks : \A x \in 1..Len(h[i]) :
        /\ h[i][x] \in DOMAIN p /\ h[i][x] \notin DOMAIN u
        /\ p[h[i][x]] = Pool!GetAllocationSize(i)

OnceOnly(h) ==
    \A i, j \in PoolStacks : \A x \in 1..Len(h[i]), y \in 1..Len(h[j]) :
        h[i][x] = h[j][y] => i = j /\ x = y

InSomeStack(h, b) == \E i \in PoolStacks : \E x \in 1..Len(h[i]) : h[i][x] = b

FreeOnes(h, p, u) ==
    /\ Stacks(h)
    /\ FreeBlocks(h, p, u)
    /\ OnceOnly(h)
    /\ \A b \in DOMAIN p \ DOMAIN u : InSomeStack(h, b)

PoolKept(h, p, u) ==
    /\ FreeOnes(h, p, u)
    /\ DOMAIN p \subseteq 1..MaxAllocated /\ DOMAIN u \subseteq DOMAIN p
    /\ \A b \in DOMAIN u : Granted(u[b], p[b])

PoolInv == component = "PoolAllocator" => PoolKept(hooks, heap, used)

\* The top of a stack is taken away, or a block is put on top.
Popped(g, h, i) == g = [h EXCEPT ![i] = Tail(@)]

PoppedOnce(g, h, i) ==
    /\ Len(h[i]) \in Nat /\ Len(h[i]) >= 1 /\ Len(g[i]) = Len(h[i]) - 1
    /\ \A x \in 1..Len(g[i]) : g[i][x] = h[i][x + 1] /\ x + 1 \in 1..Len(h[i])
    /\ \A j \in PoolStacks : j # i => g[j] = h[j]

PushedOnce(g, h, i, b) ==
    /\ Len(h[i]) \in Nat /\ Len(g[i]) = Len(h[i]) + 1 /\ g[i][1] = b
    /\ \A x \in 1..Len(g[i]) : x # 1 => g[i][x] = h[i][x - 1] /\ x - 1 \in 1..Len(h[i])
    /\ \A x \in 1..Len(h[i]) : g[i][x + 1] = h[i][x] /\ x + 1 \in 1..Len(g[i])
    /\ \A j \in PoolStacks : j # i => g[j] = h[j]

LEMMA PoppedReads ==
    ASSUME NEW h, Stacks(h), NEW i \in PoolStacks, h[i] # <<>>, NEW g, Popped(g, h, i)
    PROVE  Stacks(g) /\ PoppedOnce(g, h, i) /\ Head(h[i]) = h[i][1]
<1>1. PICK s : s = h[i]
  OBVIOUS
<1>2. s \in Seq(1..MaxAllocated) /\ s # <<>>
  BY <1>1 DEF Stacks
<1>3. /\ Tail(s) \in Seq(1..MaxAllocated) /\ Len(s) \in Nat /\ Len(s) >= 1
      /\ Len(Tail(s)) = Len(s) - 1 /\ Head(s) = s[1]
      /\ \A x \in 1..Len(Tail(s)) : Tail(s)[x] = s[x + 1] /\ x + 1 \in 1..Len(s)
  BY <1>2
<1>4. PICK t : t = Tail(s)
  OBVIOUS
<1>5. t \in Seq(1..MaxAllocated) /\ g = [h EXCEPT ![i] = t]
  BY <1>1, <1>3, <1>4, Zenon DEF Popped
<1>6. Stacks(g) /\ g[i] = t /\ \A j \in PoolStacks : j # i => g[j] = h[j]
  <2> DEFINE All == Seq(1..MaxAllocated)
  <2> HIDE DEF All
  <2>1. h \in [PoolStacks -> All] /\ t \in All
    BY <1>5 DEF Stacks, All
  <2>2. g \in [PoolStacks -> All] /\ g[i] = t /\ \A j \in PoolStacks : j # i => g[j] = h[j]
    BY <1>5, <2>1
  <2> QED BY <2>2 DEF Stacks, All
<1>7. /\ Len(s) \in Nat /\ Len(s) >= 1 /\ Len(t) = Len(s) - 1
      /\ \A x \in 1..Len(t) : t[x] = s[x + 1] /\ x + 1 \in 1..Len(s)
  BY <1>3, <1>4
<1> QED BY <1>1, <1>3, <1>6, <1>7 DEF PoppedOnce

LEMMA PushedReads ==
    ASSUME NEW h, Stacks(h), NEW i \in PoolStacks, NEW b \in 1..MaxAllocated,
           NEW g, g = Pool!Pushed(h, i, b)
    PROVE  Stacks(g) /\ PushedOnce(g, h, i, b)
<1>1. PICK s : s = h[i]
  OBVIOUS
<1>2. PICK t : t = <<b>> \o s
  OBVIOUS
<1>3. /\ s \in Seq(1..MaxAllocated) /\ <<b>> \in Seq(1..MaxAllocated)
      /\ Len(<<b>>) = 1 /\ <<b>>[1] = b
  BY <1>1 DEF Stacks
<1>4. /\ t \in Seq(1..MaxAllocated) /\ Len(s) \in Nat /\ Len(t) = 1 + Len(s)
      /\ \A x \in 1..1 + Len(s) : t[x] = IF x <= 1 THEN <<b>>[x] ELSE s[x - 1]
  BY <1>2, <1>3
<1>5. g = [h EXCEPT ![i] = t]
  BY <1>1, <1>2, Zenon DEF Pool!Pushed
<1>6. Stacks(g) /\ g[i] = t /\ \A j \in PoolStacks : j # i => g[j] = h[j]
  <2> DEFINE All == Seq(1..MaxAllocated)
  <2> HIDE DEF All
  <2>1. h \in [PoolStacks -> All] /\ t \in All
    BY <1>4 DEF Stacks, All
  <2>2. g \in [PoolStacks -> All] /\ g[i] = t /\ \A j \in PoolStacks : j # i => g[j] = h[j]
    BY <1>5, <2>1
  <2> QED BY <2>2 DEF Stacks, All
<1>7. t[1] = b
  BY <1>3, <1>4
<1>8. \A x \in 1..Len(t) : x # 1 => t[x] = s[x - 1] /\ x - 1 \in 1..Len(s)
  BY <1>4
<1>9. ASSUME NEW x \in 1..Len(s) PROVE t[x + 1] = s[x] /\ x + 1 \in 1..Len(t)
  <2>1. x + 1 \in 1..1 + Len(s) /\ ~(x + 1 <= 1) /\ x + 1 - 1 = x
    BY <1>4
  <2> QED BY <1>4, <2>1
<1>10. Len(t) = Len(s) + 1 /\ Len(s) \in Nat
  BY <1>4
<1>11. \A x \in 1..Len(s) : t[x + 1] = s[x] /\ x + 1 \in 1..Len(t)
  BY <1>9
<1>12. PushedOnce(g, h, i, b)
  BY <1>1, <1>6, <1>7, <1>8, <1>10, <1>11 DEF PushedOnce
<1> QED BY <1>6, <1>12

\* There is room for a fresh block as long as the bound is not reached.
LEMMA FreshIsNew ==
    ASSUME DOMAIN heap \subseteq 1..MaxAllocated, Cardinality(DOMAIN heap) < MaxAllocated
    PROVE  Pool!Fresh \in 1..MaxAllocated /\ Pool!Fresh \notin DOMAIN heap
<1>1. \E b \in 1..MaxAllocated : b \notin DOMAIN heap
  <2> SUFFICES ASSUME DOMAIN heap = 1..MaxAllocated PROVE FALSE
    OBVIOUS
  <2>1. MaxAllocated \in Nat /\ 1 \in Int /\ MaxAllocated \in Int
    BY PoolConstants
  <2>2. Cardinality(1..MaxAllocated) = IF 1 > MaxAllocated THEN 0 ELSE MaxAllocated - 1 + 1
    BY <2>1, FS_Interval
  <2> QED BY <2>1, <2>2
<1> QED BY <1>1 DEF Pool!Fresh

LEMMA PoolCounts == \A S : Pool!Cardinality(S) = Cardinality(S)
BY Zenon DEF Pool!Cardinality, Cardinality

\* A block is taken for a caller.
LEMMA TakingKeeps ==
    ASSUME PoolKept(hooks, heap, used), NEW i \in PoolStacks, Pool!CanTake(i),
           NEW r, Granted(r, Pool!GetAllocationSize(i)), NEW t, t = Pool!Taken(i),
           NEW u, u = Pool!With(used, t, r)
    PROVE  /\ t \notin DOMAIN used
           /\ PoolKept(Pool!HooksAfterTake(i), Pool!HeapAfterTake(i), u)
<1>1. PICK h : h = hooks
  OBVIOUS
<1>2. Stacks(h) /\ FreeBlocks(h, heap, used) /\ OnceOnly(h)
  BY <1>1 DEF PoolKept, FreeOnes
<1>3. \A b \in DOMAIN heap \ DOMAIN used : InSomeStack(h, b)
  BY <1>1 DEF PoolKept, FreeOnes
<1>4. /\ DOMAIN heap \subseteq 1..MaxAllocated /\ DOMAIN used \subseteq DOMAIN heap
      /\ \A b \in DOMAIN used : Granted(used[b], heap[b])
  BY DEF PoolKept
<1>5. DOMAIN u = DOMAIN used \cup {t} /\ u[t] = r /\ \A b \in DOMAIN used : b # t => u[b] = used[b]
  BY DEF Pool!With
<1>6. CASE h[i] # <<>>
  <2>1. PICK g : g = Pool!HooksAfterTake(i)
    OBVIOUS
  <2>2. Popped(g, h, i) /\ Pool!HeapAfterTake(i) = heap /\ t = Head(h[i])
    BY <1>1, <1>6, <2>1 DEF Popped, Pool!HooksAfterTake, Pool!HeapAfterTake, Pool!Taken
  <2>3. Stacks(g) /\ PoppedOnce(g, h, i) /\ t = h[i][1]
    BY <1>2, <1>6, <2>2, PoppedReads
  <2>4. 1 \in 1..Len(h[i])
    BY <2>3 DEF PoppedOnce
  <2>5. t \in DOMAIN heap /\ t \notin DOMAIN used /\ heap[t] = Pool!GetAllocationSize(i)
    BY <1>2, <2>3, <2>4 DEF FreeBlocks
  <2>6. ASSUME NEW j \in PoolStacks, NEW x \in 1..Len(g[j])
        PROVE  \E y \in 1..Len(h[j]) : g[j][x] = h[j][y] /\ y = IF j = i THEN x + 1 ELSE x
    BY <2>3, <2>6 DEF PoppedOnce
  <2>7. FreeBlocks(g, heap, u)
    <3> SUFFICES ASSUME NEW j \in PoolStacks, NEW x \in 1..Len(g[j])
                 PROVE  /\ g[j][x] \in DOMAIN heap /\ g[j][x] \notin DOMAIN u
                        /\ heap[g[j][x]] = Pool!GetAllocationSize(j)
      BY DEF FreeBlocks
    <3>1. PICK y \in 1..Len(h[j]) : g[j][x] = h[j][y] /\ y = IF j = i THEN x + 1 ELSE x
      BY <2>6
    <3>2. ~(j = i /\ y = 1)
      BY <2>3, <3>1 DEF PoppedOnce
    <3>3. h[j][y] # t
      BY <1>2, <2>3, <2>4, <3>2 DEF OnceOnly
    <3> QED BY <1>2, <1>5, <3>1, <3>3 DEF FreeBlocks
  <2>8. OnceOnly(g)
    <3> SUFFICES ASSUME NEW j \in PoolStacks, NEW k \in PoolStacks, NEW x \in 1..Len(g[j]),
                        NEW y \in 1..Len(g[k]), g[j][x] = g[k][y]
                 PROVE  j = k /\ x = y
      BY DEF OnceOnly
    <3>1. PICK v \in 1..Len(h[j]) : g[j][x] = h[j][v] /\ v = IF j = i THEN x + 1 ELSE x
      BY <2>6
    <3>2. PICK w \in 1..Len(h[k]) : g[k][y] = h[k][w] /\ w = IF k = i THEN y + 1 ELSE y
      BY <2>6
    <3>3. h[j][v] = h[k][w]
      BY <3>1, <3>2
    <3>4. j = k /\ v = w
      BY <1>2, <3>3 DEF OnceOnly
    <3>5. x \in Int /\ y \in Int
      OBVIOUS
    <3> QED BY <3>1, <3>2, <3>4, <3>5
  <2>9. ASSUME NEW b \in DOMAIN heap \ DOMAIN u PROVE InSomeStack(g, b)
    <3>1. b \in DOMAIN heap \ DOMAIN used /\ b # t
      BY <1>5
    <3>2. PICK j \in PoolStacks : \E x \in 1..Len(h[j]) : h[j][x] = b
      BY <1>3, <3>1 DEF InSomeStack
    <3>3. PICK x \in 1..Len(h[j]) : h[j][x] = b
      BY <3>2
    <3>4. CASE j # i
      <4>1. g[j] = h[j]
        BY <2>3, <3>4 DEF PoppedOnce
      <4> QED BY <3>3, <4>1 DEF InSomeStack
    <3>5. CASE j = i
      <4>1. x # 1
        BY <2>3, <3>1, <3>3, <3>5
      <4>2. PICK y : y = x - 1
        OBVIOUS
      <4>3. y \in 1..Len(g[i]) /\ y + 1 = x
        BY <2>3, <3>5, <4>1, <4>2 DEF PoppedOnce
      <4>4. g[i][y] = b
        BY <2>3, <3>3, <3>5, <4>3 DEF PoppedOnce
      <4> QED BY <4>3, <4>4 DEF InSomeStack
    <3> QED BY <3>4, <3>5
  <2>10. FreeOnes(g, heap, u)
    BY <2>3, <2>7, <2>8, <2>9 DEF FreeOnes
  <2>11. \A b \in DOMAIN u : Granted(u[b], heap[b])
    BY <1>4, <1>5, <2>5
  <2>12. DOMAIN u \subseteq DOMAIN heap
    BY <1>4, <1>5, <2>5
  <2> QED BY <1>4, <2>1, <2>2, <2>5, <2>10, <2>11, <2>12 DEF PoolKept
<1>7. CASE h[i] = <<>>
  <2>1. PICK p : p = Pool!HeapAfterTake(i)
    OBVIOUS
  <2>2. p = Pool!With(heap, t, Pool!GetAllocationSize(i)) /\ Pool!HooksAfterTake(i) = h /\ t = Pool!Fresh
    BY <1>1, <1>7, <2>1 DEF Pool!HooksAfterTake, Pool!HeapAfterTake, Pool!Taken
  <2>3. Cardinality(DOMAIN heap) < MaxAllocated
    BY <1>1, <1>7, PoolCounts DEF Pool!CanTake
  <2>4. t \in 1..MaxAllocated /\ t \notin DOMAIN heap
    BY <1>4, <2>2, <2>3, FreshIsNew
  <2>5. /\ DOMAIN p = DOMAIN heap \cup {t} /\ p[t] = Pool!GetAllocationSize(i)
        /\ \A b \in DOMAIN heap : p[b] = heap[b]
    BY <2>2, <2>4 DEF Pool!With
  <2>6. FreeBlocks(h, p, u)
    BY <1>2, <1>5, <2>4, <2>5 DEF FreeBlocks
  <2>7. DOMAIN p \ DOMAIN u = DOMAIN heap \ DOMAIN used
    BY <1>4, <1>5, <2>4, <2>5
  <2>8. FreeOnes(h, p, u)
    BY <1>2, <1>3, <2>6, <2>7 DEF FreeOnes
  <2>9. \A b \in DOMAIN u : Granted(u[b], p[b])
    BY <1>4, <1>5, <2>4, <2>5
  <2>10. DOMAIN p \subseteq 1..MaxAllocated /\ DOMAIN u \subseteq DOMAIN p /\ t \notin DOMAIN used
    BY <1>4, <1>5, <2>4, <2>5
  <2> QED BY <2>1, <2>2, <2>8, <2>9, <2>10 DEF PoolKept
<1> QED BY <1>6, <1>7

\* A block is given back.
LEMMA FreeingKeeps ==
    ASSUME NEW h, NEW p, NEW u, PoolKept(h, p, u), NEW b \in DOMAIN u, NEW i \in PoolStacks,
           p[b] = Pool!GetAllocationSize(i), NEW g, g = Pool!Pushed(h, i, b),
           NEW v, v = Pool!Restrict(u, DOMAIN u \ {b})
    PROVE  PoolKept(g, p, v)
<1>1. Stacks(h) /\ FreeBlocks(h, p, u) /\ OnceOnly(h)
  BY DEF PoolKept, FreeOnes
<1>2. \A c \in DOMAIN p \ DOMAIN u : InSomeStack(h, c)
  BY DEF PoolKept, FreeOnes
<1>3. /\ DOMAIN p \subseteq 1..MaxAllocated /\ DOMAIN u \subseteq DOMAIN p
      /\ \A c \in DOMAIN u : Granted(u[c], p[c])
  BY DEF PoolKept
<1>4. b \in DOMAIN p /\ b \in 1..MaxAllocated
  BY <1>3
<1>5. DOMAIN v = DOMAIN u \ {b} /\ \A c \in DOMAIN v : v[c] = u[c]
  BY DEF Pool!Restrict
<1>6. Stacks(g) /\ PushedOnce(g, h, i, b)
  BY <1>1, <1>4, PushedReads
<1>7. ASSUME NEW j \in PoolStacks, NEW x \in 1..Len(g[j])
      PROVE  \/ j = i /\ x = 1 /\ g[j][x] = b
             \/ \E y \in 1..Len(h[j]) : g[j][x] = h[j][y] /\ y = IF j = i THEN x - 1 ELSE x
  <2>1. CASE j = i
    BY <1>6, <1>7, <2>1 DEF PushedOnce
  <2>2. CASE j # i
    <3>1. g[j] = h[j]
      BY <1>6, <2>2 DEF PushedOnce
    <3> QED BY <2>2, <3>1
  <2> QED BY <2>1, <2>2
<1>8. \A j \in PoolStacks : \A y \in 1..Len(h[j]) : h[j][y] # b
  BY <1>1 DEF FreeBlocks
<1>9. FreeBlocks(g, p, v)
  <2> SUFFICES ASSUME NEW j \in PoolStacks, NEW x \in 1..Len(g[j])
               PROVE  /\ g[j][x] \in DOMAIN p /\ g[j][x] \notin DOMAIN v
                      /\ p[g[j][x]] = Pool!GetAllocationSize(j)
    BY DEF FreeBlocks
  <2>1. CASE j = i /\ x = 1 /\ g[j][x] = b
    BY <1>4, <1>5, <2>1
  <2>2. CASE \E y \in 1..Len(h[j]) : g[j][x] = h[j][y] /\ y = IF j = i THEN x - 1 ELSE x
    <3>1. PICK y \in 1..Len(h[j]) : g[j][x] = h[j][y]
      BY <2>2
    <3> QED BY <1>1, <1>5, <3>1 DEF FreeBlocks
  <2> QED BY <1>7, <2>1, <2>2
<1>10. OnceOnly(g)
  <2> SUFFICES ASSUME NEW j \in PoolStacks, NEW k \in PoolStacks, NEW x \in 1..Len(g[j]),
                      NEW y \in 1..Len(g[k]), g[j][x] = g[k][y]
               PROVE  j = k /\ x = y
    BY DEF OnceOnly
  <2>1. CASE g[j][x] = b
    <3>1. j = i /\ x = 1
      BY <1>7, <1>8, <2>1
    <3>2. k = i /\ y = 1
      BY <1>7, <1>8, <2>1
    <3> QED BY <3>1, <3>2
  <2>2. CASE g[j][x] # b
    <3>1. PICK w \in 1..Len(h[j]) : g[j][x] = h[j][w] /\ w = IF j = i THEN x - 1 ELSE x
      BY <1>7, <2>2
    <3>2. PICK z \in 1..Len(h[k]) : g[k][y] = h[k][z] /\ z = IF k = i THEN y - 1 ELSE y
      BY <1>7, <2>2
    <3>3. h[j][w] = h[k][z]
      BY <3>1, <3>2
    <3>4. j = k /\ w = z
      BY <1>1, <3>3 DEF OnceOnly
    <3>5. x \in Int /\ y \in Int
      OBVIOUS
    <3> QED BY <3>1, <3>2, <3>4, <3>5
  <2> QED BY <2>1, <2>2
<1>11. ASSUME NEW c \in DOMAIN p \ DOMAIN v PROVE InSomeStack(g, c)
  <2>1. CASE c = b
    <3>1. 1 \in 1..Len(g[i]) /\ g[i][1] = b
      BY <1>6 DEF PushedOnce
    <3> QED BY <2>1, <3>1 DEF InSomeStack
  <2>2. CASE c # b
    <3>1. c \in DOMAIN p \ DOMAIN u
      BY <1>5, <2>2
    <3>2. PICK j \in PoolStacks : \E x \in 1..Len(h[j]) : h[j][x] = c
      BY <1>2, <3>1 DEF InSomeStack
    <3>3. PICK x \in 1..Len(h[j]) : h[j][x] = c
      BY <3>2
    <3>4. CASE j = i
      <4>1. g[i][x + 1] = c /\ x + 1 \in 1..Len(g[i])
        BY <1>6, <3>3, <3>4 DEF PushedOnce
      <4> QED BY <4>1 DEF InSomeStack
    <3>5. CASE j # i
      <4>1. g[j] = h[j]
        BY <1>6, <3>5 DEF PushedOnce
      <4> QED BY <3>3, <4>1 DEF InSomeStack
    <3> QED BY <3>4, <3>5
  <2> QED BY <2>1, <2>2
<1>12. FreeOnes(g, p, v)
  BY <1>6, <1>9, <1>10, <1>11 DEF FreeOnes
<1>13. DOMAIN v \subseteq DOMAIN p /\ \A c \in DOMAIN v : Granted(v[c], p[c])
  BY <1>3, <1>5
<1> QED BY <1>3, <1>12, <1>13 DEF PoolKept

LEMMA AllocatingKeepsPool ==
    ASSUME PoolKept(hooks, heap, used), NEW s \in PoolRequests, Pool!allocate(s)
    PROVE  PoolKept(hooks, heap, used)'
<1>1. PICK i : i = Pool!hookIndex(s)
  OBVIOUS
<1>2. s \in Nat /\ s >= 1 /\ i \in PoolStacks
  BY <1>1, RequestsHaveHooks DEF PoolStacks
<1>3. PICK r : r = [size |-> s, granted |-> Pool!GetAllocationSize(i)]
  OBVIOUS
<1>4. /\ Pool!CanTake(i) /\ used' = Pool!With(used, Pool!Taken(i), r)
      /\ hooks' = Pool!HooksAfterTake(i) /\ heap' = Pool!HeapAfterTake(i)
  BY <1>1, <1>3 DEF Pool!allocate
<1>5. r.size = s /\ r.granted = Pool!GetAllocationSize(i)
  BY <1>3
<1>6. Granted(r, Pool!GetAllocationSize(i))
  BY <1>1, <1>2, <1>5 DEF Granted
<1>7. PICK h, p, u : h = hooks' /\ p = heap' /\ u = used'
  OBVIOUS
<1>8. PoolKept(h, p, u)
  BY <1>2, <1>4, <1>6, <1>7, TakingKeeps
<1> QED BY <1>7, <1>8 DEF PoolKept, FreeOnes, Stacks, FreeBlocks, OnceOnly, InSomeStack, Granted

LEMMA GivingBackKeepsPool ==
    ASSUME PoolKept(hooks, heap, used), NEW b \in DOMAIN used, Pool!free(b)
    PROVE  PoolKept(hooks, heap, used)'
<1>1. PICK s \in {used[b].size, used[b].granted} : hooks' = Pool!Pushed(hooks, Pool!hookIndex(s), b)
  BY DEF Pool!free
<1>2. Granted(used[b], heap[b])
  BY DEF PoolKept
<1>3. PICK i \in PoolStacks : i = Pool!hookIndex(used[b].size) /\ heap[b] = Pool!GetAllocationSize(i)
  BY <1>2 DEF Granted
<1>4. i \in Nat
  BY DEF PoolStacks
<1>5. Pool!hookIndex(s) = i
  BY <1>1, <1>2, <1>3, <1>4, SizesOfHooks DEF Granted
<1>6. heap' = heap /\ used' = Pool!Restrict(used, DOMAIN used \ {b})
  BY DEF Pool!free
<1>7. PICK h, p, u : h = hooks' /\ p = heap' /\ u = used'
  OBVIOUS
<1>8. PoolKept(h, p, u)
  BY <1>1, <1>3, <1>5, <1>6, <1>7, FreeingKeeps
<1> QED BY <1>7, <1>8 DEF PoolKept, FreeOnes, Stacks, FreeBlocks, OnceOnly, InSomeStack, Granted

LEMMA ReallocatingKeepsPool ==
    ASSUME PoolKept(hooks, heap, used), NEW b \in DOMAIN used, NEW s \in PoolRequests,
           Pool!reallocate(b, s)
    PROVE  PoolKept(hooks, heap, used)'
<1>1. Granted(used[b], heap[b])
  BY DEF PoolKept
<1>2. PICK old \in PoolStacks : old = Pool!hookIndex(used[b].size) /\ heap[b] = Pool!GetAllocationSize(old)
  BY <1>1 DEF Granted
<1>3. PICK new : new = Pool!hookIndex(s)
  OBVIOUS
<1>4. s \in Nat /\ s >= 1 /\ new \in PoolStacks
  BY <1>3, RequestsHaveHooks DEF PoolStacks
<1>5. CASE new = old /\ used' = [used EXCEPT ![b] = [size |-> s, granted |-> s]] /\ UNCHANGED <<hooks, heap>>
  <2>1. PICK h, p, u : h = hooks /\ p = heap /\ u = used'
    OBVIOUS
  <2>2. PICK r : r = [size |-> s, granted |-> s]
    OBVIOUS
  <2>3. DOMAIN u = DOMAIN used /\ u[b] = r /\ \A c \in DOMAIN u : c # b => u[c] = used[c]
    BY <1>5, <2>1, <2>2
  <2>4. r.size = s /\ r.granted = s
    BY <2>2
  <2>5. Granted(r, p[b])
    BY <1>2, <1>3, <1>4, <1>5, <2>1, <2>4 DEF Granted
  <2>6. \A c \in DOMAIN u : Granted(u[c], p[c])
    BY <2>1, <2>3, <2>5 DEF PoolKept
  <2>7. FreeOnes(h, p, u)
    <3>1. Stacks(h) /\ FreeBlocks(h, p, used) /\ OnceOnly(h)
      BY <2>1 DEF PoolKept, FreeOnes
    <3>2. \A c \in DOMAIN p \ DOMAIN used : InSomeStack(h, c)
      BY <2>1 DEF PoolKept, FreeOnes
    <3>3. FreeBlocks(h, p, u)
      BY <2>3, <3>1 DEF FreeBlocks
    <3> QED BY <2>3, <3>1, <3>2, <3>3 DEF FreeOnes
  <2>8. PoolKept(h, p, u)
    BY <2>1, <2>3, <2>6, <2>7 DEF PoolKept
  <2> QED BY <1>5, <2>1, <2>8 DEF PoolKept, FreeOnes, Stacks, FreeBlocks, OnceOnly, InSomeStack, Granted
<1>6. CASE ~(new = old /\ used' = [used EXCEPT ![b] = [size |-> s, granted |-> s]] /\ UNCHANGED <<hooks, heap>>)
  <2>1. PICK r : r = [size |-> s, granted |-> Pool!GetAllocationSize(new)]
    OBVIOUS
  <2>2. PICK t : t = Pool!Taken(new)
    OBVIOUS
  <2>3. /\ Pool!CanTake(new)
        /\ used' = Pool!With(Pool!Restrict(used, DOMAIN used \ {b}), t, r)
        /\ hooks' = Pool!Pushed(Pool!HooksAfterTake(new), old, b)
        /\ heap' = Pool!HeapAfterTake(new)
    BY <1>2, <1>3, <1>6, <2>1, <2>2 DEF Pool!reallocate
  <2>4. PICK h, p, u : h = Pool!HooksAfterTake(new) /\ p = heap' /\ u = Pool!With(used, t, r)
    OBVIOUS
  <2>5. Granted(r, Pool!GetAllocationSize(new))
    <3>1. r.size = s /\ r.granted = Pool!GetAllocationSize(new)
      BY <2>1
    <3> QED BY <1>3, <1>4, <3>1 DEF Granted
  <2>6. t \notin DOMAIN used /\ PoolKept(h, p, u)
    BY <1>4, <2>2, <2>3, <2>4, <2>5, TakingKeeps
  <2>7. b # t /\ DOMAIN u = DOMAIN used \cup {t} /\ u[b] = used[b]
    BY <2>4, <2>6 DEF Pool!With
  <2>8. p[b] = Pool!GetAllocationSize(old)
    <3>1. Granted(used[b], p[b])
      BY <2>6, <2>7 DEF PoolKept
    <3> QED BY <1>2, <3>1 DEF Granted
  <2>9. PICK g, v : g = hooks' /\ v = used'
    OBVIOUS
  <2>10. v = Pool!Restrict(u, DOMAIN u \ {b})
    <3>1. DOMAIN v = (DOMAIN used \ {b}) \cup {t}
      BY <2>3, <2>9 DEF Pool!With, Pool!Restrict
    <3>2. DOMAIN u \ {b} = (DOMAIN used \ {b}) \cup {t}
      BY <2>7
    <3>3. v = [c \in (DOMAIN used \ {b}) \cup {t} |-> IF c = t THEN r ELSE used[c]]
      BY <2>3, <2>9 DEF Pool!With, Pool!Restrict
    <3>4. \A c \in (DOMAIN used \ {b}) \cup {t} : u[c] = IF c = t THEN r ELSE used[c]
      BY <2>4 DEF Pool!With
    <3>5. Pool!Restrict(u, DOMAIN u \ {b}) = [c \in (DOMAIN used \ {b}) \cup {t} |-> u[c]]
      BY <3>2 DEF Pool!Restrict
    <3> QED BY <3>3, <3>4, <3>5
  <2>11. PoolKept(g, p, v)
    BY <2>3, <2>4, <2>6, <2>7, <2>8, <2>9, <2>10, FreeingKeeps
  <2> QED BY <2>4, <2>9, <2>11 DEF PoolKept, FreeOnes, Stacks, FreeBlocks, OnceOnly, InSomeStack, Granted
<1> QED BY <1>5, <1>6

LEMMA EmptyStacks ==
    ASSUME NEW h, h = [i \in PoolStacks |-> <<>>], NEW p, NEW u, DOMAIN p = DOMAIN u
    PROVE  FreeOnes(h, p, u)
<1> DEFINE All == Seq(1..MaxAllocated)
<1>1. <<>> \in All
  BY EmptySeq
<1> HIDE DEF All
<1>2. h \in [PoolStacks -> All]
  BY <1>1
<1>3. \A i \in PoolStacks : Len(h[i]) = 0
  BY EmptySeq
<1>4. Stacks(h)
  BY <1>2 DEF Stacks, All
<1>5. FreeBlocks(h, p, u) /\ OnceOnly(h)
  BY <1>3 DEF FreeBlocks, OnceOnly
<1> QED BY <1>4, <1>5 DEF FreeOnes

LEMMA ResettingKeepsPool ==
    ASSUME PoolKept(hooks, heap, used), Pool!Reset
    PROVE  PoolKept(hooks, heap, used)'
<1> DEFINE free == UNION {Pool!ToSet(hooks[i]) : i \in DOMAIN hooks}
<1>1. Stacks(hooks) /\ FreeBlocks(hooks, heap, used)
  BY DEF PoolKept, FreeOnes
<1>2. \A b \in DOMAIN heap \ DOMAIN used : InSomeStack(hooks, b)
  BY DEF PoolKept, FreeOnes
<1>3. /\ DOMAIN heap \subseteq 1..MaxAllocated /\ DOMAIN used \subseteq DOMAIN heap
      /\ \A b \in DOMAIN used : Granted(used[b], heap[b])
  BY DEF PoolKept
<1>4. PICK h, p, u : h = hooks' /\ p = heap' /\ u = used'
  OBVIOUS
<1>5. DOMAIN hooks = PoolStacks /\ \A i \in PoolStacks : DOMAIN hooks[i] = 1..Len(hooks[i])
  BY <1>1 DEF Stacks
<1>6. /\ DOMAIN p = DOMAIN heap \ free /\ \A b \in DOMAIN p : p[b] = heap[b]
      /\ h = [i \in PoolStacks |-> <<>>] /\ u = used
  BY <1>4, <1>5 DEF Pool!Reset, Pool!Restrict
<1>7. ASSUME NEW b PROVE b \in free <=> InSomeStack(hooks, b)
  BY <1>5 DEF Pool!ToSet, InSomeStack
<1> HIDE DEF free
<1>8. ASSUME NEW b, InSomeStack(hooks, b) PROVE b \notin DOMAIN used
  BY <1>1, <1>8 DEF FreeBlocks, InSomeStack
<1>9. DOMAIN p = DOMAIN used
  BY <1>2, <1>3, <1>6, <1>7, <1>8
<1>10. FreeOnes(h, p, u)
  BY <1>6, <1>9, EmptyStacks
<1>11. PoolKept(h, p, u)
  BY <1>3, <1>6, <1>9, <1>10 DEF PoolKept
<1> QED BY <1>4, <1>11 DEF PoolKept, FreeOnes, Stacks, FreeBlocks, OnceOnly, InSomeStack, Granted

LEMMA InitPool == DataInit => PoolInv
<1> SUFFICES ASSUME DataInit, component = "PoolAllocator" PROVE PoolKept(hooks, heap, used)
  BY DEF PoolInv
<1>1. hooks = [i \in PoolStacks |-> <<>>] /\ heap = <<>> /\ used = <<>>
  BY DEF DataInit, Pool!Init, PoolStacks
<1>2. DOMAIN heap = {} /\ DOMAIN used = {}
  BY <1>1
<1>3. FreeOnes(hooks, heap, used)
  BY <1>1, <1>2, EmptyStacks
<1> QED BY <1>2, <1>3 DEF PoolKept

LEMMA StepKeepsPool == ASSUME PoolInv, [DataNext]_dataVars PROVE PoolInv'
<1>1. component' = component /\ (component = "PoolAllocator" => Pool!Next \/ UNCHANGED poolVars)
  BY DEF DataNext, dataVars, OnlyData, Rest
<1> SUFFICES ASSUME component = "PoolAllocator" PROVE PoolKept(hooks, heap, used)'
  BY <1>1 DEF PoolInv
<1>2. PoolKept(hooks, heap, used)
  BY DEF PoolInv
<1>3. CASE UNCHANGED poolVars
  BY <1>2, <1>3 DEF poolVars, PoolKept, FreeOnes, Granted
<1>4. CASE Pool!Next
  <2>1. CASE \E s \in PoolRequests : Pool!allocate(s)
    BY <1>2, <2>1, AllocatingKeepsPool
  <2>2. CASE \E b \in DOMAIN used : Pool!free(b)
    BY <1>2, <2>2, GivingBackKeepsPool
  <2>3. CASE \E b \in DOMAIN used, s \in PoolRequests : Pool!reallocate(b, s)
    BY <1>2, <2>3, ReallocatingKeepsPool
  <2>4. CASE Pool!Reset
    BY <1>2, <2>4, ResettingKeepsPool
  <2> QED BY <1>4, <2>1, <2>2, <2>3, <2>4 DEF Pool!Next
<1> QED BY <1>1, <1>3, <1>4

LEMMA PoolIsSound ==
    ASSUME PoolKept(hooks, heap, used)
    PROVE  Pool!TypeOK /\ Pool!BlocksHaveOneHolder /\ Pool!BlocksFit /\ Pool!BlocksAreNotOversized
<1>1. Stacks(hooks) /\ FreeBlocks(hooks, heap, used) /\ OnceOnly(hooks)
  BY DEF PoolKept, FreeOnes
<1>2. /\ DOMAIN heap \subseteq 1..MaxAllocated /\ DOMAIN used \subseteq DOMAIN heap
      /\ \A b \in DOMAIN used : Granted(used[b], heap[b])
  BY DEF PoolKept
<1>3. \A i \in PoolStacks : DOMAIN hooks[i] = 1..Len(hooks[i]) /\ Len(hooks[i]) \in Nat
  BY <1>1 DEF Stacks
<1>4. DOMAIN hooks = PoolStacks
  BY <1>1 DEF Stacks
<1>5. Pool!TypeOK
  BY <1>1, <1>2 DEF Pool!TypeOK, Stacks, PoolStacks
<1>6. Pool!BlocksFit
  <2>1. ASSUME NEW b \in DOMAIN used
        PROVE  used[b].size <= used[b].granted /\ used[b].granted <= heap[b]
    <3>1. PICK i \in Nat : i = Pool!hookIndex(used[b].size) /\ heap[b] = Pool!GetAllocationSize(i)
      BY <1>2, PoolConstants DEF Granted, PoolStacks
    <3>2. /\ used[b].size \in Nat /\ used[b].size >= 1 /\ used[b].granted \in {used[b].size, heap[b]}
      BY <1>2 DEF Granted
    <3>3. used[b].size <= heap[b]
      BY <3>1, <3>2, HookSuits DEF Suits, Pool!GetAllocationSize
    <3>4. heap[b] \in Nat
      BY <3>1, SizesOfHooks
    <3> QED BY <3>2, <3>3, <3>4
  <2>2. ASSUME NEW i \in DOMAIN hooks, NEW b \in Pool!ToSet(hooks[i])
        PROVE  heap[b] = Pool!GetAllocationSize(i)
    <3>1. PICK x \in 1..Len(hooks[i]) : hooks[i][x] = b
      BY <1>3, <1>4 DEF Pool!ToSet
    <3> QED BY <1>1, <1>4, <3>1 DEF FreeBlocks
  <2> QED BY <2>1, <2>2 DEF Pool!BlocksFit
<1>7. Pool!BlocksAreNotOversized
  <2> SUFFICES ASSUME NEW b \in DOMAIN used, heap[b] > 2 ^ PoolSmallest
               PROVE  heap[b] < 2 * used[b].size
    BY DEF Pool!BlocksAreNotOversized
  <2>1. PICK i \in Nat : i = Pool!hookIndex(used[b].size) /\ heap[b] = 2 ^ (i + PoolSmallest)
    BY <1>2, PoolConstants DEF Granted, PoolStacks, Pool!GetAllocationSize
  <2>2. PICK s \in Nat : s = used[b].size /\ s >= 1
    BY <1>2 DEF Granted
  <2>3. PoolSmallest \in Nat /\ 2 ^ PoolSmallest \in Nat /\ 0 + PoolSmallest = PoolSmallest
    BY PoolConstants, PowersDouble
  <2>4. i # 0
    BY <2>1, <2>3
  <2>5. 2 ^ (i - 1 + PoolSmallest) < s
    BY <2>1, <2>2, <2>4, HookSuits DEF Suits
  <2>6. PICK n \in Nat : n = i - 1 + PoolSmallest /\ i + PoolSmallest = n + 1
    BY <2>3, <2>4
  <2>7. 2 ^ n \in Nat /\ 2 ^ (n + 1) = 2 * 2 ^ n
    BY PowersDouble
  <2> QED BY <2>1, <2>2, <2>5, <2>6, <2>7
<1>8. Pool!BlocksHaveOneHolder
  <2>1. ASSUME NEW i \in PoolStacks PROVE Len(hooks[i]) <= MaxAllocated
    <3>1. PICK s : s = hooks[i]
      OBVIOUS
    <3>2. s \in Seq(1..MaxAllocated) /\ \A x, y \in 1..Len(s) : s[x] = s[y] => x = y
      BY <1>1, <3>1 DEF Stacks, OnceOnly
    <3>3. PICK n \in Nat : n = Len(s)
      BY <3>2
    <3>4. s \in [1..n -> 1..MaxAllocated]
      <4>1. s \in [1..Len(s) -> 1..MaxAllocated]
        BY <3>2, LenProperties
      <4> QED BY <3>3, <4>1
    <3>5. s \in Injection(1..n, 1..MaxAllocated)
      BY <3>2, <3>3, <3>4, Zenon DEF Injection, IsInjective
    <3>6. MaxAllocated \in Nat /\ 1 \in Int /\ MaxAllocated \in Int /\ n \in Int
      BY PoolConstants
    <3>7. /\ IsFiniteSet(1..MaxAllocated)
          /\ Cardinality(1..MaxAllocated) = IF 1 > MaxAllocated THEN 0 ELSE MaxAllocated - 1 + 1
      BY <3>6, FS_Interval
    <3>8. Cardinality(1..n) = IF 1 > n THEN 0 ELSE n - 1 + 1
      BY <3>6, FS_Interval
    <3>9. Cardinality(1..n) <= Cardinality(1..MaxAllocated)
      BY <3>5, <3>7, FS_Injection
    <3> QED BY <3>1, <3>3, <3>6, <3>7, <3>8, <3>9
  <2>2. ASSUME NEW b \in DOMAIN heap
        PROVE  Cardinality({place \in PoolStacks \X (1..MaxAllocated) :
                              place[2] <= Len(hooks[place[1]]) /\ hooks[place[1]][place[2]] = b})
                 + (IF b \in DOMAIN used THEN 1 ELSE 0) = 1
    <3> DEFINE places == {place \in PoolStacks \X (1..MaxAllocated) :
                            place[2] <= Len(hooks[place[1]]) /\ hooks[place[1]][place[2]] = b}
    <3>1. ASSUME NEW place \in places
          PROVE  \E i \in PoolStacks : \E x \in 1..Len(hooks[i]) : hooks[i][x] = b /\ place = <<i, x>>
      <4>1. PICK i \in PoolStacks, x \in 1..MaxAllocated : place = <<i, x>>
        OBVIOUS
      <4>2. x <= Len(hooks[i]) /\ hooks[i][x] = b
        BY <4>1
      <4>3. x \in 1..Len(hooks[i])
        BY <1>3, <4>2, PoolConstants
      <4> QED BY <4>1, <4>2, <4>3
    <3>2. ASSUME NEW i \in PoolStacks, NEW x \in 1..Len(hooks[i]), hooks[i][x] = b
          PROVE  <<i, x>> \in places
      <4>1. x \in 1..MaxAllocated /\ x <= Len(hooks[i])
        BY <1>3, <2>1, PoolConstants
      <4> QED BY <3>2, <4>1
    <3> HIDE DEF places
    <3>3. CASE b \in DOMAIN used
      <4>1. places = {}
        BY <1>1, <3>1, <3>3 DEF FreeBlocks
      <4>2. Cardinality(places) = 0
        BY <4>1, FS_EmptySet
      <4> QED BY <3>3, <4>2 DEF places
    <3>4. CASE b \notin DOMAIN used
      <4>1. PICK i \in PoolStacks : \E x \in 1..Len(hooks[i]) : hooks[i][x] = b
        BY <3>4 DEF PoolKept, FreeOnes, InSomeStack
      <4>2. PICK x \in 1..Len(hooks[i]) : hooks[i][x] = b
        BY <4>1
      <4>3. PICK z : z = <<i, x>>
        OBVIOUS
      <4>4. z \in places
        BY <3>2, <4>2, <4>3
      <4>5. ASSUME NEW y \in places PROVE y = z
        <5>1. PICK j \in PoolStacks : \E v \in 1..Len(hooks[j]) : hooks[j][v] = b /\ y = <<j, v>>
          BY <3>1
        <5>2. PICK v \in 1..Len(hooks[j]) : hooks[j][v] = b /\ y = <<j, v>>
          BY <5>1
        <5>3. j = i /\ v = x
          BY <1>1, <4>2, <5>2 DEF OnceOnly
        <5> QED BY <4>3, <5>2, <5>3
      <4>6. places = {z}
        BY <4>4, <4>5
      <4>7. Cardinality(places) = 1
        BY <4>6, FS_Singleton
      <4> QED BY <3>4, <4>7 DEF places
    <3> QED BY <3>3, <3>4
  <2>3. ASSUME NEW i \in DOMAIN hooks PROVE Pool!ToSet(hooks[i]) \subseteq DOMAIN heap
    BY <1>1, <1>3, <1>4 DEF Pool!ToSet, FreeBlocks
  <2> QED BY <1>2, <2>2, <2>3, PoolCounts DEF Pool!BlocksHaveOneHolder, PoolStacks
<1> QED BY <1>5, <1>6, <1>7, <1>8

-----------------------------------------------------------------------------
(* The statistics of MonoAllocator: a sum is the number of bytes it counts.   *)

One(s) == CHOOSE x \in s : TRUE

\* f gives the sum of w over each subset of S.
Sums(f, w, S) ==
    \A s \in SUBSET S : f[s] = IF s = {} THEN 0 ELSE w[One(s)] + f[s \ {One(s)}]

Covered(F, s) == UNION {F[x] : x \in s}

Apart(F, S) == \A x, y \in S : x # y => F[x] \cap F[y] = {}

LEMMA SumsAgree ==
    ASSUME NEW S, IsFiniteSet(S), NEW w, NEW f, NEW g, Sums(f, w, S), Sums(g, w, S)
    PROVE  f[S] = g[S]
<1> DEFINE Differ == {s \in SUBSET S : f[s] # g[s]}
           Sizes == {Cardinality(s) : s \in Differ}
<1>1. ASSUME NEW s \in SUBSET S PROVE IsFiniteSet(s) /\ Cardinality(s) \in Nat
  BY FS_Subset, FS_CardinalityType
<1> SUFFICES ASSUME S \in Differ PROVE FALSE
  OBVIOUS
<1>2. Sizes \in SUBSET Nat /\ Sizes # {}
  BY <1>1
<1>3. PICK n \in Sizes : \A m \in Sizes : n <= m
  BY <1>2, LeastOfNaturals
<1>4. PICK s \in SUBSET S : f[s] # g[s] /\ n = Cardinality(s)
  OBVIOUS
<1>5. s # {}
  BY <1>4 DEF Sums
<1>6. PICK x : x = One(s)
  OBVIOUS
<1>7. x \in s
  BY <1>5, <1>6 DEF One
<1>8. Cardinality(s \ {x}) = Cardinality(s) - 1 /\ Cardinality(s) \in Nat
  BY <1>1, <1>7, FS_RemoveElement
<1>9. s \ {x} \in SUBSET S
  OBVIOUS
<1>10. s \ {x} \notin Differ
  <2> SUFFICES ASSUME s \ {x} \in Differ PROVE FALSE
    OBVIOUS
  <2>1. Cardinality(s \ {x}) \in Sizes
    OBVIOUS
  <2>2. n <= Cardinality(s \ {x})
    BY <1>3, <2>1
  <2> HIDE DEF Differ, Sizes
  <2> QED BY <1>4, <1>8, <2>2
<1>11. f[s \ {x}] = g[s \ {x}]
  BY <1>9, <1>10
<1>12. f[s] = w[x] + f[s \ {x}] /\ g[s] = w[x] + g[s \ {x}]
  BY <1>5, <1>6 DEF Sums
<1> QED BY <1>4, <1>11, <1>12

LEMMA CoveredIsFinite ==
    ASSUME NEW S, IsFiniteSet(S), NEW F, \A x \in S : IsFiniteSet(F[x])
    PROVE  IsFiniteSet(Covered(F, S))
<1> DEFINE T == {F[x] : x \in S}
           f == [x \in S |-> F[x]]
<1>1. f \in Surjection(S, T)
  BY DEF Surjection
<1>2. IsFiniteSet(T)
  BY <1>1, FS_Surjection
<1>3. \A t \in T : IsFiniteSet(t)
  OBVIOUS
<1> HIDE DEF T
<1>4. IsFiniteSet(UNION T)
  BY <1>2, <1>3, FS_UNION
<1> QED BY <1>4 DEF Covered, T

\* Sets that lie apart count together what each counts.
LEMMA CoveredSums ==
    ASSUME NEW S, IsFiniteSet(S), NEW F, \A x \in S : IsFiniteSet(F[x]), Apart(F, S),
           NEW w, \A x \in S : w[x] = Cardinality(F[x])
    PROVE  Sums([s \in SUBSET S |-> Cardinality(Covered(F, s))], w, S)
<1> DEFINE f == [s \in SUBSET S |-> Cardinality(Covered(F, s))]
<1> SUFFICES ASSUME NEW s \in SUBSET S
             PROVE  f[s] = IF s = {} THEN 0 ELSE w[One(s)] + f[s \ {One(s)}]
  BY DEF Sums
<1>1. CASE s = {}
  <2>1. Covered(F, s) = {}
    BY <1>1 DEF Covered
  <2> QED BY <1>1, <2>1, FS_EmptySet
<1>2. CASE s # {}
  <2>1. PICK x : x = One(s)
    OBVIOUS
  <2>2. x \in s
    BY <1>2, <2>1 DEF One
  <2>3. PICK rest : rest = s \ {x}
    OBVIOUS
  <2>4. rest \in SUBSET S /\ IsFiniteSet(rest) /\ \A y \in rest : IsFiniteSet(F[y])
    BY <2>3, FS_Subset
  <2>5. IsFiniteSet(Covered(F, rest)) /\ IsFiniteSet(F[x])
    BY <2>2, <2>4, CoveredIsFinite
  <2>6. Covered(F, s) = F[x] \cup Covered(F, rest)
    BY <2>2, <2>3 DEF Covered
  <2>7. F[x] \cap Covered(F, rest) = {}
    <3>1. ASSUME NEW y \in rest PROVE F[x] \cap F[y] = {}
      BY <2>2, <2>3 DEF Apart
    <3> QED BY <3>1 DEF Covered
  <2>8. Cardinality(F[x] \cap Covered(F, rest)) = 0
    BY <2>7, FS_EmptySet
  <2>9. /\ Cardinality(F[x]) \in Nat /\ Cardinality(Covered(F, rest)) \in Nat
        /\ Cardinality(F[x] \cup Covered(F, rest))
             = Cardinality(F[x]) + Cardinality(Covered(F, rest)) - Cardinality(F[x] \cap Covered(F, rest))
    BY <2>5, FS_CardinalityType, FS_Union
  <2>10. PICK a, b, c : a = Cardinality(F[x]) /\ b = Cardinality(Covered(F, rest)) /\ c = Cardinality(Covered(F, s))
    OBVIOUS
  <2>11. a \in Nat /\ b \in Nat /\ c = a + b - 0
    BY <2>6, <2>8, <2>9, <2>10
  <2>12. c = a + b
    BY <2>11
  <2>13. f[s] = c /\ f[rest] = b /\ w[x] = a
    BY <2>2, <2>4, <2>10
  <2> QED BY <1>2, <2>1, <2>3, <2>12, <2>13
<1> QED BY <1>1, <1>2

\* The bytes from a to b of a buffer.
Bytes(i, a, b) == {i} \X (a..b - 1)

LEMMA BytesCount ==
    ASSUME NEW i, NEW a \in Nat, NEW b \in Nat, a <= b
    PROVE  IsFiniteSet(Bytes(i, a, b)) /\ Cardinality(Bytes(i, a, b)) = b - a
<1>1. a \in Int /\ b - 1 \in Int
  OBVIOUS
<1>2. /\ IsFiniteSet(a..b - 1)
      /\ Cardinality(a..b - 1) = IF a > b - 1 THEN 0 ELSE b - 1 - a + 1
  BY <1>1, FS_Interval
<1>3. IsFiniteSet({i}) /\ Cardinality({i}) = 1
  BY FS_Singleton
<1>4. /\ IsFiniteSet({i} \X (a..b - 1))
      /\ Cardinality({i} \X (a..b - 1)) = Cardinality({i}) * Cardinality(a..b - 1)
  BY <1>2, <1>3, FS_Product
<1>5. Cardinality(a..b - 1) = b - a
  BY <1>2
<1>6. PICK n : n = Cardinality({i} \X (a..b - 1))
  OBVIOUS
<1>7. n = 1 * (b - a)
  BY <1>3, <1>4, <1>5, <1>6
<1>8. n = b - a
  BY <1>7
<1> QED BY <1>4, <1>6, <1>8 DEF Bytes

\* What a block occupies, and what of a buffer is filled.
BlockBytes == [m \in blocks |-> Bytes(m.buffer, m.at, m.at + m.size)]

FilledBytes == [k \in DOMAIN chain |-> Bytes(chain[k], MonoHeader, buffers[chain[k]].act)]

\* The buffers of the chain and the blocks, as the sums need them.
LEMMA BuffersAndBlocks ==
    ASSUME InUse
    PROVE  /\ IsFiniteSet(DOMAIN chain) /\ MonoHeader \in Nat
           /\ \A k \in DOMAIN chain : /\ buffers[chain[k]].act \in Nat
                                      /\ MonoHeader <= buffers[chain[k]].act
           /\ \A j, k \in DOMAIN chain : chain[j] = chain[k] => j = k
           /\ \A m \in blocks : /\ m.at \in Nat /\ m.size \in Nat /\ m.size >= 1
                                /\ \E k \in DOMAIN chain : chain[k] = m.buffer
                                /\ MonoHeader <= m.at /\ m.at + m.size <= buffers[m.buffer].act
           /\ \A m, n \in blocks :
                m # n /\ m.buffer = n.buffer => m.at + m.size <= n.at \/ n.at + n.size <= m.at
<1>1. /\ Sound(buffers) /\ ListedOnce(buffers, chain, recyclables) /\ Placed(buffers, blocks, self)
      /\ \A m \in blocks : m.buffer \in Items(chain)
  BY DEF InUse, Orderly
<1>2. chain \in Seq(DOMAIN buffers) /\ Once(chain)
  BY <1>1 DEF ListedOnce
<1>3. Len(chain) \in Nat /\ DOMAIN chain = 1..Len(chain) /\ \A k \in DOMAIN chain : chain[k] \in DOMAIN buffers
  BY <1>2, ListElements
<1>4. IsFiniteSet(1..Len(chain))
  <2>1. 1 \in Int /\ Len(chain) \in Int
    BY <1>3
  <2> QED BY <2>1, FS_Interval
<1>5. MonoHeader \in Nat
  BY MonoConstants
<1>6. ASSUME NEW k \in DOMAIN chain
      PROVE  buffers[chain[k]].act \in Nat /\ MonoHeader <= buffers[chain[k]].act
  <2>1. buffers \in Seq([act : Nat, end : Nat])
    BY <1>1 DEF Sound
  <2>2. buffers[chain[k]] \in [act : Nat, end : Nat]
    BY <1>3, <2>1, ListElements
  <2>3. MonoHeader <= buffers[chain[k]].act
    BY <1>1, <1>3 DEF Sound
  <2> QED BY <2>2, <2>3
<1>7. ASSUME NEW m \in blocks
      PROVE  /\ m.at \in Nat /\ m.size \in Nat /\ m.size >= 1
             /\ \E k \in DOMAIN chain : chain[k] = m.buffer
             /\ MonoHeader <= m.at /\ m.at + m.size <= buffers[m.buffer].act
  <2>1. m \in MonoBlocks /\ MonoHeader <= m.at /\ m.at + m.size <= buffers[m.buffer].act
    BY <1>1 DEF Placed
  <2>2. m.at \in Nat /\ m.size \in Nat /\ m.size >= 1
    BY <2>1 DEF MonoBlocks
  <2>3. \E k \in DOMAIN chain : chain[k] = m.buffer
    BY <1>1 DEF Items
  <2> QED BY <2>1, <2>2, <2>3
<1>8. \A j, k \in DOMAIN chain : chain[j] = chain[k] => j = k
  BY <1>2 DEF Once
<1>9. \A m, n \in blocks :
        m # n /\ m.buffer = n.buffer => m.at + m.size <= n.at \/ n.at + n.size <= m.at
  BY <1>1 DEF Placed
<1> QED BY <1>3, <1>4, <1>5, <1>6, <1>7, <1>8, <1>9

LEMMA FilledIsCounted ==
    ASSUME InUse
    PROVE  /\ Mono!AllocSize = Cardinality(Covered(FilledBytes, DOMAIN chain))
           /\ IsFiniteSet(Covered(FilledBytes, DOMAIN chain))
<1> DEFINE D == DOMAIN chain
           w == [k \in D |-> buffers[chain[k]].act - MonoHeader]
           f == [s \in SUBSET D |-> Cardinality(Covered(FilledBytes, s))]
<1>1. /\ IsFiniteSet(D) /\ MonoHeader \in Nat
      /\ \A k \in D : buffers[chain[k]].act \in Nat /\ MonoHeader <= buffers[chain[k]].act
      /\ \A j, k \in D : chain[j] = chain[k] => j = k
  BY BuffersAndBlocks
<1>2. \A k \in D : FilledBytes[k] = Bytes(chain[k], MonoHeader, buffers[chain[k]].act)
  BY DEF FilledBytes
<1>3. ASSUME NEW k \in D PROVE IsFiniteSet(FilledBytes[k]) /\ w[k] = Cardinality(FilledBytes[k])
  <2>1. w[k] = buffers[chain[k]].act - MonoHeader
    OBVIOUS
  <2> HIDE DEF w
  <2> QED BY <1>1, <1>2, <2>1, BytesCount
<1>4. Apart(FilledBytes, D)
  BY <1>1, <1>2 DEF Apart, Bytes
<1>5. IsFiniteSet(Covered(FilledBytes, D))
  BY <1>1, <1>3, CoveredIsFinite
<1>6. Sums(f, w, D)
  <2>1. \A k \in D : IsFiniteSet(FilledBytes[k])
    BY <1>3
  <2>2. \A k \in D : w[k] = Cardinality(FilledBytes[k])
    BY <1>3
  <2> HIDE DEF w, D
  <2> QED BY <1>1, <1>4, <2>1, <2>2, CoveredSums
<1>7. PICK iter : iter = CHOOSE g : g = [s \in SUBSET D |->
          IF s = {} THEN 0
          ELSE (buffers[chain[One(s)]].act - MonoHeader) + g[s \ {One(s)}]]
  OBVIOUS
<1>8. Mono!AllocSize = iter[D]
  BY <1>7, Zenon DEF One, Mono!AllocSize, Mono!MapThenSumSet, Mono!MapThenFoldSet
<1>9. \A s \in SUBSET D : s # {} =>
          w[One(s)] = buffers[chain[One(s)]].act - MonoHeader
  BY DEF One
<1>10. f = [s \in SUBSET D |->
          IF s = {} THEN 0
          ELSE (buffers[chain[One(s)]].act - MonoHeader) + f[s \ {One(s)}]]
  <2>1. ASSUME NEW s \in SUBSET D
        PROVE  f[s] = IF s = {} THEN 0
                      ELSE (buffers[chain[One(s)]].act - MonoHeader) + f[s \ {One(s)}]
    <3> HIDE DEF f, w
    <3> QED BY <1>6, <1>9 DEF Sums
  <2> QED BY <2>1
<1>11. iter = [s \in SUBSET D |->
          IF s = {} THEN 0
          ELSE (buffers[chain[One(s)]].act - MonoHeader) + iter[s \ {One(s)}]]
  <2> HIDE DEF f, D
  <2> QED BY <1>7, <1>10, Zenon
<1>12. Sums(iter, w, D)
  <2>1. ASSUME NEW s \in SUBSET D
        PROVE  iter[s] = IF s = {} THEN 0 ELSE w[One(s)] + iter[s \ {One(s)}]
    <3> HIDE DEF w
    <3> QED BY <1>9, <1>11
  <2> QED BY <2>1 DEF Sums
<1>13. iter[D] = f[D]
  <2> HIDE DEF f, w, D
  <2> QED BY <1>1, <1>6, <1>12, SumsAgree
<1> QED BY <1>5, <1>8, <1>13

LEMMA BlocksAreCounted ==
    ASSUME InUse
    PROVE  /\ Mono!MapThenSumSet(LAMBDA m : m.size, blocks) = Cardinality(Covered(BlockBytes, blocks))
           /\ Covered(BlockBytes, blocks) \subseteq Covered(FilledBytes, DOMAIN chain)
<1> DEFINE w == [m \in blocks |-> m.size]
           f == [s \in SUBSET blocks |-> Cardinality(Covered(BlockBytes, s))]
           all == Covered(FilledBytes, DOMAIN chain)
<1>1. /\ MonoHeader \in Nat
      /\ \A k \in DOMAIN chain : buffers[chain[k]].act \in Nat
      /\ \A m \in blocks : /\ m.at \in Nat /\ m.size \in Nat /\ m.size >= 1
                           /\ \E k \in DOMAIN chain : chain[k] = m.buffer
                           /\ MonoHeader <= m.at /\ m.at + m.size <= buffers[m.buffer].act
      /\ \A m, n \in blocks :
           m # n /\ m.buffer = n.buffer => m.at + m.size <= n.at \/ n.at + n.size <= m.at
  BY BuffersAndBlocks
<1>2. \A m \in blocks : BlockBytes[m] = {m.buffer} \X (m.at..(m.at + m.size) - 1)
  <2>1. \A m \in blocks : BlockBytes[m] = Bytes(m.buffer, m.at, m.at + m.size)
    BY DEF BlockBytes
  <2> QED BY <2>1, Zenon DEF Bytes
<1>3. ASSUME NEW m \in blocks PROVE BlockBytes[m] \subseteq all
  <2>1. PICK k \in DOMAIN chain : chain[k] = m.buffer
    BY <1>1
  <2>2. PICK act \in Nat : act = buffers[chain[k]].act
    BY <1>1
  <2>3. m.at..(m.at + m.size) - 1 \subseteq MonoHeader..act - 1
    BY <1>1, <2>1, <2>2
  <2>4. FilledBytes[k] = {m.buffer} \X (MonoHeader..act - 1)
    BY <2>1, <2>2 DEF FilledBytes, Bytes
  <2>5. BlockBytes[m] \subseteq FilledBytes[k]
    BY <1>2, <2>3, <2>4
  <2> QED BY <2>5 DEF Covered
<1>4. IsFiniteSet(all)
  BY FilledIsCounted
<1>5. IsFiniteSet(blocks)
  <2> DEFINE at == [m \in blocks |-> <<m.buffer, m.at>>]
  <2>1. ASSUME NEW m \in blocks PROVE at[m] \in all
    <3>1. m.at \in m.at..(m.at + m.size) - 1
      BY <1>1
    <3>2. at[m] \in BlockBytes[m]
      BY <1>2, <3>1
    <3> HIDE DEF at, all
    <3> QED BY <1>3, <3>2
  <2>2. ASSUME NEW m \in blocks, NEW n \in blocks, at[m] = at[n] PROVE m = n
    <3>1. m.buffer = n.buffer /\ m.at = n.at
      BY <2>2
    <3>2. /\ m.at \in Nat /\ m.size \in Nat /\ m.size >= 1
          /\ n.at \in Nat /\ n.size \in Nat /\ n.size >= 1
      BY <1>1
    <3>3. m # n => m.at + m.size <= n.at \/ n.at + n.size <= m.at
      BY <1>1, <3>1
    <3> QED BY <3>1, <3>2, <3>3
  <2>3. at \in [blocks -> all]
    <3> HIDE DEF all
    <3> QED BY <2>1
  <2> HIDE DEF at, all
  <2>4. at \in Injection(blocks, all)
    BY <2>2, <2>3, Zenon DEF Injection, IsInjective
  <2> QED BY <1>4, <2>4, FS_Injection
<1>6. ASSUME NEW m \in blocks PROVE IsFiniteSet(BlockBytes[m]) /\ w[m] = Cardinality(BlockBytes[m])
  <2>1. PICK a, n \in Nat : a = m.at /\ n = m.size
    BY <1>1
  <2>2. BlockBytes[m] = Bytes(m.buffer, a, a + n) /\ w[m] = n
    BY <2>1 DEF BlockBytes
  <2>3. a + n \in Nat /\ a <= a + n /\ a + n - a = n
    OBVIOUS
  <2>4. IsFiniteSet(Bytes(m.buffer, a, a + n)) /\ Cardinality(Bytes(m.buffer, a, a + n)) = a + n - a
    BY <2>3, BytesCount
  <2> HIDE DEF w
  <2> QED BY <2>2, <2>3, <2>4
<1>7. Apart(BlockBytes, blocks)
  <2> SUFFICES ASSUME NEW m \in blocks, NEW n \in blocks, m # n, NEW b \in BlockBytes[m], b \in BlockBytes[n]
               PROVE  FALSE
    BY DEF Apart
  <2>1. PICK p \in m.at..(m.at + m.size) - 1 : b = <<m.buffer, p>>
    BY <1>2
  <2>2. PICK q \in n.at..(n.at + n.size) - 1 : b = <<n.buffer, q>>
    BY <1>2
  <2>3. m.buffer = n.buffer /\ p = q
    BY <2>1, <2>2
  <2>4. m.at \in Nat /\ m.size \in Nat /\ n.at \in Nat /\ n.size \in Nat
    BY <1>1
  <2>5. m.at + m.size <= n.at \/ n.at + n.size <= m.at
    BY <1>1, <2>3
  <2> QED BY <2>3, <2>4, <2>5
<1>8. Sums(f, w, blocks)
  <2>1. \A m \in blocks : IsFiniteSet(BlockBytes[m])
    BY <1>6
  <2>2. \A m \in blocks : w[m] = Cardinality(BlockBytes[m])
    BY <1>6
  <2> HIDE DEF w
  <2> QED BY <1>5, <1>7, <2>1, <2>2, CoveredSums
<1>9. PICK iter : iter = CHOOSE g : g = [s \in SUBSET blocks |->
          IF s = {} THEN 0 ELSE One(s).size + g[s \ {One(s)}]]
  OBVIOUS
<1>10. Mono!MapThenSumSet(LAMBDA m : m.size, blocks) = iter[blocks]
  BY <1>9, Zenon DEF One, Mono!MapThenSumSet, Mono!MapThenFoldSet
<1>11. \A s \in SUBSET blocks : s # {} => w[One(s)] = One(s).size
  BY DEF One
<1>12. f = [s \in SUBSET blocks |-> IF s = {} THEN 0 ELSE One(s).size + f[s \ {One(s)}]]
  <2>1. ASSUME NEW s \in SUBSET blocks
        PROVE  f[s] = IF s = {} THEN 0 ELSE One(s).size + f[s \ {One(s)}]
    <3> HIDE DEF f, w
    <3> QED BY <1>8, <1>11 DEF Sums
  <2> QED BY <2>1
<1>13. iter = [s \in SUBSET blocks |-> IF s = {} THEN 0 ELSE One(s).size + iter[s \ {One(s)}]]
  <2> HIDE DEF f
  <2> QED BY <1>9, <1>12, Zenon
<1>14. Sums(iter, w, blocks)
  <2>1. ASSUME NEW s \in SUBSET blocks
        PROVE  iter[s] = IF s = {} THEN 0 ELSE w[One(s)] + iter[s \ {One(s)}]
    <3> HIDE DEF w
    <3> QED BY <1>11, <1>13
  <2> QED BY <2>1 DEF Sums
<1>15. iter[blocks] = f[blocks]
  <2> HIDE DEF f, w
  <2> QED BY <1>5, <1>8, <1>14, SumsAgree
<1>16. Covered(BlockBytes, blocks) \subseteq all
  <2> HIDE DEF all
  <2> QED BY <1>3 DEF Covered
<1> QED BY <1>10, <1>15, <1>16

LEMMA StatisticsCover ==
    ASSUME MonoInv, component = "MonoAllocator" PROVE Mono!StatisticsCoverBlocks
<1>1. CASE Destructed
  BY <1>1 DEF Destructed, Mono!StatisticsCoverBlocks, Mono!Alive
<1>2. CASE InUse
  <2>1. PICK A, B : A = Covered(FilledBytes, DOMAIN chain) /\ B = Covered(BlockBytes, blocks)
    OBVIOUS
  <2>2. /\ Mono!AllocSize = Cardinality(A) /\ IsFiniteSet(A)
        /\ Mono!MapThenSumSet(LAMBDA m : m.size, blocks) = Cardinality(B) /\ B \in SUBSET A
    BY <1>2, <2>1, FilledIsCounted, BlocksAreCounted
  <2>3. Cardinality(A) \in Nat /\ Cardinality(B) \in Nat /\ Cardinality(B) <= Cardinality(A)
    BY <2>2, FS_Subset, FS_CardinalityType
  <2>4. Cardinality(A) >= Cardinality(B)
    BY <2>3
  <2>5. Mono!AllocSize >= Mono!MapThenSumSet(LAMBDA m : m.size, blocks)
    BY <2>2, <2>4, Zenon
  <2> QED BY <2>5, Zenon DEF Mono!StatisticsCoverBlocks
<1> QED BY <1>1, <1>2 DEF MonoInv

\* Blocks of the pool allocator: each has one caller or one place among the free ones of its size,
\* what is granted fits, and none is twice as large as needed, whatever the sizes asked for; and
\* the statistics of the monotonic allocator report no less than what is in use.
THEOREM BlocksAlwaysFitTheirSize == DataSpec => []BlocksFitTheirSize
<1>1. DataInit => PoolInv /\ MonoInv
  <2>1. DataInit => MonoInv
    BY InitMono DEF MonoInv
  <2> QED BY <2>1, InitPool
<1>2. PoolInv /\ MonoInv => BlocksFitTheirSize
  <2> SUFFICES ASSUME PoolInv, MonoInv PROVE BlocksFitTheirSize
    OBVIOUS
  <2>1. component = "PoolAllocator" => PoolKept(hooks, heap, used)
    BY DEF PoolInv
  <2> QED BY <2>1, PoolIsSound, StatisticsCover DEF BlocksFitTheirSize
<1>3. PoolInv /\ MonoInv /\ [DataNext]_dataVars => PoolInv' /\ MonoInv'
  BY StepKeepsPool, StepKeepsMono
<1> QED BY <1>1, <1>2, <1>3, PTL DEF DataSpec
-----------------------------------------------------------------------------
(* Camps                                                                     *)

InOrder == \A c, d \in 1..QtyCamps : c <= d => campStates[d] <= campStates[c]

\* Once a camp is stopped, all camps are through their bootstrap.
StopTogether ==
    (\E c \in 1..QtyCamps : campStates[c] < 0) =>
        \A c \in 1..QtyCamps : campStates[c] = 3 \/ campStates[c] < 0

HasPool(c) == modulesInitialized /\ campPools[c] # 0
HasConfig(c) == campConfigs[c] # 0

\* Between its bootstrap and its destruction a camp has what it needs.
Equipped ==
    \A c \in 1..QtyCamps :
        /\ campStates[c] \in {-1, 1, 2, 3} => HasPool(c)
        /\ campStates[c] \in {-1, 2, 3} => HasConfig(c)

\* What a call has done with the camps it has been at.
GoingUp ==
    campsRunning.what \in {"prepare", "start"} =>
        /\ campsRunning.phase <= campsRunning.last
        /\ campsRunning.camp <= campsRunning.target
        /\ campStates[campsRunning.target] = campsRunning.phase - 1
        /\ modulesInitialized
        /\ campsRunning.what = "prepare" => campsRunning.camp = 1
        /\ campsRunning.what = "start" =>
            /\ \A c \in 1..(campsRunning.camp - 1) : campStates[c] >= campsRunning.phase
            /\ \A c \in 1..campsRunning.target : HasPool(c)
            /\ campsRunning.phase >= 2 => \A c \in 1..campsRunning.target : HasConfig(c)

GoingDown ==
    campsRunning.what \in {"stop", "drop"} =>
        /\ campsRunning.phase <= campsRunning.last
        /\ campsRunning.camp >= campsRunning.target
        /\ \A c \in 1..QtyCamps : campStates[c] = 3 \/ campStates[c] < 0
        /\ \A c \in 1..QtyCamps :
            c < campsRunning.target \/ campsRunning.last = 1 => campStates[c] # -2
        /\ campsRunning.what = "stop" =>
            /\ \A c \in (campsRunning.camp + 1)..QtyCamps : campStates[c] <= -campsRunning.phase
            /\ campsRunning.phase = 2 =>
                \A c \in campsRunning.target..QtyCamps : campStates[c] < 0
        /\ campsRunning.what = "drop" =>
            \A c \in campsRunning.target..QtyCamps : campStates[c] = -2

CallsUp == [what : {"prepare", "start"}, phase : 1..3, last : 1..3, target : 1..QtyCamps,
            camp : 1..QtyCamps]
CallsDown == [what : {"stop", "drop"}, phase : 1..2, last : 1..2, target : 1..QtyCamps,
              camp : 1..QtyCamps]

CampTypes ==
    /\ campStates \in [1..QtyCamps -> -2..3]
    /\ campPools \in [1..QtyCamps -> 0..QtyCamps]
    /\ campConfigs \in [1..QtyCamps -> 0..QtyCamps]
    /\ modulesInitialized \in BOOLEAN
    /\ ownPools \subseteq 1..QtyCamps /\ ownConfigs \subseteq 1..QtyCamps
    /\ campsRunning \in {Starting!Nothing} \cup CallsUp \cup CallsDown

CampParts ==
    /\ CampTypes
    /\ InOrder
    /\ StopTogether
    /\ Equipped
    /\ GoingUp
    /\ GoingDown
    /\ Starting!ObjectsAreKept

CampInv == component = "Camps" => CampParts

LEMMA CampConstants == QtyCamps \in Nat /\ QtyCamps >= 1 /\ Starting!TheCamps = 1..QtyCamps
BY CampsAssumption DEF Starting!CampsAssumption, Starting!TheCamps

\* A call on its way is one up or one down.
LEMMA KindsOfCalls ==
    ASSUME CampParts
    PROVE  /\ campsRunning = Starting!Nothing => campsRunning.what = "nothing"
           /\ campsRunning.what \in {"prepare", "start"} => campsRunning \in CallsUp
           /\ campsRunning.what \in {"stop", "drop"} => campsRunning \in CallsDown
BY DEF CampParts, CampTypes, CallsUp, CallsDown, Starting!Nothing, Starting!Running

LEMMA InitCamps == ASSUME DataInit, component = "Camps" PROVE CampParts
<1>1. Starting!Init
  BY DEF DataInit
<1>2. campsRunning = Starting!Nothing /\ campsRunning.what = "nothing"
  BY <1>1 DEF Starting!Init, Starting!Nothing, Starting!Running
<1>3. CampTypes
  <2>1. /\ campStates = [c \in 1..QtyCamps |-> 0] /\ campPools = [c \in 1..QtyCamps |-> 0]
        /\ campConfigs = [c \in 1..QtyCamps |-> 0]
        /\ modulesInitialized = FALSE /\ ownPools = {} /\ ownConfigs = {}
    BY <1>1, CampConstants DEF Starting!Init, Starting!null
  <2>2. campStates \in [1..QtyCamps -> -2..3]
    BY <2>1
  <2>3. campPools \in [1..QtyCamps -> 0..QtyCamps] /\ campConfigs \in [1..QtyCamps -> 0..QtyCamps]
    BY <2>1, CampConstants
  <2> QED BY <1>2, <2>1, <2>2, <2>3, Zenon DEF CampTypes
<1>4. InOrder /\ StopTogether /\ Equipped
  BY <1>1, CampConstants DEF Starting!Init, InOrder, StopTogether, Equipped
<1>5. GoingUp /\ GoingDown
  BY <1>2 DEF GoingUp, GoingDown
<1>6. Starting!ObjectsAreKept
  BY <1>1, CampConstants DEF Starting!Init, Starting!ObjectsAreKept, Starting!ObjectsAreHandedDown,
     Starting!null
<1> QED BY <1>3, <1>4, <1>5, <1>6 DEF CampParts

\* The invariant holds at each call of a camp what the properties state.
LEMMA CampsAreCalledInOrder == ASSUME CampParts PROVE
    /\ Starting!TypeOK
    /\ Starting!CampsStartUpwards
    /\ Starting!CampsStopDownwards
    /\ Starting!LowerCampsLastLonger
<1>1. campStates \in [1..QtyCamps -> -2..3]
  BY DEF CampParts, CampTypes
<1>2. ASSUME campsRunning.what = "start", campStates[campsRunning.camp] < campsRunning.phase
      PROVE  /\ campStates[campsRunning.camp] = campsRunning.phase - 1
             /\ \A c \in 1..(campsRunning.camp - 1) : campStates[c] >= campsRunning.phase
             /\ \A c \in (campsRunning.camp + 1)..QtyCamps : campStates[c] < campsRunning.phase
             /\ Starting!HasItsObjects(campsRunning.camp, campsRunning.phase)
  <2>1. /\ campsRunning.camp \in 1..QtyCamps /\ campsRunning.target \in 1..QtyCamps
        /\ campsRunning.phase \in 1..3
    BY <1>2, KindsOfCalls DEF CallsUp
  <2>2. /\ campsRunning.camp <= campsRunning.target
        /\ campStates[campsRunning.target] = campsRunning.phase - 1
    BY <1>2 DEF CampParts, GoingUp
  <2>3. /\ campStates[campsRunning.target] <= campStates[campsRunning.camp]
        /\ \A c \in (campsRunning.camp + 1)..QtyCamps : campStates[c] <= campStates[campsRunning.camp]
    BY <2>1, <2>2, CampConstants DEF CampParts, InOrder
  <2>4. campStates[campsRunning.camp] \in Int
    BY <1>1, <2>1
  <2>5. Starting!HasItsObjects(campsRunning.camp, campsRunning.phase)
    BY <1>2, <2>1, <2>2 DEF CampParts, GoingUp, HasPool, HasConfig, Starting!HasItsObjects,
       Starting!PrepareConfig, Starting!null
  <2>6. \A c \in (campsRunning.camp + 1)..QtyCamps : campStates[c] < campsRunning.phase
    BY <1>1, <1>2, <2>1, <2>3, <2>4, CampConstants
  <2>7. campStates[campsRunning.camp] = campsRunning.phase - 1
    BY <1>2, <2>1, <2>2, <2>3, <2>4
  <2>8. \A c \in 1..(campsRunning.camp - 1) : campStates[c] >= campsRunning.phase
    BY <1>2 DEF CampParts, GoingUp
  <2> QED BY <2>5, <2>6, <2>7, <2>8
<1>3. ASSUME campsRunning.what = "stop", campStates[campsRunning.camp] > -campsRunning.phase
      PROVE  /\ campStates[campsRunning.camp] = IF campsRunning.phase = 1 THEN 3 ELSE -1
             /\ \A c \in (campsRunning.camp + 1)..QtyCamps : campStates[c] <= -campsRunning.phase
             /\ \A c \in 1..(campsRunning.camp - 1) : campStates[c] > -campsRunning.phase
             /\ campsRunning.phase = 1 => \A c \in 1..(campsRunning.camp - 1) : campStates[c] = 3
             /\ Starting!HasItsObjects(campsRunning.camp, 3)
  <2>1. /\ campsRunning.camp \in 1..QtyCamps /\ campsRunning.target \in 1..QtyCamps
        /\ campsRunning.phase \in 1..2
    BY <1>3, KindsOfCalls DEF CallsDown
  <2>2. /\ campsRunning.camp >= campsRunning.target
        /\ \A c \in 1..QtyCamps : campStates[c] = 3 \/ campStates[c] < 0
        /\ \A c \in (campsRunning.camp + 1)..QtyCamps : campStates[c] <= -campsRunning.phase
        /\ campsRunning.phase = 2 => \A c \in campsRunning.target..QtyCamps : campStates[c] < 0
    BY <1>3 DEF CampParts, GoingDown
  <2>3. \A c \in 1..(campsRunning.camp - 1) : c \in 1..QtyCamps /\ campStates[campsRunning.camp] <= campStates[c]
    BY <2>1, CampConstants DEF CampParts, InOrder
  <2>4. campStates[campsRunning.camp] \in -2..3 /\ campStates[campsRunning.camp] \in {-1, 3}
    BY <1>1, <1>3, <2>1, <2>2
  <2>5. campStates[campsRunning.camp] = IF campsRunning.phase = 1 THEN 3 ELSE -1
    BY <1>3, <2>1, <2>2, <2>4, CampConstants
  <2>6. \A c \in 1..(campsRunning.camp - 1) : campStates[c] > -campsRunning.phase
    BY <1>1, <1>3, <2>1, <2>3, <2>4, CampConstants
  <2>7. campsRunning.phase = 1 => \A c \in 1..(campsRunning.camp - 1) : campStates[c] = 3
    BY <1>1, <2>1, <2>2, <2>3, <2>5, CampConstants
  <2>8. Starting!HasItsObjects(campsRunning.camp, 3)
    BY <2>1, <2>4 DEF CampParts, Equipped, HasPool, HasConfig, Starting!HasItsObjects, Starting!null
  <2> QED BY <2>2, <2>5, <2>6, <2>7, <2>8
<1>4. Starting!CampsStartUpwards
  BY <1>2 DEF Starting!CampsStartUpwards
<1>5. Starting!CampsStopDownwards
  BY <1>3 DEF Starting!CampsStopDownwards, Starting!Announce, Starting!Final
<1>6. Starting!LowerCampsLastLonger
  BY CampConstants DEF CampParts, InOrder, Starting!LowerCampsLastLonger
<1>7. Starting!TypeOK
  <2>1. 1..QtyCamps \cup {0} = 0..QtyCamps
    BY CampConstants
  <2>2. Starting!TheCamps = 1..QtyCamps /\ CampTypes
    BY CampConstants DEF CampParts
  <2> QED BY <2>1, <2>2, Zenon DEF Starting!TypeOK, Starting!null, CampTypes, CallsUp, CallsDown
<1> QED BY <1>4, <1>5, <1>6, <1>7

\* No camp is stopped while another one is started.
LEMMA NoneIsStopped ==
    ASSUME CampParts, campsRunning.what \in {"prepare", "start"}
    PROVE  \A c \in 1..QtyCamps : campStates[c] \in 0..3
<1>1. campStates \in [1..QtyCamps -> -2..3] /\ campsRunning \in CallsUp
  BY KindsOfCalls DEF CampParts, CampTypes
<1>2. campsRunning.target \in 1..QtyCamps /\ campStates[campsRunning.target] \in 0..2
  BY <1>1 DEF CampParts, GoingUp, CallsUp
<1>3. ~\E c \in 1..QtyCamps : campStates[c] < 0
  BY <1>2 DEF CampParts, StopTogether
<1> QED BY <1>1, <1>3

\* The steps that only begin a call.
LEMMA CallsBegin ==
    ASSUME CampParts, campsRunning = Starting!Nothing, campsRunning' \in CallsUp \cup CallsDown,
           modulesInitialized' \in BOOLEAN, modulesInitialized => modulesInitialized',
           UNCHANGED <<campStates, campPools, campConfigs, ownPools, ownConfigs>>,
           GoingUp', GoingDown'
    PROVE  CampParts'
<1>1. CampTypes'
  BY DEF CampParts, CampTypes
<1>2. InOrder' /\ StopTogether'
  BY DEF CampParts, InOrder, StopTogether
<1>3. Equipped'
  BY DEF CampParts, Equipped, HasPool, HasConfig
<1>4. campsRunning' # Starting!Nothing
  BY DEF CallsUp, CallsDown, Starting!Nothing, Starting!Running
<1>5. Starting!ObjectsAreKept'
  BY <1>4 DEF CampParts, Starting!ObjectsAreKept, Starting!ObjectsAreHandedDown, Starting!Destruct,
     Starting!null, Starting!Nothing
<1> QED BY <1>1, <1>2, <1>3, <1>5 DEF CampParts

LEMMA BootstrapKeeps ==
    ASSUME CampParts, NEW phase \in 1..3, NEW target \in 1..QtyCamps,
           Starting!Bootstrap(phase, target)
    PROVE  CampParts'
<1>1. /\ campsRunning = Starting!Nothing /\ campStates[target] \in 0..(phase - 1)
      /\ campsRunning' = [what |-> "prepare", phase |-> campStates[target] + 1, last |-> phase,
                          target |-> target, camp |-> 1]
      /\ modulesInitialized' = TRUE
      /\ UNCHANGED <<campStates, campPools, campConfigs, ownPools, ownConfigs>>
  BY DEF Starting!Bootstrap, Starting!Running
<1>2. campsRunning' \in CallsUp
  BY <1>1, CampConstants DEF CallsUp
<1>3. GoingUp'
  BY <1>1, CampConstants DEF GoingUp
<1>4. GoingDown'
  BY <1>1 DEF GoingDown
<1> QED BY <1>1, <1>2, <1>3, <1>4, CallsBegin

LEMMA ShutdownKeeps ==
    ASSUME CampParts, NEW phase \in 1..2, NEW target \in 1..QtyCamps,
           Starting!Shutdown(phase, target)
    PROVE  CampParts'
<1>1. /\ campsRunning = Starting!Nothing
      /\ \A c \in target..QtyCamps : campStates[c] = 3 \/ campStates[c] < 0
      /\ campStates[target] > -phase
      /\ phase = 1 => \A c \in 1..QtyCamps : campStates[c] # -2
      /\ campsRunning' = [what |-> "stop", phase |-> 1, last |-> phase, target |-> target,
                          camp |-> QtyCamps]
      /\ UNCHANGED <<campStates, campPools, campConfigs, modulesInitialized, ownPools, ownConfigs>>
  BY CampConstants DEF Starting!Shutdown, Starting!Running, Starting!Announce, Starting!Destruct,
     Starting!Final
<1>2. campsRunning' \in CallsDown
  BY <1>1, CampConstants DEF CallsDown
<1>3. \A c \in 1..QtyCamps : campStates[c] = 3 \/ campStates[c] < 0
  <2>1. campStates \in [1..QtyCamps -> -2..3]
    BY DEF CampParts, CampTypes
  <2>2. CASE campStates[target] < 0
    BY <2>2 DEF CampParts, StopTogether
  <2>3. CASE campStates[target] = 3
    <3>1. \A c \in 1..target : campStates[c] = 3
      BY <2>1, <2>3, CampConstants DEF CampParts, InOrder
    <3> QED BY <1>1, <3>1, CampConstants
  <2> QED BY <1>1, <2>2, <2>3, CampConstants
<1>4. GoingUp'
  BY <1>1 DEF GoingUp
<1>5. GoingDown'
  <2>1. \A c \in 1..QtyCamps : c < target \/ phase = 1 => campStates[c] # -2
    <3>1. campStates \in [1..QtyCamps -> -2..3]
      BY DEF CampParts, CampTypes
    <3>2. \A c \in 1..QtyCamps : c < target => campStates[target] <= campStates[c]
      BY DEF CampParts, InOrder
    <3> QED BY <1>1, <3>1, <3>2
  <2> QED BY <1>1, <1>3, <2>1, CampConstants DEF GoingDown
<1>6. modulesInitialized' \in BOOLEAN
  BY <1>1 DEF CampParts, CampTypes
<1> QED BY <1>1, <1>2, <1>4, <1>5, <1>6, CallsBegin

\* The objects of the camps, pools or configurations.
CampObjects == [1..QtyCamps -> 0..QtyCamps]

IsNearest(o, camp, c) == /\ c \in 1..QtyCamps /\ c >= camp /\ o[c] # 0
                         /\ \A d \in camp..(c - 1) : o[d] = 0

LEMMA NearestFound ==
    ASSUME NEW o \in CampObjects, NEW target \in 1..QtyCamps, o[target] # 0, NEW camp \in 1..target
    PROVE  /\ IsNearest(o, camp, Starting!Nearest(o, camp))
           /\ Starting!Nearest(o, camp) \in 1..target
<1>1. PICK c \in {d \in camp..target : o[d] # 0} : \A d \in {e \in camp..target : o[e] # 0} : c <= d
  <2>1. {d \in camp..target : o[d] # 0} \in SUBSET Nat
    OBVIOUS
  <2>2. target \in {d \in camp..target : o[d] # 0}
    BY CampConstants
  <2> QED BY <2>1, <2>2, LeastOfNaturals
<1>2. IsNearest(o, camp, c)
  BY <1>1, CampConstants DEF IsNearest, CampObjects
<1>3. IsNearest(o, camp, Starting!Nearest(o, camp))
  BY <1>2, CampConstants DEF IsNearest, Starting!Nearest, Starting!null
<1>4. Starting!Nearest(o, camp) <= target
  BY <1>3, CampConstants DEF IsNearest
<1> QED BY <1>3, <1>4, CampConstants DEF IsNearest

LEMMA NearestIsOne ==
    ASSUME NEW o \in CampObjects, NEW camp \in 1..QtyCamps, NEW c, NEW d,
           IsNearest(o, camp, c), IsNearest(o, camp, d)
    PROVE  c = d
BY CampConstants DEF IsNearest

\* What a camp has that was not set for it is that of the next one.
FromNext(o, c) == o[c] \notin {0, c} => c < QtyCamps /\ o[c + 1] = o[c]

\* A distribution leaves what is there, and gives the camps up to the target what they lack.
LEMMA HandedDown ==
    ASSUME NEW o \in CampObjects, NEW target \in 1..QtyCamps, \A c \in 1..QtyCamps : FromNext(o, c),
           NEW new, new = Starting!Distributed(o, target)
    PROVE  /\ new \in CampObjects
           /\ \A c \in 1..target : new[c] # 0
           /\ \A c \in 1..QtyCamps : o[c] # 0 => new[c] = o[c]
           /\ \A c \in 1..QtyCamps : FromNext(new, c)
<1> DEFINE given == [o EXCEPT ![target] = IF @ = 0 THEN target ELSE @]
<1>1. /\ given \in CampObjects /\ given[target] # 0
      /\ \A c \in 1..QtyCamps : c # target => given[c] = o[c]
      /\ given[target] = IF o[target] = 0 THEN target ELSE o[target]
  BY CampConstants DEF CampObjects
<1>2. new = [c \in 1..QtyCamps |-> IF c > target THEN o[c] ELSE given[Starting!Nearest(given, c)]]
  BY CampConstants DEF Starting!Distributed, Starting!null
<1> HIDE DEF given
<1>3. ASSUME NEW c \in 1..target
      PROVE  /\ IsNearest(given, c, Starting!Nearest(given, c))
             /\ new[c] = given[Starting!Nearest(given, c)] /\ new[c] \in 1..QtyCamps
  <2>1. IsNearest(given, c, Starting!Nearest(given, c))
    BY <1>1, NearestFound
  <2>2. c \in 1..QtyCamps /\ ~(c > target)
    BY CampConstants
  <2>3. new[c] = given[Starting!Nearest(given, c)]
    BY <1>2, <2>2
  <2> QED BY <1>1, <2>1, <2>3, CampConstants DEF IsNearest, CampObjects
<1>4. ASSUME NEW c \in 1..QtyCamps, c > target PROVE new[c] = o[c]
  BY <1>2, <1>4
<1>5. ASSUME NEW c \in 1..target, given[c] # 0 PROVE new[c] = given[c]
  <2>1. IsNearest(given, c, c)
    BY <1>5, CampConstants DEF IsNearest
  <2>2. Starting!Nearest(given, c) = c
    BY <1>1, <1>3, <2>1, NearestIsOne, CampConstants
  <2> QED BY <1>3, <2>2
<1>6. new \in CampObjects
  <2>1. \A c \in 1..QtyCamps : new[c] \in 0..QtyCamps
    BY <1>3, <1>4, CampConstants DEF CampObjects
  <2> QED BY <1>2, <2>1 DEF CampObjects
<1>7. \A c \in 1..target : new[c] # 0
  BY <1>3
<1>8. \A c \in 1..QtyCamps : o[c] # 0 => new[c] = o[c]
  BY <1>1, <1>4, <1>5, CampConstants
<1>9. ASSUME NEW c \in 1..QtyCamps, new[c] \notin {0, c} PROVE c < QtyCamps /\ new[c + 1] = new[c]
  <2>1. CASE o[c] # 0
    <3>1. c < QtyCamps /\ o[c + 1] = o[c] /\ o[c] = new[c]
      BY <1>8, <1>9, <2>1 DEF FromNext
    <3>2. c + 1 \in 1..QtyCamps
      BY <3>1, CampConstants
    <3> QED BY <1>8, <2>1, <3>1, <3>2
  <2>2. CASE o[c] = 0
    <3>1. c < target
      BY <1>1, <1>4, <1>5, <1>9, <2>2, CampConstants
    <3>2. /\ c \in 1..target /\ c + 1 \in 1..target /\ c \in 1..QtyCamps /\ c + 1 \in 1..QtyCamps
          /\ c # target
      BY <3>1, CampConstants
    <3>3. given[c] = 0
      BY <1>1, <2>2, <3>2
    <3>4. IsNearest(given, c, Starting!Nearest(given, c + 1))
      BY <1>3, <3>2, <3>3, CampConstants DEF IsNearest
    <3>5. Starting!Nearest(given, c) = Starting!Nearest(given, c + 1)
      BY <1>1, <1>3, <3>2, <3>4, NearestIsOne
    <3> QED BY <1>3, <3>1, <3>2, <3>5, CampConstants
  <2> QED BY <2>1, <2>2
<1> QED BY <1>6, <1>7, <1>8, <1>9 DEF FromNext

\* What ObjectsAreKept says of one of the two kinds of objects, without the clause about
\* camps that were destructed.
KeptBy(o, own, states) ==
    /\ \A c \in own : o[c] = c \/ states[c] = -2
    /\ \A c \in 1..QtyCamps : o[c] \notin {0, c} =>
        c < QtyCamps /\ (o[c + 1] = o[c] \/ (o[c + 1] = 0 /\ states[c + 1] = -2))

NoneOfDestructed(o) == \A c \in 1..QtyCamps : campStates[c] = -2 => o[c] = 0

LEMMA KeptInParts ==
    /\ Starting!ObjectsAreKept <=>
         /\ KeptBy(campPools, ownPools, campStates) /\ KeptBy(campConfigs, ownConfigs, campStates)
         /\ campsRunning = Starting!Nothing =>
              NoneOfDestructed(campPools) /\ NoneOfDestructed(campConfigs)
    /\ Starting!ObjectsAreKept' <=>
         /\ KeptBy(campPools, ownPools, campStates)' /\ KeptBy(campConfigs, ownConfigs, campStates)'
         /\ (campsRunning = Starting!Nothing)' =>
              NoneOfDestructed(campPools)' /\ NoneOfDestructed(campConfigs)'
BY CampConstants, Zenon DEF Starting!ObjectsAreKept, Starting!ObjectsAreHandedDown, Starting!null,
   Starting!Destruct, KeptBy, NoneOfDestructed

LEMMA DistributionKeeps ==
    ASSUME NEW o \in CampObjects, NEW own \in SUBSET (1..QtyCamps), NEW target \in 1..QtyCamps,
           NEW states, \A c \in 1..QtyCamps : states[c] \in 0..3, KeptBy(o, own, states)
    PROVE  /\ Starting!Distributed(o, target) \in CampObjects
           /\ \A c \in 1..target : Starting!Distributed(o, target)[c] # 0
           /\ \A c \in 1..QtyCamps : o[c] # 0 => Starting!Distributed(o, target)[c] = o[c]
           /\ KeptBy(Starting!Distributed(o, target), own, states)
<1>1. \A c \in 1..QtyCamps : FromNext(o, c)
  <2> SUFFICES ASSUME NEW c \in 1..QtyCamps, o[c] \notin {0, c}
               PROVE  c < QtyCamps /\ o[c + 1] = o[c]
    BY DEF FromNext
  <2>1. c + 1 \in 1..QtyCamps
    BY CampConstants DEF KeptBy
  <2> QED BY <2>1 DEF KeptBy
<1>2. PICK new : new = Starting!Distributed(o, target)
  OBVIOUS
<1>3. /\ new \in CampObjects /\ \A c \in 1..target : new[c] # 0
      /\ \A c \in 1..QtyCamps : o[c] # 0 => new[c] = o[c]
      /\ \A c \in 1..QtyCamps : FromNext(new, c)
  BY <1>1, <1>2, HandedDown
<1>4. ASSUME NEW c \in own PROVE new[c] = c
  <2>1. c \in 1..QtyCamps /\ o[c] = c
    BY DEF KeptBy
  <2> QED BY <1>3, <2>1
<1>5. KeptBy(new, own, states)
  BY <1>3, <1>4 DEF KeptBy, FromNext
<1> QED BY <1>2, <1>3, <1>5

LEMMA DistributeKeeps == ASSUME CampParts, Starting!Distribute PROVE CampParts'
<1>1. /\ campsRunning.what = "prepare" /\ campsRunning \in CallsUp
      /\ UNCHANGED <<campStates, modulesInitialized, ownPools, ownConfigs>>
      /\ campsRunning' = [campsRunning EXCEPT !.what = "start"]
  BY KindsOfCalls DEF Starting!Distribute
<1>2. PICK target \in 1..QtyCamps, phase \in 1..3 :
          target = campsRunning.target /\ phase = campsRunning.phase
  BY <1>1 DEF CallsUp
<1>3. /\ campPools' = IF phase = 1 THEN Starting!Distributed(campPools, target) ELSE campPools
      /\ campConfigs' = IF phase = 2 THEN Starting!Distributed(campConfigs, target) ELSE campConfigs
  BY <1>2 DEF Starting!Distribute, Starting!PrepareResources, Starting!PrepareConfig
<1>4. \A c \in 1..QtyCamps : campStates[c] \in 0..3
  BY <1>1, NoneIsStopped
<1>5. /\ campPools \in CampObjects /\ campConfigs \in CampObjects
      /\ ownPools \in SUBSET (1..QtyCamps) /\ ownConfigs \in SUBSET (1..QtyCamps)
      /\ KeptBy(campPools, ownPools, campStates) /\ KeptBy(campConfigs, ownConfigs, campStates)
  BY KeptInParts DEF CampParts, CampTypes, CampObjects
<1>6. /\ campPools' \in CampObjects
      /\ \A c \in 1..QtyCamps : campPools[c] # 0 => campPools'[c] = campPools[c]
      /\ phase = 1 => \A c \in 1..target : campPools'[c] # 0
      /\ KeptBy(campPools', ownPools, campStates)
  BY <1>3, <1>4, <1>5, DistributionKeeps
<1>7. /\ campConfigs' \in CampObjects
      /\ \A c \in 1..QtyCamps : campConfigs[c] # 0 => campConfigs'[c] = campConfigs[c]
      /\ phase = 2 => \A c \in 1..target : campConfigs'[c] # 0
      /\ KeptBy(campConfigs', ownConfigs, campStates)
  BY <1>3, <1>4, <1>5, DistributionKeeps
<1>8. /\ campsRunning' \in CallsUp /\ campsRunning'.what = "start" /\ campsRunning' # Starting!Nothing
      /\ campsRunning'.target = target /\ campsRunning'.phase = phase
      /\ campsRunning'.last = campsRunning.last
  BY <1>1, <1>2 DEF CallsUp, Starting!Nothing, Starting!Running
<1>9. CampTypes'
  BY <1>1, <1>6, <1>7, <1>8 DEF CampParts, CampTypes, CampObjects
<1>10. InOrder' /\ StopTogether'
  BY <1>1 DEF CampParts, InOrder, StopTogether
<1>11. Equipped'
  BY <1>1, <1>6, <1>7 DEF CampParts, Equipped, HasPool, HasConfig
<1>12. GoingDown'
  BY <1>8 DEF GoingDown
<1>13. Starting!ObjectsAreKept'
  BY <1>1, <1>6, <1>7, <1>8, KeptInParts, Zenon
<1>14. GoingUp'
  <2>1. /\ modulesInitialized /\ campsRunning.phase <= campsRunning.last
        /\ campsRunning.camp <= target /\ campStates[target] = phase - 1
    BY <1>1, <1>2 DEF CampParts, GoingUp
  <2>2. \A c \in 1..target : c \in 1..QtyCamps /\ campStates[c] \in 0..3 /\ campStates[c] >= phase - 1
    BY <1>4, <2>1, CampConstants DEF CampParts, InOrder
  <2>3. campsRunning'.camp <= target
    BY <1>1, <2>1 DEF CallsUp
  <2>4. \A c \in 1..(campsRunning'.camp - 1) : campStates'[c] >= phase
    <3>1. campsRunning'.camp = 1
      BY <1>1 DEF CallsUp, CampParts, GoingUp
    <3> QED BY <3>1
  <2>5. \A c \in 1..target : campPools'[c] # 0
    BY <1>6, <2>2 DEF CampParts, Equipped, HasPool
  <2>6. phase >= 2 => \A c \in 1..target : campConfigs'[c] # 0
    BY <1>7, <2>2 DEF CampParts, Equipped, HasConfig
  <2> QED BY <1>1, <1>2, <1>8, <2>1, <2>3, <2>4, <2>5, <2>6 DEF GoingUp, HasPool, HasConfig
<1> QED BY <1>9, <1>10, <1>11, <1>12, <1>13, <1>14 DEF CampParts

LEMMA PassOverKeeps == ASSUME CampParts, Starting!PassOver PROVE CampParts'
<1>1. /\ campsRunning.what = "start" /\ campsRunning \in CallsUp
      /\ campStates[campsRunning.camp] >= campsRunning.phase
      /\ UNCHANGED <<campStates, campPools, campConfigs, modulesInitialized, ownPools, ownConfigs>>
      /\ campsRunning' = [campsRunning EXCEPT !.camp = @ + 1]
  BY KindsOfCalls DEF Starting!PassOver
<1>2. PICK target \in 1..QtyCamps, camp \in 1..QtyCamps, phase \in 1..3 :
          target = campsRunning.target /\ phase = campsRunning.phase /\ camp = campsRunning.camp
  BY <1>1 DEF CallsUp
<1>3. /\ camp <= target /\ campStates[target] = phase - 1 /\ phase <= campsRunning.last
      /\ modulesInitialized
      /\ \A c \in 1..(camp - 1) : campStates[c] >= phase
      /\ \A c \in 1..target : HasPool(c)
      /\ phase >= 2 => \A c \in 1..target : HasConfig(c)
  BY <1>1, <1>2 DEF CampParts, GoingUp
<1>4. camp < target
  BY <1>1, <1>2, <1>3
<1>5. /\ campsRunning' \in CallsUp /\ campsRunning' # Starting!Nothing
      /\ campsRunning'.what = "start" /\ campsRunning'.camp = camp + 1
      /\ campsRunning'.target = target /\ campsRunning'.phase = phase
      /\ campsRunning'.last = campsRunning.last
  BY <1>1, <1>2, <1>4, CampConstants DEF CallsUp, Starting!Nothing, Starting!Running
<1>6. CampTypes'
  BY <1>1, <1>5 DEF CampParts, CampTypes
<1>7. InOrder' /\ StopTogether' /\ Equipped'
  BY <1>1 DEF CampParts, InOrder, StopTogether, Equipped, HasPool, HasConfig
<1>8. GoingDown'
  BY <1>5 DEF GoingDown
<1>9. Starting!ObjectsAreKept'
  <2>1. KeptBy(campPools, ownPools, campStates) /\ KeptBy(campConfigs, ownConfigs, campStates)
    BY KeptInParts DEF CampParts
  <2> QED BY <1>1, <1>5, <2>1, KeptInParts, Zenon
<1>10. GoingUp'
  <2>1. \A c \in 1..(camp + 1 - 1) : campStates[c] >= phase
    BY <1>1, <1>2, <1>3
  <2> QED BY <1>1, <1>3, <1>4, <1>5, <2>1 DEF GoingUp, HasPool, HasConfig
<1> QED BY <1>6, <1>7, <1>8, <1>9, <1>10 DEF CampParts

LEMMA StartCampKeeps == ASSUME CampParts, Starting!StartCamp PROVE CampParts'
<1>1. /\ campsRunning.what = "start" /\ campsRunning \in CallsUp
      /\ campStates[campsRunning.camp] < campsRunning.phase
      /\ UNCHANGED <<campPools, campConfigs, modulesInitialized, ownPools, ownConfigs>>
      /\ campStates' = [campStates EXCEPT ![campsRunning.camp] = campsRunning.phase]
  BY KindsOfCalls DEF Starting!StartCamp
<1>2. PICK target \in 1..QtyCamps, camp \in 1..QtyCamps, phase \in 1..3, last \in 1..3 :
          /\ target = campsRunning.target /\ phase = campsRunning.phase
          /\ camp = campsRunning.camp /\ last = campsRunning.last
  BY <1>1 DEF CallsUp
<1>3. /\ camp <= target /\ campStates[target] = phase - 1 /\ phase <= last
      /\ modulesInitialized
      /\ \A c \in 1..(camp - 1) : campStates[c] >= phase
      /\ \A c \in 1..target : campPools[c] # 0
      /\ phase >= 2 => \A c \in 1..target : campConfigs[c] # 0
  BY <1>1, <1>2 DEF CampParts, GoingUp, HasPool, HasConfig
<1>4. /\ \A c \in 1..QtyCamps : campStates[c] \in 0..3
      /\ \A c \in (camp + 1)..QtyCamps : campStates[c] < phase
  <2>1. \A c \in 1..QtyCamps : campStates[c] \in 0..3
    BY <1>1, NoneIsStopped
  <2>2. \A c \in (camp + 1)..QtyCamps : campStates[c] <= campStates[camp]
    BY CampConstants DEF CampParts, InOrder
  <2>3. campStates[camp] < phase /\ campStates[camp] \in 0..3
    BY <1>1, <1>2, <2>1
  <2>4. ASSUME NEW c \in (camp + 1)..QtyCamps PROVE campStates[c] < phase
    <3>1. c \in 1..QtyCamps /\ campStates[c] <= campStates[camp]
      BY <2>2, CampConstants
    <3> QED BY <2>1, <2>3, <3>1
  <2> QED BY <2>1, <2>4
<1>5. /\ campStates' \in [1..QtyCamps -> -2..3] /\ campStates'[camp] = phase
      /\ \A c \in 1..QtyCamps : c # camp => campStates'[c] = campStates[c]
      /\ \A c \in 1..QtyCamps : campStates'[c] \in 0..3
  BY <1>1, <1>2, <1>4, CampConstants DEF CampParts, CampTypes
<1>6. campsRunning' =
          IF camp # target
          THEN [what |-> "start", phase |-> phase, last |-> last, target |-> target, camp |-> camp + 1]
          ELSE IF phase = last THEN Starting!Nothing
          ELSE [what |-> "prepare", phase |-> phase + 1, last |-> last, target |-> target, camp |-> 1]
  BY <1>1, <1>2 DEF Starting!StartCamp, Starting!Running, CallsUp
<1>7. campsRunning'.what \in {"start", "prepare", "nothing"}
  BY <1>6 DEF Starting!Nothing, Starting!Running
<1>8. CampTypes'
  <2>1. campsRunning' \in {Starting!Nothing} \cup CallsUp
    BY <1>2, <1>3, <1>6, CampConstants DEF CallsUp
  <2> QED BY <1>1, <1>5, <2>1 DEF CampParts, CampTypes
<1>9. InOrder'
  <2> SUFFICES ASSUME NEW c \in 1..QtyCamps, NEW d \in 1..QtyCamps, c <= d
               PROVE  campStates'[d] <= campStates'[c]
    BY DEF InOrder
  <2>1. campStates[d] <= campStates[c]
    BY DEF CampParts, InOrder
  <2>2. CASE c = camp
    BY <1>4, <1>5, <2>2
  <2>3. CASE d = camp /\ c # camp
    BY <1>3, <1>5, <2>3
  <2> QED BY <1>5, <2>1, <2>2, <2>3
<1>10. StopTogether'
  BY <1>5 DEF StopTogether
<1>11. Equipped'
  <2> SUFFICES ASSUME NEW c \in 1..QtyCamps
               PROVE  /\ campStates'[c] \in {-1, 1, 2, 3} => HasPool(c)'
                      /\ campStates'[c] \in {-1, 2, 3} => HasConfig(c)'
    BY DEF Equipped
  <2>1. CASE c = camp
    BY <1>1, <1>3, <1>5, <2>1 DEF HasPool, HasConfig
  <2>2. CASE c # camp
    BY <1>1, <1>5, <2>2 DEF CampParts, Equipped, HasPool, HasConfig
  <2> QED BY <2>1, <2>2
<1>12. GoingDown'
  BY <1>7 DEF GoingDown
<1>13. Starting!ObjectsAreKept'
  <2>1. KeptBy(campPools, ownPools, campStates) /\ KeptBy(campConfigs, ownConfigs, campStates)
    BY KeptInParts DEF CampParts
  <2>2. \A c \in 1..QtyCamps : campStates[c] # -2 /\ campStates'[c] # -2
    BY <1>4, <1>5
  <2>3. ownPools \subseteq 1..QtyCamps /\ ownConfigs \subseteq 1..QtyCamps
    BY DEF CampParts, CampTypes
  <2>4. KeptBy(campPools, ownPools, campStates')
    BY <2>1, <2>2, <2>3, CampConstants DEF KeptBy
  <2>5. KeptBy(campConfigs, ownConfigs, campStates')
    BY <2>1, <2>2, <2>3, CampConstants DEF KeptBy
  <2>6. NoneOfDestructed(campPools)' /\ NoneOfDestructed(campConfigs)'
    BY <2>2 DEF NoneOfDestructed
  <2> QED BY <1>1, <2>4, <2>5, <2>6, KeptInParts, Zenon
<1>14. GoingUp'
  <2>1. CASE camp # target
    <3>1. \A c \in 1..camp : campStates'[c] >= phase
      <4>1. \A c \in 1..camp : c = camp \/ (c \in 1..(camp - 1) /\ c \in 1..QtyCamps /\ c # camp)
        BY CampConstants
      <4> QED BY <1>3, <1>5, <4>1
    <3>2. camp + 1 <= target /\ campStates'[target] = phase - 1 /\ (camp + 1) - 1 = camp
      BY <1>3, <1>5, <2>1
    <3> QED BY <1>1, <1>3, <1>6, <2>1, <3>1, <3>2 DEF GoingUp, HasPool, HasConfig
  <2>2. CASE camp = target /\ phase = last
    BY <1>6, <2>2 DEF GoingUp, Starting!Nothing, Starting!Running
  <2>3. CASE camp = target /\ phase # last
    BY <1>1, <1>3, <1>5, <1>6, <2>3 DEF GoingUp
  <2> QED BY <2>1, <2>2, <2>3
<1> QED BY <1>8, <1>9, <1>10, <1>11, <1>12, <1>13, <1>14 DEF CampParts

LEMMA StopCampKeeps == ASSUME CampParts, Starting!StopCamp PROVE CampParts'
<1>1. /\ campsRunning.what = "stop" /\ campsRunning \in CallsDown
      /\ UNCHANGED <<campPools, campConfigs, modulesInitialized, ownPools, ownConfigs>>
  BY KindsOfCalls DEF Starting!StopCamp
<1>2. PICK target \in 1..QtyCamps, camp \in 1..QtyCamps, phase \in 1..2, last \in 1..2 :
          /\ target = campsRunning.target /\ phase = campsRunning.phase
          /\ camp = campsRunning.camp /\ last = campsRunning.last
  BY <1>1 DEF CallsDown
<1>3. /\ camp >= target /\ phase <= last
      /\ \A c \in 1..QtyCamps : campStates[c] = 3 \/ campStates[c] < 0
      /\ \A c \in (camp + 1)..QtyCamps : campStates[c] <= -phase
      /\ phase = 2 => \A c \in target..QtyCamps : campStates[c] < 0
      /\ \A c \in 1..QtyCamps : c < target \/ last = 1 => campStates[c] # -2
  BY <1>1, <1>2 DEF CampParts, GoingDown
<1>4. /\ campStates \in [1..QtyCamps -> -2..3]
      /\ campStates' = [campStates EXCEPT ![camp] = IF @ > -phase THEN -phase ELSE @]
  BY <1>1, <1>2 DEF Starting!StopCamp, CampParts, CampTypes
<1>5. /\ campStates' \in [1..QtyCamps -> -2..3]
      /\ campStates'[camp] = IF campStates[camp] > -phase THEN -phase ELSE campStates[camp]
      /\ \A c \in 1..QtyCamps : c # camp => campStates'[c] = campStates[c]
  BY <1>4, CampConstants
<1>6. campsRunning' =
          IF camp # target
          THEN [what |-> "stop", phase |-> phase, last |-> last, target |-> target, camp |-> camp - 1]
          ELSE IF phase < last
          THEN [what |-> "stop", phase |-> phase + 1, last |-> last, target |-> target,
                camp |-> QtyCamps]
          ELSE IF last = 2
          THEN [what |-> "drop", phase |-> phase, last |-> last, target |-> target, camp |-> camp]
          ELSE Starting!Nothing
  <2>1. campsRunning = [what |-> "stop", phase |-> phase, last |-> last, target |-> target, camp |-> camp]
    BY <1>1, <1>2 DEF CallsDown
  <2>2. campsRunning' = IF camp # target THEN [campsRunning EXCEPT !.camp = @ - 1]
                        ELSE IF phase < last THEN Starting!Running("stop", phase + 1, last, target, QtyCamps)
                        ELSE IF last = 2 THEN [campsRunning EXCEPT !.what = "drop"]
                        ELSE Starting!Nothing
    BY <1>2 DEF Starting!StopCamp, Starting!Destruct
  <2>3. [campsRunning EXCEPT !.camp = @ - 1]
            = [what |-> "stop", phase |-> phase, last |-> last, target |-> target, camp |-> camp - 1]
    BY <2>1
  <2>5. [campsRunning EXCEPT !.what = "drop"]
            = [what |-> "drop", phase |-> phase, last |-> last, target |-> target, camp |-> camp]
    BY <2>1
  <2>6. CASE camp # target
    BY <2>2, <2>3, <2>6
  <2>7. CASE camp = target /\ phase < last
    BY <2>2, <2>7 DEF Starting!Running
  <2>8. CASE camp = target /\ ~(phase < last)
    BY <2>2, <2>5, <2>8
  <2> QED BY <2>6, <2>7, <2>8
<1>7. /\ campsRunning'.what \in {"stop", "drop", "nothing"}
      /\ campsRunning' = Starting!Nothing => last = 1 /\ camp = target
  BY <1>2, <1>3, <1>6 DEF Starting!Nothing, Starting!Running
<1>8. campStates'[camp] \in -2..-1 /\ campStates'[camp] <= -phase /\ campStates'[camp] <= campStates[camp]
  BY <1>3, <1>4, <1>5
<1>9. CampTypes'
  <2>1. campsRunning' \in {Starting!Nothing} \cup CallsDown
    BY <1>2, <1>3, <1>6, CampConstants DEF CallsDown
  <2> QED BY <1>1, <1>5, <2>1 DEF CampParts, CampTypes
<1>10. InOrder'
  <2> SUFFICES ASSUME NEW c \in 1..QtyCamps, NEW d \in 1..QtyCamps, c <= d
               PROVE  campStates'[d] <= campStates'[c]
    BY DEF InOrder
  <2>1. campStates[d] <= campStates[c]
    BY DEF CampParts, InOrder
  <2>2. CASE c = camp /\ d # camp
    <3>1. d \in (camp + 1)..QtyCamps
      BY <2>2, CampConstants
    <3> QED BY <1>3, <1>4, <1>5, <2>1, <2>2, <3>1
  <2>3. CASE d = camp /\ c # camp
    BY <1>4, <1>5, <1>8, <2>1, <2>3
  <2> QED BY <1>5, <2>1, <2>2, <2>3
<1>11. \A c \in 1..QtyCamps : campStates'[c] = 3 \/ campStates'[c] < 0
  BY <1>3, <1>5, <1>8
<1>12. StopTogether'
  BY <1>11 DEF StopTogether
<1>13. Equipped'
  <2> SUFFICES ASSUME NEW c \in 1..QtyCamps
               PROVE  /\ campStates'[c] \in {-1, 1, 2, 3} => HasPool(c)'
                      /\ campStates'[c] \in {-1, 2, 3} => HasConfig(c)'
    BY DEF Equipped
  <2>1. CASE c = camp
    <3>1. campStates'[c] \in {-1, 1, 2, 3} => campStates[c] \in {-1, 3}
      BY <1>3, <1>4, <1>5, <1>8, <2>1
    <3> QED BY <1>1, <1>8, <2>1, <3>1 DEF CampParts, Equipped, HasPool, HasConfig
  <2>2. CASE c # camp
    BY <1>1, <1>5, <2>2 DEF CampParts, Equipped, HasPool, HasConfig
  <2> QED BY <2>1, <2>2
<1>14. GoingUp'
  BY <1>7 DEF GoingUp
<1>15. Starting!ObjectsAreKept'
  <2>1. /\ KeptBy(campPools, ownPools, campStates) /\ KeptBy(campConfigs, ownConfigs, campStates)
        /\ ownPools \subseteq 1..QtyCamps /\ ownConfigs \subseteq 1..QtyCamps
    BY KeptInParts DEF CampParts, CampTypes
  <2>2. \A c \in 1..QtyCamps : campStates[c] = -2 => campStates'[c] = -2
    BY <1>4, <1>5, <1>8
  <2>3. KeptBy(campPools, ownPools, campStates')
    BY <2>1, <2>2, CampConstants DEF KeptBy
  <2>4. KeptBy(campConfigs, ownConfigs, campStates')
    BY <2>1, <2>2, CampConstants DEF KeptBy
  <2>5. ASSUME campsRunning' = Starting!Nothing
        PROVE  NoneOfDestructed(campPools)' /\ NoneOfDestructed(campConfigs)'
    <3>1. last = 1 /\ phase = 1
      BY <1>3, <1>7, <2>5
    <3>2. \A c \in 1..QtyCamps : campStates'[c] # -2
      BY <1>3, <1>4, <1>5, <3>1
    <3> QED BY <3>2 DEF NoneOfDestructed
  <2> QED BY <1>1, <2>3, <2>4, <2>5, KeptInParts, Zenon
<1>16. GoingDown'
  <2>1. /\ \A c \in 1..QtyCamps : c < target \/ last = 1 => campStates'[c] # -2
        /\ \A c \in camp..QtyCamps : campStates'[c] <= -phase
    <3>1. \A c \in camp..QtyCamps : c = camp \/ (c \in (camp + 1)..QtyCamps /\ c \in 1..QtyCamps /\ c # camp)
      BY CampConstants
    <3>2. \A c \in camp..QtyCamps : campStates'[c] <= -phase
      BY <1>3, <1>5, <1>8, <3>1
    <3> QED BY <1>3, <1>4, <1>5, <3>2, CampConstants
  <2>2. CASE camp # target
    <3>1. camp - 1 >= target /\ (camp - 1) + 1 = camp
      BY <1>3, <2>2
    <3>2. phase = 2 => \A c \in target..QtyCamps : campStates'[c] < 0
      BY <1>3, <1>5, <1>8, CampConstants
    <3> QED BY <1>3, <1>6, <1>11, <2>1, <2>2, <3>1, <3>2 DEF GoingDown
  <2>3. CASE camp = target /\ phase < last
    <3>1. phase = 1 /\ last = 2 /\ QtyCamps >= target
      BY <2>3, CampConstants
    <3>2. \A c \in target..QtyCamps : campStates'[c] < 0
      <4>1. \A c \in target..QtyCamps : campStates'[c] <= -1 /\ c \in 1..QtyCamps
        BY <2>1, <2>3, <3>1, CampConstants
      <4> QED BY <1>5, <4>1
    <3>3. (QtyCamps + 1)..QtyCamps = {}
      BY CampConstants
    <3> QED BY <1>6, <1>11, <2>1, <2>3, <3>1, <3>2, <3>3 DEF GoingDown
  <2>4. CASE camp = target /\ ~(phase < last) /\ last = 2
    <3>1. \A c \in target..QtyCamps : campStates'[c] = -2
      <4>1. \A c \in target..QtyCamps : campStates'[c] <= -2 /\ c \in 1..QtyCamps
        BY <1>3, <2>1, <2>4, CampConstants
      <4> QED BY <1>5, <4>1
    <3> QED BY <1>3, <1>6, <1>11, <2>1, <2>4, <3>1 DEF GoingDown
  <2>5. CASE camp = target /\ ~(phase < last) /\ last # 2
    BY <1>6, <2>5 DEF GoingDown, Starting!Nothing, Starting!Running
  <2> QED BY <2>2, <2>3, <2>4, <2>5
<1> QED BY <1>9, <1>10, <1>12, <1>13, <1>14, <1>15, <1>16 DEF CampParts

LEMMA DropKeeps == ASSUME CampParts, Starting!Drop PROVE CampParts'
<1>1. /\ campsRunning.what = "drop" /\ campsRunning \in CallsDown
      /\ campsRunning' = Starting!Nothing /\ campsRunning'.what = "nothing"
      /\ UNCHANGED <<campStates, ownPools, ownConfigs>>
  BY KindsOfCalls DEF Starting!Drop, Starting!Nothing, Starting!Running
<1>2. PICK target \in 1..QtyCamps : target = campsRunning.target
  BY <1>1 DEF CallsDown
<1>3. /\ campPools' = [c \in 1..QtyCamps |-> IF c >= target THEN 0 ELSE campPools[c]]
      /\ campConfigs' = [c \in 1..QtyCamps |-> IF c >= target THEN 0 ELSE campConfigs[c]]
      /\ modulesInitialized' = (modulesInitialized /\ target # 1)
  BY <1>2, CampConstants DEF Starting!Drop, Starting!Dropped, Starting!null
<1>4. /\ \A c \in 1..QtyCamps : c < target => campStates[c] # -2
      /\ \A c \in 1..QtyCamps : c >= target => campStates[c] = -2
  BY <1>1, <1>2, CampConstants DEF CampParts, GoingDown
<1>5. CampTypes'
  <2>1. campPools' \in [1..QtyCamps -> 0..QtyCamps] /\ campConfigs' \in [1..QtyCamps -> 0..QtyCamps]
    BY <1>3, CampConstants DEF CampParts, CampTypes
  <2> QED BY <1>1, <1>3, <2>1 DEF CampParts, CampTypes
<1>6. InOrder' /\ StopTogether'
  BY <1>1 DEF CampParts, InOrder, StopTogether
<1>7. Equipped'
  <2> SUFFICES ASSUME NEW c \in 1..QtyCamps, campStates[c] # -2
               PROVE  /\ campStates[c] \in {-1, 1, 2, 3} => HasPool(c)'
                      /\ campStates[c] \in {-1, 2, 3} => HasConfig(c)'
    BY <1>1 DEF Equipped
  <2>1. c < target /\ target # 1
    BY <1>4
  <2>2. campPools'[c] = campPools[c] /\ campConfigs'[c] = campConfigs[c]
    BY <1>3, <2>1
  <2>3. modulesInitialized => modulesInitialized'
    BY <1>3, <2>1, Zenon
  <2> QED BY <2>2, <2>3, Zenon DEF CampParts, Equipped, HasPool, HasConfig
<1>8. GoingUp' /\ GoingDown'
  BY <1>1 DEF GoingUp, GoingDown
<1>9. ASSUME NEW o \in CampObjects, NEW own \in SUBSET (1..QtyCamps), KeptBy(o, own, campStates),
             NEW new, new = [c \in 1..QtyCamps |-> IF c >= target THEN 0 ELSE o[c]]
      PROVE  KeptBy(new, own, campStates) /\ \A c \in 1..QtyCamps : campStates[c] = -2 => new[c] = 0
  <2>1. \A c \in own : new[c] = c \/ campStates[c] = -2
    BY <1>4, <1>9 DEF KeptBy
  <2>2. ASSUME NEW c \in 1..QtyCamps, new[c] \notin {0, c}
        PROVE  c < QtyCamps /\ (new[c + 1] = new[c] \/ (new[c + 1] = 0 /\ campStates[c + 1] = -2))
    <3>1. c < target /\ new[c] = o[c] /\ c < QtyCamps
      BY <1>9, <2>2 DEF KeptBy
    <3>2. c + 1 \in 1..QtyCamps
      BY <3>1, CampConstants
    <3>3. CASE c + 1 >= target
      BY <1>4, <1>9, <3>1, <3>2, <3>3
    <3>4. CASE ~(c + 1 >= target)
      BY <1>9, <2>2, <3>1, <3>2, <3>4 DEF KeptBy
    <3> QED BY <3>3, <3>4
  <2> QED BY <1>4, <1>9, <2>1, <2>2 DEF KeptBy
<1>10. Starting!ObjectsAreKept'
  <2>1. /\ campPools \in CampObjects /\ campConfigs \in CampObjects
        /\ ownPools \in SUBSET (1..QtyCamps) /\ ownConfigs \in SUBSET (1..QtyCamps)
        /\ KeptBy(campPools, ownPools, campStates) /\ KeptBy(campConfigs, ownConfigs, campStates)
    BY KeptInParts DEF CampParts, CampTypes, CampObjects
  <2>2. /\ KeptBy(campPools', ownPools, campStates)
        /\ \A c \in 1..QtyCamps : campStates[c] = -2 => campPools'[c] = 0
    BY <1>3, <1>9, <2>1
  <2>3. /\ KeptBy(campConfigs', ownConfigs, campStates)
        /\ \A c \in 1..QtyCamps : campStates[c] = -2 => campConfigs'[c] = 0
    BY <1>3, <1>9, <2>1
  <2>4. NoneOfDestructed(campPools)' /\ NoneOfDestructed(campConfigs)'
    BY <1>1, <2>2, <2>3 DEF NoneOfDestructed
  <2> QED BY <1>1, <2>2, <2>3, <2>4, KeptInParts, Zenon
<1> QED BY <1>5, <1>6, <1>7, <1>8, <1>10 DEF CampParts

GivenItsOwn(o, camp) == [o EXCEPT ![camp] = camp]

\* An object that the program sets before the phase for its camp.
LEMMA SettingKeeps ==
    ASSUME NEW o \in CampObjects, NEW own \in SUBSET (1..QtyCamps), NEW camp \in 1..QtyCamps,
           KeptBy(o, own, campStates), campStates[camp] \in 0..1, o[camp] = 0
    PROVE  /\ GivenItsOwn(o, camp) \in CampObjects
           /\ \A c \in 1..QtyCamps : o[c] # 0 => GivenItsOwn(o, camp)[c] # 0
           /\ \A c \in 1..QtyCamps : c # camp => GivenItsOwn(o, camp)[c] = o[c]
           /\ KeptBy(GivenItsOwn(o, camp), own \cup {camp}, campStates)
<1> DEFINE new == GivenItsOwn(o, camp)
<1>1. /\ new \in CampObjects /\ new[camp] = camp
      /\ \A c \in 1..QtyCamps : c # camp => new[c] = o[c]
  BY CampConstants DEF CampObjects, GivenItsOwn
<1> HIDE DEF new
<1>2. \A c \in own \cup {camp} : new[c] = c \/ campStates[c] = -2
  BY <1>1 DEF KeptBy
<1>3. ASSUME NEW c \in 1..QtyCamps, new[c] \notin {0, c}
      PROVE  c < QtyCamps /\ (new[c + 1] = new[c] \/ (new[c + 1] = 0 /\ campStates[c + 1] = -2))
  <2>1. /\ c # camp /\ new[c] = o[c] /\ c < QtyCamps
        /\ o[c + 1] = o[c] \/ (o[c + 1] = 0 /\ campStates[c + 1] = -2)
    BY <1>1, <1>3 DEF KeptBy
  <2>2. c + 1 \in 1..QtyCamps
    BY <2>1, CampConstants
  <2>3. c + 1 # camp
    BY <1>1, <1>3, <2>1
  <2> QED BY <1>1, <2>1, <2>2, <2>3
<1>4. KeptBy(new, own \cup {camp}, campStates)
  BY <1>2, <1>3 DEF KeptBy
<1>5. \A c \in 1..QtyCamps : o[c] # 0 => new[c] # 0
  BY <1>1
<1> QED BY <1>1, <1>4, <1>5, Zenon DEF new

LEMMA SettersKeep ==
    ASSUME CampParts, NEW camp \in 1..QtyCamps,
           Starting!SetResourcePool(camp) \/ Starting!SetConfig(camp)
    PROVE  CampParts'
<1>1. /\ campsRunning = Starting!Nothing /\ campStates[camp] \in 0..1
      /\ UNCHANGED <<campStates, modulesInitialized, campsRunning>>
  BY DEF Starting!SetResourcePool, Starting!SetConfig, Starting!PrepareResources
<1>2. /\ campPools \in CampObjects /\ campConfigs \in CampObjects
      /\ ownPools \in SUBSET (1..QtyCamps) /\ ownConfigs \in SUBSET (1..QtyCamps)
      /\ KeptBy(campPools, ownPools, campStates) /\ KeptBy(campConfigs, ownConfigs, campStates)
      /\ NoneOfDestructed(campPools) /\ NoneOfDestructed(campConfigs)
  BY <1>1, KeptInParts DEF CampParts, CampTypes, CampObjects
<1>3. /\ campPools' \in CampObjects /\ campConfigs' \in CampObjects
      /\ \A c \in 1..QtyCamps : campPools[c] # 0 => campPools'[c] # 0
      /\ \A c \in 1..QtyCamps : campConfigs[c] # 0 => campConfigs'[c] # 0
      /\ \A c \in 1..QtyCamps : c # camp => campPools'[c] = campPools[c] /\ campConfigs'[c] = campConfigs[c]
      /\ ownPools' \in SUBSET (1..QtyCamps) /\ ownConfigs' \in SUBSET (1..QtyCamps)
      /\ KeptBy(campPools', ownPools', campStates) /\ KeptBy(campConfigs', ownConfigs', campStates)
  <2>1. CASE Starting!SetResourcePool(camp)
    <3>1. /\ campPools[camp] = 0 /\ campPools' = GivenItsOwn(campPools, camp)
          /\ ownPools' = ownPools \cup {camp} /\ UNCHANGED <<campConfigs, ownConfigs>>
      BY <2>1 DEF Starting!SetResourcePool, Starting!null, GivenItsOwn
    <3>2. /\ campPools' \in CampObjects
          /\ \A c \in 1..QtyCamps : campPools[c] # 0 => campPools'[c] # 0
          /\ \A c \in 1..QtyCamps : c # camp => campPools'[c] = campPools[c]
          /\ KeptBy(campPools', ownPools \cup {camp}, campStates)
      BY <1>1, <1>2, <3>1, SettingKeeps
    <3> QED BY <1>2, <3>1, <3>2
  <2>2. CASE Starting!SetConfig(camp)
    <3>1. /\ campConfigs[camp] = 0 /\ campConfigs' = GivenItsOwn(campConfigs, camp)
          /\ ownConfigs' = ownConfigs \cup {camp} /\ UNCHANGED <<campPools, ownPools>>
      BY <2>2 DEF Starting!SetConfig, Starting!null, GivenItsOwn
    <3>2. /\ campConfigs' \in CampObjects
          /\ \A c \in 1..QtyCamps : campConfigs[c] # 0 => campConfigs'[c] # 0
          /\ \A c \in 1..QtyCamps : c # camp => campConfigs'[c] = campConfigs[c]
          /\ KeptBy(campConfigs', ownConfigs \cup {camp}, campStates)
      BY <1>1, <1>2, <3>1, SettingKeeps
    <3> QED BY <1>2, <3>1, <3>2
  <2> QED BY <2>1, <2>2
<1>4. CampTypes'
  BY <1>1, <1>3 DEF CampParts, CampTypes, CampObjects
<1>5. InOrder' /\ StopTogether' /\ Equipped'
  BY <1>1, <1>3 DEF CampParts, InOrder, StopTogether, Equipped, HasPool, HasConfig
<1>6. GoingUp' /\ GoingDown'
  BY <1>1, KindsOfCalls DEF GoingUp, GoingDown
<1>7. Starting!ObjectsAreKept'
  <2>1. NoneOfDestructed(campPools)' /\ NoneOfDestructed(campConfigs)'
    BY <1>1, <1>2, <1>3 DEF NoneOfDestructed
  <2> QED BY <1>1, <1>3, <2>1, KeptInParts, Zenon
<1> QED BY <1>4, <1>5, <1>6, <1>7 DEF CampParts

LEMMA CampPartsUnchanged == ASSUME CampParts, UNCHANGED campVars PROVE CampParts'
<1>1. UNCHANGED <<campStates, campPools, campConfigs, modulesInitialized, ownPools, ownConfigs, campsRunning>>
  BY DEF campVars
<1>2. CampTypes' /\ InOrder' /\ StopTogether' /\ Equipped'
  BY <1>1 DEF CampParts, CampTypes, InOrder, StopTogether, Equipped, HasPool, HasConfig
<1>3. GoingUp' /\ GoingDown'
  BY <1>1 DEF CampParts, GoingUp, GoingDown, HasPool, HasConfig
<1>4. Starting!ObjectsAreKept'
  BY <1>1 DEF CampParts, Starting!ObjectsAreKept, Starting!ObjectsAreHandedDown, Starting!Nothing
<1> QED BY <1>2, <1>3, <1>4 DEF CampParts

LEMMA StepKeepsCamps == ASSUME CampInv, [DataNext]_dataVars PROVE CampInv'
<1>1. component' = component /\ (component = "Camps" => [Starting!Next]_campVars)
  BY DEF DataNext, dataVars, OnlyData, Rest
<1> SUFFICES ASSUME component = "Camps" PROVE CampParts'
  BY <1>1 DEF CampInv
<1>2. CampParts /\ [Starting!Next]_campVars
  BY <1>1 DEF CampInv
<1>3. CASE UNCHANGED campVars
  BY <1>2, <1>3, CampPartsUnchanged
<1>4. CASE Starting!Next
  <2>1. ASSUME NEW camp \in 1..QtyCamps, NEW phase \in 1..3, Starting!Bootstrap(phase, camp)
        PROVE  CampParts'
    BY <1>2, <2>1, BootstrapKeeps
  <2>2. ASSUME NEW camp \in 1..QtyCamps, NEW phase \in 1..2, Starting!Shutdown(phase, camp)
        PROVE  CampParts'
    BY <1>2, <2>2, ShutdownKeeps
  <2>3. ASSUME NEW camp \in 1..QtyCamps, Starting!SetResourcePool(camp) \/ Starting!SetConfig(camp)
        PROVE  CampParts'
    BY <1>2, <2>3, SettersKeep
  <2>4. CASE Starting!Distribute \/ Starting!PassOver \/ Starting!StartCamp
    BY <1>2, <2>4, DistributeKeeps, PassOverKeeps, StartCampKeeps
  <2>5. CASE Starting!StopCamp \/ Starting!Drop
    BY <1>2, <2>5, StopCampKeeps, DropKeeps
  <2>6. {Starting!PrepareResources, Starting!PrepareConfig, Starting!Final} = 1..3
    BY DEF Starting!PrepareResources, Starting!PrepareConfig, Starting!Final
  <2>7. {Starting!Announce, Starting!Destruct} = 1..2
    BY DEF Starting!Announce, Starting!Destruct
  <2> QED BY <1>4, <2>1, <2>2, <2>3, <2>4, <2>5, <2>6, <2>7, CampConstants, Zenon DEF Starting!Next
<1> QED BY <1>2, <1>3, <1>4

\* Bootstrap and Shutdown of the camps: whatever the order of calls with their targets, a camp
\* is started when all lower ones are, with its objects and the modules at hand, and stopped
\* when all higher ones are; no object that the program has set is replaced.
THEOREM CampsAlwaysLeanOnLowerOnes == DataSpec => []CampsLeanOnLowerOnes
<1>1. DataInit => CampInv
  BY InitCamps DEF CampInv
<1>2. CampInv => CampsLeanOnLowerOnes
  BY CampsAreCalledInOrder DEF CampInv, CampParts, CampsLeanOnLowerOnes
<1> QED BY <1>1, <1>2, StepKeepsCamps, PTL DEF DataSpec
=============================================================================
