--------------------------- MODULE LRUCacheTable ---------------------------
(* LRUCacheTable: a fixed number of forward-linked lists, one per hash value, whose entries come  *)
(* from one array shared by all lists. Entries are the numbers 1..Capacity, 0 is nullptr, and the *)
(* hook of list i, which the code casts to an entry, is the number -1 - i.                        *)
EXTENDS Integers, Sequences, FiniteSets

CONSTANTS Keys, THash,
          Shapes        \* the pairs given to Reserve(): lists, entries per list

LRUCacheTableAssumption ==
    /\ THash \in [Keys -> Nat]
    /\ Shapes \subseteq (Nat \ {0}) \X (Nat \ {0})

VARIABLES
    capacityLists, capacityEntries,
    next,               \* the link of every entry and of every hook
    data,               \* the key an entry holds
    nextPoolElement,
    asked, newer        \* the keys asked for since the last Clear(), and which of two is the later

lruVars == <<capacityLists, capacityEntries, next, data, nextPoolElement, asked, newer>>

Capacity == capacityLists * capacityEntries

Empty(lists, entries) ==
    /\ capacityLists' = lists
    /\ capacityEntries' = entries
    /\ next' = [n \in -lists..lists * entries |-> 0]
    /\ data' = [n \in 1..lists * entries |-> 0]
    /\ nextPoolElement' = 1
    /\ asked' = {}
    /\ newer' = {}

Init ==
    \E s \in Shapes :
        /\ capacityLists = s[1]
        /\ capacityEntries = s[2]
        /\ next = [n \in -s[1]..s[1] * s[2] |-> 0]
        /\ data = [n \in 1..s[1] * s[2] |-> 0]
        /\ nextPoolElement = 1
        /\ asked = {}
        /\ newer = {}

Hook(list) == -1 - list

ListOf(k) == THash[k] % capacityLists

\* What the links lead to from the hook; nullptr leads to itself.
Walk(list) ==
    LET at[i \in 0..Capacity] == IF i = 0 THEN next[Hook(list)] ELSE next[at[i - 1]] IN at

\* The entries of a list.
Entries(list) ==
    LET at == Walk(list)
    IN  [i \in {j \in 1..Capacity : \A h \in 1..j : at[h - 1] # 0} |-> at[i - 1]]

Link(links, n, m) == [links EXCEPT ![n] = m]

\* mutant: a hit changes nothing
MovedToFront_not(list, prev1, actual) == next

\* The entry is taken out behind prev1 and put to the front of the list.
MovedToFront(list, prev1, actual) ==
    LET a == Link(next, prev1, next[actual])
        b == Link(a, actual, a[Hook(list)])
    IN  Link(b, Hook(list), actual)

\* The last entry, prev1, is cut off behind prev2, and put to the front for the new key.
Evicted(list, prev2, prev1) ==
    LET a == Link(next, prev2, 0)
        b == Link(a, prev1, a[Hook(list)])
    IN  Link(b, Hook(list), prev1)

\* Try( key ): the entry of the key, or one for the caller to fill: the least recently used of a full
\* list, or the next of the pool.
Try(k) ==
    LET list == ListOf(k)
        path == Entries(list)
        Holds(i) == data[path[i]] = k
        Before(i) == IF i = 1 THEN Hook(list) ELSE path[i - 1]
        n == Len(path)
    IN  /\ \/ \E i \in DOMAIN path :
                /\ Holds(i) /\ \A j \in 1..(i - 1) : ~Holds(j)
                /\ next' = MovedToFront(list, Before(i), path[i])
                /\ UNCHANGED <<data, nextPoolElement>>
           \/ /\ \A i \in DOMAIN path : ~Holds(i)
              /\ n = capacityEntries
              /\ next' = Evicted(list, Before(n), path[n])
              /\ data' = [data EXCEPT ![path[n]] = k]
              /\ UNCHANGED nextPoolElement
           \/ /\ \A i \in DOMAIN path : ~Holds(i)
              /\ n # capacityEntries
              /\ next' = Link(Link(next, nextPoolElement, next[Hook(list)]),
                              Hook(list), nextPoolElement)
              /\ data' = [data EXCEPT ![nextPoolElement] = k]
              /\ nextPoolElement' = nextPoolElement + 1
        /\ asked' = asked \cup {k}
        /\ newer' = {p \in newer : k \notin {p[1], p[2]}} \cup ({k} \X (asked \ {k}))
        /\ UNCHANGED <<capacityLists, capacityEntries>>

\* Reserve() drops all entries if the shape changes; Clear() always. What is left in an entry that is
\* back in the pool is never read, so that it is forgotten here.
Reserve(lists, entries) ==
    /\ capacityLists # lists \/ capacityEntries # entries
    /\ Empty(lists, entries)

Clear == Empty(capacityLists, capacityEntries)

Next ==
    \/ \E k \in Keys : Try(k)
    \/ \E s \in Shapes : Reserve(s[1], s[2])
    \/ Clear

Spec == Init /\ [][Next]_lruVars

-----------------------------------------------------------------------------
TypeOK ==
    /\ <<capacityLists, capacityEntries>> \in Shapes
    /\ DOMAIN next = -capacityLists..Capacity
    /\ nextPoolElement \in 1..Capacity + 1
    /\ asked \subseteq Keys

\* Each list holds the keys of its hash value that were asked for last, the latest first, at most
\* capacityEntries of them: the re-linking of Try() neither loses nor doubles one.
KeepsTheMostRecent ==
    \A list \in 0..capacityLists - 1 :
        LET path == Entries(list)
            mine == {k \in asked : ListOf(k) = list}
        IN  /\ Len(path) <= capacityEntries
            /\ \A i \in DOMAIN path : data[path[i]] \in mine
            /\ \A i, j \in DOMAIN path : i < j <=> <<data[path[i]], data[path[j]]>> \in newer
            /\ \A k \in mine :
                  \/ \E i \in DOMAIN path : data[path[i]] = k
                  \/ /\ Len(path) = capacityEntries
                     /\ \A i \in DOMAIN path : <<data[path[i]], k>> \in newer

\* Every entry taken from the pool is in one list, and the pool is never overrun.
PoolEntriesAreListed ==
    /\ nextPoolElement <= Capacity + 1
    /\ \A n \in 1..Capacity : n < nextPoolElement <=>
          \E list \in 0..capacityLists - 1 : \E i \in DOMAIN Entries(list) : Entries(list)[i] = n
    /\ \A l, m \in 0..capacityLists - 1 : \A i \in DOMAIN Entries(l), j \in DOMAIN Entries(m) :
          Entries(l)[i] = Entries(m)[j] => l = m /\ i = j
=============================================================================
