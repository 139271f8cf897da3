------------------------------ MODULE CacheProofs ------------------------------
(* Proofs about the cache of MCData and the frames that point into it: for     *)
(* any keys, hash values and shapes, and any order of calls.                   *)
EXTENDS DataProofs

(* LRUCacheTable and ScopeInfo                                                *)

CacheTypes ==
    /\ capacityLists \in Nat /\ capacityLists >= 1
    /\ capacityEntries \in Nat /\ capacityEntries >= 1
    /\ LRU!Capacity \in Nat /\ capacityEntries <= LRU!Capacity
    /\ next \in [-capacityLists..LRU!Capacity -> 0..LRU!Capacity] /\ next[0] = 0
    /\ data \in [1..LRU!Capacity -> {0} \cup CacheKeys]
    /\ nextPoolElement \in 1..LRU!Capacity + 1
    /\ asked \subseteq CacheKeys

CachedLists == 0..capacityLists - 1

\* The element at a place of a list, or nullptr behind its end.
At(s, i) == IF i \in 1..Len(s) THEN s[i] ELSE 0

\* The links of a list lead along a sequence.
Linked(links, list, s) ==
    /\ links[-1 - list] = At(s, 1)
    /\ \A i \in 1..Len(s) : links[s[i]] = At(s, i + 1)

\* The entries taken from the pool have one place each.
HaveOnePlace(order) ==
    /\ \A l \in CachedLists : Len(order[l]) <= capacityEntries
    /\ \A l, m \in CachedLists : \A i \in 1..Len(order[l]), j \in 1..Len(order[m]) :
          order[l][i] = order[m][j] => l = m /\ i = j
    /\ \A n \in 1..nextPoolElement - 1 :
          \E l \in CachedLists : \E i \in 1..Len(order[l]) : order[l][i] = n

KeysOf(s) == [i \in 1..Len(s) |-> data[s[i]]]

\* The keys of a list, the latest first, are all that were asked for or the latest of them.
Ranked(list, ks) ==
    /\ \A i \in 1..Len(ks) : ks[i] \in asked /\ LRU!ListOf(ks[i]) = list
    /\ \A i, j \in 1..Len(ks) : i < j <=> <<ks[i], ks[j]>> \in newer
    /\ \A k \in asked : LRU!ListOf(k) = list =>
          \/ \E i \in 1..Len(ks) : ks[i] = k
          \/ Len(ks) = capacityEntries /\ \A i \in 1..Len(ks) : <<ks[i], k>> \in newer

Ordered(order) ==
    /\ order \in [CachedLists -> Seq(1..nextPoolElement - 1)]
    /\ \A l \in CachedLists : Linked(next, l, order[l])
    /\ HaveOnePlace(order)
    /\ \A l \in CachedLists : Ranked(l, KeysOf(order[l]))

CacheIsKept == CacheTypes /\ \E order : Ordered(order)

LEMMA ProductIsNotLess ==
    ASSUME NEW m \in Nat, NEW n \in Nat, m >= 1
    PROVE  m * n \in Nat /\ n <= m * n
<1>1. m - 1 \in Nat /\ m * n = (m - 1) * n + n
  OBVIOUS
<1>2. (m - 1) * n \in Nat
  BY <1>1
<1> QED BY <1>1, <1>2

LEMMA CacheConstants ==
    /\ CacheHash \in [CacheKeys -> Nat]
    /\ \A s \in CacheShapes :
          /\ s[1] \in Nat /\ s[1] >= 1 /\ s[2] \in Nat /\ s[2] >= 1
          /\ s = <<s[1], s[2]>> /\ s[1] * s[2] \in Nat /\ s[2] <= s[1] * s[2]
    /\ FrameKeys \subseteq CacheKeys /\ FrameShapes \subseteq CacheShapes
<1>1. LRU!LRUCacheTableAssumption /\ FrameKeys \subseteq CacheKeys /\ FrameShapes \subseteq CacheShapes
  BY CacheAssumption, FramesAssumption
<1>2. CacheHash \in [CacheKeys -> Nat] /\ CacheShapes \subseteq (Nat \ {0}) \X (Nat \ {0})
  BY <1>1 DEF LRU!LRUCacheTableAssumption
<1>3. ASSUME NEW s \in CacheShapes
      PROVE  /\ s[1] \in Nat /\ s[1] >= 1 /\ s[2] \in Nat /\ s[2] >= 1
             /\ s = <<s[1], s[2]>> /\ s[1] * s[2] \in Nat /\ s[2] <= s[1] * s[2]
  <2>1. s \in (Nat \ {0}) \X (Nat \ {0})
    BY <1>2
  <2>2. s[1] \in Nat /\ s[1] >= 1 /\ s[2] \in Nat /\ s[2] >= 1 /\ s = <<s[1], s[2]>>
    BY <2>1
  <2> QED BY <2>2, ProductIsNotLess
<1> QED BY <1>1, <1>2, <1>3

LEMMA Remainders == ASSUME NEW m \in Nat, NEW n \in Nat, n >= 1 PROVE m % n \in 0..n - 1
OBVIOUS

LEMMA ListIsOne == ASSUME CacheTypes, NEW k \in CacheKeys PROVE LRU!ListOf(k) \in CachedLists
<1>1. CacheHash[k] \in Nat
  BY CacheConstants
<1>2. capacityLists \in Nat /\ capacityLists >= 1
  BY DEF CacheTypes
<1> QED BY <1>1, <1>2, Remainders DEF CachedLists, LRU!ListOf

\* What Entries() finds along the links is the sequence that these lead along.
LEMMA EntriesAreLinked ==
    ASSUME CacheTypes, NEW l \in CachedLists, NEW s \in Seq(1..LRU!Capacity),
           Linked(next, l, s), Len(s) <= LRU!Capacity
    PROVE  LRU!Entries(l) = s
<1> DEFINE cap == LRU!Capacity
           f == [i \in 0..cap |-> At(s, i + 1)]
           at == LRU!Walk(l)
<1>1. cap \in Nat /\ Len(s) \in Nat /\ next[0] = 0
  BY DEF CacheTypes
<1>2. \A i \in 1..Len(s) : s[i] \in 1..cap
  BY ElementOfSeq
<1>3. \A i \in 0..cap : f[i] = IF i = 0 THEN next[LRU!Hook(l)] ELSE next[f[i - 1]]
  <2> TAKE i \in 0..cap
  <2>1. CASE i = 0
    BY <1>1, <2>1 DEF Linked, LRU!Hook
  <2>2. CASE i # 0 /\ i <= Len(s)
    <3>1. f[i - 1] = s[i] /\ next[s[i]] = At(s, i + 1)
      BY <1>1, <2>2 DEF At, Linked
    <3> QED BY <2>2, <3>1
  <2>3. CASE i # 0 /\ i > Len(s)
    <3>1. f[i - 1] = 0 /\ f[i] = 0
      BY <1>1, <2>3 DEF At
    <3> QED BY <1>1, <2>3, <3>1
  <2> QED BY <1>1, <2>1, <2>2, <2>3
<1>4. f = [i \in 0..cap |-> IF i = 0 THEN next[LRU!Hook(l)] ELSE next[f[i - 1]]]
  BY <1>3
<1>5. at = CHOOSE g : g = [i \in 0..cap |-> IF i = 0 THEN next[LRU!Hook(l)] ELSE next[g[i - 1]]]
  BY DEF LRU!Walk
<1> HIDE DEF f, at
<1>6. at = [i \in 0..cap |-> IF i = 0 THEN next[LRU!Hook(l)] ELSE next[at[i - 1]]]
  BY <1>4, <1>5
<1>7. \A i \in 0..cap : at[i] = IF i = 0 THEN next[LRU!Hook(l)] ELSE next[at[i - 1]]
  BY <1>6
<1>8. \A i \in 0..cap : at[i] = f[i]
  <2> SUFFICES ASSUME NEW i \in 0..cap, at[i] # f[i] PROVE FALSE
    OBVIOUS
  <2>1. PICK n \in {j \in 0..cap : at[j] # f[j]} : \A m \in {j \in 0..cap : at[j] # f[j]} : n <= m
    <3>1. {j \in 0..cap : at[j] # f[j]} \subseteq Nat /\ {j \in 0..cap : at[j] # f[j]} # {}
      BY <1>1
    <3> QED BY <3>1, LeastOfNaturals
  <2>2. n # 0
    BY <1>1, <1>3, <1>7, <2>1
  <2>3. at[n - 1] = f[n - 1]
    BY <1>1, <2>1, <2>2
  <2> QED BY <1>1, <1>3, <1>7, <2>1, <2>2, <2>3
<1>9. \A i \in 1..cap : at[i - 1] = At(s, i)
  BY <1>1, <1>8 DEF f
<1>10. \A i \in 1..cap : at[i - 1] # 0 <=> i <= Len(s)
  <2> TAKE i \in 1..cap
  <2>1. at[i - 1] = At(s, i)
    BY <1>9
  <2>2. CASE i <= Len(s)
    <3>1. i \in 1..Len(s)
      BY <1>1, <2>2
    <3>2. at[i - 1] = s[i] /\ s[i] \in 1..cap
      BY <1>2, <2>1, <3>1 DEF At
    <3> QED BY <1>1, <2>2, <3>2
  <2>3. CASE ~(i <= Len(s))
    BY <1>1, <2>1, <2>3 DEF At
  <2> QED BY <2>2, <2>3
<1>11. {j \in 1..cap : \A h \in 1..j : at[h - 1] # 0} = 1..Len(s)
  <2>1. \A j \in 1..cap : (\A h \in 1..j : at[h - 1] # 0) => j <= Len(s)
    BY <1>10
  <2>2. \A j \in 1..Len(s) : j \in 1..cap /\ \A h \in 1..j : at[h - 1] # 0
    <3>1. \A j \in 1..Len(s) : j \in 1..cap /\ \A h \in 1..j : h \in 1..cap /\ h <= Len(s)
      BY <1>1
    <3> QED BY <1>10, <3>1
  <2>3. \A j \in 1..cap : j <= Len(s) <=> j \in 1..Len(s)
    BY <1>1
  <2> HIDE DEF cap, at
  <2> QED BY <2>1, <2>2, <2>3, Zenon
<1>12. LRU!Entries(l) = [i \in 1..Len(s) |-> at[i - 1]]
  BY <1>11 DEF LRU!Entries, at
<1>13. \A i \in 1..Len(s) : at[i - 1] = s[i]
  BY <1>1, <1>9 DEF At
<1>14. s = [i \in 1..Len(s) |-> s[i]]
  OBVIOUS
<1> QED BY <1>12, <1>13, <1>14

LEMMA OrderedEntries ==
    ASSUME CacheTypes, NEW order, Ordered(order), NEW l \in CachedLists
    PROVE  /\ LRU!Entries(l) = order[l]
           /\ order[l] \in Seq(1..nextPoolElement - 1) /\ Len(order[l]) \in Nat
           /\ \A i \in 1..Len(order[l]) : order[l][i] \in 1..nextPoolElement - 1
           /\ 1..nextPoolElement - 1 \subseteq 1..LRU!Capacity
<1>1. order[l] \in Seq(1..nextPoolElement - 1)
  BY DEF Ordered
<1>2. \A i \in 1..Len(order[l]) : order[l][i] \in 1..nextPoolElement - 1
  BY <1>1, ElementOfSeq
<1>3. 1..nextPoolElement - 1 \subseteq 1..LRU!Capacity
  BY DEF CacheTypes
<1>4. order[l] \in Seq(1..LRU!Capacity)
  BY <1>1, <1>3, SeqMonotonic
<1>5. Len(order[l]) \in Nat /\ Len(order[l]) <= LRU!Capacity
  <2>1. Len(order[l]) \in Nat
    BY <1>1, LenProperties
  <2>2. Len(order[l]) <= capacityEntries
    BY DEF Ordered, HaveOnePlace
  <2> QED BY <2>1, <2>2 DEF CacheTypes
<1>6. Linked(next, l, order[l])
  BY DEF Ordered
<1> QED BY <1>1, <1>2, <1>3, <1>4, <1>5, <1>6, EntriesAreLinked

\* What the module states of the lists follows from their order.
LEMMA OrderShows ==
    ASSUME CacheIsKept
    PROVE  LRU!KeepsTheMostRecent /\ LRU!PoolEntriesAreListed
<1>1. CacheTypes
  BY DEF CacheIsKept
<1>2. PICK order : Ordered(order)
  BY DEF CacheIsKept
<1> DEFINE E(l) == LRU!Entries(l)
<1>3. \A l \in CachedLists :
        /\ E(l) = order[l] /\ DOMAIN E(l) = 1..Len(order[l])
        /\ \A i \in 1..Len(order[l]) : order[l][i] \in 1..nextPoolElement - 1
  BY <1>1, <1>2, OrderedEntries
<1>4. ASSUME NEW l \in CachedLists
      PROVE  LET path == E(l)
                 mine == {k \in asked : LRU!ListOf(k) = l}
             IN  /\ Len(path) <= capacityEntries
                 /\ \A i \in DOMAIN path : data[path[i]] \in mine
                 /\ \A i, j \in DOMAIN path : i < j <=> <<data[path[i]], data[path[j]]>> \in newer
                 /\ \A k \in mine :
                       \/ \E i \in DOMAIN path : data[path[i]] = k
                       \/ /\ Len(path) = capacityEntries
                          /\ \A i \in DOMAIN path : <<data[path[i]], k>> \in newer
  <2> DEFINE s == order[l]
             ks == KeysOf(s)
  <2>1. s \in Seq(1..nextPoolElement - 1) /\ Len(s) \in Nat
    BY <1>1, <1>2, OrderedEntries
  <2>2. Len(ks) = Len(s) /\ \A i \in 1..Len(s) : ks[i] = data[s[i]]
    BY <2>1 DEF KeysOf
  <2>3. Ranked(l, ks) /\ Len(s) <= capacityEntries
    BY <1>2 DEF Ordered, HaveOnePlace
  <2> HIDE DEF ks
  <2>4. /\ \A i \in 1..Len(s) : data[s[i]] \in asked /\ LRU!ListOf(data[s[i]]) = l
        /\ \A i, j \in 1..Len(s) : i < j <=> <<data[s[i]], data[s[j]]>> \in newer
    BY <2>2, <2>3 DEF Ranked
  <2>5. \A k \in asked : LRU!ListOf(k) = l =>
          \/ \E i \in 1..Len(s) : data[s[i]] = k
          \/ Len(s) = capacityEntries /\ \A i \in 1..Len(s) : <<data[s[i]], k>> \in newer
    BY <2>2, <2>3 DEF Ranked
  <2>6. E(l) = s /\ DOMAIN E(l) = 1..Len(s)
    BY <1>3
  <2> HIDE DEF E, s
  <2> QED BY <2>3, <2>4, <2>5, <2>6
<1>5. LRU!KeepsTheMostRecent
  BY <1>4 DEF LRU!KeepsTheMostRecent, CachedLists
<1>6. nextPoolElement \in 1..LRU!Capacity + 1 /\ LRU!Capacity \in Nat
  BY <1>1 DEF CacheTypes
<1>7. ASSUME NEW n \in 1..LRU!Capacity
      PROVE  n < nextPoolElement <=> \E l \in CachedLists : \E i \in DOMAIN E(l) : E(l)[i] = n
  <2>1. n < nextPoolElement => n \in 1..nextPoolElement - 1
    BY <1>6
  <2>2. \A m \in 1..nextPoolElement - 1 : m < nextPoolElement
    BY <1>6
  <2>3. n < nextPoolElement => \E l \in CachedLists : \E i \in 1..Len(order[l]) : order[l][i] = n
    BY <1>2, <2>1 DEF Ordered, HaveOnePlace
  <2> HIDE DEF E
  <2> QED BY <1>3, <2>2, <2>3, Zenon
<1>8. \A l, m \in CachedLists : \A i \in DOMAIN E(l), j \in DOMAIN E(m) :
        E(l)[i] = E(m)[j] => l = m /\ i = j
  <2>1. \A l, m \in CachedLists : \A i \in 1..Len(order[l]), j \in 1..Len(order[m]) :
          order[l][i] = order[m][j] => l = m /\ i = j
    BY <1>2 DEF Ordered, HaveOnePlace
  <2>2. \A l \in CachedLists : E(l) = order[l] /\ DOMAIN E(l) = 1..Len(order[l])
    BY <1>3
  <2> HIDE DEF E
  <2> TAKE l, m \in CachedLists
  <2>3. E(l) = order[l] /\ E(m) = order[m] /\ DOMAIN E(l) = 1..Len(order[l]) /\ DOMAIN E(m) = 1..Len(order[m])
    BY <2>2
  <2> QED BY <2>1, <2>3
<1>9. LRU!PoolEntriesAreListed
  BY <1>6, <1>7, <1>8 DEF LRU!PoolEntriesAreListed, CachedLists
<1> QED BY <1>5, <1>9

\* A sequence with an element put to its front, which was at a place of it, or behind its end.
PutFirst(s, i, a) ==
    [j \in 1..(IF i <= Len(s) THEN Len(s) ELSE Len(s) + 1) |->
        IF j = 1 THEN a ELSE IF j <= i THEN s[j - 1] ELSE s[j]]

LEMMA PutFirstReads ==
    ASSUME NEW S, NEW s \in Seq(S), NEW i \in 1..Len(s) + 1, NEW a \in S
    PROVE  /\ PutFirst(s, i, a) \in Seq(S) /\ Len(s) \in Nat
           /\ Len(PutFirst(s, i, a)) = IF i <= Len(s) THEN Len(s) ELSE Len(s) + 1
           /\ PutFirst(s, i, a)[1] = a
           /\ \A j \in 2..Len(PutFirst(s, i, a)) :
                 /\ j <= i => j - 1 \in 1..Len(s) /\ j - 1 # i /\ PutFirst(s, i, a)[j] = s[j - 1]
                 /\ j > i => j \in 1..Len(s) /\ j # i /\ PutFirst(s, i, a)[j] = s[j]
<1> DEFINE n == IF i <= Len(s) THEN Len(s) ELSE Len(s) + 1
           t == [j \in 1..n |-> IF j = 1 THEN a ELSE IF j <= i THEN s[j - 1] ELSE s[j]]
<1>1. Len(s) \in Nat /\ n \in Nat /\ n >= 1
  BY LenProperties
<1>2. \A j \in 1..Len(s) : s[j] \in S
  BY ElementOfSeq
<1>3. \A j \in 2..n : /\ j <= i => j - 1 \in 1..Len(s) /\ j - 1 # i /\ t[j] = s[j - 1]
                      /\ j > i => j \in 1..Len(s) /\ j # i /\ t[j] = s[j]
  BY <1>1
<1>4. t[1] = a /\ DOMAIN t = 1..n
  BY <1>1
<1>5. \A j \in 1..n : t[j] \in S
  <2> TAKE j \in 1..n
  <2>1. CASE j = 1
    BY <1>4, <2>1
  <2>2. CASE j # 1 /\ j <= i
    BY <1>2, <1>3, <2>2
  <2>3. CASE j # 1 /\ j > i
    BY <1>2, <1>3, <2>3
  <2> QED BY <1>1, <2>1, <2>2, <2>3
<1>6. PutFirst(s, i, a) = t
  BY DEF PutFirst
<1>7. t \in [1..n -> S]
  BY <1>5
<1>8. t \in Seq(S) /\ Len(t) = n
  <2> HIDE DEF t, n
  <2> QED BY <1>1, <1>7
<1> HIDE DEF t
<1> QED BY <1>1, <1>3, <1>4, <1>6, <1>8

\* The length of a sequence and its elements, with what follows from PutFirst().
IsPath(s, n) == s \in Seq(1..n)

IsPutFirst(t, s, i, a) ==
    /\ Len(t) = IF i <= Len(s) THEN Len(s) ELSE Len(s) + 1
    /\ t[1] = a
    /\ \A j \in 2..Len(t) : /\ j <= i => j - 1 \in 1..Len(s) /\ j - 1 # i /\ t[j] = s[j - 1]
                            /\ j > i => j \in 1..Len(s) /\ j # i /\ t[j] = s[j]

LEMMA PathProperties ==
    ASSUME NEW n, NEW s, IsPath(s, n)
    PROVE  Len(s) \in Nat /\ \A j \in 1..Len(s) : s[j] \in 1..n
<1>1. s \in Seq(1..n)
  BY DEF IsPath
<1> QED BY <1>1, LenProperties, ElementOfSeq

LEMMA SequencePutFirst ==
    ASSUME NEW S, NEW s \in Seq(S), NEW i \in 1..Len(s) + 1, NEW a \in S
    PROVE  PutFirst(s, i, a) \in Seq(S) /\ IsPutFirst(PutFirst(s, i, a), s, i, a)
BY PutFirstReads DEF IsPutFirst

LEMMA PathPutFirst ==
    ASSUME NEW n, NEW s, IsPath(s, n), NEW i \in 1..Len(s) + 1, NEW a \in 1..n
    PROVE  IsPath(PutFirst(s, i, a), n) /\ IsPutFirst(PutFirst(s, i, a), s, i, a)
<1>1. s \in Seq(1..n)
  BY DEF IsPath
<1> QED BY <1>1, SequencePutFirst DEF IsPath

IsLink(g, f, n, m, D, R) == g \in [D -> R] /\ g[n] = m /\ \A x \in D : x # n => g[x] = f[x]

LEMMA LinkReads ==
    ASSUME NEW D, NEW R, NEW f \in [D -> R], NEW n \in D, NEW m \in R
    PROVE  IsLink(LRU!Link(f, n, m), f, n, m, D, R)
BY DEF LRU!Link, IsLink

\* Element e goes from behind p to behind h.
Relinked(f, h, p, e) ==
    LET a == LRU!Link(f, p, f[e])
        b == LRU!Link(a, e, a[h])
    IN  LRU!Link(b, h, e)

LEMMA Relinking ==
    ASSUME NEW D, NEW R, NEW f \in [D -> R], NEW h \in D, NEW p \in D, NEW e \in D,
           e \in R, p # e, h # e
    PROVE  LET g == Relinked(f, h, p, e)
           IN  /\ g \in [D -> R] /\ g[h] = e
               /\ p = h => g[e] = f[e]
               /\ p # h => g[e] = f[h] /\ g[p] = f[e]
               /\ \A x \in D : x \notin {h, p, e} => g[x] = f[x]
<1> DEFINE a == LRU!Link(f, p, f[e])
           b == LRU!Link(a, e, a[h])
           c == LRU!Link(b, h, e)
<1>1. a \in [D -> R] /\ a[p] = f[e] /\ \A x \in D : x # p => a[x] = f[x]
  <2>1. IsLink(a, f, p, f[e], D, R)
    BY LinkReads
  <2> QED BY <2>1 DEF IsLink
<1> HIDE DEF a
<1>2. b \in [D -> R] /\ b[e] = a[h] /\ \A x \in D : x # e => b[x] = a[x]
  <2>1. IsLink(b, a, e, a[h], D, R)
    BY <1>1, LinkReads
  <2> QED BY <2>1 DEF IsLink
<1> HIDE DEF b
<1>3. c \in [D -> R] /\ c[h] = e /\ \A x \in D : x # h => c[x] = b[x]
  <2>1. IsLink(c, b, h, e, D, R)
    BY <1>2, LinkReads
  <2> QED BY <2>1 DEF IsLink
<1>4. Relinked(f, h, p, e) = c
  BY DEF Relinked, a, b
<1> HIDE DEF c
<1> QED BY <1>1, <1>2, <1>3, <1>4

CacheLinks == [-capacityLists..LRU!Capacity -> 0..LRU!Capacity]

OneEach(s) == \A i, j \in 1..Len(s) : s[i] = s[j] => i = j

\* What is left alone by a change of one list.
OthersLinked(links, list, s, a) ==
    \A n \in -capacityLists..LRU!Capacity :
        n # -1 - list /\ n # a /\ (\A j \in 1..Len(s) : n # s[j]) => links[n] = next[n]

\* The links from h lead along a sequence.
LeadsAlong(g, h, s) == g[h] = At(s, 1) /\ \A j \in 1..Len(s) : g[s[j]] = At(s, j + 1)

MovesOne(f, g, h, s, i) ==
    /\ g[h] = s[i]
    /\ i = 1 => g[s[i]] = f[s[i]]
    /\ i # 1 => g[s[i]] = f[h] /\ g[s[i - 1]] = f[s[i]]
    /\ \A j \in 1..Len(s) : j # i /\ (i = 1 \/ j # i - 1) => g[s[j]] = f[s[j]]

\* The links of a list when one of its elements was put to the front.
LEMMA ChainOfMoved ==
    ASSUME NEW s, NEW t, Len(s) \in Nat, NEW i \in 1..Len(s), IsPutFirst(t, s, i, s[i]),
           NEW f, NEW g, NEW h, LeadsAlong(f, h, s), MovesOne(f, g, h, s, i)
    PROVE  LeadsAlong(g, h, t)
<1>1. /\ Len(t) = Len(s) /\ t[1] = s[i]
      /\ \A j \in 2..Len(s) : /\ j <= i => t[j] = s[j - 1]
                              /\ j > i => t[j] = s[j]
  <2>1. Len(t) = Len(s)
    BY DEF IsPutFirst
  <2> QED BY <2>1 DEF IsPutFirst
<1> USE DEF LeadsAlong, MovesOne
<1>2. g[h] = At(t, 1)
  BY <1>1 DEF At
<1>3. ASSUME NEW j \in 1..Len(s) PROVE g[t[j]] = At(t, j + 1)
  <2>1. CASE i = 1
    <3>1. t[j] = s[j]
      BY <1>1, <2>1
    <3>2. g[s[j]] = At(s, j + 1)
      BY <2>1
    <3>3. At(t, j + 1) = At(s, j + 1)
      BY <1>1, <2>1 DEF At
    <3> QED BY <3>1, <3>2, <3>3
  <2>2. CASE i # 1 /\ j = 1
    <3>1. t[j] = s[i] /\ t[2] = s[1] /\ 2 \in 1..Len(t)
      BY <1>1, <2>2
    <3>2. g[s[i]] = s[1]
      BY <2>2 DEF At
    <3> QED BY <2>2, <3>1, <3>2 DEF At
  <2>3. CASE i # 1 /\ j # 1 /\ j < i
    <3>1. t[j] = s[j - 1] /\ At(t, j + 1) = s[j]
      BY <1>1, <2>3 DEF At
    <3>2. j - 1 \in 1..Len(s) /\ j - 1 # i /\ j - 1 # i - 1
      BY <2>3
    <3>3. g[s[j - 1]] = At(s, j)
      BY <3>2
    <3> QED BY <3>1, <3>3 DEF At
  <2>4. CASE i # 1 /\ j = i
    <3>1. t[j] = s[i - 1] /\ At(t, j + 1) = At(s, i + 1)
      BY <1>1, <2>4 DEF At
    <3> QED BY <2>4, <3>1
  <2>5. CASE i # 1 /\ j > i
    <3>1. t[j] = s[j] /\ At(t, j + 1) = At(s, j + 1)
      BY <1>1, <2>5 DEF At
    <3>2. j # i /\ j # i - 1
      BY <2>5
    <3>3. g[s[j]] = At(s, j + 1)
      BY <2>5, <3>2
    <3> QED BY <3>1, <3>3
  <2> QED BY <2>1, <2>2, <2>3, <2>4, <2>5
<1> QED BY <1>1, <1>2, <1>3 DEF LeadsAlong

LEMMA CachedListsExist ==
    ASSUME CacheTypes, NEW l \in CachedLists PROVE l \in Nat /\ l < capacityLists
<1>1. capacityLists \in Nat
  BY DEF CacheTypes
<1> QED BY <1>1 DEF CachedLists

\* An entry is put to the front of its list.
LEMMA MovingLinks ==
    ASSUME CacheTypes, NEW l \in CachedLists, NEW s, IsPath(s, LRU!Capacity),
           Linked(next, l, s), OneEach(s), NEW i \in 1..Len(s), NEW links,
           links = LRU!MovedToFront(l, IF i = 1 THEN LRU!Hook(l) ELSE s[i - 1], s[i])
    PROVE  /\ links \in CacheLinks /\ links[0] = 0
           /\ Linked(links, l, PutFirst(s, i, s[i]))
           /\ OthersLinked(links, l, s, s[i])
<1> DEFINE h == -1 - l
           D == -capacityLists..LRU!Capacity
           R == 0..LRU!Capacity
           p == IF i = 1 THEN h ELSE s[i - 1]
           t == PutFirst(s, i, s[i])
<1>1. Len(s) \in Nat /\ \A j \in 1..Len(s) : s[j] \in 1..LRU!Capacity
  BY PathProperties
<1>2. /\ next \in [D -> R] /\ next[0] = 0 /\ capacityLists \in Nat /\ LRU!Capacity \in Nat
      /\ l \in Nat /\ l < capacityLists
  BY CachedListsExist DEF CacheTypes
<1>3. h \in D /\ h < 0 /\ 0 \in D
  BY <1>2
<1>4. \A j \in 1..Len(s) : s[j] \in D /\ s[j] \in R /\ s[j] # h /\ s[j] # 0
  <2>1. \A x \in 1..LRU!Capacity : x \in D /\ x \in R /\ x # h /\ x # 0
    BY <1>2
  <2> QED BY <1>1, <2>1
<1>5. links = Relinked(next, h, p, s[i])
  BY DEF LRU!MovedToFront, LRU!Hook, Relinked
<1>6. next[h] = At(s, 1) /\ \A j \in 1..Len(s) : next[s[j]] = At(s, j + 1)
  BY DEF Linked
<1>7. (i = 1 => p = h) /\ (i # 1 => p = s[i - 1] /\ i - 1 \in 1..Len(s) /\ i - 1 # i)
  BY <1>1
<1>8. p \in D /\ p # 0 /\ p # s[i] /\ (i # 1 => p # h)
  BY <1>3, <1>4, <1>7 DEF OneEach
<1> HIDE DEF D, R, p, h
<1>9. /\ links \in [D -> R] /\ links[h] = s[i]
      /\ p = h => links[s[i]] = next[s[i]]
      /\ p # h => links[s[i]] = next[h] /\ links[p] = next[s[i]]
      /\ \A x \in D : x \notin {h, p, s[i]} => links[x] = next[x]
  <2> DEFINE e == s[i]
             g == Relinked(next, h, p, e)
  <2>1. e \in D /\ e \in R /\ p # e /\ h # e
    BY <1>4, <1>8
  <2> HIDE DEF e
  <2>2. /\ g \in [D -> R] /\ g[h] = e
        /\ p = h => g[e] = next[e]
        /\ p # h => g[e] = next[h] /\ g[p] = next[e]
        /\ \A x \in D : x \notin {h, p, e} => g[x] = next[x]
    BY <1>2, <1>3, <1>8, <2>1, Relinking
  <2>3. links = g
    BY <1>5 DEF e
  <2> HIDE DEF g
  <2> QED BY <2>2, <2>3 DEF e
<1>10. links \in CacheLinks /\ links[0] = 0
  <2>1. links \in CacheLinks
    BY <1>9 DEF CacheLinks, D, R
  <2>2. 0 \notin {h, p, s[i]}
    BY <1>3, <1>4, <1>8
  <2> QED BY <1>2, <1>3, <1>9, <2>1, <2>2
<1>11. OthersLinked(links, l, s, s[i])
  <2> SUFFICES ASSUME NEW n \in D, n # h, \A j \in 1..Len(s) : n # s[j] PROVE links[n] = next[n]
    BY DEF OthersLinked, D, h
  <2>1. n # p /\ n # s[i]
    BY <1>7
  <2> QED BY <1>9, <2>1
<1>12. IsPutFirst(t, s, i, s[i])
  <2>1. i \in 1..Len(s) + 1 /\ s[i] \in 1..LRU!Capacity
    BY <1>1
  <2> QED BY <2>1, PathPutFirst
<1>13. \A j \in 1..Len(s) : j # i /\ (i = 1 \/ j # i - 1) => links[s[j]] = next[s[j]]
  <2> TAKE j \in 1..Len(s)
  <2> HAVE j # i /\ (i = 1 \/ j # i - 1)
  <2>1. s[j] # s[i] /\ s[j] # p /\ s[j] # h /\ s[j] \in D
    BY <1>4, <1>7 DEF OneEach
  <2> QED BY <1>9, <2>1
<1>14. (i = 1 => links[s[i]] = next[s[i]]) /\ (i # 1 => links[s[i]] = next[h] /\ links[s[i - 1]] = next[s[i]])
  BY <1>7, <1>8, <1>9
<1> HIDE DEF t
<1>15. links[h] = At(t, 1) /\ \A j \in 1..Len(t) : links[t[j]] = At(t, j + 1)
  <2>1. LeadsAlong(next, h, s)
    BY <1>6 DEF LeadsAlong
  <2>2. MovesOne(next, links, h, s, i)
    BY <1>9, <1>13, <1>14 DEF MovesOne
  <2>3. LeadsAlong(links, h, t)
    BY <1>1, <1>12, <2>1, <2>2, ChainOfMoved
  <2> QED BY <2>3 DEF LeadsAlong
<1>16. Linked(links, l, t)
  BY <1>15 DEF Linked, h
<1> QED BY <1>10, <1>11, <1>16 DEF t

\* An entry of the pool comes to the front of a list.
LEMMA NewLinks ==
    ASSUME CacheTypes, NEW l \in CachedLists, NEW s, IsPath(s, LRU!Capacity), Linked(next, l, s),
           NEW e \in 1..LRU!Capacity, \A j \in 1..Len(s) : s[j] # e, NEW links,
           links = LRU!Link(LRU!Link(next, e, next[LRU!Hook(l)]), LRU!Hook(l), e)
    PROVE  /\ links \in CacheLinks /\ links[0] = 0
           /\ Linked(links, l, PutFirst(s, Len(s) + 1, e))
           /\ OthersLinked(links, l, s, e)
<1> DEFINE h == -1 - l
           D == -capacityLists..LRU!Capacity
           R == 0..LRU!Capacity
           a == LRU!Link(next, e, next[h])
           t == PutFirst(s, Len(s) + 1, e)
<1>1. Len(s) \in Nat /\ \A j \in 1..Len(s) : s[j] \in 1..LRU!Capacity
  BY PathProperties
<1>2. /\ next \in [D -> R] /\ next[0] = 0 /\ capacityLists \in Nat /\ LRU!Capacity \in Nat
      /\ l \in Nat /\ l < capacityLists
  BY CachedListsExist DEF CacheTypes
<1>3. h \in D /\ h < 0 /\ 0 \in D /\ e \in D /\ e \in R /\ e # h /\ e # 0
  BY <1>2
<1>4. \A j \in 1..Len(s) : s[j] \in D /\ s[j] # h
  <2>1. \A x \in 1..LRU!Capacity : x \in D /\ x # h
    BY <1>2
  <2> QED BY <1>1, <2>1
<1>5. links = LRU!Link(a, h, e)
  BY DEF LRU!Hook
<1>6. next[h] = At(s, 1) /\ \A j \in 1..Len(s) : next[s[j]] = At(s, j + 1)
  BY DEF Linked
<1> HIDE DEF D, R, h
<1>7. a \in [D -> R] /\ a[e] = next[h] /\ \A x \in D : x # e => a[x] = next[x]
  <2>1. IsLink(a, next, e, next[h], D, R)
    BY <1>2, <1>3, LinkReads
  <2> QED BY <2>1 DEF IsLink
<1> HIDE DEF a
<1>8. links \in [D -> R] /\ links[h] = e /\ \A x \in D : x # h => links[x] = a[x]
  <2> DEFINE g == LRU!Link(a, h, e)
  <2>1. g \in [D -> R] /\ g[h] = e /\ \A x \in D : x # h => g[x] = a[x]
    <3>1. IsLink(g, a, h, e, D, R)
      BY <1>3, <1>7, LinkReads
    <3> QED BY <3>1 DEF IsLink
  <2>2. links = g
    BY <1>5
  <2> HIDE DEF g
  <2> QED BY <2>1, <2>2
<1>9. links \in CacheLinks /\ links[0] = 0
  <2>1. links \in CacheLinks
    BY <1>8 DEF CacheLinks, D, R
  <2>2. 0 # h /\ 0 # e
    BY <1>3
  <2> QED BY <1>2, <1>3, <1>7, <1>8, <2>1, <2>2
<1>10. OthersLinked(links, l, s, e)
  <2> SUFFICES ASSUME NEW n \in D, n # h, n # e PROVE links[n] = next[n]
    BY DEF OthersLinked, D, h
  <2> QED BY <1>7, <1>8
<1>11. IsPutFirst(t, s, Len(s) + 1, e)
  <2>1. Len(s) + 1 \in 1..Len(s) + 1
    BY <1>1
  <2> QED BY <2>1, PathPutFirst
<1>12. links[e] = At(s, 1) /\ \A j \in 1..Len(s) : links[s[j]] = At(s, j + 1)
  BY <1>3, <1>4, <1>6, <1>7, <1>8
<1> HIDE DEF t
<1>13. /\ Len(t) = Len(s) + 1 /\ t[1] = e
       /\ \A j \in 2..Len(s) + 1 : j - 1 \in 1..Len(s) /\ t[j] = s[j - 1]
  <2>1. ~(Len(s) + 1 <= Len(s)) /\ \A j \in 2..Len(s) + 1 : j <= Len(s) + 1
    BY <1>1
  <2> QED BY <1>11, <2>1 DEF IsPutFirst
<1>14. \A j \in 1..Len(s) + 1 : At(t, j + 1) = At(s, j)
  <2> TAKE j \in 1..Len(s) + 1
  <2>1. CASE j <= Len(s)
    <3>1. j + 1 \in 2..Len(s) + 1 /\ j \in 1..Len(s) /\ j + 1 \in 1..Len(t) /\ (j + 1) - 1 = j
      BY <1>1, <1>13, <2>1
    <3> QED BY <1>13, <3>1 DEF At
  <2>2. CASE ~(j <= Len(s))
    BY <1>1, <1>13, <2>2 DEF At
  <2> QED BY <2>1, <2>2
<1>15. links[h] = At(t, 1)
  BY <1>1, <1>8, <1>13 DEF At
<1>16. ASSUME NEW j \in 1..Len(t) PROVE links[t[j]] = At(t, j + 1)
  <2>1. CASE j = 1
    BY <1>1, <1>12, <1>13, <1>14, <2>1
  <2>2. CASE j # 1
    <3>1. j \in 2..Len(s) + 1 /\ j \in 1..Len(s) + 1 /\ (j - 1) + 1 = j
      BY <1>1, <1>13, <2>2
    <3>2. links[s[j - 1]] = At(s, j)
      BY <1>12, <1>13, <3>1
    <3> QED BY <1>13, <1>14, <3>1, <3>2
  <2> QED BY <2>1, <2>2
<1>17. Linked(links, l, t)
  BY <1>15, <1>16 DEF Linked, h
<1> QED BY <1>9, <1>10, <1>17 DEF t

\* What a call of Try() asks for.
Asks(k) ==
    /\ asked' = asked \cup {k}
    /\ newer' = {p \in newer : k \notin {p[1], p[2]}} \cup ({k} \X (asked \ {k}))
    /\ UNCHANGED <<capacityLists, capacityEntries>>

LEMMA NewerAfter ==
    ASSUME NEW k, Asks(k)
    PROVE  /\ \A x, y : x # k /\ y # k => (<<x, y>> \in newer' <=> <<x, y>> \in newer)
           /\ \A y \in asked : y # k => <<k, y>> \in newer'
           /\ \A x : <<x, k>> \notin newer'
<1>1. newer' = {p \in newer : k \notin {p[1], p[2]}} \cup ({k} \X (asked \ {k}))
  BY DEF Asks
<1>2. ASSUME NEW x, NEW y, x # k, y # k PROVE <<x, y>> \in newer' <=> <<x, y>> \in newer
  <2>1. <<x, y>>[1] = x /\ <<x, y>>[2] = y
    OBVIOUS
  <2> QED BY <1>1, <1>2, <2>1
<1>3. ASSUME NEW y \in asked, y # k PROVE <<k, y>> \in newer'
  BY <1>1, <1>3
<1>4. ASSUME NEW x, <<x, k>> \in newer' PROVE FALSE
  <2>1. <<x, k>>[1] = x /\ <<x, k>>[2] = k
    OBVIOUS
  <2> QED BY <1>1, <1>4, <2>1
<1> QED BY <1>2, <1>3, <1>4

\* The keys of a list before the key asked for goes first: no other place holds it, and the place
\* that it takes is its own, that of the last of a full list, or a new one of a list with room.
GoesFirst(ks, i, k) ==
    /\ Len(ks) \in Nat /\ i \in 1..Len(ks) + 1
    /\ \A j \in 1..Len(ks) : j # i => ks[j] # k
    /\ i <= Len(ks) => ks[i] = k \/ (Len(ks) = capacityEntries /\ i = Len(ks))
    /\ i > Len(ks) => Len(ks) < capacityEntries

LEMMA RankAfter ==
    ASSUME capacityEntries \in Nat, NEW k, NEW l, LRU!ListOf(k) = l, Asks(k),
           NEW ks, NEW ls, NEW i, Ranked(l, ks), GoesFirst(ks, i, k), IsPutFirst(ls, ks, i, k)
    PROVE  Ranked(l, ls)'
<1> DEFINE n == Len(ks)
           from(j) == IF j <= i THEN j - 1 ELSE j
<1>1. /\ n \in Nat /\ i \in 1..n + 1 /\ (\A j \in 1..n : j # i => ks[j] # k)
      /\ i <= n => ks[i] = k \/ (n = capacityEntries /\ i = n)
      /\ i > n => n < capacityEntries
  BY DEF GoesFirst
<1>2. Len(ls) = (IF i <= n THEN n ELSE n + 1) /\ ls[1] = k
  BY DEF IsPutFirst
<1>3. \A j \in 2..Len(ls) : from(j) \in 1..n /\ from(j) # i /\ ls[j] = ks[from(j)]
  BY <1>1, <1>2 DEF IsPutFirst
<1>4. \A j \in 2..Len(ls) : ls[j] # k
  BY <1>1, <1>3
<1>5. \A j \in 1..n : ks[j] \in asked /\ LRU!ListOf(ks[j]) = l
  BY DEF Ranked
<1>6. \A x : LRU!ListOf(x)' = LRU!ListOf(x)
  BY DEF LRU!ListOf, Asks
<1>7. asked' = asked \cup {k} /\ capacityEntries' = capacityEntries
  BY DEF Asks
<1>8. /\ \A x, y : x # k /\ y # k => (<<x, y>> \in newer' <=> <<x, y>> \in newer)
      /\ \A y \in asked : y # k => <<k, y>> \in newer'
      /\ \A x : <<x, k>> \notin newer'
  BY NewerAfter
<1>9. \A j \in 2..Len(ls) : ls[j] \in asked /\ LRU!ListOf(ls[j]) = l
  BY <1>3, <1>5
<1>10. Len(ls) \in Nat /\ Len(ls) >= 1
  BY <1>1, <1>2
<1>11. \A j \in 1..Len(ls) : ls[j] \in asked' /\ LRU!ListOf(ls[j])' = l
  <2> TAKE j \in 1..Len(ls)
  <2>1. CASE j = 1
    BY <1>2, <1>6, <1>7, <2>1
  <2>2. CASE j # 1
    <3>1. j \in 2..Len(ls)
      BY <1>10, <2>2
    <3> QED BY <1>6, <1>7, <1>9, <3>1
  <2> QED BY <2>1, <2>2
<1>12. ASSUME NEW h \in 1..Len(ls), NEW j \in 1..Len(ls)
       PROVE  h < j <=> <<ls[h], ls[j]>> \in newer'
  <2>1. CASE j = 1
    BY <1>2, <1>8, <1>10, <2>1
  <2>2. CASE h = 1 /\ j # 1
    <3>1. j \in 2..Len(ls)
      BY <1>10, <2>2
    <3> QED BY <1>2, <1>4, <1>8, <1>9, <2>2, <3>1
  <2>3. CASE h # 1 /\ j # 1
    <3>1. h \in 2..Len(ls) /\ j \in 2..Len(ls)
      BY <1>10, <2>3
    <3>2. from(h) \in 1..n /\ from(j) \in 1..n
      BY <1>3, <3>1
    <3>3. from(h) < from(j) <=> <<ks[from(h)], ks[from(j)]>> \in newer
      BY <3>2 DEF Ranked
    <3>4. from(h) < from(j) <=> h < j
      BY <1>1, <1>3, <3>1
    <3>5. ls[h] = ks[from(h)] /\ ls[j] = ks[from(j)] /\ ls[h] # k /\ ls[j] # k
      BY <1>3, <1>4, <3>1
    <3> HIDE DEF from
    <3> QED BY <1>8, <3>3, <3>4, <3>5
  <2> QED BY <2>1, <2>2, <2>3
<1>13. ASSUME NEW c \in asked', LRU!ListOf(c)' = l
       PROVE  \/ \E j \in 1..Len(ls) : ls[j] = c
              \/ Len(ls) = capacityEntries' /\ \A j \in 1..Len(ls) : <<ls[j], c>> \in newer'
  <2>1. CASE c = k
    BY <1>2, <1>10, <2>1
  <2>2. CASE c # k
    <3>1. c \in asked /\ LRU!ListOf(c) = l
      BY <1>6, <1>7, <1>13, <2>2
    <3>2. <<k, c>> \in newer'
      BY <1>8, <2>2, <3>1
    <3>3. ASSUME \A j \in 2..Len(ls) : <<ls[j], c>> \in newer
          PROVE  \A j \in 1..Len(ls) : <<ls[j], c>> \in newer'
      <4> TAKE j \in 1..Len(ls)
      <4>1. CASE j = 1
        BY <1>2, <3>2, <4>1
      <4>2. CASE j # 1
        <5>1. j \in 2..Len(ls)
          BY <1>10, <4>2
        <5> QED BY <1>4, <1>8, <2>2, <3>3, <5>1
      <4> QED BY <4>1, <4>2
    <3>4. CASE \E p \in 1..n : ks[p] = c
      <4>1. PICK p \in 1..n : ks[p] = c
        BY <3>4
      <4>2. CASE p < i
        <5>1. p + 1 \in 2..Len(ls) /\ from(p + 1) = p
          BY <1>1, <1>2, <4>2
        <5>2. ls[p + 1] = c /\ p + 1 \in 1..Len(ls)
          BY <1>3, <1>10, <4>1, <5>1
        <5> QED BY <5>2
      <4>3. CASE p > i
        <5>1. p \in 2..Len(ls) /\ from(p) = p
          BY <1>1, <1>2, <4>3
        <5>2. ls[p] = c /\ p \in 1..Len(ls)
          BY <1>3, <1>10, <4>1, <5>1
        <5> QED BY <5>2
      <4>4. CASE p = i
        <5>1. n = capacityEntries /\ i = n /\ Len(ls) = n
          BY <1>1, <1>2, <2>2, <4>1, <4>4
        <5>2. ASSUME NEW j \in 2..Len(ls) PROVE <<ls[j], c>> \in newer
          <6>1. from(j) \in 1..n /\ from(j) < p /\ ls[j] = ks[from(j)]
            BY <1>1, <1>3, <4>4, <5>1
          <6>2. from(j) < p <=> <<ks[from(j)], ks[p]>> \in newer
            BY <6>1 DEF Ranked
          <6> QED BY <4>1, <6>1, <6>2
        <5>3. \A j \in 1..Len(ls) : <<ls[j], c>> \in newer'
          BY <3>3, <5>2
        <5> QED BY <1>7, <5>1, <5>3
      <4> QED BY <1>1, <4>2, <4>3, <4>4
    <3>5. CASE n = capacityEntries /\ \A p \in 1..n : <<ks[p], c>> \in newer
      <4>1. Len(ls) = capacityEntries'
        BY <1>1, <1>2, <1>7, <3>5
      <4>2. \A j \in 2..Len(ls) : <<ls[j], c>> \in newer
        BY <1>3, <3>5
      <4> QED BY <3>3, <4>1, <4>2
    <3> QED BY <3>1, <3>4, <3>5 DEF Ranked
  <2> QED BY <2>1, <2>2
<1> QED BY <1>11, <1>12, <1>13 DEF Ranked

\* Nothing changes for the other lists.
LEMMA RankOfOthers ==
    ASSUME NEW k, NEW l, LRU!ListOf(k) # l, Asks(k), NEW ks, Ranked(l, ks)
    PROVE  Ranked(l, ks)'
<1>1. \A x : LRU!ListOf(x)' = LRU!ListOf(x)
  BY DEF LRU!ListOf, Asks
<1>2. asked' = asked \cup {k} /\ capacityEntries' = capacityEntries
  BY DEF Asks
<1>3. \A x, y : x # k /\ y # k => (<<x, y>> \in newer' <=> <<x, y>> \in newer)
  BY NewerAfter
<1>4. \A i \in 1..Len(ks) : ks[i] \in asked /\ LRU!ListOf(ks[i]) = l /\ ks[i] # k
  BY DEF Ranked
<1>5. \A i \in 1..Len(ks) : ks[i] \in asked' /\ LRU!ListOf(ks[i])' = l
  BY <1>1, <1>2, <1>4
<1>6. \A i, j \in 1..Len(ks) : i < j <=> <<ks[i], ks[j]>> \in newer'
  BY <1>3, <1>4 DEF Ranked
<1>7. ASSUME NEW c \in asked', LRU!ListOf(c)' = l
      PROVE  \/ \E i \in 1..Len(ks) : ks[i] = c
             \/ Len(ks) = capacityEntries' /\ \A i \in 1..Len(ks) : <<ks[i], c>> \in newer'
  <2>1. c \in asked /\ LRU!ListOf(c) = l /\ c # k
    BY <1>1, <1>2, <1>7
  <2>2. \/ \E i \in 1..Len(ks) : ks[i] = c
        \/ Len(ks) = capacityEntries /\ \A i \in 1..Len(ks) : <<ks[i], c>> \in newer
    BY <2>1 DEF Ranked
  <2> QED BY <1>2, <1>3, <1>4, <2>1, <2>2
<1> QED BY <1>5, <1>6, <1>7 DEF Ranked

\* As long as a list has room, so has the pool: no two entries have one place.
LEMMA PoolHasRoom ==
    ASSUME CacheTypes, NEW order, Ordered(order), NEW l \in CachedLists,
           Len(order[l]) < capacityEntries
    PROVE  nextPoolElement \in 1..LRU!Capacity
<1> DEFINE All == CachedLists \X (1..capacityEntries)
           Free == All \ {<<l, capacityEntries>>}
           Taken == 1..nextPoolElement - 1
           Stands(n, p) == p[2] \in 1..Len(order[p[1]]) /\ order[p[1]][p[2]] = n
           place == [n \in Taken |-> CHOOSE p \in Free : Stands(n, p)]
<1>1. /\ capacityLists \in Nat /\ capacityLists >= 1 /\ capacityEntries \in Nat /\ capacityEntries >= 1
      /\ nextPoolElement \in 1..LRU!Capacity + 1 /\ LRU!Capacity \in Nat
      /\ LRU!Capacity = capacityLists * capacityEntries
  BY DEF CacheTypes, LRU!Capacity
<1>2. \A m \in CachedLists : Len(order[m]) \in Nat /\ Len(order[m]) <= capacityEntries
  BY OrderedEntries DEF Ordered, HaveOnePlace
<1>3. ASSUME NEW n \in Taken PROVE \E p \in Free : Stands(n, p)
  <2>0. PICK m \in CachedLists : \E i \in 1..Len(order[m]) : order[m][i] = n
    BY DEF Ordered, HaveOnePlace
  <2>1. PICK i \in 1..Len(order[m]) : order[m][i] = n
    BY <2>0
  <2>2. i \in 1..capacityEntries /\ ~(m = l /\ i = capacityEntries)
    BY <1>1, <1>2, <2>1
  <2>3. <<m, i>> \in Free /\ <<m, i>>[1] = m /\ <<m, i>>[2] = i
    BY <2>2
  <2>4. Stands(n, <<m, i>>)
    BY <2>1, <2>3
  <2> QED BY <2>3, <2>4
<1> HIDE DEF Free
<1>4. \A n \in Taken : place[n] \in Free /\ Stands(n, place[n])
  <2> HIDE DEF Stands
  <2> QED BY <1>3
<1> HIDE DEF place
<1>5. place \in [Taken -> Free]
  BY <1>4 DEF place
<1>6. ASSUME NEW m \in Taken, NEW n \in Taken, place[m] = place[n] PROVE m = n
  BY <1>4, <1>6
<1>7. place \in Injection(Taken, Free)
  BY <1>5, <1>6, Zenon DEF Injection, IsInjective
<1>8. IsFiniteSet(CachedLists) /\ Cardinality(CachedLists) = capacityLists
  <2> DEFINE b == capacityLists - 1
  <2>1. b \in Int /\ 0 \in Int /\ ~(0 > b) /\ b - 0 + 1 = capacityLists
    BY <1>1
  <2> HIDE DEF b
  <2>2. IsFiniteSet(0..b) /\ Cardinality(0..b) = capacityLists
    BY <2>1, FS_Interval
  <2> QED BY <2>2 DEF CachedLists, b
<1>9. IsFiniteSet(1..capacityEntries) /\ Cardinality(1..capacityEntries) = capacityEntries
  BY <1>1, FS_Interval
<1>10. IsFiniteSet(All) /\ Cardinality(All) = LRU!Capacity
  <2>1. /\ IsFiniteSet(CachedLists \X (1..capacityEntries))
        /\ Cardinality(CachedLists \X (1..capacityEntries))
             = Cardinality(CachedLists) * Cardinality(1..capacityEntries)
    BY <1>8, <1>9, FS_Product, Zenon
  <2> QED BY <1>1, <1>8, <1>9, <2>1
<1>11. <<l, capacityEntries>> \in All
  BY <1>1
<1> HIDE DEF All
<1>12. IsFiniteSet(Free) /\ Cardinality(Free) = LRU!Capacity - 1
  BY <1>10, <1>11, FS_RemoveElement DEF Free
<1>13. Cardinality(Taken) <= Cardinality(Free)
  BY <1>7, <1>12, FS_Injection
<1>14. Cardinality(Taken) = nextPoolElement - 1
  BY <1>1, FS_Interval
<1> QED BY <1>1, <1>12, <1>13, <1>14

\* Entry a of a list goes to the front, from place i, for a key.
Serves(s, l, k, i, a) ==
    /\ Asks(k)
    /\ GoesFirst(KeysOf(s), i, k)
    /\ a \in 1..LRU!Capacity
    /\ i <= Len(s) => a = s[i] /\ nextPoolElement' = nextPoolElement
    /\ i > Len(s) => a = nextPoolElement /\ nextPoolElement' = nextPoolElement + 1
    /\ next' \in CacheLinks /\ next'[0] = 0
    /\ Linked(next', l, PutFirst(s, i, a))
    /\ OthersLinked(next', l, s, a)
    /\ data' \in [1..LRU!Capacity -> {0} \cup CacheKeys] /\ data'[a] = k
    /\ \A n \in 1..LRU!Capacity : n # a => data'[n] = data[n]

\* A list with its length and its entries.
ListFacts(l, s) ==
    /\ l \in CachedLists
    /\ IsPath(s, LRU!Capacity) /\ DOMAIN s = 1..Len(s) /\ OneEach(s) /\ Linked(next, l, s)
    /\ Len(s) \in Nat /\ Len(s) <= capacityEntries
    /\ \A j \in 1..Len(s) : s[j] \in 1..nextPoolElement - 1
    /\ Ranked(l, KeysOf(s)) /\ Len(KeysOf(s)) = Len(s)
    /\ \A j \in 1..Len(s) : KeysOf(s)[j] = data[s[j]]
    /\ \A i, j \in 1..Len(s) : data[s[i]] = data[s[j]] => i = j
    /\ LRU!Entries(l) = s

LEMMA ListOfOrder ==
    ASSUME CacheTypes, NEW order, Ordered(order), NEW l \in CachedLists
    PROVE  ListFacts(l, order[l])
<1> DEFINE s == order[l]
           ks == KeysOf(s)
<1>1. /\ LRU!Entries(l) = s /\ s \in Seq(1..nextPoolElement - 1) /\ Len(s) \in Nat
      /\ \A i \in 1..Len(s) : s[i] \in 1..nextPoolElement - 1
      /\ 1..nextPoolElement - 1 \subseteq 1..LRU!Capacity
  BY OrderedEntries
<1>2. s \in Seq(1..LRU!Capacity) /\ DOMAIN s = 1..Len(s)
  BY <1>1, SeqMonotonic, LenProperties
<1>3. Linked(next, l, s) /\ Ranked(l, ks) /\ Len(s) <= capacityEntries
  BY DEF Ordered, HaveOnePlace
<1>4. OneEach(s)
  BY DEF Ordered, HaveOnePlace, OneEach
<1>5. Len(ks) = Len(s) /\ \A j \in 1..Len(s) : ks[j] = data[s[j]]
  BY <1>1 DEF KeysOf
<1>6. ASSUME NEW i \in 1..Len(s), NEW j \in 1..Len(s), data[s[i]] = data[s[j]] PROVE i = j
  <2>1. \A a, b \in 1..Len(s) : a < b <=> <<data[s[a]], data[s[b]]>> \in newer
    <3> HIDE DEF ks, s
    <3> QED BY <1>3, <1>5 DEF Ranked
  <2>2. i < j <=> <<data[s[i]], data[s[j]]>> \in newer
    BY <2>1
  <2>3. j < i <=> <<data[s[j]], data[s[i]]>> \in newer
    BY <2>1
  <2>4. i < i <=> <<data[s[i]], data[s[i]]>> \in newer
    BY <2>1
  <2>5. ~(i < j) /\ ~(j < i)
    <3>1. i \in Nat /\ ~(i < i)
      BY <1>1
    <3> QED BY <1>6, <2>2, <2>3, <2>4, <3>1
  <2> QED BY <1>1, <2>5
<1> QED BY <1>1, <1>2, <1>3, <1>4, <1>5, <1>6 DEF ListFacts, IsPath

LEMMA TryServes ==
    ASSUME CacheTypes, NEW order, Ordered(order), NEW k \in CacheKeys, LRU!Try(k),
           NEW l \in CachedLists, LRU!ListOf(k) = l
    PROVE  \E i, a : Serves(order[l], l, k, i, a)
<1> DEFINE s == order[l]
           ks == KeysOf(s)
           n == Len(s)
           Before(i) == IF i = 1 THEN LRU!Hook(l) ELSE s[i - 1]
<1>1. ListFacts(l, s)
  BY ListOfOrder
<1>2. LRU!Entries(l) = s /\ DOMAIN s = 1..n /\ n \in Nat /\ n <= capacityEntries /\ IsPath(s, LRU!Capacity)
      /\ OneEach(s) /\ Linked(next, l, s)
  BY <1>1 DEF ListFacts
<1>3. Len(ks) = n /\ \A j \in 1..n : ks[j] = data[s[j]]
  BY <1>1 DEF ListFacts
<1>4. \A j \in 1..n : s[j] \in 1..LRU!Capacity
  BY <1>2, PathProperties
<1>5. \/ \E i \in 1..n :
            /\ data[s[i]] = k /\ \A j \in 1..(i - 1) : data[s[j]] # k
            /\ next' = LRU!MovedToFront(l, Before(i), s[i])
            /\ UNCHANGED <<data, nextPoolElement>>
      \/ /\ \A i \in 1..n : data[s[i]] # k
         /\ n = capacityEntries
         /\ next' = LRU!Evicted(l, Before(n), s[n])
         /\ data' = [data EXCEPT ![s[n]] = k]
         /\ UNCHANGED nextPoolElement
      \/ /\ \A i \in 1..n : data[s[i]] # k
         /\ n # capacityEntries
         /\ next' = LRU!Link(LRU!Link(next, nextPoolElement, next[LRU!Hook(l)]),
                             LRU!Hook(l), nextPoolElement)
         /\ data' = [data EXCEPT ![nextPoolElement] = k]
         /\ nextPoolElement' = nextPoolElement + 1
  <2> HIDE DEF s
  <2> QED BY <1>2 DEF LRU!Try
<1>6. Asks(k)
  BY DEF LRU!Try, Asks
<1>7. /\ data \in [1..LRU!Capacity -> {0} \cup CacheKeys] /\ capacityEntries \in Nat
      /\ capacityEntries >= 1
  BY DEF CacheTypes
<1> HIDE DEF s, ks, Before
<1>8. ASSUME NEW i \in 1..n, data[s[i]] = k, next' = LRU!MovedToFront(l, Before(i), s[i]),
             UNCHANGED <<data, nextPoolElement>>
      PROVE  Serves(s, l, k, i, s[i])
  <2>1. GoesFirst(ks, i, k)
    <3>1. \A j \in 1..n : j # i => ks[j] # k
      BY <1>1, <1>3, <1>8 DEF ListFacts
    <3>2. ks[i] = k /\ i \in 1..n + 1 /\ ~(i > n)
      BY <1>2, <1>3, <1>8
    <3> QED BY <1>2, <1>3, <3>1, <3>2 DEF GoesFirst
  <2>2. /\ next' \in CacheLinks /\ next'[0] = 0
        /\ Linked(next', l, PutFirst(s, i, s[i])) /\ OthersLinked(next', l, s, s[i])
    BY <1>2, <1>8, MovingLinks DEF Before
  <2>3. data' = data /\ nextPoolElement' = nextPoolElement /\ ~(i > n)
    BY <1>2, <1>8
  <2> QED BY <1>4, <1>6, <1>7, <1>8, <2>1, <2>2, <2>3 DEF Serves, ks
<1>9. ASSUME \A i \in 1..n : data[s[i]] # k, n = capacityEntries,
             next' = LRU!Evicted(l, Before(n), s[n]),
             data' = [data EXCEPT ![s[n]] = k], UNCHANGED nextPoolElement
      PROVE  Serves(s, l, k, n, s[n])
  <2>1. n \in 1..n /\ n \in 1..n + 1 /\ ~(n > n)
    BY <1>2, <1>7, <1>9
  <2>2. GoesFirst(ks, n, k)
    BY <1>2, <1>3, <1>9, <2>1 DEF GoesFirst
  <2>3. next' = LRU!MovedToFront(l, Before(n), s[n])
    <3>1. next[s[n]] = 0
      BY <1>2, <2>1 DEF Linked, At
    <3> QED BY <1>9, <3>1 DEF LRU!Evicted, LRU!MovedToFront
  <2>4. /\ next' \in CacheLinks /\ next'[0] = 0
        /\ Linked(next', l, PutFirst(s, n, s[n])) /\ OthersLinked(next', l, s, s[n])
    BY <1>2, <2>1, <2>3, MovingLinks DEF Before
  <2>5. /\ data' \in [1..LRU!Capacity -> {0} \cup CacheKeys] /\ data'[s[n]] = k
        /\ \A m \in 1..LRU!Capacity : m # s[n] => data'[m] = data[m]
    BY <1>4, <1>7, <1>9, <2>1
  <2> QED BY <1>4, <1>6, <1>9, <2>1, <2>2, <2>4, <2>5 DEF Serves, ks
<1>10. ASSUME \A i \in 1..n : data[s[i]] # k, n # capacityEntries,
              next' = LRU!Link(LRU!Link(next, nextPoolElement, next[LRU!Hook(l)]),
                               LRU!Hook(l), nextPoolElement),
              data' = [data EXCEPT ![nextPoolElement] = k],
              nextPoolElement' = nextPoolElement + 1
       PROVE  Serves(s, l, k, n + 1, nextPoolElement)
  <2>1. n < capacityEntries
    <3>1. n \in Nat /\ capacityEntries \in Nat /\ n <= capacityEntries
      BY <1>2, <1>7
    <3>2. n # capacityEntries
      BY <1>10
    <3> QED BY <3>1, <3>2
  <2>2. nextPoolElement \in 1..LRU!Capacity
    BY <2>1, PoolHasRoom DEF s
  <2>3. \A j \in 1..n : s[j] # nextPoolElement
    BY <1>1, <2>2 DEF ListFacts
  <2>4. n + 1 \in 1..n + 1 /\ n + 1 > n /\ ~(n + 1 <= n) /\ \A j \in 1..n : j # n + 1
    BY <1>2
  <2>5. GoesFirst(ks, n + 1, k)
    <3>1. Len(ks) = n /\ n \in Nat /\ \A j \in 1..n : ks[j] # k
      BY <1>2, <1>3, <1>10
    <3> HIDE <1>10
    <3> QED BY <2>1, <2>4, <3>1 DEF GoesFirst
  <2>6. /\ next' \in CacheLinks /\ next'[0] = 0
        /\ Linked(next', l, PutFirst(s, n + 1, nextPoolElement))
        /\ OthersLinked(next', l, s, nextPoolElement)
    BY <1>2, <1>10, <2>2, <2>3, NewLinks
  <2>7. /\ data' \in [1..LRU!Capacity -> {0} \cup CacheKeys] /\ data'[nextPoolElement] = k
        /\ \A m \in 1..LRU!Capacity : m # nextPoolElement => data'[m] = data[m]
    BY <1>7, <1>10, <2>2
  <2> QED BY <1>6, <1>10, <2>2, <2>4, <2>5, <2>6, <2>7 DEF Serves, ks
<1>11. \E i, a : Serves(s, l, k, i, a)
  BY <1>5, <1>8, <1>9, <1>10
<1> QED BY <1>11 DEF s

\* The element that goes first is one of a sequence, or a new one.
Fronts(t, s, i, a) ==
    /\ Len(s) \in Nat /\ i \in 1..Len(s) + 1
    /\ IsPutFirst(t, s, i, a)
    /\ OneEach(s)
    /\ i <= Len(s) => a = s[i]
    /\ i > Len(s) => \A j \in 1..Len(s) : s[j] # a

LEMMA FrontKeepsAll ==
    ASSUME NEW s, NEW t, NEW i, NEW a, Fronts(t, s, i, a)
    PROVE  /\ OneEach(t) /\ Len(t) \in Nat /\ 1 \in 1..Len(t) /\ t[1] = a
           /\ \A j \in 1..Len(t) : t[j] = a \/ \E p \in 1..Len(s) : s[p] # a /\ t[j] = s[p]
           /\ \A p \in 1..Len(s) : \E j \in 1..Len(t) : t[j] = s[p]
<1> DEFINE n == Len(s)
           from(j) == IF j <= i THEN j - 1 ELSE j
<1>1. /\ n \in Nat /\ i \in 1..n + 1
      /\ Len(t) = (IF i <= n THEN n ELSE n + 1) /\ t[1] = a
  BY DEF Fronts, IsPutFirst
<1>2. Len(t) \in Nat /\ Len(t) >= 1
  BY <1>1
<1>3. \A p \in 1..n : s[p] = a <=> p = i
  BY <1>1 DEF Fronts, OneEach
<1>4. \A j \in 2..Len(t) : from(j) \in 1..n /\ from(j) # i /\ t[j] = s[from(j)]
  BY <1>1 DEF Fronts, IsPutFirst
<1>5. \A j \in 2..Len(t) : t[j] # a
  BY <1>3, <1>4
<1>6. ASSUME NEW h \in 1..Len(t), NEW j \in 1..Len(t), t[h] = t[j] PROVE h = j
  <2>1. CASE h = 1 \/ j = 1
    <3>1. \A x \in 1..Len(t) : x = 1 \/ x \in 2..Len(t)
      BY <1>2
    <3> QED BY <1>1, <1>5, <1>6, <2>1, <3>1
  <2>2. CASE h # 1 /\ j # 1
    <3>1. h \in 2..Len(t) /\ j \in 2..Len(t)
      BY <1>2, <2>2
    <3>2. from(h) = from(j)
      <4> HIDE DEF from
      <4> QED BY <1>4, <1>6, <3>1 DEF Fronts, OneEach
    <3> QED BY <1>1, <1>4, <3>1, <3>2
  <2> QED BY <2>1, <2>2
<1>7. ASSUME NEW j \in 1..Len(t) PROVE t[j] = a \/ \E p \in 1..n : s[p] # a /\ t[j] = s[p]
  <2>1. CASE j = 1
    BY <1>1, <2>1
  <2>2. CASE j # 1
    <3>1. j \in 2..Len(t)
      BY <1>2, <2>2
    <3> HIDE DEF from
    <3> QED BY <1>3, <1>4, <3>1
  <2> QED BY <2>1, <2>2
<1>8. ASSUME NEW p \in 1..n PROVE \E j \in 1..Len(t) : t[j] = s[p]
  <2>1. CASE p = i
    BY <1>1, <1>2, <1>3, <2>1
  <2>2. CASE p < i
    <3>1. p + 1 \in 2..Len(t) /\ p + 1 \in 1..Len(t) /\ from(p + 1) = p
      BY <1>1, <2>2
    <3> HIDE DEF from
    <3> QED BY <1>4, <3>1
  <2>3. CASE p > i
    <3>1. p \in 2..Len(t) /\ p \in 1..Len(t) /\ from(p) = p
      BY <1>1, <2>3
    <3> HIDE DEF from
    <3> QED BY <1>4, <3>1
  <2> QED BY <1>1, <2>1, <2>2, <2>3
<1>9. OneEach(t)
  BY <1>6 DEF OneEach
<1>10. 1 \in 1..Len(t)
  BY <1>2
<1> HIDE DEF n, from
<1> QED BY <1>1, <1>2, <1>7, <1>8, <1>9, <1>10, Zenon DEF n

LEMMA ServedOrder ==
    ASSUME CacheTypes, NEW order, Ordered(order), NEW k \in CacheKeys,
           NEW l \in CachedLists, LRU!ListOf(k) = l, NEW i, NEW a, Serves(order[l], l, k, i, a),
           NEW new, new = [order EXCEPT ![l] = PutFirst(order[l], i, a)]
    PROVE  CacheTypes' /\ Ordered(new)'
<1> DEFINE s == order[l]
           t == PutFirst(s, i, a)
           ks == KeysOf(s)
           taken == 1..nextPoolElement - 1
           takenNext == 1..nextPoolElement' - 1
<1>1. ListFacts(l, s)
  BY ListOfOrder
<1>2. Asks(k) /\ UNCHANGED <<capacityLists, capacityEntries>> /\ asked' = asked \cup {k}
  BY DEF Serves, Asks
<1>3. CachedLists' = CachedLists /\ LRU!Capacity' = LRU!Capacity /\ CacheLinks' = CacheLinks
  BY <1>2 DEF CachedLists, LRU!Capacity, CacheLinks
<1>4. /\ capacityEntries \in Nat /\ LRU!Capacity \in Nat
      /\ nextPoolElement \in 1..LRU!Capacity + 1
      /\ data \in [1..LRU!Capacity -> {0} \cup CacheKeys] /\ asked \subseteq CacheKeys
  BY DEF CacheTypes
<1>5. /\ Len(s) \in Nat /\ Len(s) <= capacityEntries /\ OneEach(s) /\ Len(ks) = Len(s)
      /\ \A j \in 1..Len(s) : s[j] \in taken /\ ks[j] = data[s[j]]
  BY <1>1 DEF ListFacts
<1>6. /\ i \in 1..Len(s) + 1 /\ a \in 1..LRU!Capacity
      /\ i <= Len(s) => a = s[i] /\ nextPoolElement' = nextPoolElement
      /\ i > Len(s) => /\ a = nextPoolElement /\ nextPoolElement' = nextPoolElement + 1
                       /\ Len(s) < capacityEntries
  <2>1. GoesFirst(ks, i, k)
    BY DEF Serves
  <2> HIDE DEF ks, s
  <2>2. i \in 1..Len(s) + 1 /\ (i > Len(s) => Len(s) < capacityEntries)
    BY <1>5, <2>1 DEF GoesFirst
  <2> QED BY <2>2 DEF Serves, s
<1>7. CacheTypes'
  <2>1. nextPoolElement' \in 1..LRU!Capacity + 1
    BY <1>4, <1>5, <1>6
  <2>2. /\ next' \in CacheLinks /\ next'[0] = 0 /\ data' \in [1..LRU!Capacity -> {0} \cup CacheKeys]
    BY DEF Serves
  <2>3. asked' \subseteq CacheKeys
    BY <1>2, <1>4
  <2>4. /\ capacityLists' \in Nat /\ capacityLists' >= 1
        /\ capacityEntries' \in Nat /\ capacityEntries' >= 1
        /\ LRU!Capacity' \in Nat /\ capacityEntries' <= LRU!Capacity'
    BY <1>2, <1>3 DEF CacheTypes
  <2> QED BY <1>2, <1>3, <2>1, <2>2, <2>3, <2>4 DEF CacheTypes, CacheLinks
<1>8. /\ taken \subseteq takenNext /\ a \in takenNext
      /\ \A n \in takenNext : n \in taken \/ n = a
      /\ i > Len(s) => a \notin taken
      /\ takenNext \subseteq 1..LRU!Capacity
  BY <1>4, <1>5, <1>6
<1> HIDE DEF taken, takenNext
<1>9. \A m \in CachedLists : order[m] \in Seq(taken) /\ order[m] \in Seq(takenNext)
  <2>1. \A m \in CachedLists : order[m] \in Seq(taken)
    BY DEF Ordered, taken
  <2> QED BY <1>8, <2>1, SeqMonotonic
<1>10. t \in Seq(takenNext) /\ IsPutFirst(t, s, i, a)
  <2>1. i \in 1..Len(s) + 1
    BY <1>6
  <2>2. s \in Seq(takenNext)
    BY <1>9
  <2> HIDE DEF s
  <2> QED BY <1>8, <2>1, <2>2, SequencePutFirst
<1>11. Fronts(t, s, i, a)
  BY <1>5, <1>6, <1>8, <1>10 DEF Fronts
<1>12. /\ OneEach(t) /\ Len(t) \in Nat /\ 1 \in 1..Len(t) /\ t[1] = a
       /\ \A j \in 1..Len(t) : t[j] = a \/ \E p \in 1..Len(s) : s[p] # a /\ t[j] = s[p]
       /\ \A p \in 1..Len(s) : \E j \in 1..Len(t) : t[j] = s[p]
  <2> HIDE DEF s, t
  <2> QED BY <1>11, FrontKeepsAll
<1>13. /\ new \in [CachedLists -> Seq(takenNext)] /\ new[l] = t
       /\ \A m \in CachedLists : m # l => new[m] = order[m]
  <2>1. order \in [CachedLists -> Seq(taken)]
    BY DEF Ordered, taken
  <2>2. order \in [CachedLists -> Seq(takenNext)]
    BY <1>9, <2>1
  <2> HIDE DEF t
  <2> QED BY <1>10, <2>2 DEF t
<1>14. \A m \in CachedLists : m # l =>
         \A j \in 1..Len(order[m]) : /\ order[m][j] \in taken /\ order[m][j] # a
                                     /\ \A p \in 1..Len(s) : order[m][j] # s[p]
  <2> TAKE m \in CachedLists
  <2> HAVE m # l
  <2> TAKE j \in 1..Len(order[m])
  <2>1. order[m][j] \in taken
    BY <1>9, ElementOfSeq
  <2>2. \A p \in 1..Len(s) : order[m][j] # s[p]
    BY DEF Ordered, HaveOnePlace
  <2>3. order[m][j] # a
    BY <1>5, <1>6, <1>8, <2>1, <2>2
  <2> QED BY <2>1, <2>2, <2>3
<1>15. \A m \in CachedLists : Linked(next', m, new[m])
  <2> TAKE m \in CachedLists
  <2>1. CASE m = l
    BY <1>13, <2>1 DEF Serves
  <2>2. CASE m # l
    <3>1. new[m] = order[m] /\ Linked(next, m, order[m])
      BY <1>13, <2>2 DEF Ordered
    <3>2. \A n \in -capacityLists..LRU!Capacity :
            n # -1 - l /\ n # a /\ (\A j \in 1..Len(s) : n # s[j]) => next'[n] = next[n]
      BY DEF Serves, OthersLinked
    <3>3. /\ capacityLists \in Nat /\ l \in Nat /\ m \in Nat /\ m < capacityLists
      BY DEF CacheTypes, CachedLists
    <3>4. next'[-1 - m] = next[-1 - m]
      <4>1. -1 - m \in -capacityLists..LRU!Capacity /\ -1 - m # -1 - l
        BY <1>4, <2>2, <3>3
      <4>2. \A n \in 1..LRU!Capacity : -1 - m # n
        BY <3>3
      <4>3. \A j \in 1..Len(s) : s[j] \in 1..LRU!Capacity
        BY <1>5, <1>8
      <4> QED BY <1>6, <3>2, <4>1, <4>2, <4>3
    <3>5. \A j \in 1..Len(order[m]) : next'[order[m][j]] = next[order[m][j]]
      <4> TAKE j \in 1..Len(order[m])
      <4>1. order[m][j] \in 1..LRU!Capacity /\ order[m][j] # a /\ \A p \in 1..Len(s) : order[m][j] # s[p]
        BY <1>8, <1>14, <2>2
      <4>2. order[m][j] \in -capacityLists..LRU!Capacity /\ order[m][j] # -1 - l
        BY <1>4, <3>3, <4>1
      <4> QED BY <3>2, <4>1, <4>2
    <3> QED BY <3>1, <3>4, <3>5 DEF Linked
  <2> QED BY <2>1, <2>2
<1>16. ASSUME NEW m \in CachedLists, NEW q \in CachedLists, NEW h \in 1..Len(new[m]),
              NEW j \in 1..Len(new[q]), new[m][h] = new[q][j]
       PROVE  m = q /\ h = j
  <2>1. CASE m = l /\ q = l
    BY <1>12, <1>13, <1>16, <2>1 DEF OneEach
  <2>2. CASE m = l /\ q # l
    BY <1>12, <1>13, <1>14, <1>16, <2>2
  <2>3. CASE m # l /\ q = l
    BY <1>12, <1>13, <1>14, <1>16, <2>3
  <2>4. CASE m # l /\ q # l
    <3>1. new[m] = order[m] /\ new[q] = order[q]
      BY <1>13, <2>4
    <3> QED BY <1>16, <3>1 DEF Ordered, HaveOnePlace
  <2> QED BY <2>1, <2>2, <2>3, <2>4
<1>17. ASSUME NEW n \in takenNext
       PROVE  \E m \in CachedLists : \E j \in 1..Len(new[m]) : new[m][j] = n
  <2>1. CASE n = a
    BY <1>12, <1>13, <2>1
  <2>2. CASE n # a
    <3>1. n \in taken
      BY <1>8, <2>2
    <3>2. PICK m \in CachedLists : \E j \in 1..Len(order[m]) : order[m][j] = n
      BY <3>1 DEF Ordered, HaveOnePlace, taken
    <3>3. PICK p \in 1..Len(order[m]) : order[m][p] = n
      BY <3>2
    <3>4. CASE m = l
      <4>1. p \in 1..Len(s) /\ s[p] = n
        BY <3>3, <3>4
      <4>2. PICK j \in 1..Len(t) : t[j] = s[p]
        BY <1>12, <4>1
      <4> QED BY <1>13, <4>1, <4>2
    <3>5. CASE m # l
      BY <1>13, <3>3, <3>5
    <3> QED BY <3>4, <3>5
  <2> QED BY <2>1, <2>2
<1>18. \A m \in CachedLists : Len(new[m]) <= capacityEntries
  <2> TAKE m \in CachedLists
  <2>1. CASE m = l
    <3>1. Len(t) = IF i <= Len(s) THEN Len(s) ELSE Len(s) + 1
      BY <1>10 DEF IsPutFirst
    <3> HIDE DEF s, t
    <3>2. Len(t) <= capacityEntries
      BY <1>4, <1>5, <1>6, <3>1
    <3> QED BY <1>13, <2>1, <3>2
  <2>2. CASE m # l
    BY <1>13, <2>2 DEF Ordered, HaveOnePlace
  <2> QED BY <2>1, <2>2
<1>19. ASSUME NEW m \in CachedLists PROVE Ranked(m, KeysOf(new[m]))'
  <2>1. Ranked(m, KeysOf(order[m]))
    BY DEF Ordered
  <2>2. \A n \in 1..LRU!Capacity : n # a => data'[n] = data[n]
    BY DEF Serves
  <2>3. CASE m # l
    <3>1. new[m] = order[m]
      BY <1>13, <2>3
    <3>2. \A j \in 1..Len(order[m]) : data'[order[m][j]] = data[order[m][j]]
      BY <1>8, <1>14, <2>2, <2>3
    <3>3. KeysOf(new[m])' = KeysOf(order[m])
      BY <3>1, <3>2 DEF KeysOf
    <3>4. PICK keys : keys = KeysOf(order[m])
      OBVIOUS
    <3>5. Ranked(m, keys)'
      BY <1>2, <2>1, <2>3, <3>4, RankOfOthers
    <3>6. Ranked(m, KeysOf(new[m]))' <=> Ranked(m, keys)'
      BY <3>3, <3>4 DEF Ranked
    <3> QED BY <3>5, <3>6
  <2>4. CASE m = l
    <3>1. PICK keys : keys = KeysOf(new[m])'
      OBVIOUS
    <3>2. keys = [j \in 1..Len(t) |-> data'[t[j]]]
      BY <1>13, <2>4, <3>1 DEF KeysOf
    <3>3. IsPutFirst(keys, ks, i, k)
      <4>1. Len(keys) = Len(t) /\ \A j \in 1..Len(t) : keys[j] = data'[t[j]]
        <5> HIDE DEF t
        <5> QED BY <1>12, <3>2
      <4>2. /\ Len(t) = IF i <= Len(s) THEN Len(s) ELSE Len(s) + 1
            /\ \A j \in 2..Len(t) :
                  /\ j <= i => j - 1 \in 1..Len(s) /\ j - 1 # i /\ t[j] = s[j - 1]
                  /\ j > i => j \in 1..Len(s) /\ j # i /\ t[j] = s[j]
        BY <1>10 DEF IsPutFirst
      <4> HIDE DEF t, ks
      <4>3. keys[1] = k
        BY <1>12, <4>1 DEF Serves
      <4>4. \A p \in 1..Len(s) : p # i => data'[s[p]] = ks[p]
        <5> TAKE p \in 1..Len(s)
        <5> HAVE p # i
        <5>1. s[p] # a
          BY <1>5, <1>6, <1>8 DEF OneEach
        <5>2. s[p] \in 1..LRU!Capacity /\ ks[p] = data[s[p]]
          BY <1>5, <1>8
        <5> QED BY <2>2, <5>1, <5>2
      <4> HIDE DEF s
      <4>5. \A j \in 2..Len(t) : keys[j] = data'[t[j]]
        BY <1>12, <4>1
      <4>6. \A j \in 2..Len(t) :
              /\ j <= i => j - 1 \in 1..Len(s) /\ j - 1 # i /\ keys[j] = ks[j - 1]
              /\ j > i => j \in 1..Len(s) /\ j # i /\ keys[j] = ks[j]
        BY <4>2, <4>4, <4>5
      <4> QED BY <1>5, <4>1, <4>2, <4>3, <4>6 DEF IsPutFirst
    <3>4. GoesFirst(ks, i, k)
      BY DEF Serves
    <3>5. Ranked(l, ks)
      BY <2>1, <2>4
    <3> HIDE DEF ks
    <3>6. PICK before : before = ks
      OBVIOUS
    <3>7. Ranked(l, keys)'
      BY <1>2, <1>4, <3>3, <3>4, <3>5, <3>6, RankAfter
    <3>8. Ranked(m, KeysOf(new[m]))' <=> Ranked(l, keys)'
      BY <2>4, <3>1 DEF Ranked
    <3> QED BY <3>7, <3>8
  <2> QED BY <2>3, <2>4
<1>20. HaveOnePlace(new)'
  <2>1. takenNext = (1..nextPoolElement - 1)'
    BY DEF takenNext
  <2> QED BY <1>2, <1>3, <1>16, <1>17, <1>18, <2>1 DEF HaveOnePlace
<1>21. new \in [CachedLists -> Seq(1..nextPoolElement - 1)]'
  BY <1>3, <1>13 DEF takenNext
<1> QED BY <1>3, <1>7, <1>15, <1>19, <1>20, <1>21 DEF Ordered

\* A table without an entry, as it is built and as Clear() and Reserve() leave it.
LEMMA EmptyIsKept == LRU!Init => CacheIsKept /\ <<capacityLists, capacityEntries>> \in CacheShapes
<1> SUFFICES ASSUME LRU!Init
             PROVE  CacheIsKept /\ <<capacityLists, capacityEntries>> \in CacheShapes
  OBVIOUS
<1>1. PICK s \in CacheShapes :
        /\ capacityLists = s[1] /\ capacityEntries = s[2]
        /\ next = [n \in -s[1]..s[1] * s[2] |-> 0] /\ data = [n \in 1..s[1] * s[2] |-> 0]
        /\ nextPoolElement = 1 /\ asked = {} /\ newer = {}
  BY DEF LRU!Init
<1>2. /\ s[1] \in Nat /\ s[1] >= 1 /\ s[2] \in Nat /\ s[2] >= 1
      /\ s = <<s[1], s[2]>> /\ s[1] * s[2] \in Nat /\ s[2] <= s[1] * s[2]
  BY CacheConstants
<1>3. LRU!Capacity = s[1] * s[2]
  BY <1>1 DEF LRU!Capacity
<1>4. CacheTypes
  <2>1. 0 \in -s[1]..s[1] * s[2] /\ 0 \in 0..s[1] * s[2] /\ 1 \in 1..s[1] * s[2] + 1
    BY <1>2
  <2>2. next \in [-s[1]..s[1] * s[2] -> 0..s[1] * s[2]] /\ next[0] = 0
    BY <1>1, <2>1
  <2>3. data \in [1..s[1] * s[2] -> {0} \cup CacheKeys]
    BY <1>1
  <2> QED BY <1>1, <1>2, <1>3, <2>1, <2>2, <2>3 DEF CacheTypes
<1> DEFINE order == [l \in CachedLists |-> <<>>]
<1>5. \A l \in CachedLists : order[l] = <<>>
  OBVIOUS
<1>6. Len(<<>>) = 0 /\ <<>> \in Seq(1..nextPoolElement - 1)
  BY EmptySeq
<1>7. order \in [CachedLists -> Seq(1..nextPoolElement - 1)]
  BY <1>6
<1>8. \A l \in CachedLists : Linked(next, l, <<>>)
  <2> TAKE l \in CachedLists
  <2>1. -1 - l \in -s[1]..s[1] * s[2]
    BY <1>1, <1>2 DEF CachedLists
  <2>2. next[-1 - l] = 0
    BY <1>1, <2>1
  <2> QED BY <1>6, <2>2 DEF Linked, At
<1>9. HaveOnePlace(order)
  <2>1. 1..nextPoolElement - 1 = {}
    BY <1>1
  <2> HIDE DEF order
  <2> QED BY <1>1, <1>2, <1>5, <1>6, <2>1 DEF HaveOnePlace
<1>10. KeysOf(<<>>) = <<>>
  BY <1>6 DEF KeysOf
<1>11. \A l \in CachedLists : Ranked(l, <<>>)
  BY <1>1, <1>6 DEF Ranked
<1> HIDE DEF order
<1>12. Ordered(order)
  BY <1>5, <1>7, <1>8, <1>9, <1>10, <1>11 DEF Ordered
<1> QED BY <1>1, <1>2, <1>4, <1>12 DEF CacheIsKept

LEMMA EmptiedIsKept == LRU!Init' => (CacheIsKept /\ <<capacityLists, capacityEntries>> \in CacheShapes)'
BY EmptyIsKept, PTL

\* The cache under a stack of log statements is the same one.
LEMMA FramesUseTheCache ==
    /\ \A l : Frames!Entries(l) = LRU!Entries(l)
    /\ \A k : Frames!ListOf(k) = LRU!ListOf(k)
    /\ \A l : Frames!Hook(l) = LRU!Hook(l)
    /\ \A k : Frames!Try(k) <=> LRU!Try(k)
    /\ Frames!Capacity = LRU!Capacity
<1>1. Frames!Capacity = LRU!Capacity
  BY DEF Frames!Capacity, LRU!Capacity
<1>2. /\ \A k : Frames!ListOf(k) = LRU!ListOf(k)
      /\ \A l : Frames!Hook(l) = LRU!Hook(l)
      /\ \A f, n, m : Frames!Link(f, n, m) = LRU!Link(f, n, m)
  BY DEF Frames!ListOf, LRU!ListOf, Frames!Hook, LRU!Hook, Frames!Link, LRU!Link
<1>3. \A l : Frames!Walk(l) = LRU!Walk(l)
  BY DEF Frames!Walk, LRU!Walk, Frames!Hook, LRU!Hook, Frames!Capacity, LRU!Capacity
<1>4. \A l : Frames!Entries(l) = LRU!Entries(l)
  BY <1>1, <1>3 DEF Frames!Entries, LRU!Entries
<1>5. /\ \A l, p, e : Frames!MovedToFront(l, p, e) = LRU!MovedToFront(l, p, e)
      /\ \A l, p, e : Frames!Evicted(l, p, e) = LRU!Evicted(l, p, e)
  BY <1>2 DEF Frames!MovedToFront, LRU!MovedToFront, Frames!Evicted, LRU!Evicted
<1>6. \A k : Frames!Try(k) <=> LRU!Try(k)
  BY <1>2, <1>4, <1>5 DEF Frames!Try, LRU!Try
<1> QED BY <1>1, <1>2, <1>4, <1>6

LEMMA TryIsServed ==
    ASSUME CacheIsKept, NEW k \in CacheKeys, LRU!Try(k)
    PROVE  /\ CacheIsKept'
           /\ UNCHANGED <<capacityLists, capacityEntries>> /\ asked' = asked \cup {k}
           /\ \E s, l, i, a : ListFacts(l, s) /\ LRU!ListOf(k) = l /\ Serves(s, l, k, i, a)
<1>1. CacheTypes /\ LRU!ListOf(k) \in CachedLists
  BY ListIsOne DEF CacheIsKept
<1>2. PICK order : Ordered(order)
  BY DEF CacheIsKept
<1>3. PICK l \in CachedLists : LRU!ListOf(k) = l
  BY <1>1
<1>4. PICK i, a : Serves(order[l], l, k, i, a)
  BY <1>1, <1>2, <1>3, TryServes
<1>5. PICK new : new = [order EXCEPT ![l] = PutFirst(order[l], i, a)]
  OBVIOUS
<1>6. CacheTypes' /\ Ordered(new)'
  BY <1>1, <1>2, <1>3, <1>4, <1>5, ServedOrder
<1>7. ListFacts(l, order[l])
  BY <1>1, <1>2, <1>3, ListOfOrder
<1>8. CacheIsKept'
  BY <1>6 DEF CacheIsKept
<1>9. UNCHANGED <<capacityLists, capacityEntries>> /\ asked' = asked \cup {k}
  BY DEF LRU!Try
<1> QED BY <1>3, <1>4, <1>7, <1>8, <1>9

LEMMA EmptyingKeeps ==
    ASSUME NEW s \in CacheShapes, LRU!Empty(s[1], s[2])
    PROVE  CacheIsKept' /\ <<capacityLists', capacityEntries'>> = s /\ asked' = {}
<1>1. LRU!Init'
  BY DEF LRU!Empty, LRU!Init
<1>2. CacheIsKept'
  BY <1>1, EmptiedIsKept
<1>3. s = <<s[1], s[2]>>
  BY CacheConstants
<1> QED BY <1>2, <1>3 DEF LRU!Empty

LEMMA CacheStepKeeps ==
    ASSUME CacheIsKept, <<capacityLists, capacityEntries>> \in CacheShapes, LRU!Next
    PROVE  CacheIsKept' /\ <<capacityLists, capacityEntries>>' \in CacheShapes
<1>1. ASSUME NEW k \in CacheKeys, LRU!Try(k)
      PROVE  CacheIsKept' /\ <<capacityLists, capacityEntries>>' \in CacheShapes
  BY <1>1, TryIsServed
<1>2. ASSUME NEW s \in CacheShapes, LRU!Reserve(s[1], s[2])
      PROVE  CacheIsKept' /\ <<capacityLists, capacityEntries>>' \in CacheShapes
  BY <1>2, EmptyingKeeps DEF LRU!Reserve
<1>3. CASE LRU!Clear
  <2>1. PICK s \in CacheShapes : s = <<capacityLists, capacityEntries>>
    OBVIOUS
  <2>2. LRU!Empty(s[1], s[2])
    BY <1>3, <2>1 DEF LRU!Clear
  <2> QED BY <2>1, <2>2, EmptyingKeeps
<1> QED BY <1>1, <1>2, <1>3 DEF LRU!Next
-----------------------------------------------------------------------------
FrameRecords == [file : FrameKeys, parsed : Nat, since : SUBSET FrameKeys, cleared : BOOLEAN]

\* The files of the same list that were asked for since a frame was set.
Others(file, since) == {c \in since \ {file} : LRU!ListOf(c) = LRU!ListOf(file)}

\* As long as the cache is not emptied, what is newer than the file of a frame was asked for since,
\* and the file is where it was found, unless a list of others has pushed it out.
Shows(file, parsed, since) ==
    /\ \A c : <<c, file>> \in newer => c \in since
    /\ parsed \in 1..nextPoolElement - 1
    /\ data[parsed] = file \/ Cardinality(Others(file, since)) >= capacityEntries

FrameFits(f) ==
    /\ f \in FrameRecords
    /\ IsFiniteSet(f.since)
    /\ f.cleared \/ Shows(f.file, f.parsed, f.since)

FrameParts ==
    /\ CacheIsKept
    /\ <<capacityLists, capacityEntries>> \in FrameShapes
    /\ asked \subseteq FrameKeys
    /\ callStack \in Seq(FrameRecords)
    /\ \A i \in 1..Len(callStack) : FrameFits(callStack[i])

\* A file is pushed out by the other entries of its full list and the one that comes to it.
LEMMA PushedOut ==
    ASSUME CacheTypes, NEW s, NEW l, ListFacts(l, s), NEW k, LRU!ListOf(k) = l,
           Len(s) = capacityEntries, NEW file, file # k,
           \A j \in 1..Len(s) : data[s[j]] # k,
           data[s[Len(s)]] = file, NEW since, \A c : <<c, file>> \in newer => c \in since,
           IsFiniteSet(since \cup {k})
    PROVE  Cardinality(Others(file, since \cup {k})) >= capacityEntries
<1> DEFINE n == Len(s)
           others == Others(file, since \cup {k})
           h == [j \in 1..n |-> IF j < n THEN data[s[j]] ELSE k]
<1>1. n \in Nat /\ n >= 1 /\ n \in 1..n
  BY DEF CacheTypes, ListFacts
<1>2. \A j \in 1..n : data[s[j]] \in asked /\ LRU!ListOf(data[s[j]]) = l
  <2>1. Len(KeysOf(s)) = n /\ (\A j \in 1..n : KeysOf(s)[j] = data[s[j]]) /\ Ranked(l, KeysOf(s))
    BY DEF ListFacts
  <2> QED BY <2>1 DEF Ranked
<1>3. \A i, j \in 1..n : i < j <=> <<data[s[i]], data[s[j]]>> \in newer
  <2>1. Len(KeysOf(s)) = n /\ (\A j \in 1..n : KeysOf(s)[j] = data[s[j]]) /\ Ranked(l, KeysOf(s))
    BY DEF ListFacts
  <2> QED BY <2>1 DEF Ranked
<1>4. \A i, j \in 1..n : data[s[i]] = data[s[j]] => i = j
  BY DEF ListFacts
<1>5. k \in others
  BY <1>1, <1>2 DEF Others
<1>6. ASSUME NEW j \in 1..n, j < n PROVE data[s[j]] \in others
  <2>1. <<data[s[j]], file>> \in newer
    BY <1>1, <1>3, <1>6
  <2>2. data[s[j]] # file
    BY <1>1, <1>4, <1>6
  <2>3. LRU!ListOf(data[s[j]]) = LRU!ListOf(file)
    BY <1>1, <1>2
  <2> QED BY <2>1, <2>2, <2>3 DEF Others
<1> HIDE DEF others
<1>7. \A j \in 1..n : h[j] = (IF j < n THEN data[s[j]] ELSE k) /\ h[j] \in others
  BY <1>5, <1>6
<1> HIDE DEF h
<1>8. h \in [1..n -> others]
  BY <1>7 DEF h
<1>9. ASSUME NEW i \in 1..n, NEW j \in 1..n, h[i] = h[j] PROVE i = j
  BY <1>1, <1>4, <1>7, <1>9
<1>10. h \in Injection(1..n, others)
  BY <1>8, <1>9, Zenon DEF Injection, IsInjective
<1>11. IsFiniteSet(others)
  <2>1. others \in SUBSET (since \cup {k})
    BY DEF others, Others
  <2> QED BY <2>1, FS_Subset
<1>12. Cardinality(1..n) = n
  BY <1>1, FS_Interval
<1>13. Cardinality(1..n) <= Cardinality(others)
  BY <1>10, <1>11, FS_Injection
<1>14. Cardinality(others) \in Nat
  BY <1>11, FS_CardinalityType
<1> QED BY <1>1, <1>12, <1>13, <1>14 DEF others

\* A frame after a nested statement has asked for a file.
LEMMA AgedShows ==
    ASSUME CacheTypes, NEW s, NEW l, ListFacts(l, s), NEW k, LRU!ListOf(k) = l, NEW i, NEW a,
           Serves(s, l, k, i, a), NEW file, NEW parsed, NEW since, IsFiniteSet(since),
           Shows(file, parsed, since), NEW grown, grown = since \cup {k}
    PROVE  IsFiniteSet(grown) /\ Shows(file, parsed, grown)'
<1>1. Asks(k) /\ GoesFirst(KeysOf(s), i, k)
  BY DEF Serves
<1>2. /\ capacityEntries \in Nat /\ LRU!Capacity \in Nat /\ nextPoolElement \in 1..LRU!Capacity + 1
  BY DEF CacheTypes
<1>3. UNCHANGED <<capacityLists, capacityEntries>> /\ \A c : LRU!ListOf(c)' = LRU!ListOf(c)
  BY <1>1 DEF Asks, LRU!ListOf
<1>4. IsFiniteSet(grown)
  BY FS_AddElement
<1>5. \A c : <<c, file>> \in newer' => c \in grown
  <2>1. /\ \A x, y : x # k /\ y # k => (<<x, y>> \in newer' <=> <<x, y>> \in newer)
        /\ \A x : <<x, k>> \notin newer'
    BY <1>1, NewerAfter
  <2> QED BY <2>1 DEF Shows
<1>6. /\ Len(s) \in Nat /\ Len(KeysOf(s)) = Len(s)
      /\ \A j \in 1..Len(s) : KeysOf(s)[j] = data[s[j]]
  BY DEF ListFacts
<1>7. /\ a \in 1..LRU!Capacity /\ data'[a] = k
      /\ \A n \in 1..LRU!Capacity : n # a => data'[n] = data[n]
      /\ i <= Len(s) => a = s[i] /\ nextPoolElement' = nextPoolElement
      /\ i > Len(s) => a = nextPoolElement /\ nextPoolElement' = nextPoolElement + 1
  BY DEF Serves
<1>8. /\ i \in 1..Len(s) + 1
      /\ \A j \in 1..Len(s) : j # i => data[s[j]] # k
      /\ i <= Len(s) => data[s[i]] = k \/ (Len(s) = capacityEntries /\ i = Len(s))
  <2> DEFINE ks == KeysOf(s)
  <2>1. /\ i \in 1..Len(ks) + 1 /\ (\A j \in 1..Len(ks) : j # i => ks[j] # k)
        /\ i <= Len(ks) => ks[i] = k \/ (Len(ks) = capacityEntries /\ i = Len(ks))
    BY <1>1 DEF GoesFirst
  <2>2. i <= Len(s) => i \in 1..Len(s)
    BY <1>6, <2>1
  <2> HIDE DEF ks
  <2> QED BY <1>6, <2>1, <2>2 DEF ks
<1>9. parsed \in 1..nextPoolElement - 1
  BY DEF Shows
<1>10. parsed \in 1..nextPoolElement' - 1 /\ parsed \in 1..LRU!Capacity
  BY <1>2, <1>6, <1>7, <1>8, <1>9
<1>11. data'[parsed] = file \/ Cardinality(Others(file, grown)) >= capacityEntries
  <2>1. CASE data[parsed] # file
    <3>1. Cardinality(Others(file, since)) >= capacityEntries
      BY <2>1 DEF Shows
    <3>2. Others(file, since) \in SUBSET Others(file, grown)
      BY DEF Others
    <3>3. IsFiniteSet(Others(file, grown))
      <4>1. Others(file, grown) \in SUBSET grown
        BY DEF Others
      <4> QED BY <1>4, <4>1, FS_Subset
    <3>4. /\ IsFiniteSet(Others(file, since))
          /\ Cardinality(Others(file, since)) <= Cardinality(Others(file, grown))
      BY <3>2, <3>3, FS_Subset
    <3>5. Cardinality(Others(file, since)) \in Nat /\ Cardinality(Others(file, grown)) \in Nat
      BY <3>3, <3>4, FS_CardinalityType
    <3> QED BY <1>2, <3>1, <3>4, <3>5
  <2>2. CASE data[parsed] = file /\ (parsed # a \/ file = k)
    BY <1>7, <1>10, <2>2
  <2>3. CASE data[parsed] = file /\ parsed = a /\ file # k
    <3>1. i <= Len(s)
      BY <1>2, <1>6, <1>7, <1>8, <1>9, <2>3
    <3>2. /\ data[s[i]] = file /\ Len(s) = capacityEntries /\ i = Len(s)
          /\ \A j \in 1..Len(s) : data[s[j]] # k
      BY <1>7, <1>8, <2>3, <3>1
    <3>3. \A c : <<c, file>> \in newer => c \in since
      BY DEF Shows
    <3> QED BY <1>4, <2>3, <3>2, <3>3, PushedOut
  <2> QED BY <2>1, <2>2, <2>3
<1>12. Others(file, grown)' = Others(file, grown)
  BY <1>3 DEF Others
<1> QED BY <1>3, <1>4, <1>5, <1>10, <1>11, <1>12 DEF Shows

\* The frame of a new statement.
LEMMA NewFrameShows ==
    ASSUME CacheTypes, NEW s, NEW l, ListFacts(l, s), NEW k, LRU!ListOf(k) = l, NEW i, NEW a,
           Serves(s, l, k, i, a)
    PROVE  \E parsed : parsed = next'[LRU!Hook(l)] /\ parsed \in Nat /\ Shows(k, parsed, {})'
<1>1. \A x : <<x, k>> \notin newer'
  <2>1. Asks(k)
    BY DEF Serves
  <2> QED BY <2>1, NewerAfter
<1>2. GoesFirst(KeysOf(s), i, k) /\ IsPath(s, LRU!Capacity) /\ Len(KeysOf(s)) = Len(s)
  BY DEF Serves, ListFacts
<1>3. Len(s) \in Nat /\ i \in 1..Len(s) + 1 /\ a \in 1..LRU!Capacity
  BY <1>2 DEF GoesFirst, Serves
<1>4. IsPutFirst(PutFirst(s, i, a), s, i, a)
  BY <1>2, <1>3, PathPutFirst
<1>5. PutFirst(s, i, a)[1] = a /\ 1 \in 1..Len(PutFirst(s, i, a))
  BY <1>3, <1>4 DEF IsPutFirst
<1>6. next'[LRU!Hook(l)] = a
  BY <1>5 DEF Serves, Linked, At, LRU!Hook
<1>7. a \in 1..nextPoolElement' - 1 /\ data'[a] = k
  <2>1. /\ i <= Len(s) => a = s[i] /\ nextPoolElement' = nextPoolElement
        /\ i > Len(s) => a = nextPoolElement /\ nextPoolElement' = nextPoolElement + 1
        /\ data'[a] = k
    BY DEF Serves
  <2>2. \A j \in 1..Len(s) : s[j] \in 1..nextPoolElement - 1
    BY DEF ListFacts
  <2>3. nextPoolElement \in 1..LRU!Capacity + 1 /\ LRU!Capacity \in Nat
    BY DEF CacheTypes
  <2> QED BY <1>3, <2>1, <2>2, <2>3
<1>8. Shows(k, a, {})'
  BY <1>1, <1>7 DEF Shows
<1> QED BY <1>3, <1>6, <1>8

LEMMA SettingKeepsFrames ==
    ASSUME FrameParts, NEW k \in FrameKeys, Frames!Set(k)
    PROVE  FrameParts'
<1> DEFINE n == Len(callStack)
           aged == Frames!Aged(k)
<1>1. /\ CacheIsKept /\ <<capacityLists, capacityEntries>> \in FrameShapes /\ asked \subseteq FrameKeys
      /\ callStack \in Seq(FrameRecords) /\ \A j \in 1..n : FrameFits(callStack[j])
  BY DEF FrameParts
<1>2. k \in CacheKeys
  BY CacheConstants
<1>3. /\ LRU!Try(k)
      /\ callStack' = Append(aged, [file |-> k, parsed |-> next'[LRU!Hook(LRU!ListOf(k))],
                                    since |-> {}, cleared |-> FALSE])
  BY FramesUseTheCache DEF Frames!Set
<1>4. /\ CacheIsKept' /\ UNCHANGED <<capacityLists, capacityEntries>> /\ asked' = asked \cup {k}
      /\ \E s, l, i, a : ListFacts(l, s) /\ LRU!ListOf(k) = l /\ Serves(s, l, k, i, a)
  BY <1>1, <1>2, <1>3, TryIsServed
<1>5. PICK s, l, i, a : ListFacts(l, s) /\ LRU!ListOf(k) = l /\ Serves(s, l, k, i, a)
  BY <1>4
<1>6. CacheTypes /\ CacheTypes'
  BY <1>1, <1>4 DEF CacheIsKept
<1>7. n \in Nat /\ DOMAIN callStack = 1..n /\ \A j \in 1..n : callStack[j] \in FrameRecords
  BY <1>1, LenProperties, ElementOfSeq
<1>8. ASSUME NEW j \in 1..n PROVE \E g : g = aged[j] /\ FrameFits(g)'
  <2> DEFINE f == callStack[j]
  <2>1. PICK file, parsed, since, cleared :
          file = f.file /\ parsed = f.parsed /\ since = f.since /\ cleared = f.cleared
    OBVIOUS
  <2>2. /\ f \in FrameRecords /\ f = [file |-> file, parsed |-> parsed, since |-> since, cleared |-> cleared]
        /\ file \in FrameKeys /\ parsed \in Nat /\ since \subseteq FrameKeys /\ cleared \in BOOLEAN
    BY <1>7, <2>1 DEF FrameRecords
  <2>3. IsFiniteSet(since) /\ (cleared \/ Shows(file, parsed, since))
    BY <1>1, <2>1 DEF FrameFits
  <2>4. PICK grown : grown = since \cup {k}
    OBVIOUS
  <2>5. PICK g : g = [file |-> file, parsed |-> parsed, since |-> grown, cleared |-> cleared]
    OBVIOUS
  <2>6. aged[j] = g
    BY <1>7, <2>1, <2>2, <2>4, <2>5 DEF Frames!Aged
  <2>7. IsFiniteSet(grown) /\ (cleared \/ Shows(file, parsed, grown)')
    <3>1. IsFiniteSet(grown)
      BY <2>3, <2>4, FS_AddElement
    <3>2. ~cleared => Shows(file, parsed, grown)'
      BY <1>5, <1>6, <2>3, <2>4, AgedShows
    <3> QED BY <3>1, <3>2
  <2>8. g \in FrameRecords /\ g.file = file /\ g.parsed = parsed /\ g.since = grown /\ g.cleared = cleared
    BY <2>2, <2>4, <2>5 DEF FrameRecords
  <2>9. FrameFits(g)'
    BY <2>7, <2>8 DEF FrameFits
  <2> QED BY <2>6, <2>9
<1>9. DOMAIN aged = 1..n
  BY <1>7 DEF Frames!Aged
<1> HIDE DEF aged
<1>10. PICK parsed : parsed = next'[LRU!Hook(l)] /\ parsed \in Nat /\ Shows(k, parsed, {})'
  BY <1>5, <1>6, NewFrameShows
<1>11. PICK top : top = [file |-> k, parsed |-> parsed, since |-> {}, cleared |-> FALSE]
  OBVIOUS
<1>12. FrameFits(top)'
  <2>1. /\ top \in FrameRecords /\ top.file = k /\ top.parsed = parsed /\ top.since = {}
        /\ top.cleared = FALSE
    BY <1>10, <1>11 DEF FrameRecords
  <2> QED BY <1>10, <2>1, FS_EmptySet DEF FrameFits
<1>13. \A j \in 1..n : aged[j] \in FrameRecords
  BY <1>8 DEF FrameFits
<1>14. aged \in Seq(FrameRecords) /\ Len(aged) = n
  BY <1>7, <1>9, <1>13 DEF aged, Frames!Aged
<1>15. top \in FrameRecords
  BY <1>12 DEF FrameFits
<1>16. callStack' = Append(aged, top)
  BY <1>3, <1>5, <1>10, <1>11
<1>17. /\ callStack' \in Seq(FrameRecords) /\ Len(callStack') = n + 1
       /\ \A j \in 1..n : callStack'[j] = aged[j]
       /\ callStack'[n + 1] = top
  BY <1>7, <1>14, <1>15, <1>16
<1>18. ASSUME NEW j \in 1..n + 1 PROVE FrameFits(callStack[j])'
  <2>1. \E g : g = callStack'[j] /\ FrameFits(g)'
    <3>1. CASE j \in 1..n
      BY <1>8, <1>17, <3>1
    <3>2. CASE j = n + 1
      BY <1>12, <1>17, <3>2
    <3> QED BY <1>7, <3>1, <3>2
  <2>2. PICK g : g = callStack'[j] /\ FrameFits(g)'
    BY <2>1
  <2> QED BY <2>2 DEF FrameFits
<1>19. asked' \subseteq FrameKeys
  BY <1>1, <1>4
<1> QED BY <1>1, <1>4, <1>17, <1>18, <1>19 DEF FrameParts

\* The frames after the cache was emptied.
LEMMA EmptyingKeepsFrames ==
    ASSUME FrameParts, NEW s \in FrameShapes, Frames!Empty(s[1], s[2]),
           callStack' = Frames!Invalidated
    PROVE  FrameParts'
<1> DEFINE n == Len(callStack)
<1>1. s \in CacheShapes /\ LRU!Empty(s[1], s[2])
  BY CacheConstants DEF Frames!Empty, LRU!Empty
<1>2. CacheIsKept' /\ <<capacityLists', capacityEntries'>> = s /\ asked' = {}
  BY <1>1, EmptyingKeeps
<1>3. n \in Nat /\ DOMAIN callStack = 1..n /\ \A j \in 1..n : callStack[j] \in FrameRecords
  BY LenProperties, ElementOfSeq DEF FrameParts
<1>4. \A j \in 1..n : /\ callStack'[j] \in FrameRecords
                      /\ callStack'[j].since = callStack[j].since /\ callStack'[j].cleared = TRUE
  BY <1>3 DEF Frames!Invalidated, FrameRecords
<1>5. callStack' \in Seq(FrameRecords) /\ Len(callStack') = n
  BY <1>3, <1>4 DEF Frames!Invalidated
<1>6. \A j \in 1..n : IsFiniteSet(callStack[j].since)
  BY DEF FrameParts, FrameFits
<1>7. \A j \in 1..n : FrameFits(callStack[j])'
  BY <1>4, <1>6 DEF FrameFits
<1> QED BY <1>2, <1>5, <1>7 DEF FrameParts

\* Nothing changes if the variables of the cache do not.
LEMMA CacheUnchanged ==
    ASSUME UNCHANGED lruVars
    PROVE  /\ CacheIsKept => CacheIsKept'
           /\ \A f : FrameFits(f) => \E g : g = f /\ FrameFits(g)'
           /\ UNCHANGED <<capacityLists, capacityEntries, asked>>
<1>1. UNCHANGED <<capacityLists, capacityEntries, next, data, nextPoolElement, asked, newer>>
  BY DEF lruVars
<1>2. CachedLists' = CachedLists /\ LRU!Capacity' = LRU!Capacity
  BY <1>1 DEF CachedLists, LRU!Capacity
<1>3. CacheTypes => CacheTypes'
  BY <1>1, <1>2 DEF CacheTypes
<1>4. ASSUME NEW order, Ordered(order) PROVE Ordered(order)'
  <2>1. \A l : Linked(next, l, order[l]) => Linked(next, l, order[l])'
    BY <1>1 DEF Linked, At
  <2>2. HaveOnePlace(order) => HaveOnePlace(order)'
    BY <1>1, <1>2 DEF HaveOnePlace
  <2>3. \A l : KeysOf(order[l])' = KeysOf(order[l])
    BY <1>1 DEF KeysOf
  <2>4. \A l, ks : Ranked(l, ks) => Ranked(l, ks)'
    BY <1>1 DEF Ranked, LRU!ListOf
  <2>5. \A l : Ranked(l, KeysOf(order[l])) => Ranked(l, KeysOf(order[l]))'
    <3> TAKE l
    <3>1. PICK ks : ks = KeysOf(order[l])
      OBVIOUS
    <3>2. Ranked(l, ks) => Ranked(l, ks)'
      BY <2>4
    <3>3. KeysOf(order[l])' = ks
      BY <2>3, <3>1
    <3> QED BY <3>1, <3>2, <3>3 DEF Ranked
  <2> QED BY <1>1, <1>2, <1>4, <2>1, <2>2, <2>5 DEF Ordered
<1>5. CacheIsKept => CacheIsKept'
  BY <1>3, <1>4 DEF CacheIsKept
<1>6. ASSUME NEW f, FrameFits(f) PROVE FrameFits(f)'
  BY <1>1, <1>6 DEF FrameFits, Shows, Others, LRU!ListOf
<1> QED BY <1>1, <1>5, <1>6

\* The frames that stay, while the cache does not change.
LEMMA StayingFrames ==
    ASSUME FrameParts, UNCHANGED lruVars, NEW n \in 0..Len(callStack),
           callStack' \in Seq(FrameRecords), Len(callStack') = n,
           \A j \in 1..n : callStack'[j] = callStack[j]
    PROVE  FrameParts'
<1>1. Len(callStack) \in Nat
  BY LenProperties DEF FrameParts
<1>2. ASSUME NEW j \in 1..n PROVE FrameFits(callStack[j])'
  <2>1. PICK f : f = callStack[j]
    OBVIOUS
  <2>2. FrameFits(f)
    BY <1>1, <2>1 DEF FrameParts
  <2>3. FrameFits(f)' /\ f = callStack'[j]
    BY <2>1, <2>2, CacheUnchanged
  <2> QED BY <2>3 DEF FrameFits
<1> QED BY <1>2, CacheUnchanged DEF FrameParts

LEMMA FirstOfSequence ==
    ASSUME NEW S, NEW s \in Seq(S), NEW n \in Nat, n = Len(s), n >= 1
    PROVE  /\ SubSeq(s, 1, n - 1) \in Seq(S) /\ Len(SubSeq(s, 1, n - 1)) = n - 1
           /\ \A j \in 1..n - 1 : SubSeq(s, 1, n - 1)[j] = s[j]
<1>1. PICK m \in Int : m = n - 1 /\ 1 \in Int
  OBVIOUS
<1>2. \A j \in 1..m : s[j] \in S
  BY <1>1, ElementOfSeq
<1>3. SubSeq(s, 1, m) \in Seq(S) /\ Len(SubSeq(s, 1, m)) = IF 1 <= m THEN m - 1 + 1 ELSE 0
  BY <1>1, <1>2, SubSeqProperties
<1>4. \A j \in 1..m - 1 + 1 : SubSeq(s, 1, m)[j] = s[1 + j - 1]
  BY <1>1, <1>2, SubSeqProperties
<1>5. m - 1 + 1 = m /\ m >= 0 /\ \A j \in 1..m : 1 + j - 1 = j
  BY <1>1
<1> QED BY <1>1, <1>3, <1>4, <1>5

LEMMA PoppingKeepsFrames == ASSUME FrameParts, Frames!PopNestedScope PROVE FrameParts'
<1> DEFINE n == Len(callStack)
<1>1. callStack # <<>> /\ callStack' = SubSeq(callStack, 1, n - 1)
  BY DEF Frames!PopNestedScope, Frames!Front
<1>2. UNCHANGED lruVars
  BY DEF Frames!PopNestedScope, Frames!lruVars, lruVars
<1>3. callStack \in Seq(FrameRecords) /\ n \in Nat /\ n >= 1
  BY <1>1, EmptySeq DEF FrameParts
<1>4. 1 \in 1..n + 1 /\ n - 1 \in 0..n /\ n - 1 - 1 + 1 = n - 1
  BY <1>3
<1>5. /\ callStack' \in Seq(FrameRecords) /\ Len(callStack') = n - 1
      /\ \A j \in 1..n - 1 : callStack'[j] = callStack[j]
  BY <1>1, <1>3, FirstOfSequence
<1> QED BY <1>2, <1>4, <1>5, StayingFrames

LEMMA FramesStepKeeps == ASSUME FrameParts, Frames!FramesNext PROVE FrameParts'
<1>1. ASSUME NEW s \in FrameShapes, Frames!SetFileNameCacheCapacity(s[1], s[2])
      PROVE  FrameParts'
  BY <1>1, EmptyingKeepsFrames DEF Frames!SetFileNameCacheCapacity, Frames!Reserve
<1>2. CASE Frames!SetSourcePathTrimRule
  <2>1. PICK s \in FrameShapes : s = <<capacityLists, capacityEntries>>
    BY DEF FrameParts
  <2>2. Frames!Empty(s[1], s[2]) /\ callStack' = Frames!Invalidated
    BY <1>2, <2>1 DEF Frames!SetSourcePathTrimRule, Frames!Clear
  <2> QED BY <2>1, <2>2, EmptyingKeepsFrames
<1> QED BY <1>1, <1>2, SettingKeepsFrames, PoppingKeepsFrames DEF Frames!FramesNext

CacheInv ==
    /\ component = "LRUCacheTable" =>
         CacheIsKept /\ <<capacityLists, capacityEntries>> \in CacheShapes
    /\ component = "ScopeInfo" => FrameParts

LEMMA InitCache == DataInit => CacheInv
<1> SUFFICES ASSUME DataInit PROVE CacheInv
  OBVIOUS
<1>1. CASE component = "LRUCacheTable"
  <2>1. LRU!Init
    BY <1>1 DEF DataInit
  <2> QED BY <1>1, <2>1, EmptyIsKept DEF CacheInv
<1>2. CASE component = "ScopeInfo"
  <2>1. Frames!Init /\ callStack = <<>>
    BY <1>2 DEF DataInit, Frames!FramesInit
  <2>2. LRU!Init
    BY <2>1, CacheConstants DEF Frames!Init, LRU!Init
  <2>3. \A s \in FrameShapes : s = <<s[1], s[2]>>
    BY CacheConstants
  <2>4. <<capacityLists, capacityEntries>> \in FrameShapes /\ asked = {}
    BY <2>1, <2>3 DEF Frames!Init
  <2>5. callStack \in Seq(FrameRecords) /\ Len(callStack) = 0
    BY <2>1, EmptySeq
  <2> QED BY <1>2, <2>2, <2>4, <2>5, EmptyIsKept DEF CacheInv, FrameParts
<1> QED BY <1>1, <1>2 DEF CacheInv

LEMMA StepKeepsCache == ASSUME CacheInv, [DataNext]_dataVars PROVE CacheInv'
<1>1. /\ component' = component
      /\ component = "LRUCacheTable" => LRU!Next \/ UNCHANGED lruVars
      /\ component = "ScopeInfo" => Frames!FramesNext \/ UNCHANGED <<lruVars, callStack>>
  BY DEF DataNext, dataVars, OnlyData, Rest
<1>2. CASE component = "LRUCacheTable"
  <2>1. CacheIsKept /\ <<capacityLists, capacityEntries>> \in CacheShapes
    BY <1>2 DEF CacheInv
  <2>2. CacheIsKept' /\ <<capacityLists, capacityEntries>>' \in CacheShapes
    <3>1. CASE LRU!Next
      BY <2>1, <3>1, CacheStepKeeps
    <3>2. CASE UNCHANGED lruVars
      BY <2>1, <3>2, CacheUnchanged
    <3> QED BY <1>1, <1>2, <3>1, <3>2
  <2> QED BY <1>1, <1>2, <2>2 DEF CacheInv
<1>3. CASE component = "ScopeInfo"
  <2>1. FrameParts
    BY <1>3 DEF CacheInv
  <2>2. CASE Frames!FramesNext
    BY <1>1, <1>3, <2>1, <2>2, FramesStepKeeps DEF CacheInv
  <2>3. CASE UNCHANGED <<lruVars, callStack>>
    <3>1. Len(callStack) \in Nat /\ callStack \in Seq(FrameRecords)
      BY <2>1, LenProperties DEF FrameParts
    <3>2. Len(callStack) \in 0..Len(callStack) /\ callStack' = callStack /\ UNCHANGED lruVars
      BY <2>3, <3>1
    <3>3. FrameParts'
      BY <2>1, <3>1, <3>2, StayingFrames
    <3> QED BY <1>1, <1>3, <3>3 DEF CacheInv
  <2> QED BY <1>1, <1>3, <2>2, <2>3
<1> QED BY <1>1, <1>2, <1>3 DEF CacheInv

LEMMA FramesCount == \A S : Frames!Cardinality(S) = Cardinality(S)
BY DEF Frames!Cardinality, Cardinality

LEMMA FramesShowTheirFiles ==
    ASSUME FrameParts
    PROVE  Frames!TypeOK /\ Frames!KeepsTheMostRecent /\ Frames!FrameShowsItsFile
<1>1. CacheIsKept /\ CacheTypes
  BY DEF FrameParts, CacheIsKept
<1>2. Frames!TypeOK
  BY <1>1, FramesUseTheCache DEF FrameParts, CacheTypes, Frames!TypeOK
<1>3. Frames!KeepsTheMostRecent
  <2>1. LRU!KeepsTheMostRecent
    BY <1>1, OrderShows
  <2> QED BY <2>1, FramesUseTheCache DEF LRU!KeepsTheMostRecent, Frames!KeepsTheMostRecent
<1>4. Frames!FrameShowsItsFile
  <2> SUFFICES ASSUME NEW i \in DOMAIN callStack
               PROVE  LET f == callStack[i]
                          others == {k \in f.since \ {f.file} :
                                        Frames!ListOf(k) = Frames!ListOf(f.file)}
                      IN  ~f.cleared /\ Cardinality(others) < capacityEntries
                            => data[f.parsed] = f.file
    BY FramesCount DEF Frames!FrameShowsItsFile
  <2>1. DOMAIN callStack = 1..Len(callStack)
    BY LenProperties DEF FrameParts
  <2>2. FrameFits(callStack[i])
    BY <2>1 DEF FrameParts
  <2>3. PICK f : f = callStack[i]
    OBVIOUS
  <2>4. {k \in f.since \ {f.file} : Frames!ListOf(k) = Frames!ListOf(f.file)} = Others(f.file, f.since)
    BY FramesUseTheCache DEF Others
  <2>5. /\ IsFiniteSet(f.since) 
        /\ f.cleared \/ data[f.parsed] = f.file \/ Cardinality(Others(f.file, f.since)) >= capacityEntries
    BY <2>2, <2>3 DEF FrameFits, Shows
  <2>7. Cardinality(Others(f.file, f.since)) \in Nat
    <3>1. Others(f.file, f.since) \in SUBSET f.since
      BY DEF Others
    <3>2. IsFiniteSet(Others(f.file, f.since))
      BY <2>5, <3>1, FS_Subset
    <3> QED BY <3>2, FS_CardinalityType
  <2>8. capacityEntries \in Nat
    BY <1>1 DEF CacheTypes
  <2> HIDE DEF Others
  <2> QED BY <2>3, <2>4, <2>5, <2>7, <2>8
<1> QED BY <1>2, <1>3, <1>4

\* LRUCacheTable::Try(), Reserve() and Clear(): whatever the keys, their hash values, the shape of
\* the table and the order of calls, each list holds the keys asked for last, the latest first, and
\* each entry of the pool is in one list. ScopeInfo: a frame shows its own file until the statements
\* nested in it have asked for as many others of its list as the list has entries.
THEOREM CacheAlwaysKeepsTheMostRecent == DataSpec => []CacheKeepsTheMostRecent
<1>1. CacheInv => CacheKeepsTheMostRecent
  <2> SUFFICES ASSUME CacheInv PROVE CacheKeepsTheMostRecent
    OBVIOUS
  <2>1. CASE component = "LRUCacheTable"
    <3>1. CacheIsKept /\ <<capacityLists, capacityEntries>> \in CacheShapes
      BY <2>1 DEF CacheInv
    <3>2. LRU!TypeOK
      BY <3>1 DEF CacheIsKept, CacheTypes, LRU!TypeOK
    <3> QED BY <2>1, <3>1, <3>2, OrderShows DEF CacheKeepsTheMostRecent
  <2>2. CASE component = "ScopeInfo"
    BY <2>2, FramesShowTheirFiles DEF CacheInv, CacheKeepsTheMostRecent
  <2> QED BY <2>1, <2>2 DEF CacheKeepsTheMostRecent
<1> QED BY <1>1, InitCache, StepKeepsCache, PTL DEF DataSpec
=============================================================================
