----------------------------- MODULE HashTable -----------------------------
(* HashTable with Recycling::Private: buckets of forward-linked nodes, a list of recyclable       *)
(* nodes, one ElementHandle that may hold an extracted node. A bucket is the sequence of its      *)
(* nodes; nodes are numbered in the order of their allocation. Two different keys may have the    *)
(* same hash code, and the same key may be stored several times.                                  *)
EXTENDS Integers, Sequences, FiniteSets, Functions, FiniteSetsExt, SequencesExt

CONSTANTS
    Keys,
    THash,              \* the hash code of a key
    PRIME_NUMBERS,      \* the possible bucket counts, increasing
    baseLoadFactor,
    LoadFactors,        \* the values given to MaxLoadFactor(), the first is that of the constructor
    MaxNodes            \* bound: nodes allocated

HashTableAssumption ==
    /\ baseLoadFactor \in Nat \ {0}
    /\ \A k \in Keys : THash[k] \in Nat
    /\ \A i \in DOMAIN LoadFactors : LoadFactors[i] > baseLoadFactor
    /\ PRIME_NUMBERS[1] > 1

VARIABLES
    bucketCount, buckets, size, sizeLimitToRehash, maxLoadFactor,
    key,            \* the key a node holds, 0 when it is recyclable
    recyclables,
    handle,         \* the node of the ElementHandle, 0 if it is empty
    expected        \* how often each key should be found

htVars == <<bucketCount, buckets, size, sizeLimitToRehash, maxLoadFactor, key, recyclables, handle,
            expected>>

\* A new table shares a dummy bucket, which is never written.
Init ==
    /\ bucketCount = 1
    /\ buckets = [b \in {0} |-> <<>>]
    /\ size = 0
    /\ sizeLimitToRehash = 0
    /\ maxLoadFactor = LoadFactors[1]
    /\ key = <<>>
    /\ recyclables = <<>>
    /\ handle = 0
    /\ expected = [k \in Keys |-> 0]

-----------------------------------------------------------------------------
\* insertInBucket(): before the first node of the same key, else at the front of the bucket. ks are
\* the keys of the nodes.
InsertInBucket(ks, bs, n) ==
    LET b == THash[ks[n]] % Cardinality(DOMAIN bs)
        i == SelectInSeq(bs[b], LAMBDA m : ks[m] = ks[n])
    IN  [bs EXCEPT ![b] = InsertAt(@, IF i = 0 THEN 1 ELSE i, n)]

PushFront(ks, bs, n) ==
    [bs EXCEPT ![THash[ks[n]] % Cardinality(DOMAIN bs)] = <<n>> \o @]

\* The elements of a range of buckets, the last bucket first, as rehash() collects them.
Collected(bs) == FoldLeft(LAMBDA all, b : bs[b - 1] \o all, <<>>,
                          [i \in 1..Cardinality(DOMAIN bs) |-> i])

\* mutant: the last bucket is not collected
Rehashed_last(newMin, s) ==
    IF newMin <= bucketCount
    THEN [buckets |-> buckets, limit |-> sizeLimitToRehash]
    ELSE LET count == PRIME_NUMBERS[SelectInSeq(PRIME_NUMBERS, LAMBDA p : p >= newMin)]
             old == Collected([b \in 0..bucketCount - 2 |-> buckets[b]])
         IN  [buckets |-> FoldLeft(LAMBDA bs, n : InsertInBucket(key, bs, n),
                                   [b \in 0..count - 1 |-> <<>>], old),
              limit |-> count * maxLoadFactor]

\* rehash(newMinBucketCount) with s elements. Result: the buckets and the limit.
Rehashed(newMin, s) ==
    IF newMin <= bucketCount
    THEN [buckets |-> buckets, limit |-> sizeLimitToRehash]
    ELSE LET atLeast == Max({newMin, s \div maxLoadFactor})
             count == PRIME_NUMBERS[SelectInSeq(PRIME_NUMBERS, LAMBDA p : p >= atLeast)]
         IN  [buckets |-> FoldLeft(LAMBDA bs, n : InsertInBucket(key, bs, n),
                                   [b \in 0..count - 1 |-> <<>>], Collected(buckets)),
              limit |-> count * maxLoadFactor]

\* increaseSize(1): grows the table when the limit is reached.
Grown ==
    IF size + 1 >= sizeLimitToRehash
    THEN Rehashed(Max({(size + 1) \div baseLoadFactor, bucketCount + 1}), size + 1)
    ELSE Rehashed(0, size + 1)

SetTable(bs, limit) ==
    /\ buckets' = bs
    /\ bucketCount' = Cardinality(DOMAIN bs)
    /\ sizeLimitToRehash' = limit

\* allocElement(): the first recyclable, else a new node.
CanAlloc == recyclables # <<>> \/ Len(key) < MaxNodes

NewNode == IF recyclables # <<>> THEN Head(recyclables) ELSE Len(key) + 1

KeysWith(k) == IF recyclables # <<>> THEN [key EXCEPT ![NewNode] = k] ELSE Append(key, k)

TakeNode(k) ==
    /\ CanAlloc
    /\ key' = KeysWith(k)
    /\ recyclables' = IF recyclables # <<>> THEN Tail(recyclables) ELSE recyclables

\* findElement()
Found(k) ==
    LET b == buckets[THash[k] % bucketCount]
    IN  SelectInSeq(b, LAMBDA n : key[n] = k) # 0

-----------------------------------------------------------------------------
\* Insert() and Emplace(): keys may be stored more than once.
Insert(k) ==
    /\ TakeNode(k)
    /\ LET t == Grown IN SetTable(InsertInBucket(KeysWith(k), t.buckets, NewNode), t.limit)
    /\ size' = size + 1
    /\ expected' = [expected EXCEPT ![k] = @ + 1]
    /\ UNCHANGED <<maxLoadFactor, handle>>

\* InsertUnique() and EmplaceUnique(), which assert that the key is new; InsertIfNotExistent(),
\* InsertOrAssign(), EmplaceIfNotExistent() and EmplaceOrAssign(), which add nothing otherwise.
InsertIfNotExistent(k) ==
    /\ ~Found(k)
    /\ TakeNode(k)
    /\ LET t == Grown IN SetTable(PushFront(KeysWith(k), t.buckets, NewNode), t.limit)
    /\ size' = size + 1
    /\ expected' = [expected EXCEPT ![k] = @ + 1]
    /\ UNCHANGED <<maxLoadFactor, handle>>

\* Insert( ElementHandle& ) and InsertIfNotExistent( ElementHandle& ). The latter searches the
\* bucket of the number hashCode: it may be called only while that is a bucket of the table.
InsertHandle ==
    /\ handle # 0
    /\ LET t == Grown
           k == key[handle]
       IN  /\ \/ SetTable(InsertInBucket(key, t.buckets, handle), t.limit)
              \/ /\ THash[k] < bucketCount /\ ~Found(k)
                 /\ SetTable(PushFront(key, t.buckets, handle), t.limit)
           /\ expected' = [expected EXCEPT ![k] = @ + 1]
    /\ size' = size + 1
    /\ handle' = 0
    /\ UNCHANGED <<maxLoadFactor, key, recyclables>>

\* Extract( key ) or Extract( iterator ), to an ElementHandle that is empty.
Extract(b, i) ==
    /\ handle = 0
    /\ handle' = buckets[b][i]
    /\ buckets' = [buckets EXCEPT ![b] = RemoveAt(@, i)]
    /\ size' = size - 1
    /\ expected' = [expected EXCEPT ![key[buckets[b][i]]] = @ - 1]
    /\ UNCHANGED <<bucketCount, sizeLimitToRehash, maxLoadFactor, key, recyclables>>

\* The key and the value of a node are destructed before it is recycled.
Destructed(nodes) == [n \in DOMAIN key |-> IF n \in nodes THEN 0 ELSE key[n]]

\* The destructor of a handle.
DropHandle ==
    /\ handle # 0
    /\ recyclables' = <<handle>> \o recyclables
    /\ key' = Destructed({handle})
    /\ handle' = 0
    /\ UNCHANGED <<bucketCount, buckets, size, sizeLimitToRehash, maxLoadFactor, expected>>

\* Nodes from position i up to, not including, position j of bucket b are recycled.
Recycle(b, i, j) ==
    /\ recyclables' = SubSeq(buckets[b], i, j - 1) \o recyclables
    /\ buckets' = [buckets EXCEPT ![b] = SubSeq(@, 1, i - 1) \o SubSeq(@, j, Len(@))]
    /\ size' = size - (j - i)
    /\ key' = Destructed(ToSet(SubSeq(buckets[b], i, j - 1)))
    /\ UNCHANGED <<bucketCount, sizeLimitToRehash, maxLoadFactor, handle>>

\* erase( key ) and EraseUnique( key ), which asserts that there is one element of the key: from the
\* first element of the key to the first of another one.
Erase(k) ==
    LET b == THash[k] % bucketCount
        i == SelectInSeq(buckets[b], LAMBDA n : key[n] = k)
        after == SelectInSubSeq(buckets[b], i + 1, Len(buckets[b]), LAMBDA n : key[n] # k)
    IN  /\ i # 0
        /\ Recycle(b, i, IF after = 0 THEN Len(buckets[b]) + 1 ELSE after)
        /\ expected' = [expected EXCEPT ![k] = 0]

ExpectedWithout(nodes) ==
    [k \in Keys |-> expected[k] - Cardinality({n \in nodes : key[n] = k})]

\* erase( local iterators ), and erase( iterators ) within a bucket: an empty range does nothing.
EraseLocal(b, i, j) ==
    /\ i < j
    /\ Recycle(b, i, j)
    /\ expected' = ExpectedWithout(ToSet(SubSeq(buckets[b], i, j - 1)))

\* erase( start, end ) over several buckets: the rest of the first one, all of those between, the
\* first elements of the last one. The range of the last bucket must not be empty, RecycleList()
\* would run past its end; end() is the bucket behind the last one.
EraseRange(b, i, c, j) ==
    LET FirstKept(d) == IF d = c THEN j ELSE Len(buckets[d]) + 1
        From(d) == IF d = b THEN i ELSE 1
        gone == [d \in b..c |-> IF d = bucketCount THEN <<>>
                                ELSE SubSeq(buckets[d], From(d), FirstKept(d) - 1)]
        removed == UNION {ToSet(gone[d]) : d \in b..c}
    IN  /\ b < c
        /\ c < bucketCount => j > 1
        /\ recyclables' = FoldLeft(LAMBDA all, d : gone[d] \o all, recyclables,
                                   [d \in 1..c - b + 1 |-> b + d - 1])
        /\ buckets' = [d \in DOMAIN buckets |->
                          IF d \in b..c
                          THEN SubSeq(buckets[d], 1, From(d) - 1)
                                 \o SubSeq(buckets[d], FirstKept(d), Len(buckets[d]))
                          ELSE buckets[d]]
        /\ size' = size - Cardinality(removed)
        /\ key' = Destructed(removed)
        /\ expected' = ExpectedWithout(removed)
        /\ UNCHANGED <<bucketCount, sizeLimitToRehash, maxLoadFactor, handle>>

\* Clear() keeps the buckets and recycles the nodes.
Clear ==
    /\ size # 0
    /\ recyclables' = Collected(buckets) \o recyclables
    /\ buckets' = [b \in DOMAIN buckets |-> <<>>]
    /\ size' = 0
    /\ key' = Destructed(ToSet(Collected(buckets)))
    /\ expected' = [k \in Keys |-> 0]
    /\ UNCHANGED <<bucketCount, sizeLimitToRehash, maxLoadFactor, handle>>

\* Reset(): the table is destructed, with nodes and recyclables, and constructed again. A handle
\* must not be in use.
Reset ==
    /\ handle = 0
    /\ bucketCount > 1
    /\ bucketCount' = 1
    /\ buckets' = [b \in {0} |-> <<>>]
    /\ size' = 0
    /\ sizeLimitToRehash' = 0
    /\ key' = <<>>
    /\ recyclables' = <<>>
    /\ expected' = [k \in Keys |-> 0]
    /\ UNCHANGED <<maxLoadFactor, handle>>

\* Reserve( qty, Relative ) and ReserveRecyclables( qty, Relative ).
Ceiling(n, d) == (n + d - 1) \div d

Reserve(qty) ==
    /\ LET t == Rehashed(Ceiling(size + qty, baseLoadFactor), size) IN SetTable(t.buckets, t.limit)
    /\ UNCHANGED <<size, maxLoadFactor, key, recyclables, handle, expected>>

ReserveRecyclables(qty) ==
    LET more == qty - Len(recyclables)
    IN  /\ Len(key) + more <= MaxNodes /\ more > 0
        /\ LET t == Rehashed(Ceiling(size + qty, baseLoadFactor), size)
           IN  SetTable(t.buckets, t.limit)
        /\ key' = key \o [i \in 1..more |-> 0]
        /\ recyclables' = [i \in 1..more |-> Len(key) + i] \o recyclables
        /\ UNCHANGED <<size, maxLoadFactor, handle, expected>>

\* MaxLoadFactor(): calls rehash() with the count the table has, which returns at once.
MaxLoadFactor(f) ==
    /\ maxLoadFactor # f
    /\ maxLoadFactor' = f
    /\ UNCHANGED <<bucketCount, buckets, size, sizeLimitToRehash, key, recyclables, handle, expected>>

Positions == UNION {{b} \X DOMAIN buckets[b] : b \in DOMAIN buckets}

Next ==
    \/ \E k \in Keys : Insert(k) \/ InsertIfNotExistent(k) \/ Erase(k)
    \/ InsertHandle
    \/ DropHandle
    \/ \E p \in Positions : Extract(p[1], p[2])
    \/ \E p \in Positions : \E j \in 1..Len(buckets[p[1]]) + 1 : EraseLocal(p[1], p[2], j)
    \/ \E p \in Positions : \E q \in Positions \cup {<<bucketCount, 1>>} :
          EraseRange(p[1], p[2], q[1], q[2])
    \/ Clear
    \/ Reset
    \/ \E qty \in 1..MaxNodes : Reserve(qty) \/ ReserveRecyclables(qty)
    \/ \E i \in DOMAIN LoadFactors : MaxLoadFactor(LoadFactors[i])

Spec == Init /\ [][Next]_htVars

-----------------------------------------------------------------------------
TypeOK ==
    /\ bucketCount \in {1} \cup ToSet(PRIME_NUMBERS)
    /\ DOMAIN buckets = 0..bucketCount - 1
    /\ size \in Nat /\ sizeLimitToRehash \in Nat
    /\ handle \in 0..Len(key)

InTable == UNION {ToSet(buckets[b]) : b \in DOMAIN buckets}

\* The table holds what was put in and not taken out, each element in the bucket of its hash code,
\* however often it was rehashed (rehash(), Erase(), the ranges of erase()); `size` counts it.
HoldsWhatWasInserted ==
    /\ \A b \in DOMAIN buckets : \A n \in ToSet(buckets[b]) : THash[key[n]] % bucketCount = b
    /\ \A k \in Keys : Cardinality({n \in InTable : key[n] = k}) = expected[k]
    /\ size = MapThenSumSet(LAMBDA k : expected[k], Keys)

\* A node is in one bucket, in the handle or recyclable, once.
NodesHaveOnePlace ==
    LET all == Collected(buckets) \o recyclables \o (IF handle = 0 THEN <<>> ELSE <<handle>>)
    IN  Len(all) = Len(key) /\ ToSet(all) = 1..Len(key)

\* Elements of the same key stand side by side, which Erase() and EqualRange() take for granted.
EqualKeysAreAdjacent ==
    \A b \in DOMAIN buckets : \A i, j \in DOMAIN buckets[b] :
        key[buckets[b][i]] = key[buckets[b][j]]
          => \A m \in i..j : key[buckets[b][m]] = key[buckets[b][i]]

\* After an insertion the table is below its limit, so that chains stay short.
SizeIsBelowLimit == size > 0 => size < sizeLimitToRehash
=============================================================================
