--------------------------- MODULE PoolAllocator ---------------------------
(* TPoolAllocator: memory of 2^k bytes per block; freed blocks are kept in one stack per size     *)
(* (`hooks`) and reused. A block is a number; what its memory really holds is `heap`.             *)
EXTENDS Integers, Sequences, FiniteSets, Functions, SequencesExt

CONSTANTS
    minimumHookIndex,   \* the exponent of the smallest block (3: a pointer has 2^3 bytes)
    qtyHooks,
    Requests,           \* the sizes asked for
    MaxAllocated        \* bound: blocks taken from the chained allocator

PoolAllocatorAssumption ==
    /\ minimumHookIndex \in Nat /\ qtyHooks \in Nat \ {0} /\ Requests \subseteq Nat \ {0}
    /\ \A s \in Requests : s <= 2 ^ (minimumHookIndex + qtyHooks - 1)
    /\ MaxAllocated \in Nat

VARIABLES
    hooks,      \* the stack of free blocks for each size
    heap,       \* the blocks of the chained allocator, with their true size
    used        \* the blocks of the callers: the size asked for and the size granted

poolVars == <<hooks, heap, used>>

\* lang::MSB(): the number of the highest bit, from 1; LowerMask(n): n bits set.
MSB(n) == CHOOSE k \in 1..n + 1 : 2 ^ (k - 1) <= n /\ n < 2 ^ k

\* mutant: the sizes between two powers are not rounded up
hookIndex_low(size) ==
    IF size < 2 ^ minimumHookIndex THEN 0 ELSE MSB(size) - 1 - minimumHookIndex

hookIndex(size) ==
    IF size < 2 ^ minimumHookIndex THEN 0
    ELSE LET msb == MSB(size)
         IN  (IF size % 2 ^ (msb - 1) = 0 THEN msb - 1 ELSE msb) - minimumHookIndex

GetAllocationSize(i) == 2 ^ (i + minimumHookIndex)

\* A table of blocks f, with what is known of b added.
With(f, b, r) == [x \in DOMAIN f \cup {b} |-> IF x = b THEN r ELSE f[x]]

Init ==
    /\ hooks = [i \in 0..qtyHooks - 1 |-> <<>>]
    /\ heap = <<>>
    /\ used = <<>>

\* AllocateByAllocationInfo(): a recyclable of the size, else memory of the chained allocator.
Fresh == CHOOSE b \in 1..MaxAllocated : b \notin DOMAIN heap

CanTake(i) == hooks[i] # <<>> \/ Cardinality(DOMAIN heap) < MaxAllocated

Taken(i) == IF hooks[i] # <<>> THEN Head(hooks[i]) ELSE Fresh

HooksAfterTake(i) == IF hooks[i] # <<>> THEN [hooks EXCEPT ![i] = Tail(@)] ELSE hooks

HeapAfterTake(i) == IF hooks[i] # <<>> THEN heap ELSE With(heap, Fresh, GetAllocationSize(i))

\* allocate(): the size comes back rounded up, the caller may use all of it.
allocate(size) ==
    LET i == hookIndex(size)
    IN  /\ CanTake(i)
        /\ used' = With(used, Taken(i), [size |-> size, granted |-> GetAllocationSize(i)])
        /\ hooks' = HooksAfterTake(i)
        /\ heap' = HeapAfterTake(i)

\* FreeByAllocationInfo(): pushed to the stack of its size.
Pushed(h, i, b) == [h EXCEPT ![i] = <<b>> \o @]

\* free() with the size that was asked for or the one that was granted.
free(b) ==
    /\ \E s \in {used[b].size, used[b].granted} : hooks' = Pushed(hooks, hookIndex(s), b)
    /\ used' = Restrict(used, DOMAIN used \ {b})
    /\ UNCHANGED heap

\* reallocate(): within the same power of two the block stays, and the size is not rounded up;
\* otherwise the new block is taken before the old one is given back. All of the old size is
\* copied: a block may not be moved to a smaller one.
reallocate(b, newSize) ==
    LET old == hookIndex(used[b].size)
        new == hookIndex(newSize)
    IN  \/ /\ new = old
           /\ used' = [used EXCEPT ![b] = [size |-> newSize, granted |-> newSize]]
           /\ UNCHANGED <<hooks, heap>>
        \/ /\ new > old
           /\ CanTake(new)
           /\ used' = With(Restrict(used, DOMAIN used \ {b}), Taken(new),
                         [size |-> newSize, granted |-> GetAllocationSize(new)])
           /\ hooks' = Pushed(HooksAfterTake(new), old, b)
           /\ heap' = HeapAfterTake(new)

\* Reset() and deletePool(): the free blocks go back to the chained allocator.
Reset ==
    /\ heap' = Restrict(heap, DOMAIN heap \ UNION {ToSet(hooks[i]) : i \in DOMAIN hooks})
    /\ hooks' = [i \in DOMAIN hooks |-> <<>>]
    /\ UNCHANGED used

GetPoolSize(size) == Len(hooks[hookIndex(size)])

Next ==
    \/ \E s \in Requests : allocate(s)
    \/ \E b \in DOMAIN used : free(b)
    \/ \E b \in DOMAIN used, s \in Requests : reallocate(b, s)
    \/ Reset

Spec == Init /\ [][Next]_poolVars

-----------------------------------------------------------------------------
TypeOK ==
    /\ hooks \in [0..qtyHooks - 1 -> Seq(1..MaxAllocated)]
    /\ DOMAIN heap \subseteq 1..MaxAllocated
    /\ DOMAIN used \subseteq 1..MaxAllocated

\* A block has one holder: a caller or one place in one stack. None is handed out twice and none
\* is lost (AllocateByAllocationInfo(), FreeByAllocationInfo(), reallocate(), Reset()).
BlocksHaveOneHolder ==
    /\ \A b \in DOMAIN heap :
         Cardinality({place \in (0..qtyHooks - 1) \X (1..MaxAllocated) :
                        place[2] <= Len(hooks[place[1]]) /\ hooks[place[1]][place[2]] = b})
           + (IF b \in DOMAIN used THEN 1 ELSE 0) = 1
    /\ DOMAIN used \subseteq DOMAIN heap
    /\ \A i \in DOMAIN hooks : ToSet(hooks[i]) \subseteq DOMAIN heap

\* What a caller may use fits into the block, and a free block is in the stack of its true size,
\* so that the next caller gets what it asks for and Reset() gives back what was taken, whether
\* the size asked for or the size granted is named when it is freed.
BlocksFit ==
    /\ \A b \in DOMAIN used : used[b].size <= used[b].granted /\ used[b].granted <= heap[b]
    /\ \A i \in DOMAIN hooks : \A b \in ToSet(hooks[i]) : heap[b] = GetAllocationSize(i)

\* No block is twice as large as needed: the size is rounded up to the next power of two, an exact
\* power of two stays as it is (hookIndex()).
BlocksAreNotOversized ==
    \A b \in DOMAIN used : heap[b] > 2 ^ minimumHookIndex => heap[b] < 2 * used[b].size
=============================================================================
