--------------------------- MODULE MonoAllocator ---------------------------
(* TMonoAllocator: memory is cut from the front of the current buffer; a buffer that is full is   *)
(* covered by a next one; Reset() puts the buffers above a snapshot onto a list of recyclables.   *)
(* A buffer is a number, given in the order of allocation; an address is an offset from the start *)
(* of its buffer, which the chained allocator aligns for every alignment used.                    *)
EXTENDS Integers, Sequences, FiniteSets, FiniteSetsExt, SequencesExt

CONSTANTS
    Header,             \* sizeof(Buffer): the offset of the first usable byte
    FirstSize,          \* the size of the first buffer
    Growth,             \* bufferGrowthInPercent
    SelfSize,           \* the size of an allocator that lives in its first buffer (Create())
    Sizes, Alignments,  \* what is asked for
    SizeRange,          \* the number of values of size_t
    MaxBuffers, MaxBlocks, MaxSnapshots

VARIABLES
    buffers,                \* per buffer: act, the next free byte, and end, the first one behind
    chain,                  \* the buffers in use, the current one first (field `previous`)
    recyclables,            \* the recyclable buffers, in the order of the list
    nextBuffersUsableSize,
    self,                   \* the allocator lives in the first buffer
    external,               \* the first buffer was given by the user (a local one on the stack)
    blocks,                 \* the memory in use by the caller
    snapshots,              \* the valid snapshots, the oldest first, each with the blocks it covers
    freed                   \* after destruction: the buffers given back, in order

monoVars == <<buffers, chain, recyclables, nextBuffersUsableSize, self, external, blocks, snapshots,
              freed>>

firstOffset(firstObject, alignment) == ((firstObject + alignment - 1) \div alignment) * alignment

\* With a growth by whole buffers and sizes that are multiples of the alignments, as sizeof()
\* is, buffers end aligned: what is aligned never lies behind the end (see fits).
BuffersEndAligned ==
    /\ Growth % 100 = 0
    /\ \A a \in Alignments :
        /\ FirstSize % a = 0
        /\ \A s \in Sizes, b \in Alignments : (s + firstOffset(Header, b) + b) % a = 0

MonoAllocatorAssumption ==
    /\ Header \in Nat /\ FirstSize \in Nat /\ SelfSize \in Nat \ {0} /\ FirstSize > Header + SelfSize
    /\ Growth \in Nat /\ Growth >= 100 /\ SizeRange \in Nat \ {0}
    /\ Sizes \subseteq Nat \ {0} /\ Alignments \subseteq {1, 2, 4}
    /\ BuffersEndAligned

NewBuffer(size) == [act |-> Header, end |-> size]

\* Buffer::allocate(). The difference of two pointers is cast to size_t before it is compared.
aligned(b, alignment) == firstOffset(b.act, alignment)

fits(b, size, alignment) == (b.end - aligned(b, alignment)) % SizeRange >= size

Block(i, b, size, alignment) ==
    [buffer |-> i, at |-> aligned(b, alignment), size |-> size, alignment |-> alignment]

Filled(b, size, alignment) == [b EXCEPT !.act = aligned(b, alignment) + size]

Init ==
    /\ self \in BOOLEAN
    /\ external \in BOOLEAN
    /\ self => ~external
    /\ LET b == NewBuffer(FirstSize)
       IN  IF self
           THEN /\ buffers = <<Filled(b, SelfSize, 1)>>
                /\ blocks = {Block(1, b, SelfSize, 1)}
           ELSE /\ buffers = <<b>>
                /\ blocks = {}
    /\ chain = <<1>>
    /\ recyclables = <<>>
    /\ nextBuffersUsableSize = (FirstSize * Growth) \div 100
    /\ snapshots = <<>>
    /\ freed = <<>>

Alive == chain # <<>>

-----------------------------------------------------------------------------
\* The buffer an allocation is served from: the current one, else the first recyclable that fits,
\* else a new one (nextBuffer()). A request above the size of the next buffer gets a buffer of its
\* own size, which becomes the current one and does not let the size of the next ones grow.
Required(size, alignment) == size + firstOffset(Header, alignment)

nextBUS(size, alignment) ==
    IF Required(size, alignment) > nextBuffersUsableSize
    THEN Required(size, alignment) + alignment
    ELSE nextBuffersUsableSize

\* With bs the buffers as they are when allocate() is called; keep are the blocks that stay.
Serve(bs, keep, size, alignment) ==
    LET i == Head(chain)
        r == SelectInSeq(recyclables, LAMBDA j : fits(bs[j], size, alignment))
        Use(all, j) ==
            /\ buffers' = [all EXCEPT ![j] = Filled(@, size, alignment)]
            /\ blocks' = keep \cup {Block(j, all[j], size, alignment)}
    IN  \/ /\ fits(bs[i], size, alignment)
           /\ Use(bs, i)
           /\ UNCHANGED <<chain, recyclables, nextBuffersUsableSize>>
        \/ /\ ~fits(bs[i], size, alignment)
           /\ r # 0
           /\ Use(bs, recyclables[r])
           /\ chain' = <<recyclables[r]>> \o chain
           /\ recyclables' = RemoveAt(recyclables, r)
           /\ UNCHANGED nextBuffersUsableSize
        \/ /\ ~fits(bs[i], size, alignment)
           /\ r = 0
           /\ Len(bs) < MaxBuffers
           /\ LET s == nextBUS(size, alignment)
              IN  /\ Use(Append(bs, NewBuffer(s)), Len(bs) + 1)
                  /\ chain' = <<Len(bs) + 1>> \o chain
                  /\ nextBuffersUsableSize' = IF s = nextBuffersUsableSize
                                              THEN (s * Growth) \div 100
                                              ELSE nextBuffersUsableSize
           /\ UNCHANGED recyclables

allocate(size, alignment) ==
    /\ Alive
    /\ Cardinality(blocks) < MaxBlocks
    /\ Serve(buffers, blocks, size, alignment)
    /\ UNCHANGED <<self, external, snapshots, freed>>

\* mutant: every block of the current buffer is taken for the last one
TakenBack_any(m) ==
    LET i == Head(chain)
    IN  IF m.buffer = i
        THEN [buffers EXCEPT ![i].act = @ - m.size]
        ELSE buffers

\* reallocate() with the alignment the block has. The last block of the current buffer is taken
\* back first, so that it grows in place or leaves its space.
TakenBack(m) ==
    LET i == Head(chain)
    IN  IF m.buffer = i /\ buffers[i].act - m.size = m.at
        THEN [buffers EXCEPT ![i].act = @ - m.size]
        ELSE buffers

reallocate(m, newSize) ==
    /\ Alive
    /\ self => m.at # Header \/ m.buffer # 1
    /\ newSize > m.size
    /\ Serve(TakenBack(m), blocks \ {m}, newSize, m.alignment)
    /\ UNCHANGED <<self, external, snapshots, freed>>

-----------------------------------------------------------------------------
TakeSnapshot ==
    /\ Alive
    /\ Len(snapshots) < MaxSnapshots
    /\ snapshots' = Append(snapshots, [buffer  |-> Head(chain),
                                       actFill |-> buffers[Head(chain)].act,
                                       covers  |-> blocks])
    /\ UNCHANGED <<buffers, chain, recyclables, nextBuffersUsableSize, self, external, blocks, freed>>

\* The buffers above position n of the chain are reset and pushed to the recyclables one by one.
Recycled(n) == Reverse(SubSeq(chain, 1, n - 1)) \o recyclables

ResetBuffers(n, fill) ==
    [i \in DOMAIN buffers |->
        IF i = chain[n] THEN [buffers[i] EXCEPT !.act = fill]
        ELSE IF \E k \in 1..n - 1 : chain[k] = i THEN NewBuffer(buffers[i].end)
        ELSE buffers[i]]

\* Reset(Snapshot): snapshots taken after the given one become invalid.
Reset(k) ==
    LET s == snapshots[k]
        n == SelectInSeq(chain, LAMBDA i : i = s.buffer)
    IN  /\ Alive
        /\ n # 0
        /\ buffers' = ResetBuffers(n, s.actFill)
        /\ chain' = SubSeq(chain, n, Len(chain))
        /\ recyclables' = Recycled(n)
        /\ blocks' = blocks \cap s.covers
        /\ snapshots' = SubSeq(snapshots, 1, k)
        /\ UNCHANGED <<nextBuffersUsableSize, self, external, freed>>

\* Reset() and, for an allocator inside its first buffer, Reset(firstObjectSize, alignment): all
\* buffers but the first are recycled, and in the first one only the first object stays.
ResetAll ==
    LET n == Len(chain)
        fill == IF self THEN Header + SelfSize ELSE Header
    IN  /\ Alive
        /\ buffers' = ResetBuffers(n, fill)
        /\ chain' = SubSeq(chain, n, n)
        /\ recyclables' = Recycled(n)
        /\ blocks' = {m \in blocks : self /\ m.buffer = chain[n] /\ m.at = Header}
        /\ snapshots' = <<>>
        /\ UNCHANGED <<nextBuffersUsableSize, self, external, freed>>

\* destructWithExternalBuffer(), for a first buffer of the user, and the destructor.
Destruct ==
    LET mine == IF external THEN SubSeq(chain, 1, Len(chain) - 1) ELSE chain
    IN  /\ Alive
        /\ freed' = recyclables \o mine
        /\ chain' = <<>>
        /\ recyclables' = <<>>
        /\ blocks' = {}
        /\ snapshots' = <<>>
        /\ UNCHANGED <<buffers, nextBuffersUsableSize, self, external>>

Next ==
    \/ \E s \in Sizes, a \in Alignments : allocate(s, a)
    \/ \E m \in blocks, s \in Sizes : reallocate(m, s)
    \/ TakeSnapshot
    \/ \E k \in DOMAIN snapshots : Reset(k)
    \/ ResetAll
    \/ Destruct

Spec == Init /\ [][Next]_monoVars

-----------------------------------------------------------------------------
TypeOK ==
    /\ buffers \in Seq([act : Nat, end : Nat])
    /\ chain \in Seq(DOMAIN buffers) /\ recyclables \in Seq(DOMAIN buffers)
    /\ nextBuffersUsableSize \in Nat
    /\ self \in BOOLEAN /\ external \in BOOLEAN

\* GetStatistics().AllocSize, waste for alignment included.
AllocSize == MapThenSumSet(LAMBDA k : buffers[chain[k]].act - Header, DOMAIN chain)

\* Every block lies between the header and the end of its buffer and is aligned, whatever was
\* allocated, grown and reset before (Buffer::allocate(), nextBuffer()).
BlocksLieInTheirBuffer ==
    \A m \in blocks :
        /\ m.at >= Header
        /\ m.at + m.size <= buffers[m.buffer].end
        /\ m.at % m.alignment = 0

\* No two blocks in use share memory: growing a block, a reset to a snapshot and the reuse of a
\* recycled buffer give no byte twice (reallocate(), Reset(), nextBuffer()).
BlocksAreDisjoint ==
    \A m, n \in blocks :
        m # n /\ m.buffer = n.buffer => m.at + m.size <= n.at \/ n.at + n.size <= m.at

\* Every buffer ever allocated is in exactly one of the two lists, a recyclable one is empty, and
\* no block in use lies in a recyclable buffer.
BuffersAreListedOnce ==
    Alive => LET all == chain \o recyclables
             IN  /\ Len(all) = Len(buffers) /\ ToSet(all) = DOMAIN buffers
                 /\ \A i \in ToSet(recyclables) : buffers[i].act = Header
                 /\ \A m \in blocks : m.buffer \in ToSet(chain)

\* The destructor gives every buffer back once, and never the one that was given by the user.
DestructFreesAll ==
    ~Alive => /\ IsInjective(freed)
              /\ ToSet(freed) = DOMAIN buffers \ (IF external THEN {1} ELSE {})

\* The statistics never report less than what is in use.
StatisticsCoverBlocks == Alive => AllocSize >= MapThenSumSet(LAMBDA m : m.size, blocks)
=============================================================================
