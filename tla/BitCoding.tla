------------------------------- MODULE BitCoding -------------------------------
(* What BitWriter and BitReader do with one value.  A word and a value are the *)
(* set of the positions of their bits that are one: `|` is \cup, a mask is an *)
(* interval.  All widths are those of the code, with W bits in a word.        *)
EXTENDS Integers, Sequences, FiniteSetsExt, SequencesExt

CONSTANTS
    W,              \* bitsof(TStorage)
    DebugCheck      \* ALIB_DEBUG_ARRAY_COMPRESSION: each result is flushed and read back

Word == 0 .. W - 1
LowerMask(width) == 0 .. width - 1
Shl(bits, n) == {i + n : i \in bits}
Shr(bits, n) == {i - n : i \in {k \in bits : k >= n}}
MSB0(bits) == IF bits = {} THEN 0 ELSE Max(bits) + 1

\* A number that is small enough for the checker, and back.
Bits(n) == {i \in 0 .. 29 : (n \div 2 ^ i) % 2 = 1}
Number(bits) == SumSet({2 ^ i : i \in bits})

Index(pos, bit) == [pos |-> pos, bit |-> bit]
At(rw) == Index(rw.pos, rw.bit)
CountBits(index) == index.pos * W + index.bit

(* What is written and read by one call:                                     *)
(*   fixed     a width known when the code is compiled                       *)
(*   width     a width given at run time, of a type of the size `type`       *)
(*   unsigned  a number of `type` bits, shorter if it is small               *)
(*   signed    the same of a signed number                                    *)
Write(kind, type, width, value) == [kind |-> kind, type |-> type, width |-> width, value |-> value]
Fixed(width, value) == Write("fixed", width, width, value)
Width(type, width, value) == Write("width", type, width, value)
Unsigned(type, value) == Write("unsigned", type, type, value)
Signed(type, value) == Write("signed", type, type, value)

-----------------------------------------------------------------------------
(* BitWriter. The operators take and return a writer together with the data. *)

Writer(words, index) ==
    [data |-> words, pos |-> index.pos, bit |-> index.bit,
     word |-> words[index.pos] \cap LowerMask(index.bit)]

Flush(w) == [w EXCEPT !.data[w.pos] = w.word]

Reset(w, index) == Writer(w.data, index)

\* The word is full: it is stored and the next one starts with rest.
NextWord(w, word, rest) == [w EXCEPT !.data[w.pos] = word, !.pos = @ + 1, !.word = rest]

\* Not more bits than a word has.
WriteNarrow(w, width, value) ==
    LET word == w.word \cup (Shl(value, w.bit) \cap Word)
        bit  == w.bit + width
    IN  IF bit < W THEN [w EXCEPT !.word = word, !.bit = bit]
        ELSE [NextWord(w, word, IF bit = W THEN {} ELSE Shr(value, width - (bit - W)))
                EXCEPT !.bit = bit - W]

\* More bits than a word has: whole words are stored, the last one if it is full.
WriteWide(w, width, value) ==
    LET last    == (w.bit + width - 1) \div W
        bit     == (w.bit + width) % W
        Part(k) == Shr(w.word \cup Shl(value, w.bit), k * W) \cap Word
        Stored  == IF bit = 0 THEN 0 .. last ELSE 0 .. last - 1
    IN  [data |-> [p \in DOMAIN w.data |-> IF p - w.pos \in Stored THEN Part(p - w.pos)
                                           ELSE w.data[p]],
         pos  |-> w.pos + Cardinality(Stored), bit |-> bit,
         word |-> IF bit = 0 THEN {} ELSE Part(last)]

WriteBits(w, width, value) ==
    IF width <= W THEN WriteNarrow(w, width, value) ELSE WriteWide(w, width, value)

\* A number of `type` bits is written with one of these sizes, and a tag that tells which.
Sizes(type) == CASE type = 8  -> <<3, 8>>
                 [] type = 16 -> <<8, 16>>
                 [] type = 32 -> <<8, 16, 24, 32>>
                 [] type = 64 -> <<8, 16, 24, 32, 40, 48, 56, 64>>
TagWidth(type) == CASE type \in {8, 16} -> 1 [] type = 32 -> 2 [] type = 64 -> 3

\* The tag of the largest number is written by a call of its own.
WriteUIntegral(w, type, value) ==
    LET sizes == Sizes(type)
        tag   == SelectInSeq(sizes, LAMBDA s : MSB0(value) <= s)
        tags  == TagWidth(type)
    IN  IF tag = Len(sizes) /\ type \in {32, 64}
        THEN WriteBits(WriteBits(w, tags, Bits(tag - 1)), sizes[tag], value)
        ELSE WriteBits(w, tags + sizes[tag], Bits(tag - 1) \cup Shl(value, tags))

\* A negative number is complemented, and the lowest bit tells its sign.
ZigZag(type, value) ==
    IF type - 1 \in value THEN {0} \cup Shl(LowerMask(type - 1) \ value, 1) ELSE Shl(value, 1)
UnZigZag(type, value) ==
    IF 0 \in value THEN LowerMask(type) \ Shr(value, 1) ELSE Shr(value, 1)

WriteItem(w, x) ==
    CASE x.kind \in {"fixed", "width"} -> WriteBits(w, x.width, x.value)
      [] x.kind = "unsigned"           -> WriteUIntegral(w, x.type, x.value)
      [] x.kind = "signed"             -> WriteUIntegral(w, x.type, ZigZag(x.type, x.value))

WriteAll(w, xs) == FoldLeft(WriteItem, w, xs)

-----------------------------------------------------------------------------
(* BitReader. The operators return the reader with the value it has read.    *)

Reader(words, index) ==
    [data |-> words, pos |-> index.pos, bit |-> index.bit,
     word |-> Shr(words[index.pos], index.bit), value |-> {}]

\* Not more bits than a word has; mask is what the second word contributes to.
ReadNarrow(r, width, mask) ==
    LET bit == r.bit + width
        first == IF width < W THEN r.word \cap LowerMask(width) ELSE r.word
        next == r.data[r.pos + 1]
    IN  IF bit < W THEN [r EXCEPT !.bit = bit, !.word = Shr(r.word, width), !.value = first]
        ELSE [data |-> r.data, pos |-> r.pos + 1, bit |-> bit - W, word |-> Shr(next, bit - W),
              value |-> first \cup (IF bit = W THEN {}
                                    ELSE Shl(next, width - (bit - W)) \cap Word \cap mask)]

\* More bits than a word has; skipped is what the last word is shifted by.
ReadWide(r, width, skipped) ==
    LET last == (r.bit + width - 1) \div W
        bit  == (r.bit + width) % W
        all  == r.word \cup UNION {Shl(r.data[r.pos + k], k * W - r.bit) : k \in 1 .. last}
    IN  IF bit = 0
        THEN [data |-> r.data, pos |-> r.pos + last + 1, bit |-> 0,
              word |-> r.data[r.pos + last + 1], value |-> all]
        ELSE [data |-> r.data, pos |-> r.pos + last, bit |-> bit,
              word |-> Shr(r.data[r.pos + last], skipped), value |-> all \cap LowerMask(width)]

ReadFixed(r, width) ==
    IF width <= W THEN ReadNarrow(r, width, LowerMask(width))
    ELSE ReadWide(r, width, (r.bit + width) % W)

\* With a width given at run time the mask of a whole word, and the shift by more
\* than a word, are not defined: all or nothing, and a shift by the width or by
\* what is left of it in a word.
ReadWidth(r, width) ==
    IF width < W THEN {ReadNarrow(r, width, LowerMask(width))}
    ELSE IF width = W THEN {ReadNarrow(r, width, mask) : mask \in {{}, Word}}
    ELSE {ReadWide(r, width, skipped) : skipped \in {width % W, width}}

\* The first read takes the tag and the smallest size, the second one the rest.
ReadUIntegral(r, type) ==
    LET sizes == Sizes(type)
        tags  == TagWidth(type)
        Rest(low, small, tag) ==
            IF tag = 1 THEN [low EXCEPT !.value = small]
            ELSE [ReadFixed(low, sizes[tag] - sizes[1]) EXCEPT !.value = small \cup Shl(@, sizes[1])]
        Tagged(low) ==
            Rest(low, Shr(low.value, tags),
                 CHOOSE t \in 1 .. Len(sizes) : Bits(t - 1) = low.value \cap LowerMask(tags))
    IN  Tagged(ReadFixed(r, tags + sizes[1]))

\* The reader after one read: a set, as the result may be undefined.
ReadItem(r, x) ==
    CASE x.kind = "fixed"    -> {ReadFixed(r, x.width)}
      [] x.kind = "width"    -> ReadWidth(r, x.width)
      [] x.kind = "unsigned" -> {ReadUIntegral(r, x.type)}
      [] x.kind = "signed"   -> LET u == ReadUIntegral(r, x.type)
                                IN  {[u EXCEPT !.value = UnZigZag(x.type, @)]}
-----------------------------------------------------------------------------
(* ArrayCompressor: arrays of integrals in a bit buffer: six algorithms, each *)
(* given by the sequence of what it writes and by an operator that reads it    *)
(* back, and Compress(), which keeps the shortest result. The elements have    *)
(* `type` bits (8 or 16), fewer than a word has; they are plain numbers here.  *)

Uncompressed == 0
MinMax == 1
Sparse == 2
VerySparse == 3
Incremental == 4
Huffman == 5

\* The bits that the number of bits of a type is written with, and of a length.
Log2OfSize(type) == CASE type = 8 -> 3 [] type = 16 -> 4
LengthBits == 6

BitsOf(n) == MSB0(Bits(n))
Wrapped(type, n) == n % 2 ^ type

\* An array element as an unsigned number, and back.
Get(x, value) == IF ~x.signed THEN value ELSE IF value >= 0 THEN 2 * value ELSE -2 * value - 1
Set(x, n) == IF ~x.signed THEN n ELSE IF n % 2 = 0 THEN n \div 2 ELSE -(n \div 2) - 1
Elements(x) == [i \in DOMAIN x.value |-> Get(x, x.value[i])]

Least(S, otherwise) == IF S = {} THEN otherwise ELSE Min(S)
Most(S) == IF S = {} THEN 0 ELSE Max(S)

\* The limits of the elements, and of the steps upward (or none) and downward.
calcMinMax(type, a) ==
    LET ups   == {a[i + 1] - a[i] : i \in {k \in 1 .. Len(a) - 1 : a[k + 1] >= a[k]}}
        downs == {a[i] - a[i + 1] : i \in {k \in 1 .. Len(a) - 1 : a[k + 1] < a[k]}}
        most  == 2 ^ type - 1
    IN  [min |-> Least(Range(a), most), max |-> Most(Range(a)), maxInc |-> Most(ups), maxDec |-> Most(downs),
         minInc |-> Least(ups, most), minDec |-> Least(downs, 0)]

Num(type, n) == Unsigned(type, Bits(n))
Flag(b) == Fixed(1, IF b THEN {0} ELSE {})

\* A loop that ends when it is done, after `most` rounds at the latest.
While(Todo(_), Round(_), start, most) ==
    FoldLeft(LAMBDA s, i : IF Todo(s) THEN Round(s) ELSE s, start, [i \in 1 .. most |-> i])

-----------------------------------------------------------------------------
(* What the algorithms write.                                                *)

writeUncompressed(type, a) == [i \in DOMAIN a |-> Num(type, a[i])]

writeMinMax(type, a) ==
    LET m      == calcMinMax(type, a)
        bitCnt == BitsOf(Wrapped(type, m.max - m.min))
    IN  <<Fixed(Log2OfSize(type) + 1, Bits(bitCnt)), Num(type, m.min)>>
        \o IF bitCnt = 0 THEN <<>> ELSE [i \in DOMAIN a |-> Width(type, bitCnt, Bits(a[i] - m.min))]

writeSparse(type, a) ==
    FlattenSeq([i \in DOMAIN a |->
        IF i = 1 THEN <<Num(type, a[1])>>
        ELSE IF a[i] = a[i - 1] THEN <<Flag(TRUE)>> ELSE <<Flag(FALSE), Num(type, a[i])>>])

\* The segments of an array: as many equal values as there are, or different ones up to
\* the one that is repeated. The last value is never part of a segment of different ones.
SegmentFrom(a, i) ==
    LET sparse == i < Len(a) /\ a[i] = a[i + 1]
        ends   == {k \in i + 1 .. Len(a) - 1 : (a[k] = a[k + 1]) # sparse} \cup {Len(a)}
    IN  [sparse |-> sparse, first |-> i,
         last |-> IF i = Len(a) \/ sparse THEN Min(ends) ELSE Min(ends) - 1]
Segments(a) ==
    LET From(s) == IF s = <<>> THEN 1 ELSE Last(s).last + 1
    IN  While(LAMBDA s : From(s) <= Len(a), LAMBDA s : Append(s, SegmentFrom(a, From(s))), <<>>, Len(a))

writeVerySparse(type, a) ==
    LET m        == calcMinMax(type, a)
        segments == Segments(a)
        Length(s) == s.last - s.first + 1
        bitCntVal == BitsOf(m.max - m.min)
        bitCntRep == BitsOf(Max({Length(segments[i]) : i \in DOMAIN segments}))
        Size(s)   == Width(64, bitCntRep + 1, Bits(2 * Length(s) + IF s.sparse THEN 0 ELSE 1))
        Value(i)  == Width(type, bitCntVal, Bits(a[i] - m.min))
        Segment(s) == <<Size(s)>> \o IF s.sparse THEN <<Value(s.last)>>
                                     ELSE [j \in 1 .. Length(s) |-> Value(s.first + j - 1)]
    IN  IF a = <<>> THEN <<>>
        ELSE <<Fixed(LengthBits + Log2OfSize(type) + 1, Bits(bitCntRep) \cup Shl(Bits(bitCntVal), LengthBits)),
               Num(type, m.min)>> \o FlattenSeq([i \in DOMAIN segments |-> Segment(segments[i])])

writeIncremental(type, a) ==
    LET m         == calcMinMax(type, a)
        bitCntPos == BitsOf(Wrapped(type, m.maxInc - m.minInc))
        bitCntNeg == BitsOf(Wrapped(type, m.maxDec - m.minDec))
        size      == Log2OfSize(type) + 1
        Step(i)   == IF a[i] = a[i - 1] THEN <<Flag(TRUE)>>
                     ELSE IF a[i] > a[i - 1]
                     THEN <<Flag(FALSE), Flag(TRUE), Width(type, bitCntPos, Bits(a[i] - a[i - 1] - m.minInc))>>
                     ELSE <<Flag(FALSE), Flag(FALSE), Width(type, bitCntNeg, Bits(a[i - 1] - a[i] - m.minDec))>>
    IN  IF Len(a) <= 1 THEN writeUncompressed(type, a)
        ELSE <<Fixed(2 * size, Bits(bitCntPos) \cup Shl(Bits(bitCntNeg), size)),
               Num(type, m.minInc), Num(type, m.minDec), Num(type, a[1])>>
             \o FlattenSeq([i \in 1 .. Len(a) - 1 |-> Step(i + 1)])

\* The bytes of the elements, the highest one first.
BytesOf(type, n) == [i \in 1 .. type \div 8 |-> (n \div 256 ^ (type \div 8 - i)) % 256]

\* A node of the code tree: the codes of the symbols below it, and what the tree is
\* written as: an inner node has a zero before, between and behind its children.
Leaf(symbol, frequency) ==
    [frequency |-> frequency, codes |-> {[symbol |-> symbol, code |-> <<>>]},
     tree |-> <<Fixed(9, {0} \cup Shl(Bits(symbol), 1))>>]
Merge(left, right) ==
    LET Under(bit, node) == {[c EXCEPT !.code = <<bit>> \o @] : c \in node.codes}
    IN  [frequency |-> left.frequency + right.frequency,
         codes |-> Under(FALSE, left) \cup Under(TRUE, right),
         tree |-> <<Flag(FALSE)>> \o left.tree \o <<Flag(FALSE)>> \o right.tree \o <<Flag(FALSE)>>]

\* The two nodes of the least frequency become one; of equal ones the queue takes any.
Rarest(nodes) == CHOOSE n \in nodes : \A m \in nodes : n.frequency <= m.frequency
Generate(bytes) ==
    LET leaves == {Leaf(s, Cardinality({i \in DOMAIN bytes : bytes[i] = s})) : s \in Range(bytes)}
        Merged(nodes) == LET left  == Rarest(nodes)
                             right == Rarest(nodes \ {left})
                         IN  (nodes \ {left, right}) \cup {Merge(left, right)}
    IN  CHOOSE n \in While(LAMBDA nodes : Cardinality(nodes) > 1, Merged, leaves, Cardinality(leaves)) : TRUE

writeHuffman(type, a) ==
    LET bytes == FlattenSeq([i \in DOMAIN a |-> BytesOf(type, a[i])])
        root  == Generate(bytes)
        Code(s) == (CHOOSE c \in root.codes : c.symbol = s).code
        Encoded(s) == Width(32, Len(Code(s)), {i - 1 : i \in {k \in DOMAIN Code(s) : Code(s)[k]}})
    IN  IF a = <<>> THEN <<>> ELSE root.tree \o [i \in DOMAIN bytes |-> Encoded(bytes[i])]

Items(algorithm, type, a) ==
    CASE algorithm = Uncompressed -> writeUncompressed(type, a)
      [] algorithm = MinMax       -> writeMinMax(type, a)
      [] algorithm = Sparse       -> writeSparse(type, a)
      [] algorithm = VerySparse   -> writeVerySparse(type, a)
      [] algorithm = Incremental  -> writeIncremental(type, a)
      [] algorithm = Huffman      -> writeHuffman(type, a)

\* All algorithms asked for are tried, each from the place where the writer was. The shortest
\* result is kept, and written again if another one came after it.
Compress(w, x) ==
    LET a        == Elements(x)
        initial  == At(w)
        multiple == Cardinality(x.algorithms) > 1
        Try(from, algorithm) ==
            WriteAll(from, (IF multiple THEN <<Fixed(3, Bits(algorithm))>> ELSE <<>>)
                             \o Items(algorithm, x.type, a))
        Result(done, algorithm) ==
            [writer |-> IF DebugCheck THEN Flush(done) ELSE done, last |-> algorithm,
             least  |-> CountBits(At(done)) - CountBits(initial), best |-> algorithm]
        Better(t, r) == IF t.last = -1 \/ r.least < t.least THEN r
                        ELSE [r EXCEPT !.least = t.least, !.best = t.best]
        Round(t, algorithm) ==
            Better(t, Result(Try(IF t.last = -1 THEN t.writer ELSE Reset(t.writer, initial), algorithm),
                             algorithm))
        Kept(tried) == Flush(IF tried.best = tried.last THEN tried.writer
                             ELSE Try(Reset(tried.writer, initial), tried.best))
    IN  Kept(FoldLeft(Round, [writer |-> w, last |-> -1], SetToSortSeq(x.algorithms, <)))

-----------------------------------------------------------------------------
(* How it is read back: a reader r goes with the elements read so far.        *)

\* The value of a read, as a number; elements are smaller than a word.
Got(r) == Number(r.value)
RunTime(r, width) == CHOOSE read \in ReadWidth(r, width) : TRUE

Started(r) == [r |-> r, out |-> <<>>]
Put(s, r, n) == [s EXCEPT !.r = r, !.out = Append(@, n)]
PutRead(s, r) == Put(s, r, Got(r))
PutSum(s, r, type, n) == Put(s, r, Wrapped(type, n + Got(r)))
Times(n, Round(_), start) == FoldLeft(LAMBDA s, i : Round(s), start, [i \in 1 .. n |-> i])

readUncompressed(r, type, n) == Times(n, LAMBDA s : PutRead(s, ReadUIntegral(s.r, type)), Started(r))

readMinMax(r, type, n) ==
    LET All(bitCnt, min) ==
            Times(n, LAMBDA s : IF bitCnt = 0 THEN PutRead(s, min)
                                ELSE PutSum(s, RunTime(s.r, bitCnt), type, Got(min)), Started(min))
        Header(cnt) == All(Got(cnt), ReadUIntegral(cnt, type))
    IN  Header(ReadFixed(r, Log2OfSize(type) + 1))

readSparse(r, type, n) ==
    LET Element(s, from) == PutRead(s, ReadUIntegral(from, type))
        Flagged(s, flag) == IF Got(flag) = 1 THEN Put(s, flag, Last(s.out)) ELSE Element(s, flag)
    IN  IF n = 0 THEN Started(r)
        ELSE Times(n - 1, LAMBDA s : Flagged(s, ReadFixed(s.r, 1)), Element(Started(r), r))

readVerySparse(r, type, n) ==
    LET Segment(s, rep, Element(_)) ==
            IF Got(rep) % 2 = 1 THEN Times(Got(rep) \div 2, Element, s)
            ELSE Times(Got(rep) \div 2 - 1, LAMBDA t : Put(t, t.r, Last(t.out)), Element(s))
        Sized(s, rep, Element(_)) == Segment([s EXCEPT !.r = rep], rep, Element)
        Behind(bitCntVal, bitCntRep, min) ==
            While(LAMBDA s : Len(s.out) < n,
                  LAMBDA s : Sized(s, RunTime(s.r, bitCntRep + 1),
                                   LAMBDA t : PutSum(t, RunTime(t.r, bitCntVal), type, Got(min))),
                  Started(min), n)
        Header(cnt) == Behind(Number(Shr(cnt.value, LengthBits)),
                                 Number(cnt.value \cap LowerMask(LengthBits)), ReadUIntegral(cnt, type))
    IN  IF n = 0 THEN Started(r) ELSE Header(ReadFixed(r, LengthBits + Log2OfSize(type) + 1))

readIncremental(r, type, n) ==
    LET size  == Log2OfSize(type) + 1
        Less(s, diff, h) == Put(s, diff, Wrapped(type, Last(s.out) - h.down - Got(diff)))
        Changed(s, posNeg, h) == IF Got(posNeg) = 1
                                 THEN PutSum(s, RunTime(posNeg, h.bitCntPos), type, Last(s.out) + h.up)
                                 ELSE Less(s, RunTime(posNeg, h.bitCntNeg), h)
        Element(s, equal, h) == IF Got(equal) = 1 THEN Put(s, equal, Last(s.out))
                                ELSE Changed(s, ReadFixed(equal, 1), h)
        All(first, h) == Times(n - 1, LAMBDA s : Element(s, ReadFixed(s.r, 1), h),
                                    PutRead(Started(first), first))
        Limits(cnt, up, down) ==
            All(ReadUIntegral(down, type),
                     [bitCntPos |-> Number(cnt.value \cap LowerMask(size)),
                      bitCntNeg |-> Number(Shr(cnt.value, size)), up |-> Got(up), down |-> Got(down)])
        Upward(cnt, up) == Limits(cnt, up, ReadUIntegral(up, type))
        Header(cnt) == Upward(cnt, ReadUIntegral(cnt, type))
    IN  IF n <= 1 THEN readUncompressed(r, type, n) ELSE Header(ReadFixed(r, 2 * size))

\* The tree is read into the symbols at its leaves. `walked` is the stack of the nodes on
\* the way, with the number of the children read; the way itself is the code. A tree of n
\* symbols takes fewer than 4n rounds.
ReadTree(r, symbols) ==
    LET Pop(t) == [t EXCEPT !.walked = Front(@), !.way = IF @ = <<>> THEN @ ELSE Front(@)]
        Push(t) == [t EXCEPT !.way = Append(@, Last(t.walked) = 1),
                             !.walked = Append(Append(Front(@), Last(@) + 1), 0)]
        Found(t, symbol) ==
            Pop([t EXCEPT !.r = symbol, !.leaves = @ \cup {[symbol |-> Got(symbol), code |-> t.way]}])
        Flagged(t, flag) ==
            IF Got(flag) = 1 THEN Found(t, ReadFixed(flag, 8))
            ELSE IF Last(t.walked) < 2 THEN Push([t EXCEPT !.r = flag]) ELSE Pop([t EXCEPT !.r = flag])
    IN  While(LAMBDA t : t.walked # <<>>, LAMBDA t : Flagged(t, ReadFixed(t.r, 1)), [r |-> r, walked |-> <<0>>, way |-> <<>>, leaves |-> {}], 4 * symbols)

\* Bits are read until they lead to a leaf.
Read(r, leaves) ==
    LET Leaves(s) == {l \in leaves : l.code = s.way}
        Step(s, bit) == [r |-> bit, way |-> Append(s.way, Got(bit) = 1)]
        Symbol(end) == [r |-> end.r, symbol |-> (CHOOSE l \in Leaves(end) : TRUE).symbol]
    IN  Symbol(While(LAMBDA s : Leaves(s) = {}, LAMBDA s : Step(s, ReadFixed(s.r, 1)),
                     [r |-> r, way |-> <<>>], Cardinality(leaves)))

readHuffman(r, type, n) ==
    LET Byte(s, one) == [s EXCEPT !.r = one.r, !.value = 256 * @ + one.symbol]
        Element(s, all) == Put(s, all.r, all.value)
        Coded(tree) ==
            Times(n, LAMBDA s : Element(s, Times(type \div 8, LAMBDA t : Byte(t, Read(t.r, tree.leaves)),
                                                 [r |-> s.r, value |-> 0])),
                  Started(tree.r))
    IN  IF n = 0 THEN Started(r) ELSE Coded(ReadTree(r, n * (type \div 8)))

ReadBack(algorithm, r, type, n) ==
    CASE algorithm = Uncompressed -> readUncompressed(r, type, n)
      [] algorithm = MinMax       -> readMinMax(r, type, n)
      [] algorithm = Sparse       -> readSparse(r, type, n)
      [] algorithm = VerySparse   -> readVerySparse(r, type, n)
      [] algorithm = Incremental  -> readIncremental(r, type, n)
      [] algorithm = Huffman      -> readHuffman(r, type, n)

\* The algorithm is read first, unless the caller knows it.
Decompress(r, x) ==
    LET only == Cardinality(x.algorithms) = 1
        tag  == ReadFixed(r, 3)
        Values(got) == [got.r EXCEPT !.value = [i \in DOMAIN x.value |-> Set(x, got.out[i])]]
    IN  Values(ReadBack(IF only THEN CHOOSE algorithm \in x.algorithms : TRUE ELSE Got(tag),
                        IF only THEN r ELSE tag, x.type, Len(x.value)))
=============================================================================
