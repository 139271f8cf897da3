------------------------------- MODULE BitBuffer -------------------------------
(* A bit buffer with its BitWriter and its BitReader: a program writes one of  *)
(* Scripts, value by value, may terminate the buffer and go on behind what is *)
(* there, and reads back from some value on.                                  *)
EXTENDS BitCoding

CONSTANTS
    Words,        \* the capacity in words
    Scripts,      \* sequences of what is written, see BitCoding, and of arrays
    WideReads,    \* whether a width known at run time of a word or more is read at all places
    Rewinds       \* whether arrays are compressed with several algorithms at all places

VARIABLES
    data,         \* BitBufferBase::data
    writer,       \* BitWriter: idx and word
    reader,       \* BitReader: idx and word
    script,       \* what the program writes
    written,      \* the index where each value was written
    terminated,   \* the result of Terminate(), while the buffer is terminated
    from, read    \* where reading began, and what was read

vars == <<data, writer, reader, script, written, terminated, from, read>>

BitBufferAssumption == W \in Nat \ {0} /\ Words \in Nat \ {0} /\ {WideReads, Rewinds, DebugCheck} \subseteq BOOLEAN

\* An array, with the algorithms that the program allows for it.
ArrayOf(type, signed, algorithms, value) ==
    [kind |-> "array", type |-> type, signed |-> signed, algorithms |-> algorithms, value |-> value]

WriteOne(w, x) == IF x.kind = "array" THEN Compress(w, x) ELSE WriteItem(w, x)
ReadOne(r, x) == IF x.kind = "array" THEN {Decompress(r, x)} ELSE ReadItem(r, x)

-----------------------------------------------------------------------------
NotYet == [pos |-> -1, bit |-> 0]
Writing == from = 0 /\ terminated = NotYet

\* Nothing is known of the words of a new buffer: all bits are zero, or all are one.
Init ==
    /\ \E bits \in {{}, Word} : data = [p \in 0 .. Words |-> bits]
    /\ writer = [pos |-> 0, bit |-> 0, word |-> {}]
    /\ reader = NotYet
    /\ script \in Scripts
    /\ written = <<>> /\ terminated = NotYet
    /\ from = 0 /\ read = <<>>

Place(rw) == [pos |-> rw.pos, bit |-> rw.bit, word |-> rw.word]
SetWriter(w) == data' = w.data /\ writer' = Place(w)
TheWriter == [data |-> data, pos |-> writer.pos, bit |-> writer.bit, word |-> writer.word]
TheReader == [data |-> data, pos |-> reader.pos, bit |-> reader.bit, word |-> reader.word,
              value |-> {}]

\* Where a width given at run time can be read: if it is a word, from a whole word; if it
\* is more, to the end of one.
Readable(x) == x.kind = "width" /\ x.width >= W /\ ~WideReads =>
                 (IF x.width = W THEN writer.bit ELSE (writer.bit + x.width) % W) = 0

\* Without the flush of the check, Reset() reads again a word that was never stored. An
\* array must not be empty if nothing else is written of it.
Compressible(x) ==
    x.kind = "array" =>
      IF Cardinality(x.algorithms) = 1 THEN x.value # <<>>
      ELSE DebugCheck \/ Rewinds \/ writer.bit = 0

WriteNext ==
    /\ Writing /\ Len(written) < Len(script)
    /\ LET x == script[Len(written) + 1]
       IN  Readable(x) /\ Compressible(x) /\ SetWriter(WriteOne(TheWriter, x))
    /\ written' = Append(written, At(writer))
    /\ UNCHANGED <<reader, script, terminated, from, read>>

\* mutant: the word is always taken for one that goes on
Terminate_next ==
    /\ Writing /\ written # <<>>
    /\ LET w == Flush(WriteNarrow(Writer(Flush(TheWriter).data, At(writer)), 1, {0}))
       IN  /\ data' = w.data
           /\ terminated' = Index(w.pos + 1, 0)
    /\ UNCHANGED <<writer, reader, script, written, from, read>>

\* The writer is destructed, which flushes it, and a bit is written behind its last one.
Terminate ==
    /\ Writing /\ written # <<>>
    /\ LET w == Flush(WriteNarrow(Writer(Flush(TheWriter).data, At(writer)), 1, {0}))
       IN  /\ data' = w.data
           /\ terminated' = IF w.bit = 0 THEN At(w) ELSE Index(w.pos + 1, 0)
    /\ UNCHANGED <<writer, reader, script, written, from, read>>

\* The highest bit of the last word is removed, and a new writer goes on there.
Unterminate ==
    /\ terminated # NotYet
    /\ LET pos   == terminated.pos - 1
           bit   == MSB0(data[pos]) - 1
           words == [data EXCEPT ![pos] = @ \ {bit}]
       IN  SetWriter(Writer(words, Index(pos, bit)))
    /\ terminated' = NotYet
    /\ UNCHANGED <<reader, script, written, from, read>>

\* The writer is destructed and a reader starts at the n-th value.
StartReading(n) ==
    /\ Writing /\ written # <<>> /\ Len(written) = Len(script)
    /\ data' = Flush(TheWriter).data
    /\ reader' = Place(Reader(Flush(TheWriter).data, written[n]))
    /\ from' = n
    /\ UNCHANGED <<writer, script, written, terminated, read>>

ReadNext ==
    /\ from # 0 /\ from + Len(read) <= Len(script)
    /\ \E r \in ReadOne(TheReader, script[from + Len(read)]) :
         reader' = Place(r) /\ read' = Append(read, r.value)
    /\ UNCHANGED <<data, writer, script, written, terminated, from>>

Next ==
    \/ WriteNext
    \/ Terminate
    \/ Unterminate
    \/ \E n \in 1 .. Len(script) : StartReading(n)
    \/ ReadNext

Spec == Init /\ [][Next]_vars
-----------------------------------------------------------------------------
\* Types, and the limits that the code asserts: the index stays in the buffer.
TypeOK ==
    /\ DOMAIN data = 0 .. Words /\ \A p \in DOMAIN data : data[p] \subseteq Word
    /\ writer.pos \in 0 .. Words - 1 /\ writer.bit \in Word
    /\ from # 0 => reader.pos \in 0 .. Words - 1 /\ reader.bit \in Word

\* What is read is what was written, wherever the reader starts and whatever the
\* width and the place of the values before (BitReader::Read against BitWriter::Write).
ReadsWhatWasWritten ==
    \A i \in 1 .. Len(read) : read[i] = script[from + i - 1].value

\* The reader stands where the next value begins: it has consumed as many bits as
\* the writer has produced, with the rest of the word in its place.
ReaderFollowsWriter ==
    from # 0 =>
      LET n == from + Len(read)
          end == IF n <= Len(script) THEN written[n] ELSE At(writer)
      IN  /\ At(reader) = end
          /\ reader.word = Shr(data[reader.pos], reader.bit)

\* A writer holds no bit above its index: the next value would be mixed with it.
NoBitAhead == writer.word \subseteq LowerMask(writer.bit)

\* Terminated, the buffer ends with a bit that is not taken for one of a value, so that
\* Unterminate() goes on where the last value ended.
TerminationIsReversible ==
    terminated # NotYet =>
      /\ terminated.bit = 0
      /\ LET last == data[terminated.pos - 1]
         IN  Index(terminated.pos - 1, MSB0(last) - 1) = At(writer)
=============================================================================
