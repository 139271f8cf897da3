------------------------------ MODULE AString ------------------------------
(* The string buffers of module alib_strings (class TAString): a text with    *)
(* its capacity and a buffer that the string has allocated, has been given    *)
(* from outside, or has lost to another string that was moved from it.  Every *)
(* edit is modelled by what it does to the cells of the buffer; variable text *)
(* says what the edit means for the sequence of characters.                   *)
(* The cells behind the capacity hold the magic byte that the debug builds of *)
(* the code (ALIB_DEBUG_STRINGS) write there.                                 *)
EXTENDS Integers, Sequences, FiniteSets, SequencesExt, TLC

CONSTANTS
    Strings, Edited,    \* the strings, and those that are edited: the others
                        \* are only assigned, moved and destroyed
    Buffers,            \* the names of allocated buffers
    Chars, TrimChars,   \* the characters, and those that Trim removes
    Sources,            \* the texts that are appended, inserted and searched
    MinCapacity,        \* the least capacity that is allocated (15 in the code)
    ExternalSize,       \* the size of the buffer that comes from outside
    MaxCells,           \* bounds of the buffers, of the text of one string,
    MaxLength, MaxBoth, \* and of the texts of two strings together
    Misuses             \* of {"assign itself", "terminate moved"}

VARIABLES heap, strings, text
vars == <<heap, strings, text>>

free == <<>>   NoBuffer == "nullptr"   external == "external"
junk == "junk"
magic == "magic"

AStringAssumption ==
    /\ Edited \subseteq Strings /\ TrimChars \subseteq Chars
    /\ Sources \subseteq Seq(Chars)
    /\ MinCapacity \in 1 .. MaxCells /\ ExternalSize \in 2 .. MaxCells
    /\ Misuses \subseteq {"assign itself", "terminate moved"}

Fresh(capacity) ==
    [i \in 0 .. MaxCells |-> IF i <= capacity THEN junk ELSE magic]
Null == [buffer |-> NoBuffer, length |-> 0, capacity |-> 0]

Init ==
    /\ heap = [b \in Buffers \cup {external} |->
                  IF b = external THEN Fresh(ExternalSize - 1) ELSE free]
    /\ strings = [s \in Strings |-> Null]
    /\ text = [s \in Strings |-> <<>>]
----------------------------------------------------------------------------
(* An edit maps a string together with the heap to what they are afterwards. *)

Of(s) == [heap |-> heap] @@ strings[s]
Cells(m) == m.heap[m.buffer]
Capacity(m) == IF m.capacity >= 0 THEN m.capacity ELSE -m.capacity

Filled(cells, at, n, c) ==
    [i \in DOMAIN cells |-> IF i \in at .. at + n - 1 THEN c ELSE cells[i]]
Copied(cells, src, at) ==
    [i \in DOMAIN cells |->
        IF i \in at .. at + Len(src) - 1 THEN src[i - at + 1] ELSE cells[i]]
Moved(cells, from, n, to) ==
    [i \in DOMAIN cells |->
        IF i \in to .. to + n - 1 THEN cells[i - to + from] ELSE cells[i]]
With(m, cells, length) ==
    [m EXCEPT !.heap[m.buffer] = cells, !.length = length]

Released(m) ==
    IF m.capacity > 0 THEN [m.heap EXCEPT ![m.buffer] = free] ELSE m.heap

Shortest(a, b) == IF a < b THEN a ELSE b

\* Another capacity for the cells of a string: an own buffer is reallocated.
Reallocated(m, n) ==
    [m EXCEPT !.heap[m.buffer] =
                  [i \in 0 .. MaxCells |->
                      IF i <= Shortest(n, m.capacity) THEN @[i]
                      ELSE Fresh(n)[i]],
              !.capacity = n, !.length = Shortest(@, n)]
\* A buffer from outside is left, with its contents copied.
NewlyAllocated(m, n) ==
    LET b == CHOOSE b \in Buffers : m.heap[b] = free
        old == IF m.capacity = 0 THEN Fresh(n) ELSE Cells(m)
        cells == [i \in 0 .. MaxCells |->
                     IF i <= Shortest(m.length, n) THEN old[i] ELSE Fresh(n)[i]]
    IN  [heap |-> [m.heap EXCEPT ![b] = cells], buffer |-> b, capacity |-> n,
         length |-> Shortest(m.length, n)]
SetBuffer(m, n) ==
    CASE m.capacity >= 0 /\ m.capacity = n -> m
      [] n = 0 /\ m.capacity # 0 -> [heap |-> Released(m)] @@ Null
      [] n > 0 /\ m.capacity > 0 /\ m.capacity # n -> Reallocated(m, n)
      [] OTHER -> NewlyAllocated(m, n)

AtLeast(n) == IF n > MinCapacity THEN n ELSE MinCapacity
GrowBufferAtLeastBy(m, n) ==
    LET half == Capacity(m) + Capacity(m) \div 2
    IN  IF Capacity(m) = 0 THEN SetBuffer(m, AtLeast(n))
        ELSE SetBuffer(m, AtLeast(IF half < m.length + n THEN half + n
                                  ELSE half))
EnsureRemainingCapacity(m, n) ==
    IF Capacity(m) < m.length + n THEN GrowBufferAtLeastBy(m, n) ELSE m

\* A region of a string of the given length, cut to what the string has.
AdjustRegion(length, start, n) ==
    LET n0 == IF start < 0 THEN n + start ELSE n
        from == IF start < 0 THEN 0 ELSE start
    IN  IF start >= length THEN [start |-> length, length |-> 0]
        ELSE [start |-> from,
              length |-> IF n0 < 0 THEN 0 ELSE Shortest(n0, length - from)]

Hits(m, S, from, to) == {i \in from .. to : Cells(m)[i] \in S}
IndexOfAny(m, S, from) ==
    LET hits == Hits(m, S, from, m.length - 1)
    IN  IF hits = {} THEN -1 ELSE Min(hits)
LastIndexOfAny(m, S, from) ==
    LET hits == Hits(m, S, 0, from) IN IF hits = {} THEN -1 ELSE Max(hits)
----------------------------------------------------------------------------
(* The edits as the code does them. *)

Appended(m, src) ==
    LET e == EnsureRemainingCapacity(m, Len(src))
    IN  IF src # <<>>
        THEN With(e, Copied(Cells(e), src, e.length), e.length + Len(src))
        ELSE IF m.buffer = NoBuffer THEN SetBuffer(m, MinCapacity) ELSE m

InsertedAt(m, src, pos) ==
    LET e == EnsureRemainingCapacity(m, Len(src))
        gap == Moved(Cells(e), pos, e.length - pos, pos + Len(src))
    IN  IF src = <<>> \/ pos < 0 \/ pos > m.length THEN m
        ELSE With(e, Copied(gap, src, pos), e.length + Len(src))

InsertedChars(m, c, qty, pos) ==
    LET e == EnsureRemainingCapacity(m, qty)
        gap == Moved(Cells(e), pos, e.length - pos, pos + qty)
    IN  IF qty <= 0 \/ pos < 0 \/ pos > m.length THEN m
        ELSE With(e, Filled(gap, pos, qty, c), e.length + qty)

Deleted(m, start, n) ==
    LET region == AdjustRegion(m.length, start, n)
        end == region.start + region.length
    IN  CASE region.length = 0 -> m
          [] region.length > 0 /\ end >= m.length ->
                [m EXCEPT !.length = region.start]
          [] OTHER -> With(m, Moved(Cells(m), end, m.length - end + 1,
                                    region.start), m.length - region.length)
DeletedStart(m, n) ==
    CASE n <= 0 -> m
      [] n > 0 /\ n >= m.length -> [m EXCEPT !.length = 0]
      [] OTHER -> With(m, Moved(Cells(m), n, m.length - n + 1, 0), m.length - n)
DeletedEnd(m, n) ==
    IF n <= 0 THEN m
    ELSE [m EXCEPT !.length = IF n >= @ THEN 0 ELSE @ - n]

TrimmedEnd(m) ==
    IF m.length = 0 THEN m
    ELSE [m EXCEPT !.length =
                       LastIndexOfAny(m, Chars \ TrimChars, m.length - 1) + 1]
TrimmedStart(m) ==
    LET idx == IndexOfAny(m, Chars \ TrimChars, 0)
    IN  CASE m.length = 0 \/ idx = 0 -> m
          [] m.length > 0 /\ idx > 0 -> Deleted(m, 0, idx)
          [] OTHER -> [m EXCEPT !.length = 0]
Trimmed(m) ==
    LET e == TrimmedEnd(m)
        idx == IndexOfAny(e, Chars \ TrimChars, 0)
    IN  IF e.length > 0 /\ idx > 0 THEN Deleted(e, 0, idx) ELSE e
TrimmedAt(m, idx) ==
    LET start == LastIndexOfAny(m, Chars \ TrimChars, idx) + 1
        next == IndexOfAny(m, Chars \ TrimChars, idx)
        end == IF next < 0 THEN m.length ELSE next
    IN  IF idx \in 0 .. m.length - 1 /\ end > start
        THEN Deleted(m, start, end - start) ELSE m

ReplacedSubstring(m, src, start, n) ==
    LET Replaced(e, region, end) ==
            IF e.buffer = NoBuffer THEN e
            ELSE With(e, Copied(Moved(Cells(e), end, e.length - end, region.start + Len(src)),
                                src, region.start),
                      e.length + Len(src) - region.length)
        Grown(region) ==
            Replaced(IF Len(src) > region.length
                     THEN EnsureRemainingCapacity(m, Len(src) - region.length) ELSE m,
                     region, region.start + region.length)
    IN  Grown(AdjustRegion(m.length, start, n))
ReplacedRegion(m, c, start, n) ==
    LET region == AdjustRegion(m.length, start, n)
    IN  IF region.length = 0 THEN m
        ELSE With(m, Filled(Cells(m), region.start, region.length, c), m.length)

ReplacedChars(m, needle, c, start, end) ==
    LET found == Hits(m, {needle}, IF start < 0 THEN 0 ELSE start,
                      Shortest(end, m.length) - 1)
    IN  IF found = {} THEN m
        ELSE With(m, [i \in DOMAIN Cells(m) |->
                         IF i \in found THEN c ELSE Cells(m)[i]], m.length)

\* The first place in start .. end - 1 where the needle is found, or -1.
IndexOf(m, needle, start, end) ==
    LET hits == {i \in start .. end - 1 :
                    \A k \in 1 .. Len(needle) : Cells(m)[i + k - 1] = needle[k]}
    IN  IF hits = {} THEN -1 ELSE Min(hits)
RECURSIVE SearchAndReplace(_, _, _, _, _, _)
SearchAndReplace(m, needle, src, start, max, end) ==
    LET diff == Len(src) - Len(needle)
        Replaced(e, idx) ==
            With(e, Copied(Moved(Cells(e), idx + Len(needle), e.length - idx - Len(needle),
                                 idx + Len(src)), src, idx),
                 e.length + diff)
        At(idx) ==
            IF idx < 0 THEN m
            ELSE SearchAndReplace(
                    Replaced(IF diff > 0 THEN EnsureRemainingCapacity(m, diff) ELSE m, idx),
                    needle, src, idx + Len(src), max - 1, end + diff)
    IN  IF max = 0 \/ start >= end THEN m ELSE At(IndexOf(m, needle, start, end))
ReplacedStrings(m, needle, src, start, max, end) ==
    IF needle = <<>> THEN m
    ELSE SearchAndReplace(m, needle, src, start, max,
                          Shortest(end, m.length - Len(needle) + 1))

NewLine == "\n"
Tabbed(m, c, size, minPad) ==
    LET last == LastIndexOfAny(m, {NewLine}, m.length - 1)
        next == IndexOfAny(m, Chars \ {NewLine}, last)
        reference == CASE last < 0 -> 0
                       [] last >= 0 /\ next < 0 -> m.length
                       [] OTHER -> next
        column == m.length + minPad - reference
    IN  InsertedChars(m, c, minPad + ((size - (column % size)) % size), m.length)

Escapes == "\\" :> "\\" @@ NewLine :> "n"
RECURSIVE EscapedFrom(_, _, _)
EscapedFrom(m, idx, end) ==
    LET Named(e) == With(e, [Cells(e) EXCEPT ![idx + 1] = Escapes[@]], e.length)
    IN  IF idx >= end THEN m
        ELSE IF Cells(m)[idx] \notin DOMAIN Escapes
        THEN EscapedFrom(m, idx + 1, end)
        ELSE EscapedFrom(Named(InsertedChars(m, "\\", 1, idx)), idx + 2, end + 1)
RECURSIVE UnescapedFrom(_, _, _)
UnescapedFrom(m, idx, end) ==
    LET from == {c \in DOMAIN Escapes : Escapes[c] = Cells(m)[idx + 1]}
        Meant(d) == With(d, [Cells(d) EXCEPT ![idx] = CHOOSE c \in from : TRUE], d.length)
    IN  IF idx >= end THEN m
        ELSE IF Cells(m)[idx] # "\\" \/ from = {}
        THEN UnescapedFrom(m, idx + 1, end)
        ELSE UnescapedFrom(Meant(Deleted(m, idx, 1)), idx + 1, end - 1)
Escaped(m, start, n, on) ==
    LET In(region) ==
            IF region.length = 0 THEN m
            ELSE IF on THEN EscapedFrom(m, region.start, region.start + region.length)
            ELSE UnescapedFrom(m, region.start, region.start + region.length - 1)
    IN  In(AdjustRegion(m.length, start, n))
----------------------------------------------------------------------------
(* What the edits mean for a sequence of characters. *)

Without(t, S) ==
    LET kept == SetToSortSeq(DOMAIN t \ S, <)
    IN  [i \in 1 .. Len(kept) |-> t[kept[i]]]
Upto(t, pos) == SubSeq(t, 1, pos)
From(t, pos) == SubSeq(t, pos + 1, Len(t))
Inserted(t, src, pos) ==
    IF pos \in 0 .. Len(t) THEN Upto(t, pos) \o src \o From(t, pos) ELSE t
Region(t, start, n) == {i \in DOMAIN t : i > start /\ i <= start + n}
Repeated(c, n) == [i \in 1 .. n |-> c]
Kept(t) == {i \in DOMAIN t : t[i] \notin TrimChars}
Run(t, idx) ==
    {i \in DOMAIN t : \A j \in DOMAIN t :
        j \in i .. idx + 1 \/ j \in idx + 1 .. i => t[j] \in TrimChars}

RECURSIVE Substituted(_, _, _, _, _)
Substituted(t, needle, src, max, window) ==
    IF max = 0 \/ window <= 0 \/ t = <<>> THEN t
    ELSE IF IsPrefix(needle, t)
    THEN src \o Substituted(From(t, Len(needle)), needle, src, max - 1,
                            window - Len(needle))
    ELSE <<Head(t)>> \o Substituted(Tail(t), needle, src, max, window - 1)

EscapedText(t) ==
    FlattenSeq([i \in DOMAIN t |-> IF t[i] \in DOMAIN Escapes
                                   THEN <<"\\", Escapes[t[i]]>> ELSE <<t[i]>>])
RECURSIVE UnescapedText(_)
UnescapedText(t) ==
    IF Len(t) < 2 THEN t
    ELSE LET from == {c \in DOMAIN Escapes : <<"\\", Escapes[c]>> = Upto(t, 2)}
         IN  IF from = {} THEN <<Head(t)>> \o UnescapedText(Tail(t))
             ELSE <<CHOOSE c \in from : TRUE>> \o UnescapedText(From(t, 2))

\* The column that a text ends at, counted from its last new line.
Column(t) ==
    LET breaks == {i \in DOMAIN t : t[i] = NewLine}
    IN  IF breaks = {} THEN Len(t) ELSE Len(t) - Max(breaks)
----------------------------------------------------------------------------
\* What lies behind the text is of no meaning.
Settled(h, str) ==
    IF str.buffer = NoBuffer \/ str.capacity = 0 THEN h
    ELSE [h EXCEPT ![str.buffer] = [i \in DOMAIN @ |->
             IF i \in str.length .. Capacity(str) THEN junk ELSE @[i]]]

Become(s, m, str) ==
    /\ heap' = Settled(m.heap, str)
    /\ strings' = [strings EXCEPT ![s] = str]
Edit(s, m, t) ==
    /\ Len(t) <= MaxLength
    /\ \A o \in Strings \ {s} : strings[o] # Null => Len(t) + Len(text[o]) <= MaxBoth
    /\ Become(s, m, [buffer |-> m.buffer, length |-> m.length, capacity |-> m.capacity])
    /\ text' = [text EXCEPT ![s] = t]

Positions == -1 .. MaxLength
Counts == {0, 1, MaxLength}

SetCapacity(s) ==
    \E n \in 0 .. MaxLength :
        Edit(s, SetBuffer(Of(s), n), Upto(text[s], Shortest(n, Len(text[s]))))
SetExternal(s) ==
    /\ \A o \in Strings \ {s} : strings[o].buffer # external
    /\ Edit(s, [heap |-> Released(Of(s)), buffer |-> external, length |-> 0,
                capacity |-> -(ExternalSize - 1)], <<>>)
AppendTo(s) ==
    \E src \in Sources : Edit(s, Appended(Of(s), src), text[s] \o src)
InsertInto(s) ==
    \E src \in Sources, pos \in Positions :
        Edit(s, InsertedAt(Of(s), src, pos), Inserted(text[s], src, pos))
InsertChars(s) ==
    \E c \in TrimChars, qty \in 0 .. 2, pos \in Positions :
        Edit(s, InsertedChars(Of(s), c, qty, pos),
             Inserted(text[s], Repeated(c, qty), pos))
Delete(s) ==
    \E start \in Positions, n \in Counts :
        Edit(s, Deleted(Of(s), start, n),
             Without(text[s], Region(text[s], start, n)))
DeleteStart(s) ==
    \E n \in Positions : Edit(s, DeletedStart(Of(s), n),
                              Without(text[s], Region(text[s], 0, n)))
DeleteEnd(s) ==
    \E n \in Positions : Edit(s, DeletedEnd(Of(s), n),
                              Without(text[s], {i \in DOMAIN text[s] :
                                                  i > Len(text[s]) - n}))
Trim(s) ==
    LET t == text[s] kept == Kept(t)
    IN  \/ Edit(s, Trimmed(Of(s)), IF kept = {} THEN <<>>
                                   ELSE SubSeq(t, Min(kept), Max(kept)))
        \/ Edit(s, TrimmedStart(Of(s)), IF kept = {} THEN <<>>
                                        ELSE From(t, Min(kept) - 1))
        \/ Edit(s, TrimmedEnd(Of(s)), IF kept = {} THEN <<>>
                                      ELSE Upto(t, Max(kept)))
TrimAt(s) ==
    \E idx \in Positions :
        Edit(s, TrimmedAt(Of(s), idx), IF idx + 1 \in DOMAIN text[s]
             THEN Without(text[s], Run(text[s], idx)) ELSE text[s])
ReplaceSubstring(s) ==
    \E src \in Sources, start \in Positions, n \in {0, 2} :
        LET t == text[s] region == Region(t, start, n)
            pos == IF start < 0 THEN 0 ELSE Shortest(start, Len(t))
        IN  Edit(s, ReplacedSubstring(Of(s), src, start, n),
                 Inserted(Without(t, region), src, pos))
ReplaceRegion(s) ==
    \E c \in TrimChars, start \in Positions, n \in Counts :
        Edit(s, ReplacedRegion(Of(s), c, start, n),
             [i \in DOMAIN text[s] |->
                 IF i \in Region(text[s], start, n) THEN c ELSE text[s][i]])
ReplaceChar(s) ==
    \E needle, c \in Chars, start \in {-1, 1}, end \in {1, MaxLength} :
        Edit(s, ReplacedChars(Of(s), needle, c, start, end),
             [i \in DOMAIN text[s] |->
                 IF text[s][i] = needle /\ i > start /\ i <= end THEN c
                 ELSE text[s][i]])
ReplaceString(s) ==
    \E needle, src \in Sources, start \in 0 .. 1, max \in 1 .. 2,
       end \in {1, MaxLength} :
        LET t == text[s]
        IN  /\ needle # <<>>
            /\ Edit(s, ReplacedStrings(Of(s), needle, src, start, max, end),
                    Upto(t, Shortest(start, Len(t)))
                    \o Substituted(From(t, start), needle, src, max,
                                   end - start))
Tab(s) ==
    \E c \in Chars \ {NewLine}, size \in 2 .. 3, minPad \in 0 .. 1 :
        LET pad == {n \in minPad .. minPad + size :
                       (Column(text[s]) + n) % size = 0}
        IN  Edit(s, Tabbed(Of(s), c, size, minPad),
                 text[s] \o Repeated(c, Min(pad)))
Escape(s) ==
    \E start \in Positions, n \in Counts :
        LET t == text[s]
            from == IF start < 0 THEN 0 ELSE Shortest(start, Len(t))
            to == Max({from} \cup Region(t, start, n))
            within == SubSeq(t, from + 1, to)
        IN  \/ Edit(s, Escaped(Of(s), start, n, TRUE),
                    Upto(t, from) \o EscapedText(within) \o From(t, to))
            \/ Edit(s, Escaped(Of(s), start, n, FALSE),
                    Upto(t, from) \o UnescapedText(within) \o From(t, to))

\* operator=: Reset().Append(...), which empties the string first.
Assign(s) ==
    \E o \in Strings :
        LET source == IF o = s THEN <<>> ELSE text[o]
        IN  /\ o = s => "assign itself" \in Misuses
            /\ Edit(s, IF strings[o].buffer = NoBuffer THEN SetBuffer(Of(s), 0)
                       ELSE Appended([Of(s) EXCEPT !.length = 0], source),
                    text[o])

\* A moved string keeps the pointer to the buffer, without its capacity.
Leave_owning(str) == [str EXCEPT !.length = 0]    \* mutant
Leave(str) == [str EXCEPT !.length = 0, !.capacity = 0]
MoveConstruct(s) ==
    \E o \in Strings \ {s} :
        /\ strings[s] = Null
        /\ IF strings[o].capacity <= 0
           THEN Edit(s, IF strings[o].buffer = NoBuffer THEN Of(s)
                        ELSE Appended(Of(s), text[o]), text[o])
           ELSE /\ strings' = [strings EXCEPT ![s] = strings[o],
                                              ![o] = Leave(strings[o])]
                /\ text' = [text EXCEPT ![s] = text[o], ![o] = <<>>]
                /\ UNCHANGED heap

HasMoved(str) == str.buffer # NoBuffer /\ str.capacity = 0
Terminate(s) ==
    LET str == strings[s]
    IN  /\ str.buffer # NoBuffer
        /\ HasMoved(str) => /\ "terminate moved" \in Misuses
                            /\ heap[str.buffer] # free
        /\ heap' = Settled([heap EXCEPT ![str.buffer][str.length] = "NUL"], str)
        /\ UNCHANGED <<strings, text>>

Destroy(s) == Edit(s, [heap |-> Released(Of(s))] @@ Null, <<>>)

Next ==
    \/ \E s \in Edited :
        \/ SetCapacity(s) \/ SetExternal(s) \/ AppendTo(s) \/ InsertInto(s)
        \/ InsertChars(s) \/ Delete(s) \/ DeleteStart(s) \/ DeleteEnd(s)
        \/ Trim(s) \/ TrimAt(s) \/ ReplaceSubstring(s) \/ ReplaceRegion(s)
        \/ ReplaceChar(s) \/ ReplaceString(s) \/ Tab(s) \/ Escape(s)
    \/ \E s \in Strings :
        \/ Assign(s) \/ MoveConstruct(s) \/ Terminate(s) \/ Destroy(s)

Spec == Init /\ [][Next]_vars
----------------------------------------------------------------------------
\* Whatever is moved, filled and copied in the buffer: the string reads as the
\* edits say.
ContentIsText ==
    \A s \in Strings :
        /\ strings[s].length = Len(text[s])
        /\ \A i \in DOMAIN text[s] :
              heap[strings[s].buffer][i - 1] = text[s][i]

\* No edit writes behind the capacity, which the code checks with magic bytes.
MagicIntact ==
    /\ \A s \in Strings : strings[s].capacity > 0 =>
          \A i \in 0 .. MaxCells :
              heap[strings[s].buffer][i] = magic <=> i > strings[s].capacity
    /\ \A i \in 0 .. MaxCells : heap[external][i] = magic <=> i >= ExternalSize

\* An allocated buffer belongs to exactly one string: it is freed once, and
\* not forgotten when a string moves or takes a buffer from outside.
BuffersHaveOneOwner ==
    \A b \in Buffers :
        Cardinality({s \in Strings : strings[s].capacity > 0
                                     /\ strings[s].buffer = b})
        = IF heap[b] = free THEN 0 ELSE 1
=============================================================================
