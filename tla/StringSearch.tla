---------------------------- MODULE StringSearch ----------------------------
(* The searching and matching algorithms of module alib_strings, over a text  *)
(* and a pattern that grow letter by letter: IndexOf and IndexOfSegmentEnd of *)
(* class TString, class TStringSearch (Knuth-Morris-Pratt), TWildcardMatcher, *)
(* TTokenizer, and the abbreviated words of class Token.  Each is computed as *)
(* the code does it, and compared with what it promises.  Letter case is      *)
(* ignored where a Token is matched: the text is in lower case.               *)
EXTENDS Integers, Sequences, FiniteSets, SequencesExt, TLC

CONSTANTS
    Letters,            \* the characters of the text
    Upper,              \* for upper case letters: the letter in lower case
    Names,              \* the names of the tokens
    MaxText, MaxPattern \* bounds of the lengths

VARIABLES text, pattern
vars == <<text, pattern>>

StringSearchAssumption ==
    /\ MaxText \in Nat /\ MaxPattern \in Nat
    /\ DOMAIN Upper \cap Letters = {}
    /\ \A name \in Names : name # <<>>

Init == text = <<>> /\ pattern = <<>>
----------------------------------------------------------------------------
(* Searching a string. *)

OccursAt(haystack, needle, i) ==
    /\ i + Len(needle) <= Len(haystack)
    /\ SubSeq(haystack, i + 1, i + Len(needle)) = needle

\* indexOfString compares letter by letter, and stops at the first difference.
RECURSIVE Agreeing(_, _, _, _)
Agreeing(haystack, needle, i, k) ==
    IF k = Len(needle) THEN TRUE
    ELSE /\ haystack[i + k + 1] = needle[k + 1]
         /\ Agreeing(haystack, needle, i, k + 1)
RECURSIVE IndexOfString(_, _, _, _)
IndexOfString(haystack, needle, start, end) ==
    IF needle = <<>> THEN start
    ELSE IF start >= end THEN -1
    ELSE IF Agreeing(haystack, needle, start, 0) THEN start
    ELSE IndexOfString(haystack, needle, start + 1, end)
IndexOf(haystack, needle, start, end) ==
    LET from == IF start < 0 THEN 0 ELSE start
        last == Len(haystack) - Len(needle) + 1
        to == IF end < last THEN end ELSE last
    IN  IF from >= to THEN -1 ELSE IndexOfString(haystack, needle, from, to)

RECURSIVE SegmentEnd(_, _, _, _, _)
SegmentEnd(t, opener, closer, idx, open) ==
    LET opened == IF t[idx + 1] = opener THEN open + 1 ELSE open
        closed == IF t[idx + 1] = closer THEN opened - 1 ELSE opened
    IN  IF idx >= Len(t) THEN -open
        ELSE IF closed = 0 THEN idx
        ELSE SegmentEnd(t, opener, closer, idx + 1, closed)
IndexOfSegmentEnd(t, opener, closer, idx) == SegmentEnd(t, opener, closer, idx, 1)

\* The table of TStringSearch: where to go on in the needle after a difference.
RECURSIVE FallBack(_, _, _, _)
FallBack(table, needle, letter, k) ==
    IF k = -1 \/ letter = needle[k + 1] THEN k
    ELSE FallBack(table, needle, letter, table[k])
RECURSIVE Tabulated(_, _, _, _)
Tabulated(table, needle, idx, prefix) ==
    LET next == FallBack(table, needle, needle[idx + 1], prefix) + 1
        entry == IF needle[idx + 2] = needle[next + 1] THEN table[next] ELSE next
    IN  IF idx + 1 = Len(needle) THEN table @@ (idx + 1 :> next - 1)
        ELSE Tabulated(table @@ (idx + 1 :> entry), needle, idx + 1, next)
KMPTable(needle) == Tabulated(0 :> -1, needle, 0, -1)

RECURSIVE SearchFrom(_, _, _, _, _)
SearchFrom(table, haystack, needle, h, n) ==
    LET k == FallBack(table, needle, haystack[h + 1], n)
    IN  IF h = Len(haystack) THEN -1
        ELSE IF k + 1 >= Len(needle) THEN h + 1 - (k + 1)
        ELSE SearchFrom(table, haystack, needle, h + 1, k + 1)
Search(haystack, needle, start) ==
    IF start + Len(needle) > Len(haystack) THEN -1
    ELSE IF needle = <<>> THEN start
    ELSE SearchFrom(KMPTable(needle), haystack, needle, start, 0)
----------------------------------------------------------------------------
(* Wildcards: a pattern is compiled to commands, which consume the text. *)

AnyChars(n) == [kind |-> "?", qty |-> n, string |-> <<>>]
Asterisk == [kind |-> "*", qty |-> 0, string |-> <<>>]
String(s) == [kind |-> "string", qty |-> 0, string |-> s]

Leading(p, S) ==
    LET others == {i \in DOMAIN p : p[i] \notin S}
    IN  IF others = {} THEN Len(p) ELSE Min(others) - 1
Behind(p, n) == SubSeq(p, n + 1, Len(p))

\* Question marks are moved before an asterisk that is not the first command.
AddAny(commands, n) ==
    LET size == Len(commands)
    IN  IF size <= 1 \/ commands[size] # Asterisk THEN commands \o <<AnyChars(n)>>
        ELSE IF commands[size - 1].qty > 0
        THEN [commands EXCEPT ![size - 1].qty = @ + n]
        ELSE SubSeq(commands, 1, size - 1) \o <<AnyChars(n), Asterisk>>

RECURSIVE CompileFrom(_, _)
CompileFrom(p, commands) ==
    LET n == Leading(p, IF p[1] \in {"*", "?"} THEN {p[1]} ELSE Letters)
        added == CASE p[1] = "*" /\ commands # <<>> /\ Last(commands) = Asterisk
                        -> commands
                   [] p[1] = "?" -> AddAny(commands, n)
                   [] p[1] \in Letters -> commands \o <<String(SubSeq(p, 1, n))>>
                   [] OTHER -> commands \o <<Asterisk>>
    IN  IF p = <<>> THEN commands ELSE CompileFrom(Behind(p, n), added)
Compile(p) == CompileFrom(p, <<>>)

\* Whether text may be skipped before the command that follows.
StillOpen(cmd, asterisk) ==
    cmd.kind = "*" \/ (cmd.kind = "?" /\ asterisk)
RECURSIVE MatchFrom(_, _, _)
MatchFrom(haystack, commands, asterisk) ==
    LET cmd == commands[1]
        idx == IndexOfString(haystack, cmd.string, 0,
                             Len(haystack) - Len(cmd.string) + 1)
    IN  IF commands = <<>> THEN haystack = <<>> \/ asterisk
        ELSE /\ cmd.kind = "?" => Len(haystack) >= cmd.qty
             /\ cmd.kind = "string" => /\ Len(cmd.string) <= Len(haystack)
                                       /\ IF asterisk THEN idx >= 0 ELSE idx = 0
             /\ MatchFrom(Behind(haystack,
                                 CASE cmd.kind = "?" -> cmd.qty
                                   [] cmd.kind = "*" -> 0
                                   [] cmd.kind = "string" ->
                                         idx + Len(cmd.string)),
                          Tail(commands), StillOpen(cmd, asterisk))
Match(haystack, p) ==
    p = <<>> \/ MatchFrom(haystack, Compile(p), FALSE)
----------------------------------------------------------------------------
(* Tokens of a text that are separated by a delimiter. *)

DelimiterAt(r, delim) == IndexOf(r, <<delim>>, 0, Len(r))
NextToken(rest, delim, skipEmpty) ==
    LET RECURSIVE Skip(_)
        Skip(r) ==
            LET at == DelimiterAt(r, delim)
                this == IF at < 0 THEN r ELSE SubSeq(r, 1, at)
            IN  IF at >= 0 /\ skipEmpty /\ this = <<>>
                THEN Skip(Behind(r, at + 1))
                ELSE [actual |-> this,
                      more |-> at >= 0, rest |-> Behind(r, at + 1)]
    IN  Skip(rest)
RECURSIVE Tokens(_, _, _)
Tokens(rest, delim, skipEmpty) ==
    LET next == NextToken(rest, delim, skipEmpty)
        hasNext == next.more /\ (skipEmpty => next.rest # <<>>)
    IN  <<next.actual>> \o IF hasNext THEN Tokens(next.rest, delim, skipEmpty)
                           ELSE <<>>
----------------------------------------------------------------------------
(* Words that may be abbreviated: a token has a name and the least length of  *)
(* each of its segments.                                                      *)

IsUpper(c) == c \in DOMAIN Upper
Lower(c) == IF IsUpper(c) THEN Upper[c] ELSE c
Count(name, S) == Cardinality({i \in 2 .. Len(name) : name[i] \in S})

\* The format that is detected; a definition that debug builds refuse has none.
DetectFormat(name, mins) ==
    LET humps == Count(name, DOMAIN Upper)
        lower == \E i \in DOMAIN name : ~ IsUpper(name[i]) /\ name[i] \notin {"_", "-"}
        segments == Len(mins) - 1
    IN  CASE segments = 0 /\ mins[1] \in 1 .. Len(name) -> "normal"
          [] segments > 0 /\ Count(name, {"_"}) = segments -> "snake"
          [] segments > 0 /\ Count(name, {"_"}) = 0
             /\ Count(name, {"-"}) = segments -> "kebab"
          [] segments > 0 /\ Count(name, {"_", "-"}) = 0 /\ lower
             /\ humps = segments -> "camel"
          [] OTHER -> "error"

Separates(format, c) ==
    <<format, c>> \in {<<"snake", "_">>, <<"kebab", "-">>}
\* The places behind which a segment ends.
Ends(name, format) ==
    {i \in DOMAIN name : \/ i = Len(name)
                         \/ Separates(format, name[i])
                         \/ (format = "camel" /\ IsUpper(name[i + 1]))}
Segments(name, format) ==
    LET ends == SetToSortSeq(Ends(name, format), <)
    IN  [i \in 1 .. Len(ends) |->
            SubSeq(name, IF i = 1 THEN 1 ELSE ends[i - 1] + 1, ends[i])]
At(t, i) == IF i < Len(t) THEN t[i + 1] ELSE "end"
MinLength(mins, segNo) ==
    CASE segNo < Len(mins) -> mins[segNo + 1] [] segNo >= 7 -> -2 [] OTHER -> -1
RECURSIVE TokenMatch(_, _, _, _, _)
TokenMatch(name, mins, format, needle, s) ==
    LET camel == format = "camel"
        min == MinLength(mins, s.segNo)
        h == At(name, s.hIdx)   n == At(needle, s.nIdx)
        same == Lower(h) = n
        segLen == s.segLen + 1   hIdx == s.hIdx + 1
        rollback == CASE camel /\ segLen = 1 -> 0
                      [] camel /\ segLen > 1 /\ same /\ s.ok -> s.rollback + 1
                      [] OTHER -> s.rollback
        nIdx == IF camel /\ ~ same THEN s.nIdx ELSE s.nIdx + 1
        segEnd == hIdx \in Ends(name, format)
        ok == IF same THEN IF min >= 0 THEN segLen >= min ELSE segEnd
              ELSE s.ok
        skipping == ~ same /\ ~ (segEnd /\ n # "end")
        \* the rest of the segment is skipped
        after == IF skipping /\ format # "normal" /\ hIdx \notin Ends(name, format)
                 THEN Min({e \in Ends(name, format) : e > hIdx}) ELSE hIdx
        last == after = Len(name)
        fresh == ~ same \/ segEnd
        nextMin == MinLength(mins, s.segNo + 1)
        next == [segNo |-> IF fresh THEN s.segNo + 1 ELSE s.segNo,
                 segLen |-> IF fresh THEN 0 ELSE segLen, same |-> same,
                 hIdx |-> after, nIdx |-> nIdx, rollback |-> rollback, ok |-> ok]
    IN  IF s.hIdx >= Len(name)
        THEN s.same /\ s.ok /\ s.nIdx = Len(needle)
        ELSE IF camel /\ n = "end" /\ min = 0 THEN TRUE
        ELSE IF camel /\ ~ same /\ segLen = 1 /\ s.rollback > 0
        THEN TokenMatch(name, mins, format, needle,
                        [s EXCEPT !.nIdx = @ - 1, !.rollback = @ - 1])
        ELSE IF ~ same /\ segLen = 1 /\ min # 0 THEN FALSE
        ELSE IF (segEnd \/ skipping) /\ ~ ok THEN FALSE
        ELSE IF fresh /\ n = "end" /\ (~ camel \/ last \/ rollback = 0)
        THEN last \/ format = "normal" \/ nextMin = 0
        ELSE TokenMatch(name, mins, format, needle, next)
Matches(name, mins, needle) ==
    TokenMatch(name, mins, DetectFormat(name, mins), needle,
               [segNo |-> 0, segLen |-> 0, same |-> FALSE, hIdx |-> 0,
                nIdx |-> 0, rollback |-> 0, ok |-> FALSE])
----------------------------------------------------------------------------
Next ==
    \/ \E c \in Letters :
          /\ Len(text) < MaxText
          /\ text' = Append(text, c) /\ UNCHANGED pattern
    \/ \E c \in Letters \cup {"*", "?"} :
          /\ Len(pattern) < MaxPattern
          /\ pattern' = Append(pattern, c) /\ UNCHANGED text

Spec == Init /\ [][Next]_vars
----------------------------------------------------------------------------
(* What the algorithms promise. *)

Places(start) == {i \in start .. Len(text) : OccursAt(text, pattern, i)}
\* Both ways to search find the first place where the pattern occurs: no entry
\* of the table of TStringSearch skips one.
SearchFindsFirst ==
    \A start \in 0 .. Len(text) :
        LET first == IF Places(start) = {} THEN -1 ELSE Min(Places(start))
        IN  /\ Search(text, pattern, start) = first
            /\ IndexOf(text, pattern, start, MaxText + 1) = first

\* IndexOfSegmentEnd finds the closer that leaves as many openers as closers.
SegmentsBalance ==
    \A opener \in Letters, closer \in Letters : opener # closer =>
        LET idx == IndexOfSegmentEnd(text, opener, closer, 0)
            Open(n) == 1 + Cardinality({i \in 1 .. n : text[i] = opener})
                         - Cardinality({i \in 1 .. n : text[i] = closer})
        IN  IF idx >= 0 THEN /\ idx < Len(text)
                             /\ Open(idx + 1) = 0
                             /\ \A n \in 1 .. idx : Open(n) > 0
            ELSE -idx = Open(Len(text)) /\ \A n \in DOMAIN text : Open(n) > 0

RECURSIVE Fits(_, _)
Fits(t, p) ==
    IF p = <<>> THEN t = <<>>
    ELSE IF p[1] = "*" THEN Fits(t, Tail(p)) \/ (t # <<>> /\ Fits(Tail(t), p))
    ELSE /\ t # <<>>
         /\ p[1] \in {"?", t[1]}
         /\ Fits(Tail(t), Tail(p))
\* A matcher that does not go back finds all that fit only if what is behind
\* the first asterisk has no literal, or ends with an asterisk and has no
\* question mark.
NeedsNoGoingBack(p) ==
    LET behind == {i \in DOMAIN p : \E j \in 1 .. i : p[j] = "*"}
    IN  \/ \A i \in behind : p[i] \in {"*", "?"}
        \/ (Last(p) = "*" /\ \A i \in behind : p[i] # "?")
\* WildcardMatcher accepts nothing that does not fit the pattern, and what fits
\* as long as the first place of a literal is the right one.
WildcardsFit ==
    pattern # <<>> =>
        /\ Match(text, pattern) => Fits(text, pattern)
        /\ NeedsNoGoingBack(pattern) /\ Fits(text, pattern)
           => Match(text, pattern)

\* The parts of a text between the places of a delimiter.
Parts(t, delim) ==
    LET at == SetToSortSeq({i \in DOMAIN t : t[i] = delim}, <)
        From(i) == IF i = 1 THEN 1 ELSE at[i - 1] + 1
        To(i) == IF i > Len(at) THEN Len(t) ELSE at[i] - 1
    IN  [i \in 1 .. Len(at) + 1 |-> SubSeq(t, From(i), To(i))]
NotEmpty(parts) == SelectSeq(parts, LAMBDA part : part # <<>>)
\* The tokenizer returns the parts of the text, and leaves out none but the
\* empty ones when it is told so; then at most the last may be empty.
TokensAreTheParts ==
    \A delim \in Letters :
        /\ Tokens(text, delim, FALSE) = Parts(text, delim)
        /\ LET found == Tokens(text, delim, TRUE)
           IN  /\ NotEmpty(found) = NotEmpty(Parts(text, delim))
               /\ \A i \in 1 .. Len(found) - 1 : found[i] # <<>>

\* A definition as the documentation asks for.
WellDefined(name, mins) ==
    LET format == DetectFormat(name, mins)
        segments == Segments(name, format)
        Body(i) == Len(SelectSeq(segments[i], LAMBDA c : ~ Separates(format, c)))
    IN  /\ format # "error"
        /\ Len(segments) = Len(mins)
        /\ \A i \in DOMAIN mins : mins[i] <= Body(i)
        /\ \A i \in DOMAIN mins :
              mins[i] = 0 => format = "camel" /\ i = Len(mins)
\* Every segment may be shortened to its least length.
Abbreviates(needle, name, mins) ==
    LET format == DetectFormat(name, mins)
        segments == Segments(name, format)
        Short(i, n) ==
            SelectSeq([k \in DOMAIN segments[i] |->
                          IF k <= n \/ Separates(format, segments[i][k])
                          THEN Lower(segments[i][k]) ELSE "none"],
                      LAMBDA c : c # "none")
        Word(lengths) ==
            FlattenSeq([i \in DOMAIN segments |-> Short(i, lengths[i])])
    IN  \E lengths \in [DOMAIN segments -> 0 .. MaxText] :
            /\ \A i \in DOMAIN mins :
                  lengths[i] \in mins[i] .. Len(segments[i])
            /\ needle = Word(lengths)
\* A token matches every word that shortens its segments; in camel case, where
\* letters are given back from one hump to the next, it matches no others.
TokensMatchTheirWords ==
    pattern = <<>> /\ text # <<>> =>
        \A name \in Names, mins \in UNION {[1 .. n -> 0 .. 2] : n \in 1 .. 3} :
            WellDefined(name, mins) =>
                /\ Abbreviates(text, name, mins) => Matches(name, mins, text)
                /\ DetectFormat(name, mins) = "camel" /\ Matches(name, mins, text)
                   => Abbreviates(text, name, mins)
=============================================================================
