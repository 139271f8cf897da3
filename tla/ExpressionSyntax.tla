-------------------------- MODULE ExpressionSyntax --------------------------
(***************************************************************************)
(* The parser of ALib Expressions (alib/expressions/detail/                *)
(* parser_impl.cpp) and the normalised expression string that is written   *)
(* while a tree is assembled (detail/ast.cpp).  A text is a sequence of    *)
(* tokens.  The reference is the set of the texts that mean a tree:        *)
(* operators bind by their precedence and from the left, and brackets are  *)
(* written where they are needed and wherever else the writer likes.       *)
(*                                                                         *)
(* One behaviour compiles one text and then compiles its normalised string *)
(* again.  Not modelled: the lexer, verbal operators, texts with syntax    *)
(* errors, spaces, the formats of numbers.                                 *)
(***************************************************************************)
EXTENDS ExpressionTree, SequencesExt

CONSTANTS
  Meant,      \* the trees that the writer has in mind
  Formats,    \* sets of flags of enumeration Normalization
  Readable(_) \* restricts the texts that are tried

VARIABLES
  meant,      \* the tree that the writer has in mind
  text,       \* its text
  ast,        \* what the parser made of it: <<>> or <<tree>>
  normalized, \* the normalised expression string
  reread      \* what the parser makes of that: <<>> or <<tree>>

vars == <<meant, text, ast, normalized, reread>>

\* The records of enumeration DefaultBinaryOperators.
Precedence == [op \in {"[]"} |-> 100] @@ [op \in {"*", "/", "%"} |-> 900] @@
              [op \in {"+", "-"} |-> 800] @@ [op \in {"<"} |-> 600] @@
              [op \in {"=="} |-> 500] @@ [op \in {"&&"} |-> 440] @@
              [op \in {"||"} |-> 430] @@ [op \in {"?:"} |-> 200]
BinaryOperators == DOMAIN Precedence \ {"[]"}
UnaryOperators  == {"-", "!"}

-----------------------------------------------------------------------------
(* Class ParserImpl: each method returns a tree and the tokens that are left *)

Parsed(tree, rest) == [ast |-> tree, rest |-> rest]
Sees(s, token)     == s # <<>> /\ Head(s) = token

\* Insertion of a binary operator in front of an already parsed right-hand side:
\* it goes down the left operands as long as these bind as weak as itself.
RECURSIVE Inserted(_, _, _)
Inserted(op, lhs, rhs) ==
  IF rhs.node = "binary" /\ Precedence[rhs.op] <= Precedence[op]
  THEN [rhs EXCEPT !.lhs = Inserted(op, lhs, @)]
  ELSE BinaryOp(op, lhs, rhs)

RECURSIVE ParseConditional(_), ParseBinary(_), ParseBinaryFrom(_, _), ParseSimple(_),
          ParseArguments(_, _)

ParseSubscript(p) ==
  IF ~Sees(p.rest, "[") THEN p
  ELSE LET index == ParseConditional(Tail(p.rest))
       IN Parsed(BinaryOp("[]", p.ast, index.ast), Tail(index.rest))

ParseSimple(s) ==
  CASE Head(s) = "(" ->
         LET p == ParseConditional(Tail(s)) IN ParseSubscript(Parsed(p.ast, Tail(p.rest)))
    [] Head(s) \in UnaryOperators ->
         LET p == ParseSimple(Tail(s)) IN ParseSubscript(Parsed(UnaryOp(Head(s), p.ast), p.rest))
    [] Sees(Tail(s), "(") ->
         LET p == ParseArguments(Tail(s), <<>>)
         IN ParseSubscript(Parsed(Function(Head(s), p.ast), p.rest))
    [] OTHER -> ParseSubscript(Parsed(Identifier(Head(s)), Tail(s)))

\* The arguments of a function: s starts with "(" or ",".
ParseArguments(s, args) ==
  LET p == ParseConditional(Tail(s))
      all == Append(args, p.ast)
  IN IF Sees(p.rest, ",") THEN ParseArguments(p.rest, all) ELSE Parsed(all, Tail(p.rest))

\* A right operand in brackets ends the operation at once: <lhs op rhs> becomes
\* the left operand of what follows.
ParseBinaryFrom(lhs, s) ==
  IF s = <<>> \/ Head(s) \notin BinaryOperators THEN Parsed(lhs, s)
  ELSE IF s[2] = "("
  THEN LET rhs == ParseSimple(Tail(s))
       IN ParseBinaryFrom(BinaryOp(Head(s), lhs, rhs.ast), rhs.rest)
  ELSE LET rhs == ParseBinary(Tail(s))
       IN Parsed(Inserted(Head(s), lhs, rhs.ast), rhs.rest)

ParseBinary(s) == LET p == ParseSimple(s) IN ParseBinaryFrom(p.ast, p.rest)

ParseConditional(s) ==
  LET q == ParseBinary(s)
      t == ParseConditional(Tail(q.rest))
      f == ParseConditional(Tail(t.rest))
  IN IF Sees(q.rest, "?") THEN Parsed(Conditional(q.ast, t.ast, f.ast), f.rest) ELSE q

Parse(s) == ParseConditional(s).ast

-----------------------------------------------------------------------------
(* The normalised string: methods Assemble of the nodes *)

Bracketed(s)    == <<"(">> \o s \o <<")">>
BracketIf(b, s) == IF b THEN Bracketed(s) ELSE s
\* 0 for what is not a binary operation
BinaryPrecedence(e) == IF e.node = "binary" THEN Precedence[e.op] ELSE 0

\* The tokens of a list of trees with separators.
Listed(texts) == FlattenSeq([i \in DOMAIN texts |->
                               IF i = 1 THEN texts[i] ELSE <<",">> \o texts[i]])

LhsBrackets(e, format) ==
  LET l == BinaryPrecedence(e.lhs)
  IN \/ e.lhs.node = "conditional"
     \/ /\ l > 0
        /\ \/ "RedundantBinaryOpBrackets" \in format
           \/ Precedence[e.op] > l
           \/ "RedundantBracketsIfLhsAndRhsAreBinaryOps" \in format /\ BinaryPrecedence(e.rhs) > 0

RhsBrackets(e, format) ==
  LET r == BinaryPrecedence(e.rhs)
  IN \/ e.rhs.node = "conditional"
     \/ /\ r > 0
        /\ \/ "RedundantBinaryOpBrackets" \in format
           \/ Precedence[e.op] >= r
           \/ "RedundantRhsBracketsIfRhsIsStrongerBinaryOp" \in format /\ Precedence[e.op] < r
           \/ "RedundantBracketsIfLhsAndRhsAreBinaryOps" \in format /\ BinaryPrecedence(e.lhs) > 0

RECURSIVE Normalize(_, _)
Normalize(e, format) ==
  LET norm(x) == Normalize(x, format)
      branch(x) == BracketIf(x.node = "conditional"
                               /\ "RedundantConditionalOpBrackets" \in format, norm(x))
  IN CASE e.node = "identifier"  -> <<e.name>>
       [] e.node = "function"    ->
            <<e.name>> \o Bracketed(Listed([i \in DOMAIN e.args |-> norm(e.args[i])]))
       [] e.node = "unary"       ->
            <<e.op>> \o BracketIf(\/ e.arg.node \in {"binary", "conditional"}
                                  \/ e.arg.node = "unary"
                                       /\ "RedundantBracketsBetweenTwoUnaryOps" \in format,
                                  norm(e.arg))
       [] e.node = "binary" /\ e.op = "[]" ->
            norm(e.lhs) \o <<"[">> \o norm(e.rhs) \o <<"]">>
       [] e.node = "binary" /\ e.op # "[]" ->
            BracketIf(LhsBrackets(e, format), norm(e.lhs)) \o <<e.op>> \o
            BracketIf(RhsBrackets(e, format), norm(e.rhs))
       [] e.node = "conditional" ->
            norm(e.q) \o <<"?">> \o branch(e.t) \o <<":">> \o branch(e.f)

-----------------------------------------------------------------------------
(* The reference: the texts of a tree *)

\* How tight a tree holds together.
Level(e) == CASE e.node \in {"identifier", "function"} -> 1002
              [] e.node = "binary" /\ e.op = "[]"      -> 1001
              [] e.node = "unary"                      -> 1000
              [] e.node = "binary" /\ e.op # "[]"      -> Precedence[e.op]
              [] e.node = "conditional"                -> 0

\* The texts of e where an operand of at least this level is expected.
RECURSIVE Texts(_, _)
Texts(e, level) ==
  LET bare ==
        CASE e.node = "identifier" -> {<<e.name>>}
          [] e.node = "function"   ->
               {<<e.name>> \o Bracketed(x \o <<",">> \o y) :
                  x \in Texts(e.args[1], 0), y \in Texts(e.args[2], 0)}
          [] e.node = "unary"      -> {<<e.op>> \o x : x \in Texts(e.arg, 1000)}
          [] e.node = "binary" /\ e.op = "[]" ->
               {x \o <<"[">> \o y \o <<"]">> : x \in Texts(e.lhs, 1002), y \in Texts(e.rhs, 0)}
          [] e.node = "binary" /\ e.op # "[]" ->
               {x \o <<e.op>> \o y : x \in Texts(e.lhs, Precedence[e.op]),
                                     y \in Texts(e.rhs, Precedence[e.op] + 1)}
          [] e.node = "conditional" ->
               {x \o <<"?">> \o y \o <<":">> \o z :
                  x \in Texts(e.q, 1), y \in Texts(e.t, 0), z \in Texts(e.f, 0)}
  IN (IF Level(e) >= level THEN bare ELSE {}) \cup {Bracketed(x) : x \in bare}

-----------------------------------------------------------------------------

Init ==
  /\ meant \in Meant
  /\ text \in {x \in Texts(meant, 0) : Readable(x)}
  /\ ast = <<>> /\ normalized = <<>> /\ reread = <<>>

\* Compiler::Compile parses the text and writes the normalised string.
CompileText(format) ==
  /\ ast = <<>>
  /\ ast' = <<Parse(text)>>
  /\ normalized' = Normalize(Parse(text), format)
  /\ UNCHANGED <<meant, text, reread>>

\* The normalised string is given to Compiler::Compile.
CompileNormalized ==
  /\ ast # <<>> /\ reread = <<>>
  /\ reread' = <<Parse(normalized)>>
  /\ UNCHANGED <<meant, text, ast, normalized>>

Next == (\E f \in Formats : CompileText(f)) \/ CompileNormalized

Spec == Init /\ [][Next]_vars

-----------------------------------------------------------------------------

\* The parser reads what was meant: operators bind by their documented
\* precedence and equal ones from the left, brackets overrule this "or [are]
\* just [...] a redundant helper" and change nothing
\* (docs/pages/alib_mod_expressions.dox.md:55).
ReadAsWritten == ast # <<>> => ast[1] = meant

\* The normalised string of an expression reads back as the same tree, whatever
\* optional brackets the flags ask for.
NormalizedReadsBack == reread # <<>> => reread = ast
=============================================================================
