--------------------------- MODULE ExpressionTree ---------------------------
(***************************************************************************)
(* The abstract syntax trees of ALib Expressions (alib/expressions/detail/ *)
(* ast_impl.inl) and what they mean: the type and the value of a tree,     *)
(* written from the operator tables of the plug-ins and not from the       *)
(* assembler.  The meaning is the reference that ExpressionProgram is      *)
(* checked against.                                                        *)
(*                                                                         *)
(* A value (a Box of the code) is a record of a type, "B"oolean,           *)
(* "I"nteger, "F"loat or "S"tring, and of a content: a number, or the name *)
(* that a string holds.  Floats are numbers of another type.               *)
(***************************************************************************)
EXTENDS Integers, Sequences

CONSTANT
  IdentifierType     \* a function: the type of each identifier of the plug-in

Value(type, content) == [type |-> type, content |-> content]
Truth(b)             == Value("B", IF b THEN 1 ELSE 0)
IsTrue(x)            == x.content # 0

Literal(x)             == [node |-> "literal", value |-> x]
Identifier(name)       == [node |-> "identifier", name |-> name]
UnaryOp(op, arg)       == [node |-> "unary", op |-> op, arg |-> arg]
BinaryOp(op, lhs, rhs) == [node |-> "binary", op |-> op, lhs |-> lhs, rhs |-> rhs]
Conditional(q, t, f)   == [node |-> "conditional", q |-> q, t |-> t, f |-> f]
Function(name, args)   == [node |-> "function", name |-> name, args |-> args]

\* `*name`: the expression of that name, found when the expression is compiled
\* ("ast" is its tree once it was found).
Nested(name)      == UnaryOp("*", Literal(Value("S", name)))
Bound(program)    == [node |-> "bound", program |-> program]

\* `Expression(name, default)` and `Expression(name, default, throw)`: found
\* when the expression is evaluated.
Lookup(name, default)      == Function("Expression",
                                <<Literal(Value("S", name)), default>>)
LookupOrThrow(name, sample) == Function("Expression",
                                <<Literal(Value("S", name)), sample,
                                  Identifier("throw")>>)

-----------------------------------------------------------------------------
(* Types *)

Rank == [B |-> 1, I |-> 2, F |-> 4, S |-> 8]
Wider(t1, t2) == IF Rank[t1] > Rank[t2] THEN t1 ELSE t2

\* The operators of the table OperatorTable.
Arithmetic == {"+", "-", "*"}
Comparison == {"<", "=="}
Boolean    == {"&&", "||"}
Numeric    == {"B", "I", "F"}

UnaryType(op, t)  == CASE op = "!" -> "B" [] t = "B" -> "I" [] OTHER -> t
BinaryType(op, t1, t2) ==
  IF op \in Arithmetic THEN Wider("I", Wider(t1, t2)) ELSE "B"

RECURSIVE TypeOf(_)
TypeOf(e) ==
  CASE e.node = "literal"     -> e.value.type
    [] e.node = "identifier"  -> IdentifierType[e.name]
    [] e.node = "unary"       -> UnaryType(e.op, TypeOf(e.arg))
    [] e.node = "binary"      -> IF e.op = "?:"
                                 THEN Wider(TypeOf(e.lhs), TypeOf(e.rhs))
                                 ELSE BinaryType(e.op, TypeOf(e.lhs), TypeOf(e.rhs))
    [] e.node = "conditional" -> Wider(TypeOf(e.t), TypeOf(e.f))
    [] e.node = "bound"       -> TypeOf(e.program.ast)
    [] e.node = "function"    -> IF e.name = "Expression"
                                 THEN TypeOf(e.args[2])
                                 ELSE IF e.name = "Float" THEN "F" ELSE "I"

-----------------------------------------------------------------------------
(* Values: the call-back functions of the plug-ins *)

ApplyUnary(op, x) ==
  IF op = "!" THEN Truth(~IsTrue(x)) ELSE Value(UnaryType("-", x.type), -x.content)

ApplyBinary(op, x, y) ==
  LET number(n) == Value(BinaryType(op, x.type, y.type), n)
  IN CASE op = "+"  -> number(x.content + y.content)
       [] op = "-"  -> number(x.content - y.content)
       [] op = "*"  -> number(x.content * y.content)
       [] op = "<"  -> Truth(x.content < y.content)
       [] op = "==" -> Truth(x.content = y.content)
       [] op = "&&" -> Truth(IsTrue(x) /\ IsTrue(y))
       [] op = "||" -> Truth(IsTrue(x) \/ IsTrue(y))
       [] op = "?:" -> IF IsTrue(x) THEN x ELSE y

ApplyFunction(name, args) ==
  CASE name = "Max" -> IF args[1].content < args[2].content THEN args[2] ELSE args[1]
    [] name = "Float"   -> Value("F", args[1].content)
    [] name = "Integer" -> Value("I", args[1].content)

\* An evaluation that ends with an exception.
Failure == Value("failure", 0)

(***************************************************************************)
(* The value of a tree, given the values of the identifiers, the named     *)
(* expressions and the expressions that are being evaluated: one of these  *)
(* evaluated again is an error, and so is a nested expression of another   *)
(* type than the default value that it replaces.                           *)
(***************************************************************************)
RECURSIVE ValueOf(_, _, _, _)
ValueOf(e, environment, named, running) ==
  LET val(x)  == ValueOf(x, environment, named, running)
      as(x)   == LET y == val(x)
                 IN IF y = Failure THEN y ELSE Value(TypeOf(e), y.content)
      call(p) == IF p \in running THEN Failure
                 ELSE ValueOf(p.ast, environment, named, running \cup {p})
  IN CASE e.node = "literal"    -> e.value
       [] e.node = "identifier" -> environment[e.name]
       [] e.node = "unary"      ->
            LET x == val(e.arg) IN IF x = Failure THEN x ELSE ApplyUnary(e.op, x)
       [] e.node = "binary"     ->
            IF Failure \in {val(e.lhs), val(e.rhs)} THEN Failure
            ELSE IF e.op = "?:" THEN ApplyBinary(e.op, as(e.lhs), as(e.rhs))
            ELSE ApplyBinary(e.op, val(e.lhs), val(e.rhs))
       [] e.node = "conditional" ->
            LET q == val(e.q)
            IN CASE q = Failure -> q [] IsTrue(q) -> as(e.t) [] OTHER -> as(e.f)
       [] e.node = "bound"      -> call(e.program)
       [] e.node = "function" /\ e.name # "Expression" ->
            IF \E i \in 1 .. Len(e.args) : val(e.args[i]) = Failure THEN Failure
            ELSE ApplyFunction(e.name, [i \in 1 .. Len(e.args) |-> val(e.args[i])])
       [] e.node = "function" /\ e.name = "Expression" ->
            LET name    == e.args[1].value.content
                default == val(e.args[2])
                nested  == call(named[name][1])
            IN CASE default = Failure      -> Failure
                 [] named[name] = <<>>     -> IF Len(e.args) = 3 THEN Failure ELSE default
                 [] nested.type # default.type -> Failure
                 [] OTHER                  -> nested
=============================================================================
