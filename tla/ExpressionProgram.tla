------------------------- MODULE ExpressionProgram -------------------------
(***************************************************************************)
(* The compiler back end of ALib Expressions (alib/expressions): a parsed  *)
(* expression is walked in post-order; each node calls an Assemble method  *)
(* of class Program, which asks the plug-ins (arithmetics, Elvis operator, *)
(* auto-cast, math) and adds commands to the program or removes some       *)
(* (constant folding, identities, constant conditionals).  The finished    *)
(* program is run by class VirtualMachine with a stack of values; programs *)
(* of named expressions are called as subroutines, bound when the          *)
(* expression is compiled or looked up when it is evaluated.               *)
(*                                                                         *)
(* A step of the assembler is one Assemble call; a step of the machine is  *)
(* one command.  Positions in the program start with 1.  Not modelled:     *)
(* verbal operators and aliases, the normalised string, plug-ins that      *)
(* throw, the repository that GetNamed may load an expression from.        *)
(***************************************************************************)
EXTENDS ExpressionTree, SequencesExt

CONSTANTS
  Repertoires,    \* sets of <<name, tree>> that one behaviour may compile;
                  \* an expression without a name has the name ""
  Names,          \* the names of named expressions
  Environments    \* functions: the values of the identifiers

VARIABLES
  noOptimization,   \* the flag Compilation::NoOptimization
  repertoire,       \* the expressions this behaviour may compile
  namedExpressions, \* the table of the compiler: <<>> or <<program>> per name
  target,           \* the name of what is compiled, NotCompiling if nothing is
  source,           \* the tree that is compiled
  todo,             \* the Assemble calls still to come
  compileStorage,   \* Assembly, ResultStack and ConditionalStack
  expression,       \* the compiled anonymous expression: <<>> or <<program>>
  environment,      \* what the identifiers evaluate to in the last evaluation
  stack,            \* the stack of values in the scope
  frames,           \* the calls of VirtualMachine::run()
  nestedExpressions,\* the expressions that are being evaluated
  result            \* of the last evaluation, if no expression was compiled or
                    \* removed since: <<value>> or <<Failure>>, else <<>>

compilation == <<target, source, todo, compileStorage>>
evaluation  == <<environment, stack, frames, nestedExpressions, result>>
vars == <<noOptimization, repertoire, namedExpressions, expression,
          compilation, evaluation>>

-----------------------------------------------------------------------------
(* Commands *)

Command(code, box) ==
  [code |-> code, box |-> box, symbol |-> "", args |-> 0, kind |-> "", distance |-> 0,
   endOfConditional |-> FALSE, program |-> <<>>, throw |-> FALSE]

Constant(box)   == Command("Constant", box)
Jump(code)      == Command(code, Value("void", 0))
Callback(kind, symbol, args, box) ==
  [Command("Function", box) EXCEPT !.kind = kind, !.symbol = symbol, !.args = args]
Subroutine(p, box, throw) ==
  [Command("Subroutine", box) EXCEPT !.program = p, !.throw = throw]

IsConstant(cmd) == cmd.code = "Constant" /\ ~cmd.endOfConditional
IsJump(cmd)     == cmd.code \in {"Jump", "JumpIfFalse"}

ResultType(p) == Last(p.code).box.type

-----------------------------------------------------------------------------
(* The plug-ins *)

\* What a plug-in answers to a compilation request.
NotCompiled      == [found |-> "no", box |-> Value("void", 0)]
Identity         == [found |-> "identity", box |-> Value("void", 0)]
Folded(box)      == [found |-> "constant", box |-> box]
Called(box)      == [found |-> "callback", box |-> box]

\* The table binaryOperatorOptimizations: op with the constant on one side and
\* an operand of the same type on the other.
Optimization(op, side, x) ==
  CASE op = "||" /\ x.type = "B" -> IF IsTrue(x) THEN Folded(x) ELSE Identity
    [] op = "&&" /\ x.type = "B" -> IF IsTrue(x) THEN Identity ELSE Folded(x)
    [] op \in {"+", "-"} /\ x.type \in {"I", "F"} /\ x.content = 0 -> Identity
    [] op = "*" /\ x.type \in {"I", "F"} /\ x.content = 0 -> Folded(x)
    [] op = "*" /\ x.type \in {"I", "F"} /\ x.content = 1 -> Identity
    [] OTHER -> NotCompiled

\* Calculus::TryCompilation of binary operators.
TryArithmetics(op, x, y, xConst, yConst) ==
  LET entry == IF xConst THEN Optimization(op, "left", x) ELSE Optimization(op, "right", y)
  IN IF op = "?:" \/ ~({x.type, y.type} \subseteq Numeric) THEN NotCompiled
     ELSE IF xConst /\ yConst THEN Folded(ApplyBinary(op, x, y))
     ELSE IF (xConst \/ yConst) /\ x.type = y.type /\ entry # NotCompiled THEN entry
     ELSE Called(Value(BinaryType(op, x.type, y.type), 0))

TryElvis(op, x, y, xConst, yConst) ==
  CASE op # "?:" \/ x.type # y.type -> NotCompiled
    [] xConst /\ IsTrue(x)             -> Folded(x)
    [] xConst /\ ~IsTrue(x) /\ yConst  -> Folded(y)
    [] xConst /\ ~IsTrue(x) /\ ~yConst -> Identity
    [] OTHER                           -> Called(y)

TryBinary(op, x, y, xConst, yConst) ==
  IF op = "?:" THEN TryElvis(op, x, y, xConst, yConst)
               ELSE TryArithmetics(op, x, y, xConst, yConst)

\* Calculus::TryCompilation of unary operators and of functions.
TryUnary(op, x, isConst) ==
  CASE x.type \notin Numeric -> NotCompiled
    [] isConst               -> Folded(ApplyUnary(op, x))
    [] OTHER                 -> Called(Value(UnaryType(op, x.type), 0))

TryFunction(name, args, allConst) ==
  CASE name \in DOMAIN IdentifierType -> Called(Value(IdentifierType[name], 0))
    [] name = "Max" /\ allConst       -> Folded(ApplyFunction(name, args))
    [] OTHER                          -> Called(Value("I", 0))

\* AutoCast::TryCompilation: the operand of the narrower type is converted, at
\* once if it is constant, else by a call-back.
NoCast == [found |-> "no", box |-> Value("void", 0)]
Converted(x, like, isConst) ==
  IF isConst THEN Folded(Value(like.type, x.content)) ELSE Called(like)
AutoCast(x, y, xConst, yConst) ==
  [found |-> x.type # y.type,
   lhs   |-> IF Rank[x.type] < Rank[y.type] THEN Converted(x, y, xConst) ELSE NoCast,
   rhs   |-> IF Rank[y.type] < Rank[x.type] THEN Converted(y, x, yConst) ELSE NoCast]
CastTo(box) == Callback("Cast", IF box.type = "F" THEN "Float" ELSE "Integer", 1, box)

-----------------------------------------------------------------------------
(* The assembly *)

EmptyStorage == [Assembly |-> <<>>, ResultStack |-> <<>>, ConditionalStack |-> <<>>]

ResultPC(a)    == Last(a.ResultStack)
LhsResultPC(a) == a.ResultStack[Len(a.ResultStack) - 1]
LhsResultStartPC(a) ==
  LET n == Len(a.ResultStack) IN IF n = 2 THEN 1 ELSE a.ResultStack[n - 2] + 1

SetLast(s, x)          == Append(Front(s), x)
Erase(s, first, after) == SubSeq(s, 1, first - 1) \o SubSeq(s, after, Len(s))

Push(a, cmd) == [a EXCEPT !.Assembly    = Append(@, cmd),
                          !.ResultStack = Append(@, Len(a.Assembly) + 1)]
\* The results of the last n operands are replaced by one, the last command.
OneResult(a, code, n) ==
  [a EXCEPT !.Assembly    = code,
            !.ResultStack = Append(SubSeq(@, 1, Len(@) - n), Len(code))]

\* program.cpp, class Assembly: the range of the lhs starts after the previous
\* result.
BinaryAssembled(a, op, found, lhsIsConstant) ==
  LET start == LhsResultStartPC(a)
      code  == CASE found.found = "identity" /\ lhsIsConstant ->
                      Erase(a.Assembly, start, start + 1)
                 [] found.found = "identity" /\ ~lhsIsConstant -> Front(a.Assembly)
                 [] found.found = "constant" ->
                      SetLast(Erase(a.Assembly, start, ResultPC(a)), Constant(found.box))
                 [] found.found = "callback" ->
                      Append(a.Assembly, Callback("BinaryOp", op, 2, found.box))
  IN OneResult(a, code, 2)

\* The arguments of a binary operator after AutoCast.
ArgumentsCast(a, cast) ==
  LET l == LhsResultPC(a)
      n == Len(a.ResultStack)
      b == CASE cast.lhs.found = "constant" -> [a EXCEPT !.Assembly[l].box = cast.lhs.box]
             [] cast.lhs.found = "callback" ->
                  [a EXCEPT !.Assembly           = InsertAt(@, l + 1, CastTo(cast.lhs.box)),
                            !.ResultStack[n - 1] = @ + 1,
                            !.ResultStack[n]     = @ + 1]
             [] OTHER -> a
  IN CASE cast.rhs.found = "constant" ->
            [b EXCEPT !.Assembly[Len(b.Assembly)].box = cast.rhs.box]
       [] cast.rhs.found = "callback" ->
            [b EXCEPT !.Assembly       = InsertAt(@, ResultPC(b) + 1, CastTo(cast.rhs.box)),
                      !.ResultStack[n] = @ + 1]
       [] OTHER -> b

\* AssembleCondFinalize_F: T and F get the same type.
BranchesCast(a, cast) ==
  LET c == Last(a.ConditionalStack)
      n == Len(a.ResultStack)
      k == Len(a.ConditionalStack)
      t == LhsResultPC(a)
      b == CASE cast.lhs.found = "constant" -> [a EXCEPT !.Assembly[t].box = cast.lhs.box]
             [] cast.lhs.found = "callback" ->
                  [a EXCEPT !.Assembly =
                              InsertAt([@ EXCEPT ![c.QJumpPos].distance = @ + 1,
                                                 ![c.TJumpPos].distance = @ + 1],
                                       c.TJumpPos, CastTo(cast.lhs.box)),
                            !.ConditionalStack[k].TJumpPos = @ + 1,
                            !.ResultStack[n - 1] = @ + 1]
             [] OTHER -> a
  \* the code asks for the call-back of T (!) to see whether F is constant
  IN IF cast.rhs.found = "no" THEN b
     ELSE [b EXCEPT !.Assembly[Len(b.Assembly)].box = cast.rhs.box]

-----------------------------------------------------------------------------
(* The Assemble calls of an expression, in the order of the tree *)

Call(method, arg) == [method |-> method, arg |-> arg]

RECURSIVE Calls(_)
Calls(e) ==
  CASE e.node = "literal"     -> <<Call("Constant", e.value)>>
    [] e.node = "identifier"  -> <<Call("Function", [name |-> e.name, qty |-> 0])>>
    [] e.node = "unary"       -> Append(Calls(e.arg), Call("UnaryOp", e.op))
    [] e.node = "binary"      -> Calls(e.lhs) \o Calls(e.rhs) \o <<Call("BinaryOp", e.op)>>
    [] e.node = "conditional" -> Append(Calls(e.q), Call("CondQ", "")) \o
                                 Append(Calls(e.t), Call("CondT", "")) \o
                                 Append(Calls(e.f), Call("CondF", ""))
    [] e.node = "function"    ->
         FlattenSeq([i \in 1 .. Len(e.args) |->
                       IF e.name = "Expression" /\ i = 3 THEN <<>> ELSE Calls(e.args[i])])
         \o <<Call("Function", [name |-> e.name, qty |-> Len(e.args)])>>

\* The tree with each `*name` bound to the program that has this name now; it
\* is what the finished program has to compute.
RECURSIVE Resolved(_, _)
Resolved(e, named) ==
  LET r(x) == Resolved(x, named)
  IN CASE e.node = "unary" /\ e.op = "*" ->
            LET p == named[e.arg.value.content] IN IF p = <<>> THEN e ELSE Bound(p[1])
       [] e.node = "unary" /\ e.op # "*" -> [e EXCEPT !.arg = r(@)]
       [] e.node = "binary"      -> [e EXCEPT !.lhs = r(@), !.rhs = r(@)]
       [] e.node = "conditional" -> [e EXCEPT !.q = r(@), !.t = r(@), !.f = r(@)]
       [] e.node = "function"    -> [e EXCEPT !.args = [i \in DOMAIN @ |-> r(@[i])]]
       [] OTHER -> e

-----------------------------------------------------------------------------
(* Compiler::Compile and Compiler::AddNamed *)

NotCompiling == "none"
Idle         == target = NotCompiling /\ frames = <<>>

Init ==
  /\ noOptimization \in BOOLEAN
  /\ repertoire \in Repertoires
  /\ namedExpressions = [n \in Names |-> <<>>]
  /\ expression = <<>>
  /\ target = NotCompiling /\ source = <<>> /\ todo = <<>> /\ compileStorage = EmptyStorage
  /\ environment = <<>>
  /\ stack = <<>> /\ frames = <<>> /\ nestedExpressions = <<>> /\ result = <<>>

Compile(name, tree) ==
  /\ Idle
  /\ target' = name
  /\ source' = Resolved(tree, namedExpressions)
  /\ todo' = Calls(tree)
  /\ compileStorage' = EmptyStorage
  /\ environment' = <<>> /\ result' = <<>>
  /\ UNCHANGED <<noOptimization, repertoire, namedExpressions, expression,
                 stack, frames, nestedExpressions>>

RemoveNamed(name) ==
  /\ Idle
  /\ namedExpressions[name] # <<>>
  /\ namedExpressions' = [namedExpressions EXCEPT ![name] = <<>>]
  /\ result' = <<>>
  /\ UNCHANGED <<noOptimization, repertoire, expression, compilation,
                 environment, stack, frames, nestedExpressions>>

Assembled(a) ==
  /\ compileStorage' = a
  /\ todo' = Tail(todo)
  /\ UNCHANGED <<noOptimization, repertoire, namedExpressions, expression, target, source,
                 evaluation>>

\* An exception leaves Compile: the expression is not stored.
Rejected ==
  /\ target' = NotCompiling /\ source' = <<>> /\ todo' = <<>> /\ compileStorage' = EmptyStorage
  /\ UNCHANGED <<noOptimization, repertoire, namedExpressions, expression, evaluation>>

Next1(method) == target # NotCompiling /\ todo # <<>> /\ Head(todo).method = method

AssembleConstant ==
  /\ Next1("Constant")
  /\ Assembled(Push(compileStorage, Constant(Head(todo).arg)))

\* The commands of the last n results (class Program, collectArgs).
Argument(a, n, i) == a.Assembly[a.ResultStack[Len(a.ResultStack) - n + i]]
Optimizable(cmd)  == IsConstant(cmd) /\ ~noOptimization

AssembleFunction ==
  /\ Next1("Function") /\ Head(todo).arg.name # "Expression"
  /\ LET a     == compileStorage
         call  == Head(todo).arg
         n     == call.qty
         args  == [i \in 1 .. n |-> Argument(a, n, i).box]
         found == TryFunction(call.name, args, \A i \in 1 .. n : Optimizable(Argument(a, n, i)))
         cmd   == Callback(IF n = 0 THEN "Identifier" ELSE "Function", call.name, n, found.box)
     IN Assembled(CASE found.found = "callback" -> OneResult(a, Append(a.Assembly, cmd), n)
                    [] found.found = "constant" ->
                         OneResult(a, Append(SubSeq(a.Assembly, 1, Len(a.Assembly) - n),
                                             Constant(found.box)), n))

\* Expression(name, default) and Expression(name, default, throw)
AssembleLookup ==
  /\ Next1("Function") /\ Head(todo).arg.name = "Expression" /\ Head(todo).arg.qty > 1
  /\ LET a == compileStorage
     IN IF Argument(a, 2, 1).box.type = "S"
        THEN Assembled(OneResult(a, Append(a.Assembly,
                         Subroutine(<<>>, Last(a.Assembly).box, Head(todo).arg.qty = 3)), 2))
        ELSE Rejected

\* `*name` and Expression(name): the program is found now.
AssembleNested ==
  /\ \/ Next1("UnaryOp") /\ Head(todo).arg = "*"
     \/ Next1("Function") /\ Head(todo).arg.name = "Expression" /\ Head(todo).arg.qty = 1
  /\ LET a == compileStorage
         p == namedExpressions[Last(a.Assembly).box.content]
     IN IF Last(a.Assembly).box.type # "S" \/ ~IsConstant(Last(a.Assembly)) \/ p = <<>>
        THEN Rejected
        ELSE Assembled([a EXCEPT !.Assembly = SetLast(@,
                          Subroutine(p, Value(ResultType(p[1]), 0), FALSE))])

AssembleUnaryOp ==
  /\ Next1("UnaryOp") /\ Head(todo).arg # "*"
  /\ LET a     == compileStorage
         op    == Head(todo).arg
         found == TryUnary(op, Last(a.Assembly).box, Optimizable(Argument(a, 1, 1)))
     IN CASE found.found = "constant" ->
               Assembled([a EXCEPT !.Assembly = SetLast(@, Constant(found.box))])
          [] found.found = "callback" ->
               Assembled(OneResult(a, Append(a.Assembly,
                                             Callback("UnaryOp", op, 1, found.box)), 1))
          [] OTHER -> Rejected

\* The plug-ins are asked twice: the second time after an automatic cast.
AssembleBinaryOp ==
  /\ Next1("BinaryOp")
  /\ LET op       == Head(todo).arg
         lhs(a)   == Argument(a, 2, 1)
         rhs(a)   == Argument(a, 2, 2)
         try(a)   == TryBinary(op, lhs(a).box, rhs(a).box,
                               Optimizable(lhs(a)), Optimizable(rhs(a)))
         done(a)  == BinaryAssembled(a, op, try(a), Optimizable(lhs(a)))
         first    == compileStorage
         cast     == AutoCast(lhs(first).box, rhs(first).box,
                              IsConstant(lhs(first)), IsConstant(rhs(first)))
         second   == ArgumentsCast(first, cast)
     IN IF try(first) # NotCompiled THEN Assembled(done(first))
        ELSE IF cast.found /\ try(second) # NotCompiled THEN Assembled(done(second))
        ELSE Rejected

\* A constant condition is removed, its value is kept on the conditional stack.
AssembleCondFinalize_Q ==
  /\ Next1("CondQ")
  /\ LET a      == compileStorage
         q      == Last(a.Assembly)
         isConst == Optimizable(q)
         code   == Append(IF isConst THEN Front(a.Assembly) ELSE a.Assembly,
                          Jump("JumpIfFalse"))
     IN Assembled([a EXCEPT
          !.Assembly = code,
          !.ConditionalStack =
             Append(@, [QJumpPos |-> Len(code), TJumpPos |-> 0, isConst |-> isConst,
                        constQ |-> isConst /\ IsTrue(q.box)])])

\* mutant
AssembleCondFinalize_T_short ==
  /\ Next1("CondT")
  /\ LET a    == compileStorage
         code == Append(a.Assembly, Jump("Jump"))
         q    == Last(a.ConditionalStack).QJumpPos
     IN Assembled([a EXCEPT
          !.Assembly = [code EXCEPT ![q].distance = Len(code) - q],
          !.ResultStack = SetLast(@, Last(@) + 1),
          !.ConditionalStack = SetLast(@, [Last(@) EXCEPT !.TJumpPos = Len(code)])])

AssembleCondFinalize_T ==
  /\ Next1("CondT")
  /\ LET a    == compileStorage
         code == Append(a.Assembly, Jump("Jump"))
         q    == Last(a.ConditionalStack).QJumpPos
     IN Assembled([a EXCEPT
          !.Assembly = [code EXCEPT ![q].distance = Len(code) + 1 - q],
          !.ResultStack = SetLast(@, Last(@) + 1),
          !.ConditionalStack = SetLast(@, [Last(@) EXCEPT !.TJumpPos = Len(code)])])

\* T and F get one type, a constant conditional loses its jumps and the branch
\* that is never taken.
AssembleCondFinalize_F ==
  /\ Next1("CondF")
  /\ LET n       == Len(compileStorage.ResultStack)
         tJump   == Last(compileStorage.ConditionalStack).TJumpPos
         a       == [compileStorage EXCEPT
                       !.ResultStack[n - 1] = @ - 1,
                       !.Assembly[tJump].distance = Len(compileStorage.Assembly) + 1 - tJump]
         T       == Argument(a, 2, 1)
         F       == Argument(a, 2, 2)
         b       == BranchesCast(a, AutoCast(T.box, F.box, IsConstant(T), IsConstant(F)))
         c       == Last(b.ConditionalStack)
         size    == Len(b.Assembly)
         code    == CASE c.isConst /\ ~c.constQ -> Erase(b.Assembly, c.QJumpPos, c.TJumpPos + 1)
                      [] c.isConst /\ c.constQ  ->
                           Erase(Erase(b.Assembly, c.TJumpPos, size + 1),
                                 c.QJumpPos, c.QJumpPos + 1)
                      [] OTHER -> [b.Assembly EXCEPT ![size].endOfConditional = TRUE]
     IN Assembled([OneResult(b, code, 3) EXCEPT !.ConditionalStack = Front(@)])

\* The program is complete; Compile returns it, AddNamed stores it.
AssembleFinalize ==
  /\ target # NotCompiling /\ todo = <<>>
  /\ LET p == [name |-> target, ast |-> source, code |-> compileStorage.Assembly]
     IN IF target = "" THEN expression' = <<p>> /\ UNCHANGED namedExpressions
        ELSE /\ namedExpressions' = [namedExpressions EXCEPT ![target] = <<p>>]
             /\ UNCHANGED expression
  /\ target' = NotCompiling /\ source' = <<>> /\ compileStorage' = EmptyStorage
  /\ UNCHANGED <<noOptimization, repertoire, todo, evaluation>>

Assemble ==
  \/ AssembleConstant \/ AssembleFunction \/ AssembleLookup \/ AssembleNested
  \/ AssembleUnaryOp \/ AssembleBinaryOp
  \/ AssembleCondFinalize_Q \/ AssembleCondFinalize_T \/ AssembleCondFinalize_F
  \/ AssembleFinalize

-----------------------------------------------------------------------------
(* The virtual machine *)

Frame(p) == [program |-> p, pc |-> 1, base |-> Len(stack)]
Running  == frames # <<>>
Top      == Last(frames)
Cmd      == Top.program.code[Top.pc]
AtEnd    == Top.pc > Len(Top.program.code)
At(code) == Running /\ ~AtEnd /\ Cmd.code = code

Pop(s, n)    == SubSeq(s, 1, Len(s) - n)
Args(n)      == SubSeq(stack, Len(stack) - n + 1, Len(stack))
Moved(d)     == SetLast(frames, [Top EXCEPT !.pc = @ + d])

compiled == <<noOptimization, repertoire, namedExpressions, expression, compilation>>

\* VirtualMachine::Run: what a former evaluation left in the scope is removed.
Evaluate(values) ==
  /\ Idle /\ expression # <<>>
  /\ environment' = values
  /\ stack' = <<>> /\ nestedExpressions' = <<expression[1]>> /\ result' = <<>>
  /\ frames' = <<[program |-> expression[1], pc |-> 1, base |-> 0]>>
  /\ UNCHANGED compiled

Continue(newStack, newFrames) ==
  /\ stack' = newStack /\ frames' = newFrames
  /\ UNCHANGED <<environment, nestedExpressions, result, compiled>>

\* An exception leaves all calls of run(); the scope is left as it is.
Thrown ==
  /\ frames' = <<>> /\ result' = <<Failure>>
  /\ UNCHANGED <<environment, stack, nestedExpressions, compiled>>

\* run() is called for a program that is not being evaluated already.
Enter(p) ==
  IF p \in Range(nestedExpressions) THEN Thrown
  ELSE /\ nestedExpressions' = Append(nestedExpressions, p)
       /\ frames' = Append(frames, Frame(p))
       /\ UNCHANGED <<environment, stack, result, compiled>>

ExecuteConstant == At("Constant") /\ Continue(Append(stack, Cmd.box), Moved(1))

ExecuteFunction ==
  /\ At("Function")
  /\ LET args  == Args(Cmd.args)
         value == CASE Cmd.kind = "Identifier" -> environment[Cmd.symbol]
                    [] Cmd.kind = "UnaryOp"    -> ApplyUnary(Cmd.symbol, args[1])
                    [] Cmd.kind = "BinaryOp"   -> ApplyBinary(Cmd.symbol, args[1], args[2])
                    [] OTHER                   -> ApplyFunction(Cmd.symbol, args)
     IN Continue(Append(Pop(stack, Cmd.args), value), Moved(1))

ExecuteJumpIfFalse ==
  At("JumpIfFalse") /\ Continue(Front(stack), Moved(IF IsTrue(Last(stack)) THEN 1 ELSE Cmd.distance))

ExecuteJump == At("Jump") /\ Continue(stack, Moved(Cmd.distance))

\* A subroutine whose program was found at compile time
ExecuteNested == At("Subroutine") /\ Cmd.program # <<>> /\ Enter(Cmd.program[1])

\* ... and one that is looked up now; the default value stays if there is none.
ExecuteLookup ==
  /\ At("Subroutine") /\ Cmd.program = <<>>
  /\ LET p == namedExpressions[stack[Len(stack) - 1].content]
     IN CASE p # <<>> -> Enter(p[1])
          [] p = <<>> /\ Cmd.throw  -> Thrown
          [] p = <<>> /\ ~Cmd.throw -> Continue(Append(Pop(stack, 2), Last(stack)), Moved(1))

\* run() of a nested expression returns to the command that called it.
ReturnFromNested ==
  /\ Running /\ AtEnd /\ Len(frames) > 1
  /\ LET outer    == frames[Len(frames) - 1]
         lookedUp == outer.program.code[outer.pc].program = <<>>
         resumed  == SetLast(Front(frames), [outer EXCEPT !.pc = @ + 1])
         default  == stack[Len(stack) - 1]
     IN /\ nestedExpressions' = Front(nestedExpressions)
        /\ IF lookedUp /\ default.type # Last(stack).type
           THEN frames' = <<>> /\ result' = <<Failure>> /\ UNCHANGED stack
           ELSE /\ frames' = resumed /\ UNCHANGED result
                /\ stack' = IF lookedUp THEN Append(Pop(stack, 3), Last(stack)) ELSE stack
        /\ UNCHANGED <<environment, compiled>>

Return ==
  /\ Running /\ AtEnd /\ Len(frames) = 1
  /\ result' = <<Last(stack)>>
  /\ stack' = Front(stack) /\ frames' = <<>> /\ nestedExpressions' = Front(nestedExpressions)
  /\ UNCHANGED <<environment, compiled>>

Execute ==
  \/ ExecuteConstant \/ ExecuteFunction \/ ExecuteJumpIfFalse \/ ExecuteJump
  \/ ExecuteNested \/ ExecuteLookup \/ ReturnFromNested \/ Return

Next ==
  \/ \E e \in repertoire : Compile(e[1], e[2])
  \/ \E n \in Names : RemoveNamed(n)
  \/ \E v \in Environments : Evaluate(v)
  \/ Assemble
  \/ Execute

Spec == Init /\ [][Next]_vars

-----------------------------------------------------------------------------
(* Class VirtualMachine, Decompile: from the program back to a tree *)

RECURSIVE ConditionalsClosed(_, _)
ConditionalsClosed(d, pc) ==
  LET n == Len(d.nodes)
  IN IF d.ends = <<>> \/ Last(d.ends) # pc THEN d
     ELSE ConditionalsClosed(
            [nodes |-> Append(Pop(d.nodes, 3),
                              Conditional(d.nodes[n - 2], d.nodes[n - 1], d.nodes[n])),
             ends  |-> Front(d.ends)], pc)

Decompiled(p) ==
  LET step(d, pc) ==
        LET cmd     == p.code[pc]
            n       == Len(d.nodes)
            args(k) == SubSeq(d.nodes, n - k + 1, n)
            node(k, x) == [d EXCEPT !.nodes = Append(Pop(@, k), x)]
            next ==
              CASE cmd.code = "Subroutine" /\ cmd.program # <<>> ->
                     node(0, Bound(cmd.program[1]))
                [] cmd.code = "Subroutine" /\ cmd.program = <<>> ->
                     node(2, Function("Expression", args(2) \o
                               IF cmd.throw THEN <<Identifier("throw")>> ELSE <<>>))
                [] cmd.code = "Constant"    -> node(0, Literal(cmd.box))
                [] cmd.kind = "Identifier"  -> node(0, Identifier(cmd.symbol))
                [] cmd.kind = "UnaryOp"     -> node(1, UnaryOp(cmd.symbol, args(1)[1]))
                [] cmd.kind = "BinaryOp"    ->
                     node(2, BinaryOp(cmd.symbol, args(2)[1], args(2)[2]))
                [] cmd.code = "JumpIfFalse" -> d
                [] cmd.code = "Jump"        ->
                     [d EXCEPT !.ends = Append(@, pc + cmd.distance - 1)]
                [] OTHER -> node(cmd.args, Function(cmd.symbol, args(cmd.args)))
        IN ConditionalsClosed(next, pc)
  IN FoldLeft(step, [nodes |-> <<>>, ends |-> <<>>], [i \in 1 .. Len(p.code) |-> i])

-----------------------------------------------------------------------------
(* Properties *)

\* Whenever a method of class Program is entered, the last result is the last
\* command or a jump (ASSERT_ASSEMBLE), and results and open conditionals are
\* those that the remaining calls consume: at the end one result is left and
\* no conditional (the assertions of AssembleFinalize).
AssemblyIsAligned ==
  target # NotCompiling =>
    LET a == compileStorage
    IN /\ a.ResultStack # <<>> => \/ ResultPC(a) = Len(a.Assembly)
                                 \/ IsJump(Last(a.Assembly))
       /\ todo = <<>> => Len(a.ResultStack) = 1 /\ a.ConditionalStack = <<>>

\* When run() has executed the last command of a program, one value is added to
\* the stack, of the type that the program was compiled for (the two assertions
\* at the end of VirtualMachine::run).
StackGrowsByOne ==
  Running /\ AtEnd =>
    /\ Len(stack) = Top.base + 1
    /\ Last(stack).type = ResultType(Top.program)

\* An evaluation yields the value of the tree, whatever the optimisation removed
\* from the program, which branches had to be cast, and what former, failed
\* evaluations left in the scope; it fails only where the tree has no value: a
\* nested expression that is being evaluated already, that is missing although
\* "throw" was given, or that has another type than the default value.
RunYieldsValue ==
  (result # <<>> /\ Idle) =>
     result[1] = ValueOf(expression[1].ast, environment, namedExpressions, {expression[1]})

\* The optimised expression string of a program (getOptimizedExpressionString)
\* stands for a tree with the same values.
DecompiledIsEquivalent ==
  Idle /\ expression # <<>> =>
    LET d == Decompiled(expression[1])
    IN /\ Len(d.nodes) = 1 /\ d.ends = <<>>
       /\ \A v \in Environments :
            ValueOf(d.nodes[1], v, namedExpressions, {expression[1]})
              = ValueOf(expression[1].ast, v, namedExpressions, {expression[1]})

\* No expression is evaluated inside of its own evaluation: nested calls end.
NestingIsAcyclic == Running => IsInjective(nestedExpressions)

=============================================================================
