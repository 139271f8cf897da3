------------------------------- MODULE MCTexts -------------------------------
(* All sequential components on small instances: what is written and read, and *)
(* what keeps a tree, beside the components of MCData: expressions, strings and *)
(* what is searched in them, bit buffers, the command line of a program;       *)
(* configuration variables, string trees and file trees.  A behaviour is one   *)
(* of one component; the others stay as they are.                              *)
EXTENDS TLC, Integers, Sequences, FiniteSets, MCData

CONSTANTS exprX, exprY      \* names of expressions

\* Keys of a cache that share one list or two, and the shapes of the cache.
HashOfFiveKeys == <<1, 4, 3, 2, 5>>
ShapesOfCache == {<<1, 2>>, <<1, 3>>, <<2, 1>>, <<2, 2>>}
ShapesForFrames == {<<1, 2>>, <<2, 1>>}

\* A Boolean identifier and an integral one.
IdTypes == [q |-> "B", i |-> "I"]
Tree == INSTANCE ExpressionTree WITH IdentifierType <- IdTypes

IdQ == Tree!Identifier("q")
IdI == Tree!Identifier("i")
Lit(type, content) == Tree!Literal(Tree!Value(type, content))
Num(content) == Lit("I", content)
IsLit(e) == e.node = "literal"
-----------------------------------------------------------------------------
(* Programs *)

Leaves == {IdQ, IdI, Lit("B", 1), Num(0), Num(1), Lit("F", 2)}
Conditions == {IdQ, Lit("B", 1), Lit("B", 0)}

OneOperator ==
       {Tree!UnaryOp(op, arg) : op \in {"-", "!"}, arg \in Leaves}
  \cup {Tree!BinaryOp(op, lhs, rhs) :
          op \in {"+", "-", "*", "<", "&&", "||", "?:"}, lhs \in Leaves, rhs \in Leaves}
  \cup {Tree!Conditional(cond, t, f) : cond \in Conditions, t \in Leaves, f \in Leaves}

Inner == {e \in OneOperator :
            \/ e.node = "binary" /\ e.op \in {"+", "<", "?:"}
                 /\ e.lhs \in {IdQ, IdI, Num(0)} /\ e.rhs \in {IdI, Num(1), Lit("F", 2)}
            \/ e.node = "conditional" /\ e.q \in {IdQ, Lit("B", 0)}
                 /\ e.t \in {IdI, Num(0)} /\ e.f \in {IdI, Lit("F", 2)}}

TwoOperators ==
       {Tree!BinaryOp(op, e, rhs) : op \in {"*", "?:"}, e \in Inner, rhs \in {IdI, Num(0)}}
  \cup {Tree!BinaryOp(op, lhs, e) : op \in {"+", "?:"}, e \in Inner, lhs \in {IdI, Num(0)}}
  \cup {Tree!Conditional(cond, e, IdI) : cond \in Conditions, e \in Inner}
  \cup {Tree!Conditional(cond, IdI, e) : cond \in Conditions, e \in Inner}

(* Four families of trees are assembled wrongly (see the README); they are   *)
(* left out, as are the trees that hold them.                                *)

\* A constant or an identity at the start of a branch overwrites the jump of the
\* condition before it.
KeepsJump(t) == \/ t.node \in {"literal", "identifier"}
                \/ t.node = "binary" /\ t.op \in {"+", "<"} /\ t.lhs.node = "identifier"
                \/ t.node = "conditional" /\ ~IsLit(t.q)

\* A branch that is converted when the program runs gets wrong jumps, or none.
NeedsNoCall(t, f) == LET tt == Tree!TypeOf(t)
                         ft == Tree!TypeOf(f)
                     IN \/ tt = ft
                        \/ Tree!Wider(tt, ft) = tt /\ IsLit(f)
                        \/ Tree!Wider(tt, ft) = ft /\ IsLit(t)

\* The optimisation of a difference treats 0 - x as x.
RECURSIVE Sound(_)
Sound(e) ==
  CASE e.node = "unary"       -> Sound(e.arg)
    [] e.node = "binary"      -> Sound(e.lhs) /\ Sound(e.rhs) /\ (e.op = "-" => ~IsLit(e.lhs))
    [] e.node = "conditional" -> /\ Sound(e.q) /\ Sound(e.t) /\ Sound(e.f)
                                 /\ IsLit(e.q) \/ KeepsJump(e.t)
                                 /\ NeedsNoCall(e.t, e.f)
    [] OTHER                  -> TRUE

\* Named expressions that refer to each other, bound early and late, that change
\* their type, and that are missing.
NamedOnes ==
  {<<exprX, Tree!LookupOrThrow(exprY, IdI)>>, <<exprX, IdI>>,
   <<exprY, Tree!BinaryOp("+", IdI, Tree!Nested(exprX))>>, <<exprY, IdQ>>,
   <<"", Tree!BinaryOp("*", Tree!Lookup(exprX, Num(2)),
                       Tree!Function("Max", <<IdI, Tree!BinaryOp("+", Num(1), Num(1))>>))>>,
   <<"", Tree!BinaryOp("+", Tree!Nested(exprX), Tree!Function("Max", <<Num(1), Num(2)>>))>>}

VARIABLES noOptimization, repertoire, namedExpressions, target, source, todo, compileStorage,
          expression, environment, stack, frames, nestedExpressions, result
programVars == <<noOptimization, repertoire, namedExpressions, target, source, todo,
                 compileStorage, expression, environment, stack, frames, nestedExpressions,
                 result>>

Programs == INSTANCE ExpressionProgram WITH
    IdentifierType <- IdTypes, Names <- {exprX, exprY},
    Environments <- [q : {Tree!Value("B", 0), Tree!Value("B", 1)}, i : {Tree!Value("I", 3)}],
    Repertoires <- {{<<"", e>>} : e \in {t \in OneOperator \cup TwoOperators : Sound(t)}}
                   \cup {NamedOnes}
-----------------------------------------------------------------------------
(* Texts *)

TextOps == {"*", "-", "<", "?:"}
IdA == Tree!Identifier("a")
IdB == Tree!Identifier("b")
IdC == Tree!Identifier("c")
Op(op, lhs, rhs) == Tree!BinaryOp(op, lhs, rhs)

\* All shapes of two and of three operators.
TwoOps == {Op(o1, IdA, Op(o2, IdB, IdC)) : o1 \in TextOps, o2 \in TextOps}
     \cup {Op(o1, Op(o2, IdA, IdB), IdC) : o1 \in TextOps, o2 \in TextOps}
ThreeOps ==
  UNION {{Op(o1, Op(o2, IdA, IdB), Op(o3, IdC, IdA)), Op(o1, IdA, Op(o2, IdB, Op(o3, IdC, IdA))),
          Op(o1, IdA, Op(o2, Op(o3, IdB, IdC), IdA)), Op(o1, Op(o2, Op(o3, IdA, IdB), IdC), IdA),
          Op(o1, Op(o2, IdA, Op(o3, IdB, IdC)), IdA)} :
           o1 \in {"*", "-", "?:"}, o2 \in {"*", "-", "<"}, o3 \in {"-"}}

Mixed ==
       {Tree!Conditional(IdA, e, IdB) : e \in {IdA} \cup TwoOps}
  \cup {Tree!Conditional(IdA, IdB, e) : e \in {Tree!Conditional(IdA, IdC, IdB)}}
  \cup {Tree!UnaryOp("-", e) :
          e \in TwoOps \cup {IdA, Tree!UnaryOp("!", IdA), Tree!Conditional(IdA, IdB, IdC),
                             Op("[]", IdA, IdB)}}
  \cup {Op(o, Tree!UnaryOp("-", e), Tree!Function("max", <<f, IdC>>)) :
          o \in {"*", "<"}, e \in {IdA, Op("-", IdA, IdB)},
          f \in {Op("*", IdB, IdC), Tree!Conditional(IdA, IdB, IdC)}}
  \cup {Op(o, Op("[]", e, IdB), IdC) :
          o \in TextOps, e \in {IdA, Tree!Function("max", <<IdA, IdB>>)}}
  \cup {Op(o, Op("[]", IdA, Op("-", IdB, IdC)), IdC) : o \in TextOps}

\* A right operand in brackets that is followed by a stronger operator is read
\* wrongly (see the README): such texts are left out.
Strength == [op \in TextOps |-> CASE op = "*" -> 4 [] op = "-" -> 3 [] op = "<" -> 2 [] OTHER -> 1]
Brackets(s, first, last, kind) == Cardinality({k \in first .. last : s[k] = kind})
Closing(s, open) ==
  CHOOSE k \in open .. Len(s) :
    /\ Brackets(s, open, k, "(") = Brackets(s, open, k, ")")
    /\ \A m \in open .. k - 1 : Brackets(s, open, m, "(") > Brackets(s, open, m, ")")
Readable(s) ==
  \A k \in 1 .. Len(s) - 1 :
    s[k] \in TextOps /\ s[k + 1] = "(" =>
      LET after == Closing(s, k + 1) + 1
      IN after <= Len(s) /\ s[after] \in TextOps => Strength[s[after]] <= Strength[s[k]]

VARIABLES meant, exprText, ast, normalized, reread
syntaxVars == <<meant, exprText, ast, normalized, reread>>

Syntax == INSTANCE ExpressionSyntax WITH
    IdentifierType <- [a |-> "I"], text <- exprText, Meant <- TwoOps \cup ThreeOps \cup Mixed,
    Formats <- LET needed == "RedundantRhsBracketsIfRhsIsStrongerBinaryOp"
               IN {{needed}, {needed, "RedundantBracketsIfLhsAndRhsAreBinaryOps",
                              "RedundantConditionalOpBrackets",
                              "RedundantBracketsBetweenTwoUnaryOps"}}
-----------------------------------------------------------------------------
(* The buffers of strings, and searching in strings *)

VARIABLES stringHeap, strings, stringText
bufferVars == <<stringHeap, strings, stringText>>

\* One string that is edited and one that takes part in moves and assignments.
Buffer == INSTANCE AString WITH
    Strings <- {"s", "o"}, Edited <- {"s"}, Buffers <- {"b1", "b2"},
    Chars <- {"n", "\\", "\n"}, TrimChars <- {"\n"}, Sources <- {<<>>, <<"n">>, <<"\\", "n">>},
    MinCapacity <- 2, ExternalSize <- 3, MaxCells <- 10, MaxLength <- 3, MaxBoth <- 1,
    Misuses <- {}, heap <- stringHeap, text <- stringText
ASSUME Buffer!AStringAssumption
-----------------------------------------------------------------------------
VARIABLES haystack, needle
searchVars == <<haystack, needle>>

\* The tokens: one of a single segment, one in snake case, three in camel case.
Finding == INSTANCE StringSearch WITH
    Letters <- {"a", "b", "_"}, Upper <- ("A" :> "a" @@ "B" :> "b"),
    Names <- {<<"a", "b", "a", "b">>, <<"a", "b", "_", "a">>, <<"a", "b", "A">>,
              <<"b", "a", "A", "b">>, <<"a", "B", "A", "b">>},
    MaxText <- 4, MaxPattern <- 3, text <- haystack, pattern <- needle
ASSUME Finding!StringSearchAssumption
-----------------------------------------------------------------------------
(* A bit buffer: numbers at the limits of the sizes that they are written    *)
(* with, across the ends of words, and arrays for each of the compression    *)
(* algorithms.                                                               *)

VARIABLES bitData, bitWriter, bitReader, script, written, terminated, readFrom, readBack
bitVars == <<bitData, bitWriter, bitReader, script, written, terminated, readFrom, readBack>>

Coding == INSTANCE BitCoding WITH W <- 32, DebugCheck <- TRUE
Ends(n) == {0, n - 1}
Full(n) == 0 .. n - 1

Values ==
    {Coding!Fixed(5, {0, 3}), Coding!Fixed(26, {1, 25}), Coding!Fixed(32, Full(32)),
     Coding!Fixed(40, Ends(40)), Coding!Fixed(64, Full(64))}
    \cup {Coding!Width(64, n, Ends(n)) : n \in {1, 31, 32, 33, 64}}
    \cup {Coding!Unsigned(type, bits) : type \in {8, 16}, bits \in {{}, {2}, {3}, {7}}}
    \cup {Coding!Unsigned(type, bits) : type \in {32, 64}, bits \in {{7}, {8}, Ends(17), Ends(32)}}
    \cup UNION {{Coding!Signed(type, bits) : bits \in {{0}, {2}, Full(type), {type - 1}}} :
                 type \in {8, 64}}

Bits == INSTANCE BitBuffer WITH
    W <- 32, Words <- 24, WideReads <- FALSE, DebugCheck <- TRUE, Rewinds <- FALSE,
    Scripts <-
      LET Array(type, signed, values) ==
              {[kind |-> "array", type |-> type, signed |-> signed, algorithms |-> a, value |-> v] :
                   a \in {{k} : k \in 0 .. 5} \cup {0 .. 5}, v \in values}
          Short  == UNION {[1 .. n -> {-128, 0, 5}] : n \in 0 .. 3}
          Arrays == Array(8, TRUE, Short \cup {<<0, 0, 0, 0, 127, 5, 5, -3>>})
                      \cup Array(8, FALSE, {<<255, 0, 255>>, <<250, 251, 252, 255, 255, 255>>})
                      \cup Array(16, FALSE, {<<32767, 0, 3>>, <<250, 250, 250, 65535, 1>>})
      IN  {<<Coding!Fixed(5, {0, 3}), x, y>> : x \in Values, y \in Values}
            \cup {<<x>> : x \in Values} \cup {<<Coding!Fixed(5, {0}), x, x>> : x \in Arrays},
    data <- bitData, writer <- bitWriter, reader <- bitReader, from <- readFrom, read <- readBack
ASSUME Bits!BitBufferAssumption
-----------------------------------------------------------------------------
(* The command line of a small program *)

VARIABLES argStrings, argsLeft, parsedOptions, optionArgsIgnored, commandsParsed, nextCommandIt,
          returnedByNext, argPhase, removedArgs, lostArgs
commandVars == <<argStrings, argsLeft, parsedOptions, optionArgsIgnored, commandsParsed,
                 nextCommandIt, returnedByNext, argPhase, removedArgs, lostArgs>>

LOCAL option == [name |-> <<"v">>, minLen |-> 1, char |-> "v", separator |-> "=", required |-> 0,
                 shortcut |-> <<>>]
LOCAL parameter == [name |-> <<>>, minLen |-> 1, separator |-> "=", required |-> -1,
                    optional |-> FALSE]

\* q is a shortcut for --of=a; the name "of" goes on where "o" ends.
LOCAL Declared ==
    <<[option EXCEPT !.name = <<"q">>, !.char = "q", !.shortcut = <<"-", "-", "o", "f", "=", "a">>],
      option,
      [option EXCEPT !.name = <<"o">>, !.char = "o"],
      [option EXCEPT !.name = <<"o", "f">>, !.minLen = 2, !.char = "none", !.required = 1]>>

\* "do" reads one value and stops, "c" has a named parameter with two values, an optional one
\* with one in itself, and leaves the rest, "cd" has none.
LOCAL Commands ==
    <<[name |-> <<"c", "d">>, minLen |-> 2, parameters |-> <<>>],
      [name |-> <<"d", "o">>, minLen |-> 1, parameters |-> <<parameter>>],
      [name |-> <<"c">>, minLen |-> 1, parameters |->
        <<[parameter EXCEPT !.name = <<"t", "o">>, !.required = 2],
          [parameter EXCEPT !.name = <<"i", "n">>, !.required = 1, !.optional = TRUE],
          [parameter EXCEPT !.optional = TRUE]>>]>>

LOCAL Arguments ==
    {<<"-", "v">>, <<"-", "-", "o", "f">>, <<"-", "-", "o", "f", "=", "a">>, <<"-", "q">>,
     <<"-", "-", "o", "=", "a">>, <<"-", "-", "o", "-">>, <<"-", "x">>, <<"a">>, <<"c", "d">>,
     <<"d">>, <<"c">>, <<"t">>, <<"i", "n", "=", "a">>}

Arguing == INSTANCE CommandLine WITH
    CommandLines <- UNION {[1..n -> Arguments] : n \in 0..3}
        \cup {<<<<"-", "-", "o", "f">>, first, <<"c">>, second, third>> :
                first \in Arguments, second \in Arguments, third \in Arguments}
        \cup {<<<<"c">>, <<"t">>, first, second, third>> :
                first \in Arguments, second \in Arguments, third \in {<<"a">>, <<"c">>}},
    OptionDecls <- Declared, CommandDecls <- Commands,
    AlphaNumeric <- {"a", "c", "d", "f", "o", "q", "v", "x"}, MaxRemoved <- 2,
    ArgStrings <- argStrings, ArgsLeft <- argsLeft, Options <- parsedOptions,
    OptionArgsIgnored <- optionArgsIgnored, CommandsParsed <- commandsParsed,
    NextCommandIt <- nextCommandIt, returned <- returnedByNext, phase <- argPhase,
    removed <- removedArgs, lost <- lostArgs
ASSUME Arguing!CommandLineAssumption
-----------------------------------------------------------------------------
(* What keeps a tree *)

VARIABLES entries, presets, seen
configVars == <<entries, presets, seen>>

\* A variable, one below it, and one that refers to the first and is referred to by it.
VarA == <<"a">>
VarAX == <<"a", "x">>
VarB == <<"b">>

Variables == INSTANCE Configuration WITH
    Paths <- {VarA, VarAX, VarB},
    Plugins <- <<[priority |-> 5, defines |-> {VarB}], [priority |-> 4, defines |-> {VarB, VarAX}]>>,
    Defaults <- {VarA, VarB}, ConfigFile <- <<VarA, VarAX>>, Requested <- {2, 5},
    Refers <- (VarA :> {VarB}) @@ (VarB :> {VarA}) @@ (VarAX :> {})
ASSUME Variables!ConfigurationAssumption
-----------------------------------------------------------------------------
(* A string tree and its iterator *)

VARIABLES nodeTree, treeIterator, treeContent, toVisit
nodeTreeVars == <<nodeTree, treeIterator, treeContent, toVisit>>

\* Two children are searched in the table, one in the list; a path of three names needs two
\* stacks of assemblePath().
NodeTree == INSTANCE StringTree WITH
    Names <- <<"a", "b">>, MaxNodes <- 3, ListSearch <- 1, STACK_SIZE <- 2,
    Paths <- {[absolute |-> isAbsolute, parts |-> p] :
                isAbsolute \in BOOLEAN,
                p \in {<<"a", "b">>, <<"..", "a", ".">>, <<"b", "..", "..", "b">>, <<"a", "a", "b">>}},
    CreatePaths <- {[absolute |-> FALSE, parts |-> <<"a", "b">>],
                    [absolute |-> TRUE, parts |-> <<"b", "a">>]},
    MaxDepths <- {0, 1, 9}, Resorts <- FALSE,
    tree <- nodeTree, iter <- treeIterator, content <- treeContent, owed <- toVisit
ASSUME NodeTree!StringTreeAssumption
-----------------------------------------------------------------------------
(* The file scanner on small disks *)

VARIABLES fileDisk, readOrder, fileTree, scanCalls
fileVars == <<fileDisk, readOrder, fileTree, scanCalls>>

LOCAL entry ==
    [kind |-> "dir", device |-> 1, artificial |-> FALSE, size |-> 1, readable |-> TRUE,
     error |-> "none", target |-> <<>>]
LOCAL file(bytes) == [entry EXCEPT !.kind = "file", !.size = bytes]
LOCAL link(place) == [entry EXCEPT !.kind = "link", !.target = place]

\* Links into each other's directory, to the directory they are in, or to one below it.
LOCAL Linked ==
    {<<>> :> entry @@ <<"s">> :> entry @@ <<"s", "d">> :> entry @@ <<"s", "d", "f">> :> file(2)
     @@ <<"s", "d", "t">> :> entry @@ <<"s", "d", "t", "f">> :> file(4)
     @@ <<"t">> :> entry @@ <<"t", "f">> :> file(8)
     @@ <<"s", "l">> :> link(first) @@ <<"t", "l">> :> link(second) :
        first \in {<<"t">>, <<"s">>, <<"s", "d", "t">>, <<"s", "d", "f">>},
        second \in {<<"s", "d">>, <<"s">>, <<"t">>}}

\* A second device, an artificial file system, links that lead nowhere, a directory without access.
LOCAL Mounted ==
    {<<>> :> entry @@ <<"s">> :> entry @@ <<"s", "f">> :> file(2)
     @@ <<"s", "d">> :> [entry EXCEPT !.device = 2]
     @@ <<"s", "d", "f">> :> [file(4) EXCEPT !.device = 2]
     @@ <<"s", "d", "t">> :> [entry EXCEPT !.device = device]
     @@ <<"s", "d", "l">> :> [link(<<"s", "t">>) EXCEPT !.device = 2]
     @@ <<"s", "l">> :> [link(<<>>) EXCEPT !.error = error]
     @@ <<"s", "t">> :> [entry EXCEPT !.device = 3, !.artificial = TRUE]
     @@ <<"s", "t", "f">> :> [file(8) EXCEPT !.device = 3, !.artificial = TRUE]
     @@ <<"s", "t", "d">> :> [entry EXCEPT !.device = 3, !.artificial = TRUE, !.readable = FALSE] :
        device \in {1, 2}, error \in {"broken", "loop"}}

LOCAL All ==
    [start |-> <<"s">>, links |-> "RECURSIVE", maxDepth |-> 99, cross |-> TRUE, includeAFS |-> TRUE,
     removeEmpty |-> FALSE, fileFilter |-> {}, pre |-> {}, post |-> {}]

Files == INSTANCE FileScanner WITH
    Disks <- Linked \cup Mounted,
    Orders <- {<<"s", "d", "f", "l", "t">>, <<"l", "t", "s", "f", "d">>, <<"t", "l", "d", "f", "s">>},
    Scans <-
        {[All EXCEPT !.start = start] : start \in {<<"s", "d">>, <<"t">>, <<"s", "l">>}}
        \cup {[All EXCEPT !.links = links, !.maxDepth = depth] :
                links \in {"RECURSIVE", "RESOLVE_BUT_DONT_FOLLOW"}, depth \in {1, 99}}
        \cup {[All EXCEPT !.links = links, !.cross = cross, !.includeAFS = include] :
                links \in {"RECURSIVE", "DONT_RESOLVE"}, cross \in BOOLEAN, include \in BOOLEAN}
        \cup {[All EXCEPT !.fileFilter = {"f"}, !.removeEmpty = removeEmpty, !.post = post,
                          !.links = links] :
                removeEmpty \in BOOLEAN, post \in {{}, {"d"}},
                links \in {"RECURSIVE", "DONT_RESOLVE"}}
        \cup {[All EXCEPT !.pre = {"t"}]},
    MaxScans <- 2,
    disk <- fileDisk, order <- readOrder, tree <- fileTree, calls <- scanCalls
ASSUME Files!FileScannerAssumption
-----------------------------------------------------------------------------
MCInit ==
    /\ component \in {"MonoAllocator", "PoolAllocator", "SharedHandle", "LRUCacheTable",
                      "ScopeInfo", "HashTable", "Configuration", "Lox", "ScopeStore",
                      "ExpressionProgram", "ExpressionSyntax", "AString", "StringSearch",
                      "BitBuffer", "StringTree", "FileScanner", "CommandLine",
                      "Camps"}
    /\ DataInit
    /\ IF component = "Configuration" THEN Variables!Init
       ELSE entries = Idle /\ presets = Idle /\ seen = Idle
    /\ IF component = "ExpressionProgram" THEN Programs!Init
       ELSE noOptimization = Idle /\ repertoire = Idle /\ namedExpressions = Idle
            /\ target = Idle /\ source = Idle /\ todo = Idle /\ compileStorage = Idle
            /\ expression = Idle /\ environment = Idle /\ stack = Idle /\ frames = Idle
            /\ nestedExpressions = Idle /\ result = Idle
    /\ IF component = "ExpressionSyntax" THEN Syntax!Init
       ELSE meant = Idle /\ exprText = Idle /\ ast = Idle /\ normalized = Idle
            /\ reread = Idle
    /\ IF component = "AString" THEN Buffer!Init
       ELSE stringHeap = Idle /\ strings = Idle /\ stringText = Idle
    /\ IF component = "StringSearch" THEN Finding!Init
       ELSE haystack = Idle /\ needle = Idle
    /\ IF component = "BitBuffer" THEN Bits!Init
       ELSE bitData = Idle /\ bitWriter = Idle /\ bitReader = Idle /\ script = Idle
            /\ written = Idle /\ terminated = Idle /\ readFrom = Idle /\ readBack = Idle
    /\ IF component = "StringTree" THEN NodeTree!Init
       ELSE nodeTree = Idle /\ treeIterator = Idle /\ treeContent = Idle /\ toVisit = Idle
    /\ IF component = "FileScanner" THEN Files!Init
       ELSE fileDisk = Idle /\ readOrder = Idle /\ fileTree = Idle /\ scanCalls = Idle
    /\ IF component = "CommandLine" THEN Arguing!Init
       ELSE argStrings = Idle /\ argsLeft = Idle /\ parsedOptions = Idle
            /\ optionArgsIgnored = Idle /\ commandsParsed = Idle /\ nextCommandIt = Idle
            /\ returnedByNext = Idle /\ argPhase = Idle /\ removedArgs = Idle /\ lostArgs = Idle

textVars ==
    <<configVars, programVars, syntaxVars, bufferVars, searchVars, bitVars, nodeTreeVars,
      fileVars, commandVars>>

OnlyText(active) ==
    /\ UNCHANGED dataVars
    /\ Rest(active, "Configuration", configVars)
    /\ Rest(active, "ExpressionProgram", programVars)
    /\ Rest(active, "ExpressionSyntax", syntaxVars)
    /\ Rest(active, "AString", bufferVars)
    /\ Rest(active, "StringSearch", searchVars)
    /\ Rest(active, "BitBuffer", bitVars)
    /\ Rest(active, "StringTree", nodeTreeVars)
    /\ Rest(active, "FileScanner", fileVars)
    /\ Rest(active, "CommandLine", commandVars)

MCNext ==
    \/ DataNext /\ UNCHANGED textVars
    \/ component = "Configuration" /\ OnlyText("Configuration") /\ Variables!Next
    \/ component = "ExpressionProgram" /\ OnlyText("ExpressionProgram") /\ Programs!Next
    \/ component = "ExpressionSyntax" /\ OnlyText("ExpressionSyntax") /\ Syntax!Next
    \/ component = "AString" /\ OnlyText("AString") /\ Buffer!Next
    \/ component = "StringSearch" /\ OnlyText("StringSearch") /\ Finding!Next
    \/ component = "BitBuffer" /\ OnlyText("BitBuffer") /\ Bits!Next
    \/ component = "StringTree" /\ OnlyText("StringTree") /\ NodeTree!Next
    \/ component = "FileScanner" /\ OnlyText("FileScanner") /\ Files!Next
    \/ component = "CommandLine" /\ OnlyText("CommandLine") /\ Arguing!Next

MCSpec == MCInit /\ [][MCNext]_<<dataVars, textVars>>
-----------------------------------------------------------------------------
(* One property for each component, the conjunction of those of its module.  *)

\* Configuration: a variable has the latest value of the highest priority offered
\* to it, a listener knows every variable and its priority, and a preset stays
\* until it is used or removed itself.
HighestOfferWins ==
    /\ [](component = "Configuration" =>
            /\ Variables!TypeOK
            /\ Variables!HighestOfferWins
            /\ Variables!ListenerIsUpToDate)
    /\ [][component = "Configuration" => Variables!PresetStays]_presets

\* ExpressionProgram: the results, jumps and commands of the assembler belong
\* together; a program leaves one value on the stack, the one the expression
\* means; its decompilation means the same; nothing is evaluated within itself.
\* ExpressionSyntax: the parser reads what was meant, and what the normaliser
\* writes reads back as the same expression.
ExpressionsKeepTheirMeaning ==
    /\ component = "ExpressionProgram" =>
        /\ Programs!AssemblyIsAligned
        /\ Programs!StackGrowsByOne
        /\ Programs!RunYieldsValue
        /\ Programs!DecompiledIsEquivalent
        /\ Programs!NestingIsAcyclic
    /\ component = "ExpressionSyntax" =>
        /\ Syntax!ReadAsWritten
        /\ Syntax!NormalizedReadsBack

\* AString: the cells of a buffer read as the edits say, no edit writes behind the
\* capacity, and a buffer belongs to one string until it is freed.  StringSearch: the
\* first place of a needle and the closer that belongs to an opener are found; what a
\* wildcard pattern accepts fits it; the tokenizer returns all parts; a token matches
\* every abbreviation of its name.
StringsHoldAndFindText ==
    /\ component = "AString" =>
        /\ Buffer!ContentIsText
        /\ Buffer!MagicIntact
        /\ Buffer!BuffersHaveOneOwner
    /\ component = "StringSearch" =>
        /\ Finding!SearchFindsFirst
        /\ Finding!SegmentsBalance
        /\ Finding!WildcardsFit
        /\ Finding!TokensAreTheParts
        /\ Finding!TokensMatchTheirWords

\* What a BitReader reads is what a BitWriter wrote, across the ends of words, behind a
\* terminated end and for each compression of an array; the reader stays in step.
BitsReadAsWritten ==
    component = "BitBuffer" =>
        /\ Bits!TypeOK
        /\ Bits!ReadsWhatWasWritten
        /\ Bits!ReaderFollowsWriter
        /\ Bits!NoBitAhead
        /\ Bits!TerminationIsReversible

\* StringTree: the table, the lists and the counters hold the same nodes, those that the
\* calls have made; paths lead where they should; an iterator visits all that it was asked
\* to, in order, while it skips and nodes are deleted and created.  FileScanner: a scan
\* reads all that its parameters let it reach, over links too, each directory once, and the
\* tree holds nothing else; the counters of a directory hold what lies below it; results
\* and listeners name the nodes that are new.
TreesHoldWhatWasFound ==
    /\ component = "StringTree" =>
        /\ NodeTree!TypeOK
        /\ NodeTree!TableHoldsTheTree
        /\ NodeTree!ReadsAsContent
        /\ NodeTree!PathsLeadToTheirNodes
        /\ NodeTree!DeletionsAreCounted
        /\ NodeTree!IteratorVisitsAll
    /\ component = "FileScanner" =>
        /\ Files!TypeOK
        /\ Files!ReadOnce
        /\ Files!FindsAll
        /\ Files!TotalsCountOnce
        /\ Files!TotalsOfBranches
        /\ Files!ResultsAreNew
        /\ Files!ListenerKnowsTree

\* CommandLine: every argument of the program is used once; options have the first
\* declaration they name and the values behind them; commands are read from the left with all
\* their parameters, and what is not understood is left and reported.
CommandLineIsUnderstood ==
    component = "CommandLine" =>
        /\ Arguing!TypeOK
        /\ Arguing!ArgumentsAreUsedOnce
        /\ Arguing!OptionsHaveTheirValues
        /\ Arguing!MissingValuesAreMissing
        /\ Arguing!CommandsAreReadInOrder
        /\ Arguing!CommandsTakeTheirParameters
        /\ Arguing!EndMeansAllRead
=============================================================================
