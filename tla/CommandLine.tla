------------------------------ MODULE CommandLine ------------------------------
(* Class CommandLine and what it parses: the arguments of a program are first *)
(* searched for options, with their values, then read from the left as        *)
(* commands with parameters.  The program takes arguments out on its own       *)
(* before, between and after that.  Texts are sequences of characters; letter *)
(* cases and the texts of exceptions are left out.                            *)
EXTENDS Integers, Sequences, FiniteSets, SequencesExt

CONSTANTS
    CommandLines, \* the sequences of arguments a program is started with
    OptionDecls,  \* OptionDecl in the order of their declaration
    CommandDecls, \* CommandDecl, too, each with the declarations of its parameters
    AlphaNumeric, \* the characters of isalnum()
    MaxRemoved    \* how many arguments the program takes out itself

\* What the enum records say.  A separator is one character here; NoChar is '\0'.
NoChar == "none"

CommandLineAssumption ==
    /\ \A c \in DOMAIN OptionDecls :
        OptionDecls[c].required >= 0 /\ OptionDecls[c].minLen >= 1
    /\ MaxRemoved \in Nat

VARIABLES
    ArgStrings,
    ArgsLeft,          \* the numbers of the arguments nobody has taken
    Options,           \* [decl, Position, ConsumedArguments, Args] and what was erased for it
    OptionArgsIgnored, \* what starts with a hyphen and is no option
    CommandsParsed,    \* [decl, taken, Parameters]
    NextCommandIt,     \* how many of them were returned
    returned,          \* what NextCommand() last returned or threw
    phase,             \* "defined", "options read", or how ReadOptions() failed
    removed,           \* the arguments the program took
    lost               \* those taken for a command that was not completed

vars == <<ArgStrings, ArgsLeft, Options, OptionArgsIgnored, CommandsParsed, NextCommandIt,
          returned, phase, removed, lost>>
-----------------------------------------------------------------------------
(* Names                                                                      *)

\* Substring::Split() at the separator, unless the text starts with it.
SplitAt(text, separator) ==
    LET at == SelectInSeq(text, LAMBDA c : c = separator)
    IN  IF at > 1
        THEN [name |-> SubSeq(text, 1, at - 1), value |-> SubSeq(text, at + 1, Len(text)),
              separated |-> TRUE]
        ELSE [name |-> text, value |-> <<>>, separated |-> FALSE]

\* What is behind n characters.
Behind(text, n) == SubSeq(text, n + 1, Len(text))

\* A single hyphen is consumed together with the '\0' behind its end.
NamedByChar(decl, text) ==
    /\ IsPrefix(<<"-">>, text)
    /\ IF decl.char = NoChar THEN Len(text) = 1 ELSE IsPrefix(<<"-", decl.char>>, text)

\* Option::Read(): how an argument, without its value, names the option.  Two hyphens are
\* consumed for the name, and stay so when the character is looked at.
Named(decl, text) ==
    LET long == decl.name # <<>> /\ IsPrefix(<<"-", "-">>, text)
        rest == IF long THEN Behind(text, 2) ELSE text
        enough == long /\ Len(rest) >= decl.minLen
    IN  IF enough /\ IsPrefix(rest, decl.name) THEN "read"
        ELSE IF enough /\ IsPrefix(decl.name, rest)
             THEN IF rest[Len(decl.name) + 1] \in AlphaNumeric THEN "no"
                  ELSE "IllegalOptionNameContinuation"
        ELSE IF NamedByChar(decl, rest) THEN "read" ELSE "no"

\* Command::Read() and Parameter::Read(): the name or an abbreviation.
Abbreviates(text, decl) == Len(text) >= decl.minLen /\ IsPrefix(text, decl.name)
-----------------------------------------------------------------------------
(* Options                                                                    *)

\* mutant
Following_all(decl, split) == decl.required

\* How many of the next arguments an option takes.
Following(decl, split) ==
    decl.required - (IF split.separated /\ decl.required > 0 THEN 1 ELSE 0)

\* Option::Read() of a text that stands at index at of the list of arguments left.  The
\* number of arguments that may follow is that of all others; the values are those with
\* the next numbers.  Out of bounds is undefined (an assertion of the debug build).
ReadValues(decl, split, following, at, left) ==
    IF following > Len(left) - 1 THEN [outcome |-> "MissingOptionValue"]
    ELSE IF left[at] + following > Len(ArgStrings) \/ at + following > Len(left)
         THEN [outcome |-> "undefined"]
    ELSE [outcome |-> "read",
          option |-> [decl |-> decl, Position |-> left[at], ConsumedArguments |-> following + 1,
                      Args |-> (IF split.separated THEN <<split.value>> ELSE <<>>)
                               \o SubSeq(ArgStrings, left[at] + 1, left[at] + following),
                      erased |-> SubSeq(left, at, at + following)]]
ReadNamed(decl, split, named, at, left) ==
    IF named # "read" THEN [outcome |-> named]
    ELSE ReadValues(decl, split, Following(decl, split), at, left)
ReadSplit(decl, split, at, left) == ReadNamed(decl, split, Named(decl, split.name), at, left)
ReadOption(decl, text, at, left) == ReadSplit(decl, SplitAt(text, decl.separator), at, left)

\* Erases arguments from the list of those left.
Erased(left, at, count) == SubSeq(left, 1, at - 1) \o SubSeq(left, at + count, Len(left))

\* The loop of ReadOptions() over the arguments left, from index at on.  A shortcut is
\* read like the text that replaces it.
RECURSIVE ReadFrom(_, _), ReadText(_, _, _)
ReadWith(s, at, decl, read) ==
    IF read.outcome # "read" THEN [s EXCEPT !.outcome = read.outcome]
    ELSE IF decl.shortcut # <<>> THEN ReadText(s, at, decl.shortcut)
    ELSE ReadFrom([s EXCEPT !.options = Append(@, read.option),
                            !.left = Erased(@, at, read.option.ConsumedArguments)], at)
ReadFound(s, at, text, found) ==
    IF found = 0
    THEN ReadFrom([s EXCEPT !.ignored = Append(@, ArgStrings[s.left[at]]),
                            !.left = Erased(@, at, 1)], at)
    ELSE ReadWith(s, at, OptionDecls[found], ReadOption(OptionDecls[found], text, at, s.left))
ReadText(s, at, text) ==
    IF ~IsPrefix(<<"-">>, text) THEN ReadFrom(s, at + 1)
    ELSE ReadFound(s, at, text, SelectInSeq(OptionDecls, LAMBDA decl :
                                    ReadOption(decl, text, at, s.left).outcome # "no"))
ReadFrom(s, at) == IF at > Len(s.left) THEN s ELSE ReadText(s, at, ArgStrings[s.left[at]])

OptionsRead(s) ==
    /\ ArgsLeft' = s.left
    /\ Options' = s.options
    /\ OptionArgsIgnored' = s.ignored
    /\ phase' = s.outcome

ReadOptions ==
    /\ phase \in {"defined", "options read"}
    /\ OptionsRead(ReadFrom([left |-> ArgsLeft, options |-> Options, ignored |-> OptionArgsIgnored,
                             outcome |-> "options read"], 1))
    /\ UNCHANGED <<ArgStrings, CommandsParsed, NextCommandIt, returned, removed, lost>>

\* The place of the last option of an element, 0 for nullptr.
GetOption(decl) == SelectLastInSeq(Options, LAMBDA option : option.decl = decl)
-----------------------------------------------------------------------------
(* Commands                                                                   *)

\* Parameter::Read() of the first argument left.  What a parameter without a name is given
\* is not empty behind a separator only if that is part of the declaration.
ReadParameterFrom(decl, split, left) ==
    LET inArg == decl.name # <<>> /\ split.value # <<>>
        expected == decl.required - (IF inArg THEN 1 ELSE 0)
        taken == IF expected > 0 THEN expected + 1 ELSE 1
        own == IF decl.name = <<>> THEN <<split.name>>
               ELSE IF inArg THEN <<split.value>> ELSE <<>>
    IN  IF decl.name # <<>> /\ ~Abbreviates(split.name, decl)
        THEN [taken |-> 0, continue |-> TRUE, error |-> FALSE]
        ELSE IF taken > Len(left) THEN [taken |-> 1, continue |-> FALSE, error |-> TRUE]
        ELSE [taken |-> taken, continue |-> expected >= 0, error |-> FALSE,
              parameter |-> [decl |-> decl, Position |-> left[1],
                             Args |-> own \o [i \in 1..(taken - 1) |-> ArgStrings[left[i + 1]]]]]
ReadParameter(decl, left) ==
    IF left = <<>> \/ (decl.name = <<>> /\ decl.optional)
    THEN [taken |-> 0, continue |-> FALSE, error |-> FALSE]
    ELSE ReadParameterFrom(decl, SplitAt(ArgStrings[left[1]], decl.separator), left)

\* The loop of Command::Read(), from the i-th declared parameter on: from the first one
\* again when one was read.
RECURSIVE ReadParameters(_, _)
ParameterRead(s, i, read) ==
    LET taken == [s EXCEPT !.left = Behind(@, read.taken),
                           !.command.taken = @ \o SubSeq(s.left, 1, read.taken)]
        added == [taken EXCEPT !.command.Parameters = Append(@, read.parameter)]
    IN  IF read.error THEN [taken EXCEPT !.outcome = "MissingParameterValue"]
        ELSE IF read.taken = 0
        THEN IF read.continue THEN ReadParameters(s, i + 1) ELSE [s EXCEPT !.outcome = "stopped"]
        ELSE IF read.continue THEN ReadParameters(added, 1)
             ELSE [added EXCEPT !.outcome = "stopped"]
ReadParameters(s, i) ==
    IF i > Len(s.command.decl.parameters) THEN s
    ELSE ParameterRead(s, i, ReadParameter(s.command.decl.parameters[i], s.left))

\* ReadNextCommands(): until an argument is no command, or the parameters of one stop.
RECURSIVE ReadCommands(_)
CommandRead(s, read) ==
    LET pushed == [s EXCEPT !.left = read.left, !.parsed = Append(@, read.command)]
    IN  IF read.outcome = "MissingParameterValue"
        THEN [s EXCEPT !.left = read.left, !.outcome = read.outcome,
                       !.lost = @ \o read.command.taken]
        ELSE IF read.outcome = "stopped" THEN pushed ELSE ReadCommands(pushed)
CommandFound(s, found) ==
    IF found = 0 THEN s
    ELSE CommandRead(s, ReadParameters([left |-> Behind(s.left, 1), outcome |-> "read",
                                        command |-> [decl |-> CommandDecls[found],
                                                     taken |-> <<s.left[1]>>,
                                                     Parameters |-> <<>>]], 1))
ReadCommands(s) ==
    IF s.left = <<>> THEN s
    ELSE CommandFound(s, SelectInSeq(CommandDecls, LAMBDA decl :
                                        Abbreviates(ArgStrings[s.left[1]], decl)))

\* What NextCommand() returns when this is read.
Return(s) ==
    LET available == s.outcome = "read" /\ NextCommandIt < Len(s.parsed)
    IN  /\ ArgsLeft' = s.left
        /\ CommandsParsed' = s.parsed
        /\ lost' = s.lost
        /\ NextCommandIt' = IF available THEN NextCommandIt + 1 ELSE NextCommandIt
        /\ returned' = IF available THEN "command"
                       ELSE IF s.outcome # "read" THEN s.outcome
                       ELSE IF s.left # <<>> THEN "UnknownCommand"
                       ELSE IF s.parsed = <<>> THEN "NoCommandGiven"
                       ELSE "nullptr"

\* NextCommand(), with the commands that are read for it.
NextCommand ==
    /\ phase = "options read"
    /\ LET start == [left |-> ArgsLeft, parsed |-> CommandsParsed, lost |-> lost,
                     outcome |-> "read"]
       IN  Return(IF NextCommandIt = Len(CommandsParsed) THEN ReadCommands(start) ELSE start)
    /\ UNCHANGED <<ArgStrings, Options, OptionArgsIgnored, phase, removed>>
-----------------------------------------------------------------------------
(* The program                                                                *)

\* Takes an argument out of the list.
Take(argNo) ==
    /\ Len(removed) < MaxRemoved
    /\ ArgsLeft' = Remove(ArgsLeft, argNo)
    /\ removed' = Append(removed, argNo)
    /\ UNCHANGED <<ArgStrings, Options, OptionArgsIgnored, CommandsParsed, NextCommandIt,
                   returned, phase, lost>>

\* PopArg() of an argument a command left behind, or of one for another library.
PopArg ==
    /\ phase \in {"defined", "options read"}
    /\ ArgsLeft # <<>>
    /\ Take(ArgsLeft[1])

\* RemoveArg().  Before the options are read the program removes no other than the first:
\* an option in front of it would take it as its value all the same.
RemoveArg(argNo) ==
    /\ phase = "options read"
    /\ argNo \in ToSet(ArgsLeft)
    /\ Take(argNo)

Init ==
    /\ ArgStrings \in CommandLines
    /\ ArgsLeft = [i \in DOMAIN ArgStrings |-> i]
    /\ Options = <<>>
    /\ OptionArgsIgnored = <<>>
    /\ CommandsParsed = <<>>
    /\ NextCommandIt = 0
    /\ returned = "nullptr"
    /\ phase = "defined"
    /\ removed = <<>>
    /\ lost = <<>>

Next ==
    \/ ReadOptions
    \/ NextCommand
    \/ PopArg
    \/ \E argNo \in ToSet(ArgsLeft) : RemoveArg(argNo)

Spec == Init /\ [][Next]_vars
-----------------------------------------------------------------------------
(* Properties                                                                 *)

TypeOK ==
    /\ ArgsLeft \in Seq(DOMAIN ArgStrings)
    /\ NextCommandIt \in 0..Len(CommandsParsed)
    /\ phase \in {"defined", "options read", "undefined", "MissingOptionValue",
                  "IllegalOptionNameContinuation"}
    /\ returned \in {"command", "nullptr", "UnknownCommand", "NoCommandGiven",
                     "MissingParameterValue"}

\* The arguments taken by options, commands and the program, and those left.
TakenByOptions == FlattenSeq([i \in DOMAIN Options |-> Options[i].erased])
TakenByCommands == FlattenSeq([i \in DOMAIN CommandsParsed |-> CommandsParsed[i].taken])
Known == ArgsLeft \o TakenByOptions \o TakenByCommands \o removed \o lost

\* Every argument is used once: it is left, or belongs to one option, one command or the
\* program, or is reported as ignored.  (The lists of class CommandLine and what the
\* readers of options, commands and parameters erase from ArgsLeft.)
ArgumentsAreUsedOnce ==
    /\ Cardinality(ToSet(Known)) = Len(Known)
    /\ Len(Known) + Len(OptionArgsIgnored) = Len(ArgStrings)
    /\ \A i, j \in DOMAIN ArgsLeft : i < j => ArgsLeft[i] < ArgsLeft[j]

\* The text an option was read from: that of its place, or the shortcut this one means.
OptionText(option) ==
    LET text == ArgStrings[option.Position]
        shortcut == SelectInSeq(OptionDecls, LAMBDA decl :
                        Named(decl, SplitAt(text, decl.separator).name) = "read")
    IN  IF shortcut # 0 /\ OptionDecls[shortcut].shortcut # <<>>
        THEN OptionDecls[shortcut].shortcut ELSE text

\* An option has the first declaration that its text names, the value of its text and those
\* arguments that follow it, as many as declared in all, and the latter are what is taken
\* out of the list.  (Option::Read, CommandLine::ReadOptions and GetOption)
OptionsHaveTheirValues ==
    /\ \A i \in DOMAIN Options :
        LET option == Options[i]
            text == OptionText(option)
            split == SplitAt(text, option.decl.separator)
            first == CHOOSE k \in DOMAIN OptionDecls : OptionDecls[k] = option.decl
        IN  /\ Named(option.decl, split.name) = "read"
            /\ \A k \in 1..(first - 1) :
                Named(OptionDecls[k], SplitAt(text, OptionDecls[k].separator).name) = "no"
            /\ option.erased = [k \in DOMAIN option.erased |-> option.Position + k - 1]
            /\ IsSuffix([k \in 1..(Len(option.erased) - 1) |->
                            ArgStrings[option.erased[k + 1]]], option.Args)
            /\ split.separated => option.Args[1] = split.value
            /\ Len(option.Args) = (IF split.separated /\ option.decl.required = 0
                                   THEN 1 ELSE option.decl.required)
            /\ Options[GetOption(option.decl)].Position >= option.Position
    /\ phase = "options read" =>
        \A i \in DOMAIN ArgsLeft : ~IsPrefix(<<"-">>, ArgStrings[ArgsLeft[i]])

\* A value is reported missing for the first argument with a hyphen that is left, and only
\* if there are fewer arguments behind it than an option takes.  (The exception of
\* Option::Read)
MissingValuesAreMissing ==
    phase = "MissingOptionValue" =>
        LET at == SelectInSeq(ArgsLeft, LAMBDA argNo : IsPrefix(<<"-">>, ArgStrings[argNo]))
        IN  at # 0 /\ \E k \in DOMAIN OptionDecls : at + OptionDecls[k].required > Len(ArgsLeft)

\* How many texts belong to a parameter.
Values(parameter) ==
    LET more == IF parameter.decl.required > 0 THEN parameter.decl.required ELSE 0
    IN  IF parameter.decl.name = <<>> THEN 1 + more
        ELSE IF SplitAt(ArgStrings[parameter.Position], parameter.decl.separator).value # <<>>
                /\ more = 0 THEN 1
        ELSE more

\* Commands are read from the left: their arguments, in order, are in front of all that is
\* left; each has the first declaration its name abbreviates, and parameters of its own with
\* all their values.  (CommandLine::ReadNextCommands, Command::Read, Parameter::Read)
CommandsAreReadInOrder ==
    /\ \A i \in 1..(Len(TakenByCommands) - 1) : TakenByCommands[i] < TakenByCommands[i + 1]
    /\ \A i \in DOMAIN TakenByCommands, j \in DOMAIN ArgsLeft : TakenByCommands[i] < ArgsLeft[j]
    /\ \A i \in DOMAIN CommandsParsed :
        LET command == CommandsParsed[i]
            name == ArgStrings[command.taken[1]]
        IN  /\ command.decl = CommandDecls[SelectInSeq(CommandDecls, LAMBDA decl :
                                                        Abbreviates(name, decl))]
            /\ \A k \in DOMAIN command.Parameters :
                LET parameter == command.Parameters[k]
                IN  /\ parameter.decl \in ToSet(command.decl.parameters)
                    /\ parameter.Position \in ToSet(Behind(command.taken, 1))
                    /\ Len(parameter.Args) = Values(parameter)

\* A parameter after which the command leaves the rest to the program.
Ends(parameter) ==
    parameter.decl.required - (IF parameter.decl.name # <<>> /\ Values(parameter) = 1
                               THEN 1 ELSE 0) < 0

\* No other command is read ahead behind one that leaves the rest to the program; and what
\* stands behind a command is no named parameter of it, in whatever order these are given,
\* unless a parameter ended it.  (Command::Read, CommandLine::NextCommand)
CommandsTakeTheirParameters ==
    /\ \A i \in (NextCommandIt + 1)..(Len(CommandsParsed) - 1) :
        LET command == CommandsParsed[i]
        IN  /\ \A k \in DOMAIN command.Parameters : ~Ends(command.Parameters[k])
            /\ \A k \in DOMAIN command.decl.parameters :
                ~(command.decl.parameters[k].name = <<>> /\ command.decl.parameters[k].optional)
    /\ \A i \in DOMAIN CommandsParsed :
        LET command == CommandsParsed[i]
            last == command.taken[Len(command.taken)]
            behind == {n \in ToSet(ArgsLeft \o TakenByCommands \o removed \o lost) : n > last}
            next == CHOOSE n \in behind : \A m \in behind : n <= m
        IN  behind = {} \/ next \in ToSet(removed)
            \/ (\E k \in DOMAIN command.Parameters : Ends(command.Parameters[k]))
            \/ \A k \in DOMAIN command.decl.parameters :
                LET decl == command.decl.parameters[k]
                IN  decl.name = <<>>
                    \/ ~Abbreviates(SplitAt(ArgStrings[next], decl.separator).name, decl)

\* When NextCommand() returns no command, or throws for an unknown one, all commands read
\* were returned; without one all arguments were understood.  (CommandLine::NextCommand)
EndMeansAllRead ==
    returned \in {"nullptr", "UnknownCommand", "NoCommandGiven"} /\ phase = "options read" =>
        /\ NextCommandIt = Len(CommandsParsed)
        /\ returned = "nullptr" /\ CommandsParsed # <<>> => ArgsLeft = <<>>
=============================================================================
