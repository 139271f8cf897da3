-------------------------------- MODULE Lox --------------------------------
(* The two domain trees of a Lox and the loggers attached to them: domains are created when they  *)
(* are first named, inherit the verbosities of their parent and are then read from configuration; *)
(* a verbosity is set for a domain and all below it, unless one of higher priority is there.      *)
(* Names of domains are the members of a path; the tree is "main" or "internal". The messages a    *)
(* Lox writes about itself are like an Entry() of the internal tree that may come at any time.      *)
EXTENDS Integers, Sequences, FiniteSets, SequencesExt, Functions, TLC

CONSTANTS
    Loggers, Name,          \* the loggers of the program and their names
    Paths,                  \* the paths used in each tree, parents first
    Existing,               \* the domains each tree has from the start (init())
    Requests,               \* what SetVerbosity() is called with: [tree, path, verbosity, priority]
    Config, ConfigPriority  \* per logger the entries of its configuration variable, in order: the
                            \* domains the pattern matches, a set of <<tree, path>>, and a verbosity

Trees == {"main", "internal"}
Off == 0
NONE == 0

LoxAssumption ==
    /\ DOMAIN Name = Loggers /\ DOMAIN Config = Loggers
    /\ \A t \in Trees : Existing[t] \subseteq ToSet(Paths[t]) /\ <<>> \in Existing[t]
    /\ \A r \in Requests : r.verbosity \in Nat /\ r.priority \in Nat \ {NONE}
    /\ ConfigPriority \in Nat \ {NONE}

VARIABLES
    domains,        \* per tree: the domains, each with the data of the loggers and its flag `read`
    settings,       \* per tree and logger what was set while it is attached, the latest last; a
                    \* setting is dropped when a later one replaces it for all its domains
    acknowledged,   \* insertions less removals a logger was told of
    destructed

loxVars == <<domains, settings, acknowledged, destructed>>

Now == [domains |-> domains, settings |-> settings]

Init ==
    /\ domains = [t \in Trees |-> [p \in Existing[t] |-> [data |-> <<>>, read |-> FALSE]]]
    /\ settings = [t \in Trees |-> [l \in Loggers |-> <<>>]]
    /\ acknowledged = [l \in Loggers |-> 0]
    /\ destructed = FALSE

-----------------------------------------------------------------------------
Attached(s, t) == [i \in DOMAIN s.domains[t][<<>>].data |-> s.domains[t][<<>>].data[i].logger]

GetLoggerNo(s, t, logger) == SelectInSeq(Attached(s, t), LAMBDA l : l = logger)

GetNamedLoggerNo(s, t, name) == SelectInSeq(Attached(s, t), LAMBDA l : Name[l] = name)

Recorded(list, e) ==
    Append(SelectSeq(list, LAMBDA o : ~(IsPrefix(e.path, o.path) /\ o.priority <= e.priority)), e)

Overrides(priority, old) == priority >= old.priority

\* Domain::SetVerbosity(): the recursion stops where a higher priority is found.
SetVerbosity(s, t, p, no, verbosity, priority) ==
    LET tree == s.domains[t]
        Reached(q) == \A r \in DOMAIN tree : IsPrefix(p, r) /\ IsPrefix(r, q)
                                               => Overrides(priority, tree[r].data[no])
        new == [q \in DOMAIN tree |->
                   IF IsPrefix(p, q) /\ Reached(q)
                   THEN [tree[q] EXCEPT !.data[no].verbosity = verbosity,
                                        !.data[no].priority = priority]
                   ELSE tree[q]]
    IN  [domains  |-> [s.domains EXCEPT ![t] = new],
         settings |-> [s.settings EXCEPT ![t][tree[<<>>].data[no].logger] =
             Recorded(@, [path |-> p, verbosity |-> verbosity, priority |-> priority])]]

\* All entries of the variable that match the domain are applied in order.
getVerbosityFromConfig(s, t, p, logger) ==
    LET no == GetLoggerNo(s, t, logger)
        matching == SelectSeq(Config[logger], LAMBDA e : <<t, p>> \in e.matches)
    IN  IF no = 0 THEN s
        ELSE FoldLeft(LAMBDA r, e : SetVerbosity(r, t, p, no, e.verbosity, ConfigPriority),
                      s, matching)

getAllVerbosities(s, t, logger) ==
    FoldLeft(LAMBDA r, p : getVerbosityFromConfig(r, t, p, logger),
             s, SelectSeq(Paths[t], LAMBDA p : p \in DOMAIN s.domains[t]))

ReadConfiguration(s, t, p) ==
    IF s.domains[t][p].read THEN s
    ELSE FoldLeft(LAMBDA r, logger : getVerbosityFromConfig(r, t, p, logger),
                  [s EXCEPT !.domains[t][p].read = TRUE], Attached(s, t))

\* Domain( parent, name )
Created(s, t, p) ==
    [s EXCEPT !.domains[t] = @ @@ (p :> [data |-> @[Front(p)].data, read |-> FALSE])]

\* findDomain(), without substitution rules: missing domains are created one by one, from the top,
\* each one read from configuration at once. Of those that exist only the last is read, if it was not.
findDomain(s, t, path) ==
    LET Visited(r, p) ==
            IF p \notin DOMAIN r.domains[t] THEN ReadConfiguration(Created(r, t, p), t, p)
            ELSE IF p = path THEN ReadConfiguration(r, t, p)
            ELSE r
    IN  FoldLeft(Visited, s, [i \in 1..Len(path) + 1 |-> SubSeq(path, 1, i - 1)])

AddLogger(s, t, logger) ==
    [s EXCEPT !.domains[t] = [p \in DOMAIN @ |-> [@[p] EXCEPT !.data =
        Append(@, [logger |-> logger, verbosity |-> Off, priority |-> NONE])]]]

RemoveLoggerNo(s, t, no) ==
    IF no = 0 THEN s
    ELSE LET logger == Attached(s, t)[no]
         IN  [domains  |-> [s.domains EXCEPT ![t] =
                 [p \in DOMAIN @ |-> [@[p] EXCEPT !.data = RemoveAt(@, no)]]],
              settings |-> [s.settings EXCEPT ![t][logger] = <<>>]]

-----------------------------------------------------------------------------
Become(s) == domains' = s.domains /\ settings' = s.settings

Other(t) == IF t = "main" THEN "internal" ELSE "main"

\* A logger is told of its insertion unless it is in the other tree already.
Insertions(s, t, logger) == IF GetLoggerNo(s, Other(t), logger) = 0 THEN 1 ELSE 0

\* SetVerbosity() for a logger, which attaches it, and for the name of an attached one.
SetVerbosityOf(logger, t, p, verbosity, priority) ==
    LET s == findDomain(Now, t, p)
        no == GetLoggerNo(s, t, logger)
        a == AddLogger(s, t, logger)
        c == getAllVerbosities(getAllVerbosities(a, "main", logger), "internal", logger)
    IN  /\ ~destructed
        /\ \/ /\ no # 0
              /\ Become(SetVerbosity(s, t, p, no, verbosity, priority))
              /\ UNCHANGED acknowledged
           \/ /\ no = 0 /\ GetNamedLoggerNo(s, t, Name[logger]) # 0
              /\ Become(s)
              /\ UNCHANGED acknowledged
           \/ /\ no = 0 /\ GetNamedLoggerNo(s, t, Name[logger]) = 0
              /\ Become(SetVerbosity(c, t, p, GetLoggerNo(c, t, logger), verbosity, priority))
              /\ acknowledged' = [acknowledged EXCEPT ![logger] = @ + Insertions(s, t, logger)]
        /\ UNCHANGED destructed

RemoveBoth(noMainDom, noIntDom, logger) ==
    /\ Become(RemoveLoggerNo(RemoveLoggerNo(Now, "main", noMainDom), "internal", noIntDom))
    /\ acknowledged' = [acknowledged EXCEPT ![logger] = @ - 1]
    /\ UNCHANGED destructed

RemoveLogger(logger) ==
    LET noMainDom == GetLoggerNo(Now, "main", logger)
        noIntDom == GetLoggerNo(Now, "internal", logger)
    IN  /\ ~destructed
        /\ noMainDom # 0 \/ noIntDom # 0
        /\ RemoveBoth(noMainDom, noIntDom, logger)

\* By its name. The code takes the logger from the main tree without asking whether it is there, and
\* tells only this one: it may be called only for a logger of the main tree whose name no other
\* logger has in the internal tree.
RemoveLoggerByName(name) ==
    LET noMainDom == GetNamedLoggerNo(Now, "main", name)
        noIntDom == GetNamedLoggerNo(Now, "internal", name)
    IN  /\ ~destructed
        /\ noMainDom # 0
        /\ noIntDom # 0 => Attached(Now, "internal")[noIntDom] = Attached(Now, "main")[noMainDom]
        /\ RemoveBoth(noMainDom, noIntDom, Attached(Now, "main")[noMainDom])

\* A log statement, or IsActive(): nothing happens while the main tree has no logger.
Entry(t, p) ==
    /\ ~destructed
    /\ Attached(Now, "main") # <<>>
    /\ Become(findDomain(Now, t, p))
    /\ UNCHANGED <<acknowledged, destructed>>

Removals(l) == IF \E t \in Trees : l \in ToSet(Attached(Now, t)) THEN 1 ELSE 0

\* ~LoxImpl()
Destruct ==
    /\ ~destructed
    /\ acknowledged' = [l \in Loggers |-> acknowledged[l] - Removals(l)]
    /\ domains' = [t \in Trees |-> [p \in {<<>>} |-> [data |-> <<>>, read |-> FALSE]]]
    /\ settings' = [t \in Trees |-> [l \in Loggers |-> <<>>]]
    /\ destructed' = TRUE

Next ==
    \/ \E l \in Loggers, r \in Requests :
          SetVerbosityOf(l, r.tree, r.path, r.verbosity, r.priority)
    \/ \E l \in Loggers : RemoveLogger(l)
    \/ \E l \in Loggers : RemoveLoggerByName(Name[l])
    \/ \E t \in Trees : \E p \in ToSet(Paths[t]) : Entry(t, p)
    \/ Destruct

Spec == Init /\ [][Next]_loxVars

-----------------------------------------------------------------------------
TypeOK ==
    /\ \A t \in Trees : \A p \in DOMAIN domains[t] :
         /\ p \in ToSet(Paths[t])
         /\ domains[t][p].data \in Seq([logger : Loggers, verbosity : Nat, priority : Nat])
    /\ destructed \in BOOLEAN

\* Every domain of a tree has an entry for every logger of the tree, in the same order, and no two
\* loggers of a tree have the same name: a logger is found by its number in each domain, whenever
\* the domain was created (addLoggerRecursive(), removeLoggerRecursive(), the constructor).
LoggersAreAligned ==
    \A t \in Trees :
        /\ \A p \in DOMAIN domains[t] :
             [i \in DOMAIN domains[t][p].data |-> domains[t][p].data[i].logger] = Attached(Now, t)
        /\ \A i, j \in DOMAIN Attached(Now, t) :
             Name[Attached(Now, t)[i]] = Name[Attached(Now, t)[j]] => i = j

\* What a domain has for a logger is the latest of the settings with the highest priority that
\* were made for it or a domain above it, in whatever order domains were created, loggers were
\* attached and configuration was read: stopping the recursion at a higher priority and
\* copying the data of the parent lose nothing (Domain::SetVerbosity(), findDomain()).
VerbosityIsLatestOfHighest ==
    \A t \in Trees : \A p \in DOMAIN domains[t] : \A d \in ToSet(domains[t][p].data) :
        LET mine == SelectSeq(settings[t][d.logger], LAMBDA e : IsPrefix(e.path, p))
            best == SelectLastInSeq(mine, LAMBDA e : \A o \in ToSet(mine) : o.priority <= e.priority)
        IN  IF mine = <<>> THEN d.verbosity = Off /\ d.priority = NONE
            ELSE d.verbosity = mine[best].verbosity /\ d.priority = mine[best].priority

\* A logger was told once more of its insertion than of its removal exactly while it is attached,
\* to one tree or to both (AcknowledgeLox()).
AttachedIsAcknowledged ==
    \A l \in Loggers : acknowledged[l] = IF \E t \in Trees : l \in ToSet(Attached(Now, t)) THEN 1 ELSE 0
=============================================================================
