----------------------------- MODULE Configuration -----------------------------
(* The tree of configuration variables: declarations, the sources of values and their priorities, *)
(* presets for variables that are not declared yet, and one listener for all events of all         *)
(* variables. Of a value only its source is kept. A value may refer to one other variable, as in   *)
(* "${NAME}"; then that one is looked up, and declared for the moment if it is not.                 *)
EXTENDS Integers, Sequences, FiniteSets, Functions, SequencesExt

CONSTANTS
    Paths,          \* the names of the variables, sequences of node names
    Plugins,        \* by falling priority: priority, the variables a plugin defines
    Defaults,       \* the variables that are declared with a default value
    Refers,         \* path -> the variables its values refer to, one at most
    ConfigFile,     \* what the INI file holds, a sequence of paths
    Requested       \* the priorities the program uses

NONE == 0
DefaultValues == 2
ConfigFilePriority == 3

ConfigurationAssumption ==
    /\ \A i \in 1..Len(Plugins) - 1 : Plugins[i].priority > Plugins[i + 1].priority
    /\ Requested \subseteq Nat \ {NONE}

VARIABLES
    entries,    \* the nodes of the tree of variables
    presets,    \* those of the sub-tree $PRESETS
    seen        \* what the listener knows: the priority of each variable it heard of

configVars == <<entries, presets, seen>>

\* A node without a variable; best is the offer of a value that should be in effect, hidden says
\* that an offer of a plugin was replaced by a preset of lower priority.
Offer(priority, from) == [priority |-> priority, value |-> from]

Blank == [declared |-> FALSE, value |-> "none", priority |-> NONE, best |-> Offer(NONE, "none"),
          hidden |-> FALSE]

Init ==
    /\ entries = <<>>
    /\ presets = <<>>
    /\ seen = <<>>

Way(p) == {SubSeq(p, 1, n) : n \in 1..Len(p)}

\* A path leads to its nodes, existing or new.
Created(nodes, p) == nodes @@ [q \in Way(p) |-> Blank]

Declared(nodes) == {p \in DOMAIN nodes : nodes[p].declared}

-----------------------------------------------------------------------------
\* What an operation changes: the nodes and what the listener knows.
World == [nodes |-> entries, seen |-> seen]

\* notifyListeners(): with Creation the variable is undefined, with Definition it has its priority.
CreationSeen(w, p) == [w EXCEPT !.seen = (p :> NONE) @@ @]

DefinitionSeen(w, p) == [w EXCEPT !.seen = (p :> w.nodes[p].priority) @@ @]

Without(f, p) == Restrict(f, {q \in DOMAIN f : ~IsPrefix(p, q)})

\* Delete(): the listener hears of the variable, the node goes with all nodes below it.
Deleted(w, p) ==
    [nodes |-> Without(w.nodes, p), seen |-> Restrict(w.seen, DOMAIN w.seen \ {p})]

Offered(w, p, priority, from) ==
    [w EXCEPT !.nodes[p].best = IF priority >= @.priority THEN Offer(priority, from) ELSE @]

RECURSIVE Create(_, _, _)

\* substitute(): a variable that is not declared is declared to read plugins and presets, and
\* deleted again.
Substituted(w, p) ==
    IF Refers[p] \subseteq Declared(w.nodes) THEN w
    ELSE LET q == CHOOSE q \in Refers[p] : TRUE
         IN  Deleted(Create([w EXCEPT !.nodes = Created(@, q)], q, FALSE), q)

Imported(w, p, priority, from) ==
    Substituted([w EXCEPT !.nodes[p] = [@ EXCEPT !.priority = priority, !.value = from]], p)

\* mutant: every plugin is asked, the last one that defines the variable wins
FromPlugin_any(w, p, plugin) ==
    IF p \notin plugin.defines THEN w
    ELSE Imported(Offered(w, p, plugin.priority, "plugin"), p, plugin.priority, "plugin")

FromPlugin(w, p, plugin) ==
    LET o == Offered(w, p, plugin.priority, "plugin")
    IN  IF p \notin plugin.defines THEN w
        ELSE IF w.nodes[p].priority <= plugin.priority
        THEN Imported(o, p, plugin.priority, "plugin")
        ELSE o

\* A preset is imported whatever priority the variable has from a plugin.
FromPreset(w, p) ==
    IF p \notin DOMAIN presets \/ ~presets[p].declared THEN w
    ELSE LET s == presets[p]
             o == Offered(w, p, s.priority, s.value)
             h == [o EXCEPT !.nodes[p].hidden = w.nodes[p].priority > s.priority]
         IN  Imported(h, p, s.priority, s.value)

FromDefault(w, p, hasDefault) ==
    IF ~hasDefault THEN w
    ELSE LET o == Offered(w, p, DefaultValues, "default")
         IN  IF w.nodes[p].priority <= DefaultValues
             THEN Imported(o, p, DefaultValues, "default")
             ELSE o

Defined(w, p) == IF w.nodes[p].priority # NONE THEN DefinitionSeen(w, p) ELSE w

Create(w, p, hasDefault) ==
    LET c == CreationSeen([w EXCEPT !.nodes[p] = [Blank EXCEPT !.declared = TRUE]], p)
        plugged == FoldLeft(LAMBDA v, plugin : FromPlugin(v, p, plugin), c, Plugins)
    IN  Defined(FromDefault(FromPreset(plugged, p), p, hasDefault), p)

Become(w) == entries' = w.nodes /\ seen' = w.seen

-----------------------------------------------------------------------------
\* Declare( name, type, default ): nothing happens if the variable is declared.
Declare(p) ==
    /\ p \notin Declared(entries)
    /\ Become(Create([World EXCEPT !.nodes = Created(@, p)], p, p \in Defaults))
    /\ UNCHANGED presets

\* Declare( declaration ): nothing happens if the node exists, also if it holds no variable.
DeclareRecord(p) ==
    /\ p \notin DOMAIN entries
    /\ Become(Create([World EXCEPT !.nodes = Created(@, p)], p, p \in Defaults))
    /\ UNCHANGED presets

DefineSeen(w, p, priority) ==
    DefinitionSeen([w EXCEPT !.nodes[p].priority = priority], p)

\* Define() and then the value: Import(), and code that assigns a value if Define() returned true.
Importing(w, p, priority, from) ==
    LET o == Offered(w, p, priority, from)
    IN  IF w.nodes[p].priority <= priority
        THEN Imported(DefineSeen(o, p, priority), p, priority, from)
        ELSE o

Import(p, priority) ==
    /\ p \in Declared(entries)
    /\ Become(Importing(World, p, priority, "code"))
    /\ UNCHANGED presets

Delete(p) ==
    /\ p \in Declared(entries)
    /\ Become(Deleted(World, p))
    /\ UNCHANGED presets

\* DeletePath() of a node, without a word to the listener.
DeletePath(p) ==
    /\ p \in DOMAIN entries
    /\ entries' = Without(entries, p)
    /\ UNCHANGED <<presets, seen>>

-----------------------------------------------------------------------------
\* presetImportString()
PresetSet(nodes, p, priority, from) ==
    LET c == Created(nodes, p)
    IN  IF c[p].declared /\ c[p].priority > priority THEN c
        ELSE [c EXCEPT ![p] = [@ EXCEPT !.declared = TRUE, !.value = from, !.priority = priority]]

PresetImportString(p, priority) ==
    /\ presets' = PresetSet(presets, p, priority, "preset")
    /\ UNCHANGED <<entries, seen>>

\* With a nulled string: the value is removed, the node only if it is a leaf.
PresetRemoved(nodes, p) ==
    IF \E q \in DOMAIN nodes : q # p /\ IsPrefix(p, q)
    THEN [nodes EXCEPT ![p] = Blank]
    ELSE Restrict(nodes, DOMAIN nodes \ {p})

DeletePreset(p, priority) ==
    /\ p \in DOMAIN presets
    /\ presets[p].priority <= priority
    /\ presets' = PresetRemoved(presets, p)
    /\ UNCHANGED <<entries, seen>>

\* Try( name, type ) and Try( declaration ): a variable is declared if there is a node of a preset,
\* also if it holds none.
Try(p) ==
    /\ p \notin Declared(entries)
    /\ p \in DOMAIN presets
    /\ Become(Create([World EXCEPT !.nodes = Created(@, p)], p, FALSE))
    /\ UNCHANGED presets

\* IniFileFeeder: an entry is imported if its variable is declared, else it becomes a preset.
ImportFile ==
    LET Entry(s, p) ==
          IF p \in Declared(s.w.nodes)
          THEN [s EXCEPT !.w = Importing(@, p, ConfigFilePriority, "file")]
          ELSE [s EXCEPT !.presets = PresetSet(@, p, ConfigFilePriority, "file")]
        done == FoldLeft(Entry, [w |-> World, presets |-> presets], ConfigFile)
    IN  /\ Become(done.w)
        /\ presets' = done.presets

Next ==
    \/ \E p \in Paths : Declare(p) \/ DeclareRecord(p) \/ Delete(p) \/ DeletePath(p) \/ Try(p)
    \/ \E p \in Paths, priority \in Requested :
          \/ Import(p, priority)
          \/ PresetImportString(p, priority)
          \/ DeletePreset(p, priority)
    \/ ImportFile

Spec == Init /\ [][Next]_configVars

-----------------------------------------------------------------------------
TypeOK ==
    /\ \A p \in DOMAIN entries : Way(p) \subseteq DOMAIN entries
    /\ \A p \in DOMAIN presets : Way(p) \subseteq DOMAIN presets
    /\ \A p \in DOMAIN seen : seen[p] \in Nat

\* A variable holds the latest of the offers of the highest priority that were made since it was
\* declared, be it by a plugin, a preset, a default, the INI file or code, in whatever order: but
\* for a preset, which hides a plugin of higher priority (create(), Define(), Import()).
HighestOfferWins ==
    \A p \in Declared(entries) :
        ~entries[p].hidden => Offer(entries[p].priority, entries[p].value) = entries[p].best

\* A declared variable never has a lower priority than one of the offers made to it: a preset
\* does not replace the value of a plugin that has a higher priority (create()).
PresetsRespectPlugins ==
    \A p \in Declared(entries) : entries[p].priority >= entries[p].best.priority

\* A listener of all events knows each declared variable and its priority, also those that are
\* declared for a substitution only, and keeps none that is gone but with its parent node.
ListenerIsUpToDate ==
    \A p \in Declared(entries) : p \in DOMAIN seen /\ seen[p] = entries[p].priority

\* A preset stays until it is removed itself: what is known of other variables does not depend on
\* the deletion of one (presetImportString()).
PresetStays ==
    \A p \in DOMAIN presets :
        presets[p].declared
          => \/ p \in DOMAIN presets' /\ presets'[p].declared
             \/ \A q \in DOMAIN presets \ {p} : q \in DOMAIN presets' /\ presets'[q] = presets[q]
-----------------------------------------------------------------------------
(* An instance with one variable, which a plug-in defines.                                         *)

OneVariable == <<"a">>
OnePath == {OneVariable}
OnePlugin == <<[priority |-> 5, defines |-> OnePath]>>
NoReference == [p \in OnePath |-> {}]
OneEntry == <<OneVariable>>
=============================================================================
