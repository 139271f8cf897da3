----------------------------- MODULE ScopeStore -----------------------------
(* ScopeStore with stacked thread values, as Lox keeps scope domains in it: a value for the global *)
(* scope, a tree of values for paths, files and methods, and a stack of values per thread, inner   *)
(* and outer. A log statement walks over all values of its place, from the innermost scope to the  *)
(* outermost. A node of the tree is the sequence of its names; a value is a string allocated from  *)
(* the pool: what it says is `text`, and the memory is named by a number.                          *)
EXTENDS Integers, Sequences, FiniteSets, SequencesExt, TLC

CONSTANTS
    Threads, Texts, nullptr,
    Places,         \* source positions: the directories, the file and the method
    LocalText,      \* the domain named in a log statement
    MaxValues       \* bound: strings allocated at a time

ScopeStoreAssumption == \A x \in Places : x.dirs \in Seq(STRING)

VARIABLES
    globalStore, languageStore, threadStore,
    text,           \* the strings allocated
    walk            \* the state of a walk and the values returned so far

scopeVars == <<globalStore, languageStore, threadStore, text, walk>>

Idle == [walking |-> FALSE]

Init ==
    /\ globalStore = nullptr
    /\ languageStore = (<<>> :> nullptr)
    /\ threadStore = [s \in {"inner", "outer"} \X Threads |-> <<>>]
    /\ text = <<>>
    /\ walk = Idle

-----------------------------------------------------------------------------
FileNode(x) == Append(x.dirs, x.file)

MethodNode(x) == FileNode(x) \o <<x.method>>

\* initCursor( true ): the node of a scope is created with all nodes above it. For a path the whole
\* directory is created, even if a parent of it is meant.
Cursor(scope, x, pathLevel) ==
    IF scope = "Path"
    THEN SubSeq(x.dirs, 1, IF pathLevel < Len(x.dirs) THEN Len(x.dirs) - pathLevel ELSE 0)
    ELSE IF scope = "Filename" THEN FileNode(x) ELSE MethodNode(x)

WithNodes(p) == languageStore @@ [q \in Prefixes(p) |-> nullptr]

AtCursor(scope, x, pathLevel) ==
    WithNodes(IF scope = "Path" THEN x.dirs ELSE Cursor(scope, x, pathLevel))

Fresh == CHOOSE v \in 1..MaxValues : v \notin DOMAIN text

CanAllocate == Cardinality(DOMAIN text) < MaxValues

Freed(t, old) == [v \in DOMAIN t \ {old} |-> t[v]]

\* setDomain(): a value is stored or, with an empty text, removed; what was replaced or removed is
\* given back to the pool.
SetGlobal(new, t) ==
    /\ globalStore' = new
    /\ text' = Freed(t, globalStore)
    /\ UNCHANGED <<languageStore, threadStore>>

SetLanguage(scope, x, pathLevel, new, t) ==
    LET p == Cursor(scope, x, pathLevel)
        nodes == AtCursor(scope, x, pathLevel)
    IN  /\ languageStore' = [nodes EXCEPT ![p] = new]
        /\ text' = Freed(t, nodes[p])
        /\ UNCHANGED <<globalStore, threadStore>>

PushThread(s, new, t) ==
    /\ threadStore' = [threadStore EXCEPT ![s] = Append(@, new)]
    /\ text' = t
    /\ UNCHANGED <<globalStore, languageStore>>

RemoveThread(s, i) ==
    /\ threadStore' = [threadStore EXCEPT ![s] = RemoveAt(@, i)]
    /\ text' = Freed(text, threadStore[s][i])
    /\ UNCHANGED <<globalStore, languageStore>>

setDomain(x) ==
    /\ \E what \in Texts :
          LET t == text @@ (Fresh :> what)
          IN  /\ CanAllocate
              /\ \/ SetGlobal(Fresh, t)
                 \/ \E scope \in {"Filename", "Method"} : SetLanguage(scope, x, 0, Fresh, t)
                 \/ \E level \in 0..2 : SetLanguage("Path", x, level, Fresh, t)
                 \/ \E s \in DOMAIN threadStore : PushThread(s, Fresh, t)
    /\ walk' = Idle

RemoveDomain(x) ==
    /\ \/ globalStore # nullptr /\ SetGlobal(nullptr, text)
       \/ \E scope \in {"Filename", "Method"} : SetLanguage(scope, x, 0, nullptr, text)
       \/ \E level \in 0..2 : SetLanguage("Path", x, level, nullptr, text)
       \/ \E s \in DOMAIN threadStore :
             /\ threadStore[s] # <<>>
             /\ RemoveThread(s, Len(threadStore[s]))
    /\ walk' = Idle

\* RemoveThreadDomain(): the first, that is the oldest, of the thread's values that says the same.
Named(s, what) == SelectInSeq(threadStore[s], LAMBDA v : text[v] = what)

RemoveThreadDomain(s, what) ==
    /\ Named(s, what) # 0
    /\ RemoveThread(s, Named(s, what))
    /\ walk' = Idle

-----------------------------------------------------------------------------
\* InitWalk(), and Walk() in steps: one for each time the switch of doWalk() is entered, where that
\* of the language-related scopes is one for each node.
InitWalk(thread, x, local) ==
    /\ walk' = [walking |-> TRUE, scope |-> "ThreadInner", idx |-> -2, lazy |-> TRUE,
                cursor |-> <<>>, valid |-> TRUE,
                thread |-> thread, place |-> x, local |-> local, found |-> <<>>]
    /\ UNCHANGED <<globalStore, languageStore, threadStore, text>>

Return(w, v) == [w EXCEPT !.found = Append(@, v)]

\* mutant: nothing is found if the nodes do not all exist
Deepest_all(x) == IF MethodNode(x) \in DOMAIN languageStore THEN MethodNode(x) ELSE <<>>

\* initCursor( false ): as deep as nodes exist.
Deepest(x) ==
    LET dirs == {p \in Prefixes(x.dirs) : p \in DOMAIN languageStore}
        dir == CHOOSE p \in dirs : \A q \in dirs : Len(q) <= Len(p)
    IN  IF dir # x.dirs \/ FileNode(x) \notin DOMAIN languageStore THEN dir
        ELSE IF MethodNode(x) \notin DOMAIN languageStore THEN FileNode(x)
        ELSE MethodNode(x)

WalkThread(w, s, next) ==
    LET values == threadStore[<<s, w.thread>>]
        idx == IF w.idx = -2 THEN Len(values) ELSE w.idx
    IN  IF idx > 0 THEN Return([w EXCEPT !.idx = idx - 1], values[idx])
        ELSE next

Start(w) == IF w.lazy THEN [w EXCEPT !.lazy = FALSE, !.cursor = Deepest(w.place)] ELSE w

WalkLanguage(w) ==
    LET value == languageStore[w.cursor]
        up == [w EXCEPT !.cursor = IF @ = <<>> THEN @ ELSE Front(@), !.valid = w.cursor # <<>>]
    IN  IF ~w.valid THEN [w EXCEPT !.scope = "ThreadOuter", !.idx = -2]
        ELSE IF value = nullptr THEN up
        ELSE Return(up, value)

ToLanguage(w) ==
    LET next == [w EXCEPT !.scope = "Method"]
    IN  IF w.local # nullptr THEN Return(next, w.local) ELSE next

WalkGlobal(w) ==
    LET end == [w EXCEPT !.walking = FALSE, !.scope = "end"]
    IN  IF globalStore # nullptr THEN Return(end, globalStore) ELSE end

Walk ==
    /\ walk.walking
    /\ walk' = CASE walk.scope = "ThreadInner" -> WalkThread(walk, "inner", ToLanguage(walk))
                 [] walk.scope = "Method"      -> WalkLanguage(Start(walk))
                 [] walk.scope = "ThreadOuter" ->
                        WalkThread(walk, "outer", [walk EXCEPT !.scope = "Global"])
                 [] walk.scope = "Global"      -> WalkGlobal(walk)
    /\ UNCHANGED <<globalStore, languageStore, threadStore, text>>

Next ==
    \/ \E x \in Places : setDomain(x) \/ RemoveDomain(x)
    \/ \E s \in DOMAIN threadStore, what \in Texts : RemoveThreadDomain(s, what)
    \/ /\ ~walk.walking
       /\ \E t \in Threads, x \in Places, local \in {nullptr, LocalText} : InitWalk(t, x, local)
    \/ Walk

Spec == Init /\ [][Next]_scopeVars

-----------------------------------------------------------------------------
TypeOK ==
    /\ globalStore \in DOMAIN text \cup {nullptr}
    /\ \A p \in DOMAIN languageStore : languageStore[p] \in DOMAIN text \cup {nullptr}
    /\ \A s \in DOMAIN threadStore : ToSet(threadStore[s]) \subseteq DOMAIN text
    /\ DOMAIN text \subseteq 1..MaxValues

\* A string is in one place of the store, and is given back when it leaves it: what is allocated is
\* stored, whichever scope replaced or removed its value (setDomain(), doAccess()).
StoredOnce ==
    \A v \in DOMAIN text :
        (IF globalStore = v THEN 1 ELSE 0)
          + Cardinality({p \in DOMAIN languageStore : languageStore[p] = v})
          + Cardinality({place \in (DOMAIN threadStore) \X (1..MaxValues) :
                           /\ place[2] <= Len(threadStore[place[1]])
                           /\ threadStore[place[1]][place[2]] = v}) = 1

\* What covers a place, from its method to the root, with nullptr where nothing is set.
Covering(x) ==
    LET nodes == [i \in 0..Len(MethodNode(x)) |-> SubSeq(MethodNode(x), 1, Len(MethodNode(x)) - i)]
        ValueAt(p) == IF p \in DOMAIN languageStore THEN languageStore[p] ELSE nullptr
    IN  [i \in 1..Len(MethodNode(x)) + 1 |-> ValueAt(nodes[i - 1])]

\* A walk returns every value that covers its place, once and from the inside to the outside: the
\* thread's inner values, the latest first, the local one, those of the method, the file and the
\* directories up to the root, the thread's outer values and the global one. Nodes that were
\* never created stop nothing (doWalk(), initCursor()).
WalkIsInnerToOuter ==
    "found" \in DOMAIN walk /\ ~walk.walking =>
        walk.found = SelectSeq(Reverse(threadStore[<<"inner", walk.thread>>]) \o <<walk.local>>
                                 \o Covering(walk.place)
                                 \o Reverse(threadStore[<<"outer", walk.thread>>])
                                 \o <<globalStore>>, LAMBDA v : v # nullptr)
=============================================================================
