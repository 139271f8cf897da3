------------------------------ MODULE StringTree ------------------------------
(* StringTree with its cursors and one StringTreeIterator.  Each node has a    *)
(* list of its children; one hash table knows all nodes by parent and name.    *)
(* Nodes are numbers that stand for addresses: that of a deleted node is used  *)
(* again.  The root is 0; nullptr is -1.  The iterator may sort, is told to     *)
(* skip branches, and deletes nodes while it walks.                            *)
EXTENDS Integers, Sequences, FiniteSets, SequencesExt, FiniteSetsExt

CONSTANTS
    Names,            \* the names of nodes, a sequence in their sorting order
    MaxNodes,         \* bound: nodes in the tree
    ListSearch,       \* children that are searched one by one, 5 in the code
    STACK_SIZE,       \* names that assemblePath() keeps at a time, 32 in the code
    Paths,            \* paths to follow, [absolute, parts]; parts are names, "." and ".."
    CreatePaths,      \* paths that are created
    MaxDepths,        \* values for SetMaxDepth()
    Resorts           \* whether SetSorting() is called during an iteration

StringTreeAssumption ==
    /\ MaxNodes \in Nat \ {0} /\ ListSearch \in Nat /\ STACK_SIZE \in Nat \ {0}
    /\ MaxDepths \subseteq Nat /\ Resorts \in BOOLEAN

Root == 0
Null == -1
Nodes == 1 .. MaxNodes
NameSet == ToSet(Names)

VARIABLES
    tree,         \* the fields of the nodes and the nodes in nodeTable
    iter,         \* the iterator
    content,      \* each path that exists, with the names of its children
    owed          \* the paths that the iterator has to visit, from the actual one on

treeVars == <<tree, iter, content, owed>>

EmptyTree ==
    [parent |-> [n \in 0 .. MaxNodes |-> Null],
     name |-> [n \in 0 .. MaxNodes |-> ""],
     children |-> [n \in 0 .. MaxNodes |-> <<>>],
     qtyChildren |-> [n \in 0 .. MaxNodes |-> 0],
     nodeTable |-> {}]

InvalidIterator ==
    [depth |-> -1, node |-> Null, stack |-> <<>>, listed |-> {}, path |-> <<>>,
     maxDepth |-> 0, sorter |-> 0, limit |-> 0]

Init ==
    /\ tree = EmptyTree
    /\ iter = InvalidIterator
    /\ content = [p \in {<<>>} |-> <<>>]
    /\ owed = {}
-----------------------------------------------------------------------------
(* Searching and following paths                                             *)

InTable(t, n, name) == {m \in t.nodeTable : t.parent[m] = n /\ t.name[m] = name}

FromTable(t, n, name) ==
    IF InTable(t, n, name) = {} THEN Null ELSE Min(InTable(t, n, name))

findChild(t, n, name) ==
    LET i == SelectInSeq(t.children[n], LAMBDA m : t.name[m] = name)
    IN  IF t.qtyChildren[n] = 0 THEN Null
        ELSE IF t.qtyChildren[n] > ListSearch THEN FromTable(t, n, name)
        ELSE IF i = 0 THEN Null ELSE t.children[n][i]

Start(n, path) == IF path.absolute THEN Root ELSE n

\* Where the path leads to as far as it exists, and how many of its names are left.
followPath(t, n, path) ==
    LET Follow(at, part) ==
            LET child == findChild(t, at.node, part)
            IN  IF at.left > 0 THEN [at EXCEPT !.left = @ + 1]
                ELSE IF part = "."  THEN at
                ELSE IF part = ".." THEN IF at.node = Root THEN at
                                         ELSE [at EXCEPT !.node = t.parent[at.node]]
                ELSE IF child = Null THEN [at EXCEPT !.left = 1]
                ELSE [at EXCEPT !.node = child]
    IN  FoldLeft(Follow, [node |-> Start(n, path), left |-> 0], path.parts)

\* The nodes from n up to the last one before `top`, or to the root.
Chain(t, n, top) ==
    LET f[m \in -1 .. MaxNodes] ==
            IF m = Null THEN <<>>
            ELSE IF t.parent[m] = top THEN <<m>>
            ELSE <<m>> \o f[t.parent[m]]
    IN  f[n]

\* The names of a chain, from its upper end, behind a text; a "/" in front of each but the first.
Unroll(t, text, chain, top) ==
    LET Put(target, m) ==
            IF t.parent[m] = Null THEN Append(target, "/")
            ELSE IF (target = <<>> \/ Last(target) # "/") /\ t.parent[m] # top
                 THEN target \o <<"/", t.name[m]>>
                 ELSE Append(target, t.name[m])
    IN  FoldLeft(Put, text, Reverse(chain))

\* The path of n below the node `top`, Null for an absolute one: when the stack of nodes is full, a
\* recursive call does the upper part.
assemblePath(t, n, top) ==
    LET chain == Chain(t, n, top)
        part[i \in 1 .. Len(chain)] ==
            IF i + STACK_SIZE > Len(chain) THEN Unroll(t, <<>>, SubSeq(chain, i, Len(chain)), top)
            ELSE Unroll(t, part[i + STACK_SIZE], SubSeq(chain, i, i + STACK_SIZE - 1), top)
    IN  part[1]
-----------------------------------------------------------------------------
(* Creation and deletion                                                     *)

Insert(t, n, name) ==
    LET m == Min(Nodes \ t.nodeTable)
    IN  [t EXCEPT !.parent[m] = n, !.name[m] = name,
                  !.children = [@ EXCEPT ![n] = Append(@, m), ![m] = <<>>],
                  !.qtyChildren = [@ EXCEPT ![n] = @ + 1, ![m] = 0],
                  !.nodeTable = @ \cup {m}]

findOrCreateChild(t, n, name) == IF InTable(t, n, name) # {} THEN t ELSE Insert(t, n, name)

\* ".." is taken for a name here, and "." is never passed by.
Returns(path) == "." \notin ToSet(path.parts)
followPathCreate(t, n, path) ==
    LET Follow(at, part) ==
            LET with == findOrCreateChild(at.tree, at.node, part)
            IN  [tree |-> with, node |-> FromTable(with, at.node, part)]
    IN  FoldLeft(Follow, [tree |-> t, node |-> Start(n, path)], path.parts)

Below(t, n) ==
    LET f[m \in 0 .. MaxNodes] == UNION {{c} \cup f[c] : c \in ToSet(t.children[m])}
    IN  f[n]

\* Destructed nodes leave nothing behind.
Without(t, gone) ==
    [t EXCEPT !.parent = [m \in DOMAIN @ |-> IF m \in gone THEN Null ELSE @[m]],
              !.name = [m \in DOMAIN @ |-> IF m \in gone THEN "" ELSE @[m]],
              !.children = [m \in DOMAIN @ |-> IF m \in gone THEN <<>> ELSE @[m]],
              !.qtyChildren = [m \in DOMAIN @ |-> IF m \in gone THEN 0 ELSE @[m]],
              !.nodeTable = @ \ gone]

deleteChildren(t, n) ==
    [Without(t, Below(t, n)) EXCEPT !.children[n] = <<>>,
                                    !.qtyChildren[n] = @ - Len(t.children[n])]

\* How many nodes deleteChildren() says it has deleted.
DeletedChildren(t, n) ==
    LET f[m \in 0 .. MaxNodes] ==
            IF t.children[m] = <<>> THEN 0
            ELSE t.qtyChildren[m] + FoldLeft(LAMBDA s, c : s + f[c], 0, t.children[m])
    IN  f[n]

deleteChild(t, n, c) ==
    Without(deleteChildren([t EXCEPT !.qtyChildren[n] = @ - 1,
                                     !.children[n] = SelectSeq(@, LAMBDA m : m # c)], c), {c})
-----------------------------------------------------------------------------
(* The iterator. It keeps a record per level: the actual child, or the sorted  *)
(* children and an index, and the length of the path.                         *)

Rank(name) == SelectInSeq(Names, LAMBDA x : x = name)
Sorted(t, nodes, sorter) ==
    SortSeq(nodes, LAMBDA m, n : IF sorter = 1 THEN Rank(t.name[m]) < Rank(t.name[n])
                                 ELSE Rank(t.name[m]) > Rank(t.name[n]))

\* A level that was sorted once keeps its vector: unsorted children are not found there any more,
\* for the index is the address of a node then.
recursion(t, it) ==
    LET sorted == IF it.sorter = 0 THEN <<>> ELSE Sorted(t, t.children[it.node], it.sorter)
        node == IF it.sorter = 0 THEN t.children[it.node][1] ELSE sorted[1]
        level == [actChild |-> node, sortedChildren |-> sorted, sortedIdx |-> 1,
                  pathStringLen |-> Len(it.path)]
    IN  [it EXCEPT !.depth = @ + 1, !.node = node, !.stack = Append(@, level),
                   !.listed = IF it.sorter = 0 THEN @ ELSE @ \cup {it.depth + 1},
                   !.path = Append(@, t.name[node])]

\* The next child of a level, Null if there is none.
Sibling(t, it, d) ==
    LET level == it.stack[d + 1]
        list == IF t.parent[level.actChild] = Null THEN <<level.actChild>>
                ELSE t.children[t.parent[level.actChild]]
        i == SelectInSeq(list, LAMBDA m : m = level.actChild)
    IN  IF level.sortedChildren # <<>>
        THEN IF level.sortedIdx < Len(level.sortedChildren)
             THEN level.sortedChildren[level.sortedIdx + 1] ELSE Null
        ELSE IF d \in it.listed \/ i = Len(list) THEN Null ELSE list[i + 1]

\* Down to the next level that has another child.
Climbed(t, it, skipMode) ==
    LET from == IF skipMode = 2 THEN it.depth - 1 ELSE it.depth
        levels == {d \in 0 .. from : Sibling(t, it, d) # Null}
        d == Max(levels)
        node == Sibling(t, it, d)
    IN  IF levels = {} THEN InvalidIterator
        ELSE [it EXCEPT !.depth = d, !.node = node,
                        !.stack = [SubSeq(@, 1, d + 1) EXCEPT ![d + 1].actChild = node,
                                                              ![d + 1].sortedIdx = @ + 1],
                        !.path = Append(SubSeq(@, 1, it.stack[d + 1].pathStringLen), t.name[node])]

next(t, it, skipMode) ==
    IF skipMode = 0 /\ it.depth < it.maxDepth /\ t.qtyChildren[it.node] # 0
    THEN recursion(t, it)
    ELSE Climbed(t, it, skipMode)

\* The path of a node, as a sequence of names.
PathOf(t, n) == LET chain == Reverse(Chain(t, n, Root))
                IN  IF n = Root THEN <<>> ELSE [i \in DOMAIN chain |-> t.name[chain[i]]]

Initialized(t, n, include, sorter, maxDepth) ==
    LET it == [InvalidIterator EXCEPT !.node = n, !.path = PathOf(t, n), !.maxDepth = maxDepth,
                                      !.sorter = sorter]
    IN  IF include
        THEN [it EXCEPT !.depth = 0, !.listed = {0},
                        !.stack = <<[actChild |-> n, sortedChildren |-> <<n>>, sortedIdx |-> 1,
                                     pathStringLen |-> 0]>>]
        ELSE IF t.qtyChildren[n] = 0 THEN InvalidIterator ELSE recursion(t, it)
-----------------------------------------------------------------------------
(* The steps of a program that has one iterator. While that is valid, the    *)
(* program changes the tree through it, or below its node.                   *)

Live == {Root} \cup tree.nodeTable
Valid == iter.depth # -1
MayChange(n) == ~Valid \/ n = iter.node

IsBelow(q, p) == IsStrictPrefix(p, q)
Within(paths, p) == {q \in paths : q = p \/ IsBelow(q, p)}
Parent(p) == Front(p)

\* What a step means for the paths.
Grown(c, p, name) ==
    IF name \in ToSet(c[p]) THEN c
    ELSE [q \in DOMAIN c \cup {Append(p, name)} |->
            IF q = p THEN Append(c[p], name) ELSE IF q \in DOMAIN c THEN c[q] ELSE <<>>]
Cut(c, paths) ==
    [q \in DOMAIN c \ paths |-> SelectSeq(c[q], LAMBDA name : Append(q, name) \notin paths)]

CreateChild(n, name) ==
    LET path == PathOf(tree, n)
    IN  /\ MayChange(n) /\ tree.nodeTable # Nodes
        /\ tree.qtyChildren[n] > 0 => InTable(tree, n, name) = {}
        /\ tree' = Insert(tree, n, name)
        /\ content' = Grown(content, path, name)
        /\ owed' = IF Valid /\ Len(path) < iter.limit THEN owed \cup {Append(path, name)} ELSE owed
        /\ UNCHANGED iter

\* GoToCreatedPathIfNotExistent(), and GoToCreateChildIfNotExistent() for a path of one name.
CreatePath(n, path) ==
    /\ ~Valid /\ Returns(path)
    /\ Cardinality(tree.nodeTable) + Len(path.parts) <= MaxNodes
    /\ tree' = followPathCreate(tree, n, path).tree
    /\ LET Grow(at, name) == [content |-> Grown(at.content, at.path, name),
                              path |-> Append(at.path, name)]
       IN  content' = FoldLeft(Grow, [content |-> content, path |-> PathOf(tree, Start(n, path))],
                               path.parts).content
    /\ UNCHANGED <<iter, owed>>

Drop(paths) ==
    /\ content' = Cut(content, paths)
    /\ owed' = owed \ paths

\* DeleteChild() with a name.
DeleteNamed(n, name) ==
    /\ MayChange(n) /\ tree.qtyChildren[n] # 0 /\ InTable(tree, n, name) # {}
    /\ tree' = deleteChild(tree, n, FromTable(tree, n, name))
    /\ Drop(Within(DOMAIN content, Append(PathOf(tree, n), name)))
    /\ UNCHANGED iter

DeleteChildren(n) ==
    /\ MayChange(n)
    /\ tree' = deleteChildren(tree, n)
    /\ Drop(Within(DOMAIN content, PathOf(tree, n)) \ {PathOf(tree, n)})
    /\ UNCHANGED iter

\* Delete() of a cursor, and DeleteChild() with a cursor; the root loses its children only.
Delete(n) ==
    /\ ~Valid /\ n # Root
    /\ tree' = deleteChild(tree, tree.parent[n], n)
    /\ Drop(Within(DOMAIN content, PathOf(tree, n)))
    /\ UNCHANGED iter

\* Clear() and Reset().
Clear ==
    /\ ~Valid
    /\ tree' = EmptyTree
    /\ content' = [p \in {<<>>} |-> <<>>]
    /\ UNCHANGED <<iter, owed>>

Initialize(n, include, sorter, maxDepth) ==
    LET path == PathOf(tree, n)
        limit == Len(path) + maxDepth + (IF include THEN 0 ELSE 1)
        it == Initialized(tree, n, include, sorter, maxDepth)
        all == {q \in Within(DOMAIN content, path) : Len(q) <= limit}
    IN  /\ ~Valid
        /\ iter' = IF it.depth = -1 THEN it ELSE [it EXCEPT !.limit = limit]
        /\ owed' = IF include THEN all ELSE all \ {path}
        /\ UNCHANGED <<tree, content>>

\* What need not be visited any more: the node, what is below it too, all below its parent.
Skipped(skipMode) ==
    LET path == PathOf(tree, iter.node)
    IN  IF skipMode = 0 THEN {path}
        ELSE IF skipMode = 1 \/ path = <<>> THEN Within(owed, path)
        ELSE Within(owed, Parent(path))

\* Next(), NextSibling() and NextParentSibling()
Next_(skipMode) ==
    /\ Valid
    /\ iter' = next(tree, iter, skipMode)
    /\ owed' = owed \ Skipped(skipMode)
    /\ UNCHANGED <<tree, content>>

DeleteNode ==
    LET path == PathOf(tree, iter.node)
    IN  /\ Valid /\ iter.node # Root
        /\ iter' = next(tree, iter, 1)
        /\ tree' = deleteChild(tree, tree.parent[iter.node], iter.node)
        /\ content' = Cut(content, Within(DOMAIN content, path))
        /\ owed' = owed \ Within(owed, path)

Invalidate ==
    /\ Valid
    /\ iter' = InvalidIterator
    /\ owed' = {}
    /\ UNCHANGED <<tree, content>>

SetSorting(sorter) ==
    /\ Resorts /\ Valid
    /\ iter' = [iter EXCEPT !.sorter = sorter]
    /\ UNCHANGED <<tree, content, owed>>

Next ==
    \/ \E n \in Live :
          \/ \E name \in NameSet : CreateChild(n, name) \/ DeleteNamed(n, name)
          \/ \E path \in CreatePaths : CreatePath(n, path)
          \/ DeleteChildren(n)
          \/ Delete(n)
          \/ \E include \in BOOLEAN, sorter \in -1 .. 1, maxDepth \in MaxDepths :
                Initialize(n, include, sorter, maxDepth)
    \/ Clear
    \/ \E skipMode \in 0 .. 2 : Next_(skipMode)
    \/ DeleteNode
    \/ Invalidate
    \/ \E sorter \in -1 .. 1 : SetSorting(sorter)

Spec == Init /\ [][Next]_treeVars
-----------------------------------------------------------------------------
TypeOK ==
    /\ tree.nodeTable \subseteq Nodes
    /\ \A n \in 0 .. MaxNodes :
          /\ tree.parent[n] \in -1 .. MaxNodes
          /\ tree.qtyChildren[n] \in 0 .. MaxNodes
          /\ tree.children[n] \in Seq(Nodes)
    /\ iter.depth \in -1 .. MaxNodes /\ iter.node \in -1 .. MaxNodes
    /\ \A p \in DOMAIN content \cup owed : p \in Seq(NameSet)

\* Every node is in the hash table and in the list of its parent, once, and counted there; names are
\* unique below a parent; no link leads to a deleted node.
TableHoldsTheTree ==
    /\ tree.nodeTable = Below(tree, Root)
    /\ \A n \in Live :
          /\ tree.qtyChildren[n] = Len(tree.children[n])
          /\ IsInjective(tree.children[n])
          /\ \A c \in ToSet(tree.children[n]) : tree.parent[c] = n
          /\ \A c, d \in ToSet(tree.children[n]) : tree.name[c] = tree.name[d] => c = d

\* The tree is what the calls have made it: the paths, and the children of each in the order of their
\* creation.
ReadsAsContent ==
    /\ {PathOf(tree, n) : n \in Live} = DOMAIN content
    /\ \A n \in Live :
          content[PathOf(tree, n)] = [i \in DOMAIN tree.children[n] |->
                                        tree.name[tree.children[n][i]]]

\* Where a path leads among the paths that exist, and how many of its names are left.
Destination(from, path) ==
    LET Follow(at, part) ==
            LET child == Append(at.path, part)
            IN  IF at.left > 0 THEN [at EXCEPT !.left = @ + 1]
                ELSE CASE part = "." -> at
                     [] part = ".." -> [at EXCEPT !.path = IF @ = <<>> THEN @ ELSE Parent(@)]
                     [] child \in DOMAIN content -> [at EXCEPT !.path = child]
                     [] OTHER -> [at EXCEPT !.left = 1]
    IN  FoldLeft(Follow, [path |-> IF path.absolute THEN <<>> ELSE from, left |-> 0], path.parts)

\* The path of a node as one text, "/" in front of and between the names.
Written(p) == IF p = <<>> THEN <<"/">>
              ELSE FlattenSeq([i \in DOMAIN p |-> <<"/", p[i]>>])

\* From every node each path is followed to where it leads, whether the children are searched in the
\* list or in the table; and the path written for a node, in pieces if it is long, is its path.
PathsLeadToTheirNodes ==
    /\ \A n \in Live, path \in Paths :
          LET at == followPath(tree, n, path)
          IN  [path |-> PathOf(tree, at.node), left |-> at.left]
                = Destination(PathOf(tree, n), path)
    /\ \A n \in Live : assemblePath(tree, n, Null) = Written(PathOf(tree, n))
    /\ \A n, top \in Live :
          n \in Below(tree, top) =>
              (IF top = Root THEN <<>> ELSE Written(PathOf(tree, top)))
                \o <<"/">> \o assemblePath(tree, n, top) = Written(PathOf(tree, n))

\* A deletion reports the number of nodes that it deletes.
DeletionsAreCounted ==
    \A n \in Live : DeletedChildren(tree, n) = Cardinality(Below(tree, n))

Place(name, p) ==
    CASE iter.sorter = 0 -> SelectInSeq(content[p], LAMBDA x : x = name)
      [] iter.sorter = 1 -> Rank(name)
      [] OTHER -> -Rank(name)

Precedes(q, p) ==
    LET differ == {i \in 1 .. Len(q) : i <= Len(p) /\ q[i] # p[i]}
        i == Min(differ)
    IN  IF differ = {} THEN Len(q) < Len(p)
        ELSE Place(q[i], SubSeq(p, 1, i - 1)) < Place(p[i], SubSeq(p, 1, i - 1))

\* The iterator visits what it was asked to and nothing else, nodes before their children and siblings in order, however
\* it is made to skip, and whatever is deleted on the way; when it ends, nothing is left; and it knows
\* the path of its node.
IteratorVisitsAll ==
    /\ ~Valid => owed = {}
    /\ Valid => /\ iter.node \in Live
                /\ iter.path = PathOf(tree, iter.node)
                /\ iter.path \in owed /\ owed \subseteq DOMAIN content
                /\ ~Resorts => \A q \in owed : ~Precedes(q, iter.path)
=============================================================================
