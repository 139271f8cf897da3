------------------------------ MODULE FileScanner ------------------------------
(* ScanFiles(): the POSIX scanner fills a file tree from a disk that does not  *)
(* change meanwhile.  What is found lies at its real path: a link is a leaf,    *)
(* and its target is scanned at its own place, while the scan of the link's     *)
(* directory is not finished.  A call is one step; readdir() returns the        *)
(* entries of a directory in any order.                                        *)
EXTENDS Integers, Sequences, FiniteSets, SequencesExt, FiniteSetsExt, Functions, TLC

CONSTANTS
    Disks,        \* disks: functions from paths to entries, <<>> is the root directory
    Orders,       \* orders that readdir() follows, sequences of names
    Scans,        \* parameters of the calls to ScanFiles()
    MaxScans      \* bound: calls to ScanFiles()

\* An entry has a device, may be on an artificial file system, has a size, and is readable or not.
\* realpath() returns the target of a link, or an error.
EntryOK(d, p) ==
    LET e == d[p]
    IN  /\ e.kind \in {"dir", "file", "link"} /\ e.size \in Nat /\ e.device \in Nat \ {0}
        /\ {e.artificial, e.readable} \subseteq BOOLEAN
        /\ p # <<>> => Front(p) \in DOMAIN d /\ d[Front(p)].kind = "dir"
        /\ e.kind = "link" /\ e.error = "none" =>
              e.target \in DOMAIN d /\ d[e.target].kind # "link"

FileScannerAssumption ==
    /\ \A d \in Disks : <<>> \in DOMAIN d /\ \A p \in DOMAIN d : EntryOK(d, p)
    /\ MaxScans \in Nat

VARIABLES
    disk, order,  \* chosen at the start
    tree,         \* nodes, the file tree; results and returned, what the last call gave back; known,
                  \* the nodes listeners know of; reads, followed, fixed: the directories read, the
                  \* links followed, whether FixSums() was used; sums, the counters being filled
    calls         \* the parameters of the calls so far

scannerVars == <<disk, order, tree, calls>>

Qualities ==
    <<"NONE", "STATS", "RESOLVED", "MAX_DEPTH_REACHED", "NOT_FOLLOWED", "NOT_CROSSING_FS", "NO_AFS",
      "RECURSIVE", "NO_ACCESS_SL_TARGET", "NO_ACCESS_DIR", "BROKEN_LINK", "CIRCULAR_LINK",
      "DUPLICATE">>
Level(quality) == SelectInSeq(Qualities, LAMBDA q : q = quality)

Types == {"dir", "linkDir", "file", "link", "unknown"}
IsDirectory(node) == node.type \in {"dir", "linkDir"}
-----------------------------------------------------------------------------
(* DirectorySums                                                             *)

Errors == {"access", "broken", "maxDepth"}
Zero == [k \in Types \cup Errors \cup {"size"} |-> 0]
Plus(a, b) == [k \in DOMAIN a |-> a[k] + b[k]]
Minus(a, b) == [k \in DOMAIN a |-> a[k] - b[k]]
Add(sums, node) == [sums EXCEPT ![node.type] = @ + 1, !.size = @ + node.size]
Count(sums) == MapThenSumSet(LAMBDA t : sums[t], Types)

Blank ==
    [type |-> "unknown", quality |-> "NONE", crossing |-> FALSE, artificial |-> FALSE,
     targetArtificial |-> FALSE, size |-> 0, sums |-> Zero]

Init ==
    /\ disk \in Disks /\ order \in Orders
    /\ tree = [nodes |-> <<>> :> Blank, results |-> <<>>, returned |-> "NONE", known |-> {},
               reads |-> <<>>, followed |-> {}, fixed |-> FALSE, sums |-> Zero]
    /\ calls = <<>>

Children(nodes, p) == {q \in DOMAIN nodes : q # <<>> /\ Front(q) = p}
Branch(nodes, p) == {q \in DOMAIN nodes : IsPrefix(p, q)}

\* The sums of a directory from those of its children: sizes and errors get lost.
FixedSums(nodes, p) ==
    FoldSet(LAMBDA q, sums : LET counted == [sums EXCEPT ![nodes[q].type] = @ + 1]
                             IN  IF IsDirectory(nodes[q]) THEN Plus(counted, nodes[q].sums)
                                 ELSE counted,
            Zero, Children(nodes, p))
-----------------------------------------------------------------------------
(* Scanning one entry: t is the file tree as it is, t.sums the sums of the    *)
(* parent.                                                                    *)

\* What stat() says, and for a link realpath() and stat() of the target.
Stat(node, p, device, params) ==
    LET e == disk[p]
        resolve == e.kind = "link" /\ params.links # "DONT_RESOLVE"
        found == resolve /\ e.error = "none"
        at == IF found THEN disk[e.target] ELSE e
    IN  [node EXCEPT
            !.quality = IF found THEN "RESOLVED"
                        ELSE IF ~resolve THEN "STATS"
                        ELSE [broken |-> "BROKEN_LINK", loop |-> "CIRCULAR_LINK",
                              denied |-> "NO_ACCESS_SL_TARGET"][e.error],
            !.type = IF e.kind # "link" THEN e.kind ELSE IF at.kind = "dir" THEN "linkDir" ELSE "link",
            !.size = at.size,
            !.crossing = @ \/ device \notin {0, e.device},
            !.artificial = @ \/ e.artificial,
            !.targetArtificial = @ \/ (found /\ at.artificial)]

\* Whether a node is not scanned recursively, or was so before.
Closed(node) == ~IsDirectory(node) \/ Level(node.quality) >= Level("RECURSIVE")

\* The quality of a directory: why the recursion stops, or RECURSIVE; that of a directory that the
\* filter excludes stays.
Recursion(node, p, depth, params) ==
    CASE node.artificial /\ ~params.includeAFS -> "NO_AFS"
      [] node.crossing /\ ~params.cross -> "NOT_CROSSING_FS"
      [] depth >= params.maxDepth -> "MAX_DEPTH_REACHED"
      [] depth > 0 /\ Last(p) \in params.pre -> node.quality
      [] node.type = "linkDir" /\ (params.links # "RECURSIVE" \/ node.artificial) -> "NOT_FOLLOWED"
      [] node.type = "linkDir" /\ node.targetArtificial /\ ~params.includeAFS -> "NO_AFS"
      [] node.type = "dir" /\ ~disk[p].readable -> "NO_ACCESS_DIR"
      [] OTHER -> "RECURSIVE"

Counted(sums, quality, closed) ==
    LET error == CASE quality = "BROKEN_LINK" -> "broken"
                   [] quality = "MAX_DEPTH_REACHED" /\ ~closed -> "maxDepth"
                   [] quality = "NO_ACCESS_DIR" /\ ~closed -> "access"
                   [] OTHER -> "none"
    IN  IF error = "none" THEN sums ELSE [sums EXCEPT ![error] = @ + 1]

Removed(t, paths) ==
    [t EXCEPT !.nodes = Restrict(@, DOMAIN @ \ paths),
              !.reads = SelectSeq(@, LAMBDA p : p \notin paths), !.followed = @ \ paths]

\* The entry counts, and the listeners are told.
Created(t, p) == [t EXCEPT !.sums = Add(@, t.nodes[p]), !.known = @ \cup {p}]

\* The filters delete a node that is new. The event for the deletion of a child names the directory.
Filtered(t, p, depth, params, old) ==
    LET node == t.nodes[p]
        cut == depth > 0 /\ \/ Last(p) \in params.post
                            \/ params.removeEmpty /\ Count(node.sums) = 0
        without == [t EXCEPT !.sums = Minus(@, node.sums)]
        below == Branch(t.nodes, p) \ {p}
    IN  IF old # "NONE" THEN Created(t, p)
        ELSE IF ~IsDirectory(node)
        THEN IF Last(p) \in params.fileFilter THEN Removed(t, {p}) ELSE Created(t, p)
        ELSE IF ~cut THEN Created(t, p)
        ELSE IF params.removeEmpty
        THEN Removed([without EXCEPT !.known = @ \ {p}], below \cup {p})
        ELSE Created(Removed([without EXCEPT !.known = IF below = {} THEN @ ELSE @ \ {p}], below), p)

\* The parameters for the elements of a path: each is looked up, and not read.
PathOnly_deep == [links |-> "DONT_RESOLVE", maxDepth |-> 9, cross |-> TRUE, includeAFS |-> TRUE,
                  removeEmpty |-> FALSE, fileFilter |-> {}, pre |-> {}, post |-> {}]  \* mutant
PathOnly ==
    [links |-> "DONT_RESOLVE", maxDepth |-> 0, cross |-> TRUE, includeAFS |-> TRUE,
     removeEmpty |-> FALSE, fileFilter |-> {}, pre |-> {}, post |-> {}]

\* The node of a path, created if it does not exist.
With(t, p) == IF p \in DOMAIN t.nodes THEN t ELSE [t EXCEPT !.nodes = @ @@ (p :> Blank)]

RECURSIVE scanFile(_, _, _, _, _)

\* A directory that was known before gets its sums by FixSums().
Summed(t, done, p, sums, old) ==
    [done EXCEPT !.nodes[p].sums = sums, !.sums = Plus(t.sums, sums), !.fixed = @ \/ old # "NONE"]
readDirectory(t, p, depth, params, device, old) ==
    LET Entry(u, q) == IF q \notin DOMAIN disk THEN u
                       ELSE scanFile(With(u, q), q, depth + 1, params, device)
        Fix(done) == Summed(t, done, p, IF old = "NONE" THEN done.sums ELSE FixedSums(done.nodes, p), old)
    IN  Fix(FoldLeft(LAMBDA u, name : Entry(u, Append(p, name)),
                     [t EXCEPT !.sums = Zero, !.reads = Append(@, p)], order))

\* The start of a scan, and of the target of a link. Of a path that exists only a directory is
\* scanned; of another one all directories are created, but only the last element is scanned with the
\* parameters, and counts. Whether it existed is returned.
startScan(t, real, params) ==
    LET found == Max({i \in 0 .. Len(real) : SubSeq(real, 1, i) \in DOMAIN t.nodes})
        first == IF found = 0 THEN 0 ELSE found + 1
        Looked(u, q) == IF u.nodes[q].quality # "MAX_DEPTH_REACHED" THEN u
                        ELSE [u EXCEPT !.nodes[q].quality = "STATS"]
        Element(u, q) == Looked(scanFile(With(u, q), q, 0, PathOnly, 0), q)
        onTheWay == FoldLeft(LAMBDA u, k : Element(u, SubSeq(real, 1, first + k - 1)), t,
                             [k \in 1 .. Len(real) - first |-> k])
        Added(last) == IF real \in DOMAIN last.nodes THEN [last EXCEPT !.results = <<real>> \o @] ELSE last
    IN  IF found = Len(real)
        THEN IF IsDirectory(t.nodes[real]) THEN scanFile(t, real, 0, params, 0) ELSE t
        ELSE Added(scanFile([With(onTheWay, real) EXCEPT !.sums = Zero], real, 0, params, 0))

followLink(t, p, params) ==
    LET target == disk[p].target
        Followed(done) ==
            [done EXCEPT !.nodes[p].quality = IF target \in DOMAIN t.nodes THEN "DUPLICATE" ELSE @,
                         !.nodes[p].sums = done.sums, !.sums = Plus(t.sums, done.sums)]
    IN  Followed(startScan([t EXCEPT !.sums = Zero, !.followed = @ \cup {p}], target, params))

\* A node whose entry is known.
scanNode(t, p, depth, params, device, node, old) ==
    LET Below(marked, quality) ==
            IF Closed(node) \/ quality # "RECURSIVE" THEN marked
            ELSE IF node.type = "linkDir" THEN followLink(marked, p, params)
            ELSE readDirectory(marked, p, depth, params, device, old)
        Marked(quality) ==
            Below([t EXCEPT !.nodes[p] = [node EXCEPT !.quality = quality],
                            !.sums = Counted(@, quality, Closed(node))], quality)
    IN  Marked(IF Closed(node) THEN node.quality ELSE Recursion(node, p, depth, params))

scanFile(t, p, depth, params, device) ==
    LET old == t.nodes[p].quality
        read == old = "NONE" \/ (old = "STATS" /\ params.links # "DONT_RESOLVE")
    IN  Filtered(scanNode(t, p, depth, params, IF read THEN disk[p].device ELSE device,
                          IF read THEN Stat(t.nodes[p], p, device, params) ELSE t.nodes[p], old),
                 p, depth, params, old)
-----------------------------------------------------------------------------
RealPath(path) == IF disk[path].kind = "link" THEN disk[path].target ELSE path

\* The quality returned is that of the last result.
Return(done) ==
    tree' = [done EXCEPT !.returned = IF done.results = <<>> THEN "NOT_EXISTENT"
                                      ELSE IF Last(done.results) \notin DOMAIN done.nodes THEN "NONE"
                                      ELSE done.nodes[Last(done.results)].quality]
ScanFiles(params) ==
    /\ Len(calls) < MaxScans /\ params.start \in DOMAIN disk
    /\ disk[params.start].kind = "link" => disk[params.start].error = "none"
    /\ Return(startScan([tree EXCEPT !.sums = Zero, !.results = <<>>], RealPath(params.start), params))
    /\ calls' = Append(calls, params)
    /\ UNCHANGED <<disk, order>>

Next == \E params \in Scans : ScanFiles(params)

Spec == Init /\ [][Next]_scannerVars
-----------------------------------------------------------------------------
(* Properties                                                                *)

InfiniteDepth == 99

TypeOK ==
    /\ DOMAIN tree.nodes \subseteq DOMAIN disk \cup {<<>>}
    /\ \A p \in DOMAIN tree.nodes : p # <<>> => Front(p) \in DOMAIN tree.nodes
    /\ \A p \in DOMAIN tree.nodes :
          tree.nodes[p].type \in Types /\ Level(tree.nodes[p].quality) > 0
    /\ ToSet(tree.reads) \subseteq DOMAIN tree.nodes

Read == ToSet(tree.reads)
Params == calls[Len(calls)]

\* Whether params lets the scanner read what it meets: a directory, or a link to one, found in the
\* directory from, or the target of a link.
Enters(params, p) ==
    LET e == disk[p]
    IN  /\ e.artificial => params.includeAFS
        /\ Last(p) \notin params.pre
        /\ Len(p) - Len(RealPath(params.start)) < params.maxDepth
ToDirectory(p, params) ==
    /\ params.links # "DONT_RESOLVE" /\ disk[p].error = "none"
    /\ disk[disk[p].target].kind = "dir"
Links(params, from) ==
    {p \in DOMAIN disk : /\ p # <<>> /\ Front(p) = from
                         /\ disk[p].kind = "link" /\ ToDirectory(p, params)
                         /\ params.links = "RECURSIVE" /\ Enters(params, p) /\ ~disk[p].artificial
                         /\ disk[disk[p].target].artificial => params.includeAFS}
Readable(params, p) ==
    disk[p].kind = "dir" /\ disk[p].readable /\ (disk[p].artificial => params.includeAFS)
Leads(params, from) ==
    {p \in DOMAIN disk : /\ p # <<>> /\ Front(p) = from /\ Readable(params, p) /\ Enters(params, p)
                         /\ params.cross \/ disk[p].device = disk[from].device}
    \cup {p \in {disk[l].target : l \in Links(params, from)} : Readable(params, p)}

\* Calls that differ in the place they start at only; links, as they lead anywhere, bring the depth
\* and the file system of a directory to depend on the way that is found first.
Uniform ==
    /\ calls # <<>>
    /\ \A i, j \in DOMAIN calls : [calls[i] EXCEPT !.start = <<>>] = [calls[j] EXCEPT !.start = <<>>]
    /\ Params.links = "RECURSIVE" => Params.cross /\ Params.maxDepth = InfiniteDepth
    /\ Len(calls) > 1 => Params.cross /\ Params.maxDepth = InfiniteDepth
Keeps(params) == params.post = {} /\ ~params.removeEmpty

\* No directory is read twice, whatever the links lead to: a scan ends on links in a circle.
ReadOnce == IsInjective(tree.reads)

\* A scan reads all directories that its parameters let it reach, and nothing else; the tree holds
\* their entries but the files that the filter excludes, and the way to them.
FindsAll ==
    LET starts == {RealPath(calls[i].start) : i \in DOMAIN calls}
        followed == UNION {{disk[l].target : l \in Links(Params, p)} : p \in Read}
        entries == {p \in DOMAIN disk : p # <<>> /\ Front(p) \in Read}
        IsFile(p) == disk[p].kind = "file" \/ (disk[p].kind = "link" /\ ~ToDirectory(p, Params))
    IN  Uniform /\ Keeps(Params) =>
          /\ \A p \in starts : Readable(Params, p) /\ Params.maxDepth > 0 => p \in Read
          /\ \A p \in Read : Leads(Params, p) \subseteq Read
          /\ \A i \in DOMAIN tree.reads :
                \/ tree.reads[i] \in starts
                \/ \E j \in 1 .. i - 1 : tree.reads[i] \in Leads(Params, tree.reads[j])
          /\ DOMAIN tree.nodes =
               {p \in UNION {Prefixes(q) : q \in starts \cup followed \cup entries} :
                  IsFile(p) => Last(p) \notin Params.fileFilter}

\* The counters of the start of a first scan hold each entry of the directories read once, and each
\* target of a link once more. FixSums() does not count like this.
TotalsCountOnce ==
    LET counted == {p \in DOMAIN tree.nodes : p # <<>> /\ Front(p) \in Read}
        node(p) == tree.nodes[p]
        Of(quality) == {p \in counted : node(p).quality = quality}
        targets == [l \in tree.followed |-> disk[l].target]
        sums == node(RealPath(Params.start)).sums
    IN  Len(calls) = 1 /\ ~tree.fixed /\ Keeps(Params) /\ RealPath(Params.start) \in Read =>
          /\ \A t \in Types :
                sums[t] = Cardinality({p \in counted : node(p).type = t})
                          + (IF t = "dir" THEN Cardinality(tree.followed) ELSE 0)
          /\ sums.size = MapThenSumSet(LAMBDA p : node(p).size, counted)
                         + MapThenSumSet(LAMBDA l : node(targets[l]).size, tree.followed)
          /\ Params.fileFilter = {} => sums.broken = Cardinality(Of("BROKEN_LINK"))
          /\ Params.links # "RECURSIVE" =>
                /\ sums.access = Cardinality(Of("NO_ACCESS_DIR"))
                /\ sums.maxDepth = Cardinality(Of("MAX_DEPTH_REACHED"))

\* Without links to follow, the counters of each directory hold what the filters leave below it; those
\* of a directory that they emptied stay.
TotalsOfBranches ==
    Len(calls) = 1 /\ Params.links # "RECURSIVE" =>
        \A p \in Read :
            p = RealPath(Params.start) \/ Last(p) \notin Params.post =>
                \A t \in Types :
                    tree.nodes[p].sums[t] =
                        Cardinality({q \in Branch(tree.nodes, p) \ {p} : tree.nodes[q].type = t})

\* The start is the first of the results, if it is new; each other one is the target of a link that
\* was not known before.
ResultsAreNew ==
    calls # <<>> =>
        /\ IsInjective(tree.results)
        /\ Keeps(Params) =>
              /\ ToSet(tree.results) \subseteq
                   {RealPath(Params.start)} \cup {disk[l].target : l \in tree.followed}
              /\ Len(calls) = 1 /\ RealPath(Params.start) \in DOMAIN tree.nodes =>
                   /\ tree.results[1] = RealPath(Params.start)
                   /\ \A l \in tree.followed :
                        disk[l].target \in ToSet(tree.results) \/ tree.nodes[l].quality = "DUPLICATE"

\* Listeners hear of all nodes of the tree, and of the deletion of those they have heard of.
ListenerKnowsTree ==
    calls # <<>> /\ (\A i \in DOMAIN calls : calls[i].post = {}) => tree.known = DOMAIN tree.nodes
=============================================================================
