----------------------------- MODULE ScopeInfo -----------------------------
(* The stack of source positions a Lox keeps while log statements are nested: a frame points to    *)
(* the parsed name of its file in a cache, which all frames share and which may let it go.         *)
EXTENDS LRUCacheTable, SequencesExt

CONSTANTS MaxDepth      \* the stack asserts to be less than 8 deep

VARIABLES callStack     \* the innermost frame last: its file, where it looks for the parsed name,
                        \* the files asked for since then, and whether the cache was cleared since

scopeInfoVars == <<lruVars, callStack>>

FramesInit == Init /\ callStack = <<>>

\* The frames after a file was asked for.
Aged(k) == [i \in DOMAIN callStack |-> [callStack[i] EXCEPT !.since = @ \cup {k}]]

\* Set(): a log statement begins, Lox::Acquire(). The file is looked up or entered.
Set(k) ==
    /\ Len(callStack) < MaxDepth
    /\ Try(k)
    /\ callStack' = Append(Aged(k),
                           [file |-> k, parsed |-> next'[Hook(ListOf(k))],
                            since |-> {}, cleared |-> FALSE])

PopNestedScope ==
    /\ callStack # <<>>
    /\ callStack' = Front(callStack)
    /\ UNCHANGED lruVars

\* SetSourcePathTrimRule(), also from trimPath(), and SetFileNameCacheCapacity(): the cache is
\* emptied while frames are in use, at least that of the caller.
Invalidated == [i \in DOMAIN callStack |-> [callStack[i] EXCEPT !.cleared = TRUE]]

SetSourcePathTrimRule ==
    /\ callStack # <<>>
    /\ Clear
    /\ callStack' = Invalidated

SetFileNameCacheCapacity(lists, entries) ==
    /\ callStack # <<>>
    /\ Reserve(lists, entries)
    /\ callStack' = Invalidated

FramesNext ==
    \/ \E k \in Keys : Set(k)
    \/ PopNestedScope
    \/ SetSourcePathTrimRule
    \/ \E s \in Shapes : SetFileNameCacheCapacity(s[1], s[2])

FramesSpec == FramesInit /\ [][FramesNext]_scopeInfoVars

-----------------------------------------------------------------------------
\* A frame shows its own file after the nested statements are done, as long as these, from
\* whatever number of frames, named fewer other files of its list than the list has entries,
\* and nothing emptied the cache. Beyond that it may show another one (Set(), Try()).
FrameShowsItsFile ==
    \A i \in DOMAIN callStack :
        LET f == callStack[i]
            others == {k \in f.since \ {f.file} : ListOf(k) = ListOf(f.file)}
        IN  ~f.cleared /\ Cardinality(others) < capacityEntries => data[f.parsed] = f.file
=============================================================================
