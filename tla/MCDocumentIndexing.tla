------------------------- MODULE MCDocumentIndexing -------------------------
(***************************************************************************)
(* DocumentIndexing for TLC: the requests in flight are interchangeable.    *)
(***************************************************************************)
EXTENDS DocumentIndexing, TLC

CONSTANTS c1, c2

TwoCallers == {c1, c2}
OneCaller  == {c1}
AllOps     == {"pause", "recover", "retry", "update", "duplicate", "delete"}

\* The chunk threads of one task take turns, the first chunk first, after the
\* keyword thread of a task that has nothing to do for it.
TakeTurns ==
  \A t \in Tasks :
    /\ Cardinality(task[t].checked \cup task[t].loaded) <= 1
    /\ \A u \in Tasks : <<u, 1>> \in task[t].todo => <<u, 2>> \in task[t].todo
    /\ task[t].kw = "run" /\ technique = "high_quality" => task[t].todo = task[t].docs

\* Three requests while all goes well, two once something has gone wrong; no
\* more than one thing goes wrong.  Once two tasks have overlapped, there is no
\* third, and the threads within each take turns.
Bounded ==
  mishaps # {} =>
    /\ requests <= 2 /\ Cardinality(mishaps) = 1
    /\ "overlap" \in mishaps => task[3] = NoTask /\ TakeTurns

DeleteOnly == {"delete"}

\* Only a splitting resumed over nodes in the index goes wrong.
ReplaceOps  == {"pause", "recover", "duplicate"}
OnlyOrphans == mishaps \subseteq {"orphans"}

Symmetry == Permutations(Callers)
=============================================================================
