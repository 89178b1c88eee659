--------------------------- MODULE MCSegmentIndex ---------------------------
(***************************************************************************)
(* SegmentIndex for TLC: requests and segments are interchangeable.         *)
(***************************************************************************)
EXTENDS SegmentIndex, TLC

CONSTANTS c1, c2, s1, s2

TwoCallers  == {c1, c2}
TwoSegments == {s1, s2}

\* No more than three requests once a race has happened.
Bounded == mishaps # {} => requests <= 3

Symmetry == Permutations(Callers) \cup Permutations(Segments)
=============================================================================
