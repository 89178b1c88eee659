--------------------------- MODULE MCGraphEngine ---------------------------
(* Small graphs for TLC. *)
EXTENDS GraphEngine, TLC

CONSTANTS s, a, b, c, d, e, j, P, Q, R

(***************************************************************************)
(* s forks into a and b (parallel P), which join in j.  Branch a chooses   *)
(* between a nested fork into c and d (parallel Q), which join in e, and   *)
(* going straight on to e.                                                 *)
(*                      / c \                                              *)
(*                  / a - d - e \                                          *)
(*                 s             j                                         *)
(*                  \ b --------/                                          *)
(***************************************************************************)
NestedNodes == {s, a, b, c, d, e, j}
NestedAlternatives ==
  s :> {{a, b}} @@ a :> {{c, d}, {e}} @@ b :> {{j}} @@
  c :> {{e}} @@ d :> {{e}} @@ e :> {{j}} @@ j :> {{}}
NestedParallelOf ==
  s :> None @@ a :> P @@ b :> P @@ c :> Q @@ d :> Q @@ e :> P @@ j :> None
NestedEndTo == P :> j @@ Q :> e

(***************************************************************************)
(* Every branch forks again, and nothing joins: s into a and b (P), a into *)
(* c and d (Q), b into e and j (R).                                        *)
(***************************************************************************)
TwoNestsAlternatives ==
  s :> {{a, b}} @@ a :> {{c, d}} @@ b :> {{e, j}} @@
  c :> {{}} @@ d :> {{}} @@ e :> {{}} @@ j :> {{}}
TwoNestsParallelOf ==
  s :> None @@ a :> P @@ b :> P @@ c :> Q @@ d :> Q @@ e :> R @@ j :> R
TwoNestsEndTo == P :> None @@ Q :> None @@ R :> None

\* Both graphs are of the kind that the theorems of GraphEngine_proofs are about:
\* the frame each node belongs to, and when the frame meets it.
NestedOwner == s :> s @@ a :> a @@ b :> b @@ c :> c @@ d :> d @@ e :> a @@ j :> s
TwoNestsOwner == [n \in Nodes |-> n]
NestedAbove == a :> {s} @@ b :> {s} @@ c :> {a, s} @@ d :> {a, s} @@ e :> {s} @@ s :> {} @@ j :> {}
TwoNestsAbove == a :> {s} @@ b :> {s} @@ c :> {a, s} @@ d :> {a, s} @@ e :> {b, s} @@ s :> {} @@ j :> {b, s}
InstanceRank == [n \in Nodes |-> IF n \in {e, j} THEN 1 ELSE 0]

ASSUME InstanceSections ==
  IF ParallelOf = NestedParallelOf
  THEN Sections(NestedOwner, InstanceRank) /\ Nested(NestedOwner, InstanceRank, NestedAbove)
  ELSE Sections(TwoNestsOwner, InstanceRank) /\ Nested(TwoNestsOwner, InstanceRank, TwoNestsAbove)

\* What has gone wrong: nodes that failed, a failure continued on error, places
\* refused, the time limit, a step not counted, a consumer that went away.
Count(condition) == IF condition THEN 1 ELSE 0

Mishaps ==
  Cardinality(failed) + Count(exceptions) + Count(refused > 0) + Count(timedOut)
    + Count(lost) + Count(result = "abandoned")

\* Any two of them, in any order.
TwoMishaps == Mishaps <= 2
============================================================================
