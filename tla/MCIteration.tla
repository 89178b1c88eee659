---------------------------- MODULE MCIteration ----------------------------
(* Iteration for TLC. *)
EXTENDS Iteration

\* At most two iterations fail without excuse or are lost.
TwoMishaps == Cardinality(broken \cup {i \in Items : iter[i] = "lost"}) <= 2
=============================================================================
