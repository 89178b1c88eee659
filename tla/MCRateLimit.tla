---------------------------- MODULE MCRateLimit ----------------------------
(* Small instances of RateLimit for TLC. *)
EXTENDS RateLimit, TLC

\* Nothing tells requests apart, nor worker processes.
Symmetry == Permutations(Requests) \cup Permutations(Workers)

\* The limit is updated before the clock is at its end.
UpdatedEarly ==
  now = MaxTime => \A u \in Updaters : pc[u] \in {"idle", "done", "dead"}
============================================================================
