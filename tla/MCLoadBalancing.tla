-------------------------- MODULE MCLoadBalancing --------------------------
(***************************************************************************)
(* LoadBalancing for TLC.  ResetAt is small, so that the counter starts     *)
(* again within a fetch.                                                    *)
(***************************************************************************)
EXTENDS LoadBalancing, TLC

CONSTANTS c1, c2

TwoCallers == {c1, c2}
=============================================================================
