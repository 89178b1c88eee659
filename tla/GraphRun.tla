----------------------------- MODULE GraphRun -----------------------------
(***************************************************************************)
(* What the runner of a workflow, and the nodes themselves, may rely on     *)
(* when a graph is executed, with no frames, no pool and no queues: a node  *)
(* is executed once at most, when nothing upstream of it is being executed  *)
(* and nothing downstream of it has been; a node in no parallel, which is   *)
(* behind the joins of all forks that lead to it, is not executed once a    *)
(* node has failed; the run ends once, and ends with success only when no   *)
(* node failed and none is being executed, or will be.                      *)
(*                                                                         *)
(* A run that has failed, or that its consumer has abandoned, may have      *)
(* parallel branches under way: their nodes are executed in order still.    *)
(***************************************************************************)

CONSTANTS
  Nodes,
  Upstream,  \* the pairs of nodes <<m, n>> with a path from m to n
  Trunk      \* the nodes in no parallel

VARIABLES
  node,     \* node -> "idle", "running", "ended" or "failed"
  handled,  \* a failed node was continued on error
  result    \* of the run; "running" while it has not ended

vars == <<node, handled, result>>

Success == {"succeeded", "partial"}

Init == node = [n \in Nodes |-> "idle"] /\ handled = FALSE /\ result = "running"

NoneFailed == \A m \in Nodes : node[m] # "failed"

Start(n) ==
  /\ node[n] = "idle" /\ result \notin Success
  /\ n \in Trunk => result = "running" /\ NoneFailed
  /\ \A m \in Nodes :
       /\ <<m, n>> \in Upstream => node[m] # "running"
       /\ <<n, m>> \in Upstream => node[m] = "idle"
  /\ node' = [node EXCEPT ![n] = "running"]
  /\ UNCHANGED <<handled, result>>

\* The node ends.  With the failure of a node the run may fail at once, and a run
\* that is abandoned may leave a node that it was executing.
End(n, how) ==
  /\ node[n] = "running"
  /\ node' = [node EXCEPT ![n] = how]
  /\ \/ UNCHANGED result
     \/ result = "running" /\ result' = IF how = "failed" THEN "failed" ELSE "abandoned"
  /\ handled' = handled \/ (how = "ended" /\ handled' = TRUE)

Conclude ==
  /\ result = "running"
  /\ \/ result' \in {"failed", "abandoned"}
     \/ /\ \A n \in Nodes : node[n] \in {"idle", "ended"}
        /\ result' = IF handled THEN "partial" ELSE "succeeded"
  /\ UNCHANGED <<node, handled>>

Next ==
  \/ \E n \in Nodes : Start(n) \/ \E how \in {"ended", "failed"} : End(n, how)
  \/ Conclude

Spec == Init /\ [][Next]_vars
=============================================================================
