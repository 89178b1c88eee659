---------------------------- MODULE RunLifecycle ----------------------------
(***************************************************************************)
(* What the client of a workflow app, and whoever reads its logs later, may *)
(* rely on, with no queue and no threads: a run is created, its node        *)
(* executions begin and end while it is running, it finishes once, and the  *)
(* request is answered accordingly.  Once the request is answered nothing   *)
(* is written any more.  Node executions may be given up: nobody reports     *)
(* their end, and a run that ends well leaves them "running".               *)
(*                                                                         *)
(* A stream that a Stop has overtaken - the listener put it in the queue,   *)
(* because of a stop flag or the time limit, while the graph went on - is   *)
(* promised less: its run may finish again and node executions may begin    *)
(* after that.                                                              *)
(***************************************************************************)
EXTENDS Naturals

CONSTANT Nodes  \* node executions

VARIABLES
  blocking,  \* the request's response mode
  stopped,   \* the listener has decided to stop the run
  status,    \* of the run
  nodes,     \* of the node executions
  givenUp,   \* the node executions that were given up
  logs,      \* the app's log entries for the run
  answer     \* how the request ended; "running" while it has not

vars == <<blocking, stopped, status, nodes, givenUp, logs, answer>>

Final     == {"SUCCEEDED", "PARTIAL", "FAILED", "STOPPED"}
Overtaken == stopped /\ ~blocking

Init ==
  /\ blocking \in BOOLEAN /\ stopped = FALSE
  /\ status = "absent" /\ nodes = [n \in Nodes |-> "absent"]
  /\ givenUp = {} /\ logs = 0 /\ answer = "running"

Create ==
  /\ status = "absent" /\ status' = "RUNNING"
  /\ UNCHANGED <<nodes, logs>>

Begin(n) ==
  /\ status = "RUNNING" \/ (Overtaken /\ status \in Final)
  /\ nodes[n] = "absent"
  /\ nodes' = [nodes EXCEPT ![n] = "RUNNING"]
  /\ UNCHANGED <<status, logs>>

End(n) ==
  /\ nodes[n] = "RUNNING" /\ n \notin givenUp
  /\ nodes' = [nodes EXCEPT ![n] = "ended"]
  /\ UNCHANGED <<status, logs>>

\* No node execution is left running.
Settled == [n \in Nodes |-> IF nodes[n] = "RUNNING" THEN "ended" ELSE nodes[n]]

\* The run ends well when all that has begun has ended or was given up, and it
\* leaves the node executions alone; a failure or a stop settles them.
EndsWell ==
  /\ status' \in {"SUCCEEDED", "PARTIAL"}
  /\ \A n \in Nodes : nodes[n] = "RUNNING" => n \in givenUp
  /\ nodes' = nodes

EndsBadly == status' \in {"FAILED", "STOPPED"} /\ nodes' = Settled

Finish ==
  /\ status = "RUNNING" \/ (Overtaken /\ status \in Final)
  /\ EndsWell \/ EndsBadly
  /\ logs' = logs + 1

\* A blocking request is answered when its run finishes; a stream ends after
\* that, or its client leaves it; an exception of the runner ends either.  Only a
\* Stop that came before the run was created makes a handler raise.
Answered ==
  \/ answer' = "running" /\ (blocking => status' \notin Final)
  \/ answer' = "returned" /\ blocking /\ status' \in Final
  \/ answer' = "finished" /\ ~blocking /\ status' \in Final
  \/ answer' = "closed" /\ ~blocking
  \/ answer' = "error"
  \/ answer' = "raised" /\ stopped /\ status' = "absent"

Serve ==
  /\ answer = "running"
  /\ \/ Create \/ Finish \/ (\E n \in Nodes : Begin(n) \/ End(n))
     \/ UNCHANGED <<status, nodes, logs>>
  /\ Answered
  /\ UNCHANGED <<blocking, stopped, givenUp>>

StopRun ==
  /\ answer = "running" /\ stopped' = TRUE
  /\ UNCHANGED <<blocking, status, nodes, givenUp, logs, answer>>

GiveUp(n) ==
  /\ givenUp' = givenUp \cup {n}
  /\ UNCHANGED <<blocking, stopped, status, nodes, logs, answer>>

Next == Serve \/ StopRun \/ \E n \in Nodes : GiveUp(n)

Spec == Init /\ [][Next]_vars
=============================================================================
