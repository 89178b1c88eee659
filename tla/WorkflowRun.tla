---------------------------- MODULE WorkflowRun ----------------------------
(***************************************************************************)
(* One run of a workflow app: the worker thread that executes the graph and *)
(* publishes queue events (WorkflowAppRunner), the queue between it and the *)
(* request (WorkflowAppQueueManager), and the task pipeline that listens to *)
(* the queue, writes the run and its node executions to the database and    *)
(* streams responses (WorkflowAppGenerateTaskPipeline, WorkflowCycleManage). *)
(*                                                                         *)
(* Publishing is not atomic: the event, the None that ends the listening    *)
(* and the check of the stop flag are three steps of the publishing thread, *)
(* and both threads publish.  Handling a message is one step: only the      *)
(* pipeline writes these rows, and nobody else reads its local state.       *)
(***************************************************************************)
EXTENDS Naturals, Sequences, FiniteSets

CONSTANTS
  Nodes,      \* node executions the graph may start
  NoNode,     \* the node of an event that concerns none
  MaxNotices  \* bound on events that only produce a response (checking only)

ASSUME WorkflowRunAssumption == NoNode \notin Nodes /\ MaxNotices \in Nat

NodeEvents     == {"NodeStarted", "NodeSucceeded", "NodeFailed",
                   "NodeInIterationFailed", "NodeException"}
FinishEvents   == {"Succeeded", "PartialSuccess", "Failed", "Stop"}
\* Mutant: a failed node ends the listening.
TerminalEventsAndNode == FinishEvents \cup {"Error", "NodeFailed"}

\* The events after which _publish calls stop_listen().
TerminalEvents == FinishEvents \cup {"Error"}
EventTypes     == NodeEvents \cup TerminalEvents \cup {"Started", "Ping", "Branch"}

Message == [type : NodeEvents, node : Nodes]
             \cup [type : (EventTypes \ NodeEvents) \cup {"None"}, node : {NoNode}]

Event(type)        == [type |-> type, node |-> NoNode]
NodeEvent(type, n) == [type |-> type, node |-> n]
None               == Event("None")

Terminal == {"SUCCEEDED", "PARTIAL", "FAILED", "STOPPED"}  \* WorkflowRunStatus
Status   == {"absent", "RUNNING"} \cup Terminal

VARIABLES
  streaming,  \* the request's response mode
  stopFlag,   \* the generate_task_stopped key exists
  timedOut,   \* APP_MAX_EXECUTION_TIME has elapsed since listen() began
  q,          \* the queue.Queue
  rpc,        \* the runner thread: "run", "putNone", "check", "done"
  graph,      \* the graph: "init", "running", "failed" (a node failed), "ended"
  node,       \* node execution -> how far the graph engine is with it
  ppc,        \* the pipeline: "get", "finally", "putNone", "ended"
  outcome,    \* how the pipeline leaves its loop; "running" while it has not
  run,        \* the status of the WorkflowRun row
  nodeExec,   \* the status of the WorkflowNodeExecution rows
  wip,        \* _wip_workflow_node_executions
  appLogs,    \* the number of WorkflowAppLog rows of the run (a run started from
              \*   the debugger has none: _save_workflow_app_log returns)
  notices,    \* the number of notices published (checking only)
  stopSent    \* history: listen() has published a QueueStopEvent

flagVars     == <<stopFlag, timedOut>>
runnerVars   == <<rpc, graph, node>>
dbVars       == <<run, nodeExec, wip, appLogs>>
vars == <<streaming, flagVars, q, runnerVars, ppc, outcome, dbVars, notices, stopSent>>

Init ==
  /\ streaming \in BOOLEAN
  /\ stopFlag = FALSE /\ timedOut = FALSE
  /\ q = <<>>
  /\ rpc = "run" /\ graph = "init"
  /\ node = [n \in Nodes |-> "idle"]
  /\ ppc = "get" /\ outcome = "running"
  /\ run = "absent" /\ nodeExec = [n \in Nodes |-> "absent"]
  /\ wip = {} /\ appLogs = 0
  /\ notices = 0 /\ stopSent = FALSE

\* Mutant: the queue is a LifoQueue.
PutFirst(event) == q' = IF ppc = "ended" THEN q ELSE <<event>> \o q

\* queue.put.  Once the pipeline has left its loop nobody reads the queue, and
\* what is in it or put into it later is not represented.
Put(event) == q' = IF ppc = "ended" THEN q ELSE Append(q, event)

(***************************************************************************)
(* The runner thread                                                       *)
(***************************************************************************)

\* _publish: put the event, put None if it is terminal, check the stop flag.
RunnerPut(event) ==
  /\ rpc = "run"
  /\ Put(event)
  /\ rpc' = IF event.type \in TerminalEvents THEN "putNone" ELSE "check"
  /\ UNCHANGED <<streaming, flagVars, ppc, outcome, dbVars, stopSent>>

RunnerPutNone ==
  /\ rpc = "putNone"
  /\ Put(None)
  /\ rpc' = "check"
  /\ UNCHANGED <<streaming, flagVars, graph, node, ppc, outcome, dbVars, notices, stopSent>>

\* GenerateTaskStoppedError unwinds the thread; otherwise the graph goes on.
RunnerCheck ==
  /\ rpc = "check"
  /\ rpc' = IF stopFlag \/ graph = "ended" THEN "done" ELSE "run"
  /\ UNCHANGED <<streaming, flagVars, q, graph, node, ppc, outcome, dbVars, notices, stopSent>>

PublishStarted ==
  /\ graph = "init"
  /\ graph' = "running"
  /\ RunnerPut(Event("Started"))
  /\ UNCHANGED <<node, notices>>

\* A node of the graph starts.
PublishNodeStarted(n) ==
  /\ graph = "running" /\ node[n] = "idle"
  /\ node' = [node EXCEPT ![n] = "running"]
  /\ RunnerPut(NodeEvent("NodeStarted", n))
  /\ UNCHANGED <<graph, notices>>

\* It ends; after a failure that nothing handles the engine fails the run.
PublishNodeEnd(n, type) ==
  /\ graph = "running" /\ node[n] = "running"
  /\ type \in NodeEvents \ {"NodeStarted"}
  /\ node' = [node EXCEPT ![n] = IF type = "NodeException" THEN "exception" ELSE "done"]
  /\ graph' = IF type = "NodeFailed" THEN "failed" ELSE graph
  /\ RunnerPut(NodeEvent(type, n))
  /\ UNCHANGED notices

\* A node execution inside of an iteration is given up: an excused failure, or in
\* parallel mode a None that overtakes, ends the iteration while its other
\* branches are at work, and nothing more of theirs is published.
LoseNode(n) ==
  /\ rpc = "run" /\ graph = "running" /\ node[n] = "running"
  /\ node' = [node EXCEPT ![n] = "lost"]
  /\ UNCHANGED <<streaming, flagVars, q, rpc, graph, ppc, outcome, dbVars, notices, stopSent>>

\* Parallel branches and iterations announce their progress.
PublishBranch ==
  /\ graph = "running" /\ notices < MaxNotices
  /\ notices' = notices + 1
  /\ RunnerPut(Event("Branch"))
  /\ UNCHANGED <<graph, node>>

\* Mutant: the graph succeeds while nodes of a parallel branch are under way.
GraphEndEarly(type) ==
  \/ type = "Failed" /\ graph \in {"running", "failed"}
  \/ /\ graph = "running"
     /\ type = IF \E n \in Nodes : node[n] = "exception"
               THEN "PartialSuccess" ELSE "Succeeded"

\* The graph ends: with success when no node that it waits for is under way, with
\* failure after a failed node or when the engine gives up (steps, time, an
\* exception).
GraphEnd(type) ==
  \/ /\ type = "Failed" /\ graph \in {"running", "failed"}
  \/ /\ graph = "running"
     /\ \A n \in Nodes : node[n] # "running"
     /\ type = IF \E n \in Nodes : node[n] = "exception"
               THEN "PartialSuccess" ELSE "Succeeded"

PublishGraphEnd(type) ==
  /\ GraphEnd(type)
  /\ graph' = "ended"
  /\ RunnerPut(Event(type))
  /\ UNCHANGED <<node, notices>>

\* _generate_worker: an exception of the runner becomes a QueueErrorEvent.
PublishError ==
  /\ graph # "ended"
  /\ graph' = "ended"
  /\ RunnerPut(Event("Error"))
  /\ UNCHANGED <<node, notices>>

RunnerStep ==
  \/ PublishStarted \/ PublishBranch \/ PublishError
  \/ \E n \in Nodes : PublishNodeStarted(n) \/ LoseNode(n)
  \/ \E n \in Nodes, type \in NodeEvents : PublishNodeEnd(n, type)
  \/ \E type \in FinishEvents : PublishGraphEnd(type)
  \/ RunnerPutNone \/ RunnerCheck

(***************************************************************************)
(* The pipeline: listen() and _process_stream_response                     *)
(***************************************************************************)

\* self._q.get(): the message at the head is handled, then listen() resumes in
\* its "finally" clause.
Take(types) ==
  /\ ppc = "get" /\ q # <<>> /\ Head(q).type \in types
  /\ q' = Tail(q)
  /\ ppc' = "finally"
  /\ UNCHANGED <<streaming, flagVars, runnerVars, notices, stopSent>>

\* Mutant: the response that finishes the run does not end a blocking request.
YieldOn(finish) == outcome' \in IF streaming THEN {"running", "closed"} ELSE {"running"}

\* A response is yielded.  A blocking request goes on until the response that
\* finishes the run; the client of a streaming one may be gone.
Yield(finish) ==
  outcome' \in IF streaming THEN {"running", "closed"}
               ELSE IF finish THEN {"returned"} ELSE {"running"}

\* "Workflow run not initialized." / "Workflow node execution not found"
Raise == outcome' = "raised" /\ UNCHANGED dbVars

HandlePing ==
  /\ Take({"Ping"})
  /\ Yield(FALSE)
  /\ UNCHANGED dbVars

HandleBranch ==
  /\ Take({"Branch"})
  /\ IF run = "absent" THEN Raise ELSE Yield(FALSE) /\ UNCHANGED dbVars

HandleError ==
  /\ Take({"Error"})
  /\ outcome' = "error"
  /\ UNCHANGED dbVars

HandleStarted ==
  /\ Take({"Started"})
  /\ run' = "RUNNING"
  /\ Yield(FALSE)
  /\ UNCHANGED <<nodeExec, wip, appLogs>>

HandleNodeStarted ==
  LET n == Head(q).node IN
  /\ Take({"NodeStarted"})
  /\ IF run = "absent" THEN Raise
     ELSE /\ nodeExec' = [nodeExec EXCEPT ![n] = "RUNNING"]
          /\ wip' = wip \cup {n}
          /\ Yield(FALSE)
          /\ UNCHANGED <<run, appLogs>>

\* Mutant: the event's name is stored as the status.
EndStatusRaw(type) == type

EndStatus(type) == CASE type = "NodeSucceeded" -> "SUCCEEDED"
                     [] type = "NodeException" -> "EXCEPTION"
                     [] OTHER -> "FAILED"

HandleNodeEnd ==
  LET n == Head(q).node IN
  /\ Take(NodeEvents \ {"NodeStarted"})
  /\ IF n \notin wip THEN Raise
     ELSE /\ nodeExec' = [nodeExec EXCEPT ![n] = EndStatus(Head(q).type)]
          /\ wip' = wip \ {n}
          /\ Yield(FALSE)
          /\ UNCHANGED <<run, appLogs>>

\* _handle_workflow_run_success and _handle_workflow_run_partial_success
HandleSuccess ==
  /\ Take({"Succeeded", "PartialSuccess"})
  /\ IF run = "absent" THEN Raise
     ELSE /\ run' = IF Head(q).type = "Succeeded" THEN "SUCCEEDED" ELSE "PARTIAL"
          /\ appLogs' = appLogs + 1
          /\ Yield(TRUE)
          /\ UNCHANGED <<nodeExec, wip>>

\* Mutant: the node executions are left as they are.
FailRunningNot == nodeExec

\* The node executions of the run that are still running fail.
FailRunning ==
  [n \in Nodes |-> IF nodeExec[n] = "RUNNING" THEN "FAILED" ELSE nodeExec[n]]

\* _handle_workflow_run_failed: the node executions still running fail too;
\* they stay in the pipeline's map.
HandleFailed ==
  /\ Take({"Failed", "Stop"})
  /\ IF run = "absent" THEN Raise
     ELSE /\ run' = IF Head(q).type = "Failed" THEN "FAILED" ELSE "STOPPED"
          /\ nodeExec' = FailRunning
          /\ appLogs' = appLogs + 1
          /\ Yield(TRUE)
          /\ UNCHANGED wip

\* None: the listening is over.  A blocking request, which has then had no
\* final response, raises "Queue listening stopped unexpectedly."
HandleNone ==
  /\ Take({"None"})
  /\ outcome' = IF streaming THEN "finished" ELSE "unexpected"
  /\ UNCHANGED dbVars

\* queue.Empty
PollEmpty ==
  /\ ppc = "get" /\ q = <<>>
  /\ ppc' = "finally"
  /\ UNCHANGED <<streaming, flagVars, q, runnerVars, outcome, dbVars, notices, stopSent>>

\* Every ten seconds the "finally" clause ends with a ping.
PutAndPing(queue) ==
  \/ q' = queue /\ UNCHANGED notices
  \/ /\ notices < MaxNotices
     /\ notices' = notices + 1
     /\ q' = Append(queue, Event("Ping"))

\* Mutant: the time limit is not looked at.
MustStopFlagOnly == stopFlag

MustStop == timedOut \/ stopFlag

\* The "finally" clause: publish Stop when stopped or timed out.
Finally ==
  /\ ppc = "finally" /\ outcome = "running"
  /\ IF MustStop
     THEN /\ q' = Append(q, Event("Stop"))
          /\ stopSent' = TRUE
          /\ ppc' = "putNone"
          /\ UNCHANGED notices
     ELSE /\ PutAndPing(q)
          /\ ppc' = "get"
          /\ UNCHANGED stopSent
  /\ UNCHANGED <<streaming, flagVars, runnerVars, outcome, dbVars>>

ListenerPutNone ==
  /\ ppc = "putNone"
  /\ PutAndPing(Append(q, None))
  /\ ppc' = "get"
  /\ UNCHANGED <<streaming, flagVars, runnerVars, outcome, dbVars, stopSent>>

\* The loop is left; the generator, and the queue with what the "finally"
\* clause still publishes, are garbage.
Leave ==
  /\ ppc = "finally" /\ outcome # "running"
  /\ q' = <<>>
  /\ ppc' = "ended"
  /\ UNCHANGED <<streaming, flagVars, runnerVars, outcome, dbVars, notices, stopSent>>

PipelineStep ==
  \/ HandlePing \/ HandleBranch \/ HandleError \/ HandleStarted
  \/ HandleNodeStarted \/ HandleNodeEnd \/ HandleSuccess \/ HandleFailed
  \/ HandleNone \/ PollEmpty \/ Finally \/ ListenerPutNone \/ Leave

(***************************************************************************)
(* Users and time                                                          *)
(***************************************************************************)

\* set_stop_flag by the user the task belongs to (the key that says so, set for
\* 1800 s, outlives the listening); by anyone else it changes nothing.
UserStop ==
  /\ ~stopFlag
  /\ stopFlag' = TRUE
  /\ UNCHANGED <<streaming, timedOut, q, runnerVars, ppc, outcome, dbVars, notices, stopSent>>

\* The stop flag expires after 600 s.
StopFlagExpires ==
  /\ stopFlag
  /\ stopFlag' = FALSE
  /\ UNCHANGED <<streaming, timedOut, q, runnerVars, ppc, outcome, dbVars, notices, stopSent>>

TimeOut ==
  /\ ~timedOut
  /\ timedOut' = TRUE
  /\ UNCHANGED <<streaming, stopFlag, q, runnerVars, ppc, outcome, dbVars, notices, stopSent>>

Environment == UserStop \/ StopFlagExpires \/ TimeOut

Next == RunnerStep \/ PipelineStep \/ Environment

Spec == Init /\ [][Next]_vars

\* The request thread runs and time passes.  Nothing is assumed of the runner:
\* a node may take forever.
Fairness == WF_vars(PipelineStep) /\ WF_vars(TimeOut)

FairSpec == Spec /\ Fairness

(***************************************************************************)
(* Properties                                                              *)
(***************************************************************************)

TypeOK ==
  /\ streaming \in BOOLEAN
  /\ stopFlag \in BOOLEAN /\ timedOut \in BOOLEAN
  /\ q \in Seq(Message)
  /\ rpc \in {"run", "putNone", "check", "done"}
  /\ graph \in {"init", "running", "failed", "ended"}
  /\ node \in [Nodes -> {"idle", "running", "done", "exception", "lost"}]
  /\ ppc \in {"get", "finally", "putNone", "ended"}
  /\ outcome \in {"running", "finished", "returned", "unexpected", "error",
                  "raised", "closed"}
  /\ run \in Status
  /\ nodeExec \in [Nodes -> {"absent", "RUNNING", "SUCCEEDED", "FAILED", "EXCEPTION"}]
  /\ wip \in SUBSET Nodes
  /\ appLogs \in Nat /\ notices \in Nat
  /\ stopSent \in BOOLEAN

\* No interleaving of the two publishers lets a None overtake the event it
\* ends: a stream that ends because the queue said so leaves a run whose row has
\* a final status, and so does a blocking request that is answered, which never
\* ends with "Queue listening stopped unexpectedly."
EndedRunIsTerminal ==
  /\ outcome \in {"finished", "returned"} => run \in Terminal
  /\ outcome # "unexpected"

\* As long as listen() itself has not published a Stop, and always for a
\* blocking request, a final status is final: no later message overwrites it.
TerminalIsFinal ==
  [][(run \in Terminal /\ (~streaming \/ ~stopSent)) => run' = run]_vars

\* What makes the two properties inductive.  In the queue a None is always
\* behind a terminal event, or the run is final already, also for the None that
\* a thread is about to put; Started is published once; and as long as listen()
\* has not published a Stop, one finishing event is all there will ever be.
Announced ==
  \A i \in 1 .. Len(q) : q[i].type = "None" =>
    run \in Terminal \/ \E k \in 1 .. (i - 1) : q[k].type \in TerminalEvents

Announces ==
  rpc = "putNone" \/ ppc = "putNone" =>
    run \in Terminal \/ \E k \in 1 .. Len(q) : q[k].type \in TerminalEvents

StartedOnce ==
  /\ graph = "init" => run = "absent"
  /\ \A i \in 1 .. Len(q) : q[i].type = "Started" => run = "absent" /\ graph # "init"
  /\ \A i, k \in 1 .. Len(q) :
       q[i].type = "Started" /\ q[k].type = "Started" => i = k

FinishedOnce ==
  /\ graph # "ended" => run \notin Terminal
  /\ \A i \in 1 .. Len(q) :
       q[i].type \in FinishEvents => run \notin Terminal /\ graph = "ended"
  /\ \A i, k \in 1 .. Len(q) :
       q[i].type \in FinishEvents /\ q[k].type \in FinishEvents => i = k

PipelineInv ==
  /\ ppc \in {"get", "putNone"} => outcome = "running"
  /\ ppc = "ended" => outcome # "running"
  /\ outcome = "running" => Announced /\ Announces
  /\ StartedOnce
  /\ outcome = "running" /\ ~stopSent => FinishedOnce
  /\ outcome = "running" /\ ~streaming => run \notin Terminal

\* A run that ended well closes no node execution (the handlers of success leave
\* them alone), so that one given up inside of an iteration stays "running".
LeftRunning(n) == node[n] = "lost" /\ run \in {"SUCCEEDED", "PARTIAL"}

\* Unless listen() published a Stop in a stream, a run that has a final status
\* when the pipeline ends was logged exactly once, and no node execution is left
\* "running", whatever was under way when the graph failed, but those given up
\* inside of an iteration of a run that ended well.
EndedRunIsSettled ==
  outcome \in {"finished", "returned"} /\ (~streaming \/ ~stopSent) =>
    /\ \A n \in Nodes : nodeExec[n] = "RUNNING" => LeftRunning(n)
    /\ appLogs = 1

\* The handlers' own checks ("Workflow run not initialized.", "Workflow node
\* execution not found") fail only when a Stop arrives before the run has been
\* created: no interleaving delivers an event before the one it depends on.
RaisesOnlyBeforeStart ==
  outcome = "raised" => run = "absent" /\ stopSent

\* What makes these two properties, and the refinement below, inductive.  In the
\* queue an event that needs the run is behind Started, and a Stop is listen()'s.
NeedRun == NodeEvents \cup {"Branch", "Succeeded", "PartialSuccess", "Failed"}

CreatedFirst ==
  /\ \A i \in 1 .. Len(q) : q[i].type \in NeedRun =>
       run # "absent" \/ \E k \in 1 .. (i - 1) : q[k].type = "Started"
  /\ graph \in {"running", "failed"} =>
       run # "absent" \/ \E k \in 1 .. Len(q) : q[k].type = "Started"
  /\ \A i \in 1 .. Len(q) : q[i].type = "Stop" => stopSent

Starts(i, n) == q[i].type = "NodeStarted" /\ q[i].node = n
Ends(i, n)   == q[i].type \in NodeEvents \ {"NodeStarted"} /\ q[i].node = n
Begun(n)     == n \in wip \/ \E k \in 1 .. Len(q) : Starts(k, n)

\* The events of a node execution: one start and one end, in this order.
NodeInOrder(n) ==
  /\ \A i \in 1 .. Len(q) : Starts(i, n) =>
       nodeExec[n] = "absent" /\ n \notin wip /\ node[n] # "idle"
  /\ \A i \in 1 .. Len(q) : Ends(i, n) =>
       /\ node[n] \in {"done", "exception"}
       /\ n \in wip \/ \E k \in 1 .. (i - 1) : Starts(k, n)
  /\ \A i, k \in 1 .. Len(q) :
       (Starts(i, n) /\ Starts(k, n)) \/ (Ends(i, n) /\ Ends(k, n)) => i = k
  /\ node[n] = "idle" => nodeExec[n] = "absent" /\ n \notin wip
  /\ node[n] = "running" => Begun(n)
  /\ nodeExec[n] = "RUNNING" => n \in wip
  /\ n \in wip => nodeExec[n] # "absent"

\* The graph's success is behind the end of every node that has begun and was not
\* given up.
EndedBeforeSuccess(n) ==
  /\ node[n] \in {"done", "exception"} /\ Begun(n) => \E k \in 1 .. Len(q) : Ends(k, n)
  /\ \A i \in 1 .. Len(q) : q[i].type \in {"Succeeded", "PartialSuccess"} =>
       /\ graph = "ended"
       /\ Begun(n) => node[n] = "lost" \/ \E k \in 1 .. (i - 1) : Ends(k, n)

\* Without a Stop no node event is behind the event that finishes the run.
NothingAfterFinish ==
  /\ \A i, k \in 1 .. Len(q) :
       q[i].type \in FinishEvents /\ q[k].type \in NodeEvents => k < i
  /\ run \in Terminal => \A k \in 1 .. Len(q) : q[k].type \notin NodeEvents

QueueOrder ==
  /\ CreatedFirst
  /\ \A n \in Nodes : NodeInOrder(n) /\ EndedBeforeSuccess(n)
  /\ ~stopSent => NothingAfterFinish

Logged ==
  ~streaming \/ ~stopSent =>
    /\ appLogs = IF run \in Terminal THEN 1 ELSE 0
    /\ run \in Terminal => \A n \in Nodes : nodeExec[n] = "RUNNING" => LeftRunning(n)

OrderInv == (outcome = "running" => QueueOrder) /\ Logged /\ RaisesOnlyBeforeStart

\* Seen from outside, a node execution has begun and ended or not.
Shown(n) == IF nodeExec[n] \in {"absent", "RUNNING"} THEN nodeExec[n] ELSE "ended"

Lifecycle == INSTANCE RunLifecycle WITH
  blocking <- ~streaming, stopped <- stopSent, status <- run,
  nodes <- [n \in Nodes |-> Shown(n)], givenUp <- {n \in Nodes : node[n] = "lost"},
  logs <- appLogs, answer <- outcome

\* Whatever the two threads put in the queue and in whatever order, the request
\* and the database show nothing but the lifecycle of one run.
ImplementsLifecycle == Lifecycle!Spec

\* The request ends, even when the runner never publishes anything again:
\* APP_MAX_EXECUTION_TIME is enforced by the listener itself.
PipelineEnds == <>(ppc = "ended")

\* base_app_queue_manager.py:65-66: "publish two messages to make sure the
\* client can receive the stop signal and stop listening after the stop signal
\* processed".  After the Stop was handled nothing but the None is.
StopEndsListening ==
  [][(run = "STOPPED" /\ ppc = "get" /\ ppc' # "get" /\ q # <<>>) => Head(q) = None]_vars
=============================================================================
