---------------------------- MODULE GraphEngine ----------------------------
(***************************************************************************)
(* The execution of one workflow graph by GraphEngine                      *)
(* (core/workflow/graph_engine/graph_engine.py): the frame that runs the   *)
(* graph from its root, and one frame for every parallel branch, run by a   *)
(* thread pool of bounded size that nested parallels share.  A frame is one *)
(* activation of _run; it is named after the node it starts with.  A frame  *)
(* that forks collects the events of its branches from a queue of its own;  *)
(* while it does, it keeps its worker thread.                              *)
(*                                                                         *)
(* Of the events only those that the engine reacts to are in the queues: a  *)
(* failed node, a branch's end, and the None that ends the collecting.      *)
(***************************************************************************)
EXTENDS Integers, Sequences, FiniteSets

CONSTANTS
  Nodes, Root,
  None,         \* no parallel, no node
  Alternatives, \* node -> the sets of successors its conditions choose from;
                \*   {} means that the frame ends there
  ParallelOf,   \* node_parallel_mapping
  EndTo,        \* parallel -> end_to_node_id
  Workers,      \* max_workers of the thread pool
  MaxSubmit,    \* MAX_SUBMIT_COUNT
  MaxSteps      \* WORKFLOW_MAX_EXECUTION_STEPS

Frames == Nodes

Parallels == {ParallelOf[n] : n \in Nodes} \ {None}

ASSUME GraphEngineAssumption ==
  /\ IsFiniteSet(Nodes) /\ Root \in Nodes /\ None \notin Nodes
  /\ Alternatives \in [Nodes -> SUBSET (SUBSET Nodes)]
  /\ EndTo \in [Parallels -> Nodes \cup {None}]
  /\ Workers \in Nat \ {0} /\ MaxSubmit \in Nat /\ MaxSteps \in Nat

VARIABLES
  pc,          \* frame -> where it is
  cur,         \* frame -> the node it executes (next_node_id)
  edges,       \* frame -> branches of its fork not yet submitted
  futures,     \* frame -> branches it submitted
  succeeded,   \* frame -> succeeded_count
  inbox,       \* frame -> the queue its branches put events in
  parent,      \* frame -> the frame that submitted it
  work,        \* the pool's work queue
  submitCount, \* GraphEngineThreadPool.submit_count
  steps,       \* node_run_steps
  seen,        \* frame -> the value its "node_run_steps += 1" has read
  exceptions,  \* handle_exceptions is not empty
  timedOut,    \* WORKFLOW_MAX_EXECUTION_TIME has elapsed
  result,      \* what run() yielded last: "running" until it ends; "abandoned"
               \*   when its consumer stopped iterating
  refused,     \* history: number of submissions that were refused
  failed,      \* history: nodes that failed
  starts,      \* history: node -> how often it was started
  lost         \* history: a step was counted while another one was, and is lost

frameVars == <<cur, edges, futures, succeeded, parent>>
stepVars  == <<steps, seen>>
vars == <<pc, frameVars, inbox, work, submitCount, stepVars, exceptions,
          timedOut, result, refused, failed, starts, lost>>

Init ==
  /\ pc = [f \in Frames |-> IF f = Root THEN "top" ELSE "absent"]
  /\ cur = [f \in Frames |-> f]
  /\ edges = [f \in Frames |-> {}]
  /\ futures = [f \in Frames |-> {}]
  /\ succeeded = [f \in Frames |-> 0]
  /\ inbox = [f \in Frames |-> <<>>]
  /\ parent = [f \in Frames |-> None]
  /\ work = <<>> /\ submitCount = 0
  /\ steps = 0 /\ seen = [f \in Frames |-> 0] /\ exceptions = FALSE /\ timedOut = FALSE
  /\ result = "running"
  /\ refused = 0 /\ failed = {} /\ starts = [n \in Nodes |-> 0] /\ lost = FALSE

Goto(f, label) == pc' = [pc EXCEPT ![f] = label]

\* A frame that has a worker thread of the pool.
Waiting == {"absent", "queued", "done"}
Running == {f \in Frames \ {Root} : pc[f] \notin Waiting}

\* Some thread still reads the queue of frame f.
Collecting(f) == pc[f] \in {"submit", "collect"}

\* Mutant: a branch tells nobody that a node of it failed.
EmitUnlessFailure(f, event) ==
  IF f = Root
  THEN result' = "failed" /\ UNCHANGED inbox
  ELSE /\ inbox' = IF Collecting(parent[f]) /\ event # "NodeFailed"
                   THEN [inbox EXCEPT ![parent[f]] = Append(@, event)] ELSE inbox
       /\ UNCHANGED result

\* An event of frame f for whoever consumes its generator: the queue of the
\* frame that forked it, or run(), which ends at the first failed node.
Emit(f, event) ==
  IF f = Root
  THEN result' = "failed" /\ UNCHANGED inbox
  ELSE /\ inbox' = IF Collecting(parent[f])
                   THEN [inbox EXCEPT ![parent[f]] = Append(@, event)] ELSE inbox
       /\ UNCHANGED result

(***************************************************************************)
(* _run                                                                    *)
(***************************************************************************)

\* Mutant: the number of steps is not looked at.
OutOfTime == timedOut

OutOfLimits == steps > MaxSteps \/ timedOut

\* The head of the loop: the limits are checked before a node, and only there.
LoopTop(f) ==
  /\ pc[f] = "top"
  /\ Goto(f, IF OutOfLimits THEN "raise" ELSE "start")
  /\ UNCHANGED <<frameVars, inbox, work, submitCount, stepVars, exceptions,
                 timedOut, result, refused, failed, starts, lost>>

\* NodeRunStartedEvent: the step is counted.  node_run_steps is a field of a
\* pydantic model, whose assignment is a call: another thread may count between
\* the reading and the writing of "+= 1", and its step is lost.
NodeStart(f) ==
  /\ pc[f] = "start"
  /\ seen' = [seen EXCEPT ![f] = steps]
  /\ starts' = [starts EXCEPT ![cur[f]] = @ + 1]
  /\ Goto(f, "count")
  /\ UNCHANGED <<frameVars, inbox, work, submitCount, steps, exceptions, timedOut,
                 result, refused, failed, lost>>

NodeCounted(f) ==
  /\ pc[f] = "count"
  /\ steps' = seen[f] + 1
  /\ lost' = (lost \/ steps # seen[f])
  /\ seen' = [seen EXCEPT ![f] = 0]
  /\ Goto(f, "node")
  /\ UNCHANGED <<frameVars, inbox, work, submitCount, exceptions, timedOut,
                 result, refused, failed, starts>>

NodeSucceeds(f) ==
  /\ pc[f] = "node"
  /\ Goto(f, "route")
  /\ UNCHANGED <<frameVars, inbox, work, submitCount, stepVars, exceptions,
                 timedOut, result, refused, failed, starts, lost>>

\* The node failed and continues on error.
NodeExcepts(f) ==
  /\ pc[f] = "node"
  /\ exceptions' = TRUE
  /\ Goto(f, "excepted")
  /\ UNCHANGED <<frameVars, inbox, work, submitCount, stepVars, timedOut, result,
                 refused, failed, starts, lost>>

\* The node's result is FAILED: the event is yielded and the frame goes on;
\* only run(), for a node of the root frame, stops at it at once.
NodeFails(f) ==
  /\ pc[f] = "node"
  /\ failed' = failed \cup {cur[f]}
  /\ Emit(f, "NodeFailed")
  /\ Goto(f, IF f = Root THEN "done" ELSE "route")
  /\ UNCHANGED <<frameVars, work, submitCount, stepVars, exceptions, timedOut,
                 refused, starts, lost>>

\* The node raises: the event is yielded, then the exception goes up.
NodeRaises(f) ==
  /\ pc[f] = "node"
  /\ failed' = failed \cup {cur[f]}
  /\ Emit(f, "NodeFailed")
  /\ Goto(f, IF f = Root THEN "done" ELSE "raise")
  /\ UNCHANGED <<frameVars, work, submitCount, stepVars, exceptions, timedOut,
                 refused, starts, lost>>

\* Mutant: a branch does not stop where its parallel ends.
LeavesNever(f, next) == FALSE

\* Mutant: a nested branch goes on into the parallel around its own.
LeavesOutermost(f, next) == f # Root /\ ParallelOf[next] = None

\* A branch that would leave its parallel ends instead.
Leaves(f, next) == f # Root /\ ParallelOf[next] # ParallelOf[f]

\* Mutant: the loop goes on when there is no next node.
ContinueAnyway(f, next) ==
  IF next # None /\ Leaves(f, next)
  THEN Goto(f, "finish") /\ UNCHANGED cur
  ELSE Goto(f, "top") /\ cur' = [cur EXCEPT ![f] = next]

Continue(f, next) ==
  IF next = None \/ Leaves(f, next)
  THEN Goto(f, "finish") /\ UNCHANGED cur
  ELSE Goto(f, "top") /\ cur' = [cur EXCEPT ![f] = next]

\* The branches of a fork are those in the parallel of its first target; a
\* first target that is in none fails the run.
Fork(f, targets, first) ==
  IF ParallelOf[first] = None
  THEN Goto(f, "raise") /\ UNCHANGED edges
  ELSE /\ edges' = [edges EXCEPT ![f] =
                       {t \in targets : ParallelOf[t] = ParallelOf[first]}]
       /\ Goto(f, "submit")

\* The edges of the node: none to take, one, or a fork.  After a handled
\* failure the fail-branch strategy may also have no edge to take.
Route(f) ==
  /\ pc[f] \in {"route", "excepted"}
  /\ \E targets \in Alternatives[cur[f]] \cup (IF pc[f] = "excepted" THEN {{}} ELSE {}) :
       \/ /\ targets = {}
          /\ Continue(f, None)
          /\ UNCHANGED edges
       \/ /\ Cardinality(targets) = 1
          /\ \E next \in targets : Continue(f, next)
          /\ UNCHANGED edges
       \/ /\ Cardinality(targets) > 1
          /\ \E first \in targets : Fork(f, targets, first)
          /\ UNCHANGED cur
  /\ UNCHANGED <<futures, succeeded, parent, inbox, work, submitCount, stepVars,
                 exceptions, timedOut, result, refused, failed, starts, lost>>

(***************************************************************************)
(* _run_parallel_branches                                                  *)
(***************************************************************************)

\* GraphEngineThreadPool.submit counts first and checks then; a refused
\* submission stays counted.
Submit(f) ==
  /\ pc[f] = "submit" /\ edges[f] # {}
  /\ submitCount' = submitCount + 1
  /\ IF submitCount' > MaxSubmit
     THEN /\ refused' = refused + 1
          /\ Goto(f, "raise")
          /\ UNCHANGED <<edges, futures, parent, work>>
     ELSE /\ \E b \in edges[f] :
               /\ edges' = [edges EXCEPT ![f] = @ \ {b}]
               /\ futures' = [futures EXCEPT ![f] = @ \cup {b}]
               /\ parent' = [parent EXCEPT ![b] = f]
               /\ work' = Append(work, b)
               /\ pc' = [pc EXCEPT ![b] = "queued"]
          /\ UNCHANGED refused
  /\ UNCHANGED <<cur, succeeded, inbox, stepVars, exceptions, timedOut, result, failed, starts, lost>>

Submitted(f) ==
  /\ pc[f] = "submit" /\ edges[f] = {}
  /\ Goto(f, "collect")
  /\ UNCHANGED <<frameVars, inbox, work, submitCount, stepVars, exceptions,
                 timedOut, result, refused, failed, starts, lost>>

\* The collecting loop takes an event of frame f's branches.  It waits for
\* them without looking at the clock.
Collect(f, event) ==
  /\ pc[f] = "collect" /\ inbox[f] # <<>> /\ Head(inbox[f]) = event

\* A failed node is yielded on: to run(), or into the next queue up.
CollectNodeFailed(f) ==
  /\ Collect(f, "NodeFailed")
  /\ inbox' = [g \in Frames |->
                 IF g = f THEN Tail(inbox[f])
                 ELSE IF f # Root /\ g = parent[f] /\ Collecting(g)
                      THEN Append(inbox[g], "NodeFailed") ELSE inbox[g]]
  /\ IF f = Root THEN result' = "failed" /\ Goto(f, "done") ELSE UNCHANGED <<result, pc>>
  /\ UNCHANGED <<frameVars, work, submitCount, stepVars, exceptions, timedOut,
                 refused, failed, starts, lost>>

\* Mutant: the collecting ends with the first branch that succeeds.
LastIsFirst(f) == succeeded[f] + 1 = 1

LastSuccess(f) == succeeded[f] + 1 = Cardinality(futures[f])

CollectSucceeded(f) ==
  /\ Collect(f, "BranchSucceeded")
  /\ succeeded' = [succeeded EXCEPT ![f] = @ + 1]
  /\ inbox' = [inbox EXCEPT ![f] =
                 IF LastSuccess(f) THEN Append(Tail(@), "None") ELSE Tail(@)]
  /\ UNCHANGED <<pc, cur, edges, futures, parent, work, submitCount, stepVars,
                 exceptions, timedOut, result, refused, failed, starts, lost>>

\* Mutant: a nested fork goes on collecting after a branch of it failed.
CollectFailedNested(f) ==
  /\ Collect(f, "BranchFailed")
  /\ inbox' = [inbox EXCEPT ![f] = Tail(@)]
  /\ IF f = Root THEN Goto(f, "raise") ELSE UNCHANGED pc
  /\ UNCHANGED <<frameVars, work, submitCount, stepVars, exceptions, timedOut,
                 result, refused, failed, starts, lost>>

CollectFailed(f) ==
  /\ Collect(f, "BranchFailed")
  /\ inbox' = [inbox EXCEPT ![f] = Tail(@)]
  /\ Goto(f, "raise")
  /\ UNCHANGED <<frameVars, work, submitCount, stepVars, exceptions, timedOut,
                 result, refused, failed, starts, lost>>

CollectNone(f) ==
  /\ Collect(f, "None")
  /\ inbox' = [inbox EXCEPT ![f] = Tail(@)]
  /\ Goto(f, "wait")
  /\ UNCHANGED <<frameVars, work, submitCount, stepVars, exceptions, timedOut,
                 result, refused, failed, starts, lost>>

\* Mutant: wait(futures, return_when=FIRST_COMPLETED).
SomeDone(f) == \E b \in futures[f] : pc[b] = "done"

AllDone(f) == \A b \in futures[f] : pc[b] = "done"

\* wait(futures), then the node the branches end to, if there is one.
Join(f) ==
  /\ pc[f] = "wait"
  /\ AllDone(f)
  /\ \E b \in futures[f] : Continue(f, EndTo[ParallelOf[b]])
  /\ futures' = [futures EXCEPT ![f] = {}]
  /\ succeeded' = [succeeded EXCEPT ![f] = 0]
  /\ UNCHANGED <<edges, parent, inbox, work, submitCount, stepVars, exceptions,
                 timedOut, result, refused, failed, starts, lost>>

(***************************************************************************)
(* _run_parallel_node, the pool, and run()                                 *)
(***************************************************************************)

\* A worker thread takes the first piece of work.
TakeWork ==
  /\ work # <<>> /\ Cardinality(Running) < Workers
  /\ work' = Tail(work)
  /\ Goto(Head(work), "top")
  /\ UNCHANGED <<frameVars, inbox, submitCount, stepVars, exceptions, timedOut,
                 result, refused, failed, starts, lost>>

\* The frame's generator is exhausted.
Finish(f) ==
  /\ pc[f] = "finish"
  /\ IF f = Root
     THEN /\ result' = IF exceptions THEN "partial" ELSE "succeeded"
          /\ Goto(f, "done")
          /\ UNCHANGED inbox
     ELSE Emit(f, "BranchSucceeded") /\ Goto(f, "exit")
  /\ UNCHANGED <<frameVars, work, submitCount, stepVars, exceptions, timedOut,
                 refused, failed, starts, lost>>

\* GraphRunFailedError or another exception leaves the frame.
Raise(f) ==
  /\ pc[f] = "raise"
  /\ Emit(f, "BranchFailed")
  /\ Goto(f, IF f = Root THEN "done" ELSE "exit")
  /\ UNCHANGED <<frameVars, work, submitCount, stepVars, exceptions, timedOut,
                 refused, failed, starts, lost>>

\* Mutant: no task_done_callback.
ExitKeepsCount(f) ==
  /\ pc[f] = "exit"
  /\ Goto(f, "done")
  /\ UNCHANGED <<frameVars, inbox, work, submitCount, stepVars, exceptions, timedOut,
                 result, refused, failed, starts, lost>>

\* The future is done: task_done_callback, and the worker is free.
Exit(f) ==
  /\ pc[f] = "exit"
  /\ submitCount' = submitCount - 1
  /\ Goto(f, "done")
  /\ UNCHANGED <<frameVars, inbox, work, stepVars, exceptions, timedOut, result,
                 refused, failed, starts, lost>>

\* The consumer of run() raises, as it does when the user has stopped the run
\* (GenerateTaskStoppedError): the generator is closed where it is suspended, at
\* one of the root frame's events.  Nobody tells the branches.
Abandon ==
  /\ result = "running"
  /\ \/ pc[Root] = "top" /\ starts[Root] = 0
     \/ pc[Root] \in {"node", "route", "excepted"}
     \/ pc[Root] = "collect" /\ \E b \in futures[Root] : pc[b] # "queued"
  /\ result' = "abandoned"
  /\ Goto(Root, "done")
  /\ UNCHANGED <<frameVars, inbox, work, submitCount, stepVars, exceptions, timedOut,
                 refused, failed, starts, lost>>

TimeOut ==
  /\ ~timedOut
  /\ timedOut' = TRUE
  /\ UNCHANGED <<pc, frameVars, inbox, work, submitCount, stepVars, exceptions,
                 result, refused, failed, starts, lost>>

NodeEnd(f) == NodeSucceeds(f) \/ NodeExcepts(f) \/ NodeFails(f) \/ NodeRaises(f)

FrameStep(f) ==
  \/ LoopTop(f) \/ NodeStart(f) \/ NodeCounted(f) \/ NodeEnd(f) \/ Route(f)
  \/ Submit(f) \/ Submitted(f)
  \/ CollectNodeFailed(f) \/ CollectSucceeded(f) \/ CollectFailed(f) \/ CollectNone(f)
  \/ Join(f) \/ Finish(f) \/ Raise(f) \/ Exit(f)

Next == (\E f \in Frames : FrameStep(f)) \/ TakeWork \/ Abandon \/ TimeOut

Spec == Init /\ [][Next]_vars

\* Threads run and nodes end: HTTP requests, model calls and code have
\* timeouts of their own.
Fairness == WF_vars(TakeWork) /\ \A f \in Frames : WF_vars(FrameStep(f))

FairSpec == Spec /\ Fairness /\ WF_vars(TimeOut)

(***************************************************************************)
(* Properties                                                              *)
(***************************************************************************)

TypeOK ==
  /\ pc \in [Frames -> {"absent", "queued", "top", "start", "count", "node", "route",
                        "excepted", "submit", "collect", "wait", "finish",
                        "raise", "exit", "done"}]
  /\ cur \in [Frames -> Nodes]
  /\ edges \in [Frames -> SUBSET Frames]
  /\ futures \in [Frames -> SUBSET Frames]
  /\ succeeded \in [Frames -> Nat]
  /\ inbox \in [Frames -> Seq({"NodeFailed", "BranchSucceeded", "BranchFailed", "None"})]
  /\ parent \in [Frames -> Frames \cup {None}]
  /\ work \in Seq(Frames)
  /\ seen \in [Frames -> Nat]
  /\ submitCount \in Int /\ steps \in Nat /\ refused \in Nat
  /\ exceptions \in BOOLEAN /\ timedOut \in BOOLEAN
  /\ result \in {"running", "succeeded", "partial", "failed", "abandoned"}
  /\ failed \in SUBSET Nodes
  /\ starts \in [Nodes -> Nat] /\ lost \in BOOLEAN

\* The branches a node may fork into, and a graph in which every branch starts
\* at one fork.
Forks(n, b) == \E targets \in Alternatives[n] : b \in targets /\ Cardinality(targets) > 1
ForksApart ==
  \A n, b \in Nodes :
    Forks(n, b) => b # Root /\ \A m \in Nodes : Forks(m, b) => m = n

\* The node a frame goes on to from a node, or from where its fork joins.
Follows(n, next) ==
  \/ \E targets \in Alternatives[n] : Cardinality(targets) = 1 /\ next \in targets
  \/ \E b \in Nodes : Forks(n, b) /\ ParallelOf[b] # None /\ next = EndTo[ParallelOf[b]]

\* A graph without cycles whose branches meet only where their parallel ends:
\* every node belongs to one frame, which meets its nodes in their order and
\* stays in its parallel.
Sections(Owner, Rank) ==
  /\ ForksApart
  /\ Owner \in [Nodes -> Nodes] /\ Rank \in [Nodes -> Nat] /\ Owner[Root] = Root
  /\ \A n, b \in Nodes : Forks(n, b) => Owner[b] = b
  /\ \A n, next \in Nodes :
       /\ Follows(n, next)
       /\ Owner[n] = Root \/ ParallelOf[Owner[n]] = ParallelOf[next]
       => Owner[next] = Owner[n] /\ Rank[next] > Rank[n]

\* submit_count is the number of branches queued or running, plus one for every
\* submission that was refused: task_done_callback gives back exactly the
\* places that were really taken, also in runs that failed in between.
SubmitCountAccounts ==
  submitCount = Len(work) + Cardinality(Running) + refused

\* A frame that executes a node has no branch of an earlier fork under way: the
\* node behind a join never runs concurrently with what it joins.
JoinWaitsForBranches ==
  \A f, b \in Frames :
    parent[b] = f /\ pc[f] \in {"start", "count", "node"} => pc[b] = "done"

\* An edge of the graph, and the pairs of nodes with a path of edges from the
\* first to the second: what is downstream of a node is in every set of nodes that
\* has the node's successors and those of its own members.
Edge(n, m) == \E targets \in Alternatives[n] : m \in targets

ClosedFrom(n) ==
  {S \in SUBSET Nodes :
     \A m \in Nodes : Edge(n, m) \/ (\E k \in S : Edge(k, m)) => m \in S}

Downstream(n) == {m \in Nodes : \A S \in ClosedFrom(n) : m \in S}

Upstream == UNION {{<<n, m>> : m \in Downstream(n)} : n \in Nodes}

\* A node finds in the variable pool what the nodes upstream of it have put
\* there: none of them is executed, or is about to be, once it has started, in
\* whatever branch of whatever fork it is, and however far the two are apart.
UpstreamIsDone ==
  \A f \in Frames : pc[f] \in {"start", "count", "node"} =>
    \A m \in Nodes : <<cur[f], m>> \in Upstream => starts[m] = 0

\* How forks nest: the nodes whose forks a node is in, each in the forks of the
\* next, and edges that are no forks lead on in the section of their node or
\* out of the forks that it is in.
Nested(Owner, Rank, Above) ==
  /\ Above \in [Nodes -> SUBSET Nodes]
  /\ Above[Root] = {} /\ \A n \in Nodes : Above[n] = Above[Owner[n]]
  /\ \A n, b \in Nodes : Forks(n, b) => Above[b] = {n} \cup Above[n]
  /\ \A n \in Nodes : \A x, y \in Above[n] :
       Above[x] \subseteq Above[n] /\ (x = y \/ x \in Above[y] \/ y \in Above[x])
  /\ \A n, next \in Nodes : Edge(n, next) =>
       \/ Forks(n, next)
       \/ \E x \in {n} \cup Above[n] : Owner[x] = Owner[next] /\ Rank[x] < Rank[next]

\* The run is reported as succeeded, or partially succeeded, only when no node
\* failed in any branch at any depth, and when no branch is left behind in the
\* pool: no interleaving of the queues loses a failure or overtakes it.
SuccessMeansSuccess ==
  result \in {"succeeded", "partial"} =>
    failed = {} /\ Running = {} /\ work = <<>>

\* No node is executed twice, neither by two branches that meet in it nor by a
\* branch and the frame that joins it, in a graph whose branches meet only where
\* their parallel ends.  (Where two of several branches meet inside a parallel
\* both go on, and the node is executed by each: line 425 stops neither.)
NodesRunOnce == \A n \in Nodes : starts[n] <= 1

\* The steps limit is checked before a node, with ">", and counted after it has
\* started, so that branches pass the check together: still no more nodes start
\* than WORKFLOW_MAX_EXECUTION_STEPS and one for each worker, since the frame of
\* the root executes no node while a branch does.  Once an increment is lost
\* node_run_steps is too low, or goes back, and no such bound holds.
StepsOvershoot ==
  ~lost => Cardinality({n \in Nodes : starts[n] > 0}) <= MaxSteps + Workers

\* How far the engine is with a node.
NodeState(n) ==
  IF starts[n] = 0 THEN "idle"
  ELSE IF n \in failed THEN "failed"
  ELSE IF \E f \in Frames : pc[f] \in {"count", "node"} /\ cur[f] = n THEN "running"
  ELSE "ended"

Run == INSTANCE GraphRun WITH
  Trunk <- {n \in Nodes : ParallelOf[n] = None},
  node <- [n \in Nodes |-> NodeState(n)], handled <- exceptions

\* Whatever the frames, the pool and the queues do, what they make of the graph is
\* one ordered execution of it with one result.
ImplementsGraphRun == Run!Spec

\* With a worker left for the innermost branches every run ends, whatever
\* fails, is refused or times out; and however it ended - even when it failed, or
\* its consumer abandoned it, while branches were under way - the branches left
\* in the pool come to an end and give their workers back, although nobody
\* collects what they report.
RunEnds == <>(result # "running" /\ Running = {} /\ work = <<>>)

\* configs/feature/__init__.py:433-436, WORKFLOW_MAX_EXECUTION_TIME, "Maximum
\* execution time in seconds for a single workflow": once it has elapsed the
\* run ends, the nodes under way ending.
TimeLimitEndsRun == timedOut ~> result # "running"
=============================================================================
