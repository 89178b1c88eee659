# A verification model of the Dify API backend

TLA+ modules, TLC configurations and TLAPS proofs for the parts of this repository in
which several threads, processes or messages meet. Paths below are relative to the
root of the sources.

## 1. The system and its parts

The repository is the API server of Dify. Gunicorn worker processes answer HTTP
requests; each request for an *app* starts a worker thread that executes the app (for
workflow apps: a graph of nodes, with parallel branches on a thread pool), while the
request's own thread listens to a queue, writes the database and streams responses.
Celery tasks index documents and put their segments into the index or take them out of
it. Redis and PostgreSQL are shared by all processes.

| Part | State | Operations | Meets |
|---|---|---|---|
| Concurrency limit per app (`core/app/features/rate_limiting/rate_limit.py`) | two Redis keys with expiry; one object per app and process (limit, time of last recalculation) | `enter`, `exit`, `flush_cache`, `RateLimitGenerator` | other threads and processes, `AppService.update_app`, Redis expiry, process death |
| App queue manager (`core/app/apps/base_app_queue_manager.py`, `workflow/app_queue_manager.py`) | a `queue.Queue`, the stop flag in Redis | `listen`, `_publish`, `stop_listen`, `set_stop_flag` | runner thread and request thread both publish |
| Task pipeline (`core/app/apps/workflow/generate_task_pipeline.py`, `core/app/task_pipeline/workflow_cycle_manage.py`) | rows WorkflowRun, WorkflowNodeExecution, WorkflowAppLog; the map of node executions under way | one handler per queue event | listens to the queue; its client may go away |
| Worker and runner (`core/app/apps/workflow/app_generator.py`, `workflow_app_runner.py`, `core/workflow/workflow_entry.py`) | the graph engine's generator | turns engine events into queue events | is stopped by an exception out of `_publish` |
| Graph engine (`core/workflow/graph_engine/graph_engine.py`) | per branch: node, futures, queue; shared: pool, step counter, exceptions | `run`, `_run`, `_run_parallel_branches`, `_run_parallel_node` | branches at several depths share a pool of ten workers |
| Iteration node (`core/workflow/nodes/iteration/iteration_node.py`) | a pool and a queue of its own, or one variable pool for all items; outputs | `_run`, `_run_single_iter`, `_run_single_iter_parallel` | the graph engine, whose consumer may close the generator; the outer variable pool |
| Graph parsing, stream processors | graph, routes | recursive construction; streaming order | the graph engine |
| Chat pipelines (`core/app/apps/advanced_chat`, `easy_ui_based_generate_task_pipeline.py`) | message rows | as the workflow pipeline | as above |
| Document indexing (`core/indexing_runner.py`, `tasks/*indexing*`, `services/dataset_service.py`) | document and segment rows, `*_is_paused`, `*_is_retried`, the index | run, pause, recover, retry, update, duplicate, delete, clean | Celery workers, chunk threads, killed workers, users |
| Enabling and disabling (`tasks/*_to_index_task.py`, `tasks/*_from_index_task.py`, `controllers/console/datasets`, `services/vector_service.py`) | `enabled`, `archived`, a segment's text, `*_indexing` keys, the index | enable, disable, archive, un-archive, edit | Celery workers, users, Redis expiry |
| Model load balancing (`core/model_manager.py`) | round-robin index and cool-down keys | `fetch_next`, `cooldown` | all processes |
| Accounts, quotas, drafts (`services/account_service.py`, `events/event_handlers`, `services/workflow_service.py`) | counters, tokens, hashes | login, deduct, sync | all processes |

What is hard here: check and use in separate Redis round trips; two publishers on one
queue, with the end-of-queue marker as a message of its own; stops, timeouts and
failures that race normal completion; joins of branches that may fail, starve or be
refused; tasks that are started twice; rows that survive a crash. What makes each part
correct:

* limit: not more requests served than allowed; a slot is held only by a request that
  is alive, or until it times out;
* queue and pipeline: a request always ends; one that ends leaves a run with one final
  status, one log, and no node execution under way but those an iteration gave up;
  handlers get events in an order they accept;
* graph engine: success means that nothing failed; no node runs twice or before the
  branches it joins; the counters are right; every run ends;
* iteration: success means that no item failed that the error mode does not excuse, and
  that nothing is at work any more but what items given up have left behind; an output
  is its own item's;
* indexing: a document shown as completed is in the index, each part once, and nothing
  else of it; nothing is left of a deleted one; none is left in progress with nobody
  to continue it;
* enabling and disabling: one task per document and segment at a time; retrieval finds
  what is enabled, with its present text; every key is released;
* load balancing: a fetch meets each configuration once and gives up only when all are
  cooling down; every call ends.

`PROJECT.json` lists every component, modelled or not, and every hazard.

## 2. The modules

| Module | Role |
|---|---|
| `RateLimit` | the concurrency limit: requests, limit updates, worker processes, Redis, a clock |
| `RateLimit_proofs` | theorems about it |
| `WorkflowRun` | one workflow run: runner thread, queue, request thread, stop flag, time limit, database rows |
| `WorkflowRun_proofs` | theorems about it |
| `RunLifecycle` | abstract: what a client and a reader of the logs may rely on; `WorkflowRun` implements it |
| `WorkflowRunLifecycle_proofs` | the order of the messages, and the refinement |
| `GraphEngine` | the execution of one graph with nested parallel branches on a bounded pool |
| `GraphRun` | abstract: one ordered execution of a graph with one result; `GraphEngine` implements it |
| `GraphEngine_proofs` | theorems about it, and the refinement |
| `Iteration` | an iteration node, sequential or parallel |
| `ItemsRun` | abstract: one iteration over a list with one result; `Iteration` implements it |
| `Iteration_proofs` | theorems about `Iteration`, and the refinement |
| `DocumentIndexing`, `DocumentIndexing_proofs` | the tasks and requests of one document, and theorems about it |
| `SegmentIndex`, `SegmentIndex_proofs` | enabling, disabling and editing what was indexed, and theorems about it |
| `LoadBalancing`, `LoadBalancing_proofs` | calls to a model with several credentials, and theorems about it |
| `MCRateLimit`, `MCWorkflowRun`, `MCGraphEngine`, `MCIteration`, `MCDocumentIndexing`, `MCSegmentIndex`, `MCLoadBalancing` | instances for TLC |

How they fit together: `WorkflowRun` takes the runner's events as given, and
`GraphEngine` is what produces them; a consumer that stops iterating, which is how a
stop in `WorkflowRun` reaches the engine, is `GraphEngine`'s `Abandon`. An iteration
node is one node of `GraphEngine`, and `Iteration`'s consumer is the engine's root
frame. `SegmentIndex` starts where `DocumentIndexing` ends, at a completed document;
their tasks guard against each other only by the document's status.

Operators named `...Null`, `...Late`, `...Only`, `...Not` and the like, commented
"Mutant", are used by no specification. Each is a plausible bug; replacing the
definition after it by it must violate the property that `PROJECT.json` pairs it with,
which shows that the property depends on the code.

### RateLimit

State: the database's limit; the Redis limit and the hash of active requests, each
with its expiry; per process the object's limit and the time of its last
recalculation; per thread a program counter and the locals it uses across steps. A
request goes `idle -> construct -> enter -> check -> admit -> generate -> streaming ->
exit -> done`, with flushes in between; an update `idle -> construct -> refresh ->
done`. A step is one Redis round trip, except where nothing another thread can do lies
between two of them: `exists`, `hgetall` and `expire` of the hash in one
(`FlushRead`), `set` and `expire` in one (they are one pipeline). The `exists` and the
`get` of the limit are two steps, because the key may expire between them. `Crash(w)`
is the death of a process; `Tick` is time and expiry.

The request ids are uuids, so a request's slot is named after the request; the
constant id of unlimited requests is the variable `free`. `Generate` says how the call
of the app generator ends: with a stream, with an exception or a blocking result (both
go to `exit`), or with the one exception whose clause does not call `exit` (`leaked`).
`broken` is history: the processes whose last recalculation raised; `mark` is the time
a thread recorded.

### WorkflowRun

State: the queue; the runner (`rpc`) and how far the graph and each node are; the
pipeline (`ppc`) and how it ended (`outcome`); the run's status, the node executions'
status, the map of those under way, the number of logs; the stop flag and whether the
time limit has passed.

* Runner: `PublishX` chooses the next event the graph can produce and puts it
  (`RunnerPut`); then `RunnerPutNone` after a terminal event; then `RunnerCheck`,
  where a stop flag ends the thread silently.
* Pipeline: `HandleX` takes the head of the queue and does the whole of its handler,
  then the `finally` clause (`Finally`) publishes a Stop if the flag is set or the
  time is over, then the None (`ListenerPutNone`), perhaps a ping. A handler is one
  step: only the pipeline writes these rows.
* `Leave`: the loop is left; nobody reads the queue again, so it is emptied.

What a node execution is: an activation of a node with an id of its own; two
activations of one graph node are two elements of `Nodes`. Those inside an iteration
are published as well. An iteration whose failure is excused, or that a `None` has
overtaken, drops its graph's generator while other branches are at work: the runner has
put their start and never puts their end (`LoseNode`, node state "lost"). The outer graph
may still succeed, and `_handle_workflow_run_success` and its counterpart for partial
success (`workflow_cycle_manage.py`, 120-166) close no node execution: the row keeps
"running" (`LeftRunning`). Failure and stop close all.

### RunLifecycle

A run is created, its node executions begin and end while it runs, it finishes once,
and the request is answered accordingly; nothing is written after the answer. A stream
that a Stop has overtaken (finding 2) is promised less: its run may finish again, and
nodes may begin after that. `WorkflowRun` instantiates it (`Lifecycle`) with the rows
it has, the logs, the history of stops and `outcome`; a node execution is `Shown` as
"ended" whether it succeeded or failed. Runner, queue, `None`, flag and checks are
steps that leave all of that as it is. A node execution may be given up (`GiveUp`); a run
that ends well promises the end of the others only.

### GraphEngine

A *frame* is an activation of `_run`, named after the node it starts with: the root
frame is consumed by `run()`, every other is a branch submitted to the pool. A frame
goes `top -> start -> count -> node -> route`, from there to `top` (next node),
`finish`, or `submit -> collect -> wait` for a fork. Its queue `inbox` holds the
events the engine reacts to. Whether conditions hold is a choice among
`Alternatives[node]`. `submit_count += 1` is one step (a plain attribute: the
interpreter does not switch threads inside it), while `node_run_steps += 1` is two
(`NodeStart`, `NodeCounted`): the counter is a field of a pydantic model, whose
assignment is a Python call.

`Abandon` is the consumer that raises while `run()` is suspended in a `yield`: the
generator is closed at one of the root frame's events, and nobody tells the branches.
`lost` is history: an increment of the step counter was lost.

`GraphRun` is what is left when frames, pool and queues are forgotten: nodes that are
idle, running, ended or failed, and a result. `GraphEngine` instantiates it (`Run`) with
`NodeState`, read off `starts`, `failed` and the frames that execute a node. `Upstream`
is the transitive closure of the graph's edges, defined by closed sets and not by
recursion, so that it can be reasoned about. A nested fork goes on behind its join after
a failed node (the root frame hears of it later), which is why only nodes in no parallel
(`Trunk`) are promised to be spared after a failure.

### Iteration

`main` is where `_run` is: `submit -> collect -> wait -> finish` in parallel mode,
`single -> finish` in sequential mode, `closed` at the end. An iteration's thread goes
`queued -> run -> emit -> done`; it decides its events when its graph ends
(`Completes`, `NodeFails`, `GraphFails`) and puts them into `q` one by one, so that
the node's own `None` may come between them. `Close` is the consumer: it closes the
generator at a failed node or at `RunCompletedEvent`, or at any event when the run was
stopped. The cancelling of the other futures (line 199) is behind such an event and is
never executed. `lost` is a thread that died before it put anything (line 581, the
outer variable pool changed while it was copied). `broken` and `overtook` are history:
failures that the mode does not excuse, and a None that came before the failing
iteration's last event. Then the node is reported as succeeded, although an iteration
failed.

When an iteration fails and the node goes on, it drops the generator of its own graph
engine. Other branches of that graph know nothing of it and go on in the engine's pool
(`graph_engine.py`, 160-165 and 468-483): the item is then one of the `strays`
(`LeavesBranches`), whether or not it had such branches. In sequential mode `leftover` is
the output in the shared variable pool: a successful iteration removes it, and a branch
left behind writes into it at any later time (`graph_engine.py`, 784; `StrayWrites`) what
it has made of the item it read, its own or a later one. In parallel mode each iteration
has a copy of the pool, and what is left behind disturbs nobody.

`ItemsRun` is what the outer graph sees of it: items that are to do, done, broken or
lost, the outputs, and a result. There are no threads, no pool and no queue in it. An
item is promised its own output; in sequential mode it may get that of an earlier item,
if that one or one before it was given up (`Possible`). It
says when a result is possible: "failed" only when an item is broken, "succeeded" only
when every item is done, or has at least been dealt with when a None overtook a failure;
a refused submission raises, in parallel mode. `Iteration` instantiates it (`Loop`) with
`ItemState`, read off `iter`, `next` and `broken`; an iteration that has ended shows at
once, whatever of its events is still to be put.

### DocumentIndexing

Every commit, Redis call and write to the index is a step, so that any other task, chunk
thread or request may come between two of them. The document's row expires at each
commit and is read again at the next use (`indexing_runner.py`, 382, 845, 854, 864):
when it was deleted meanwhile, `ObjectDeletedError` ends the task there, before it adds
anything more (the handler's log line, 92, reads the row once more and raises again, so
the task ends without the "error" it would write, as `Fail` does without a row). The
segments are added by the document's id alone, between 845 and 854. A request is an
operation with the steps it still has to do (`call`): it looks at the row, commits, sets
or deletes the key, queues the task. A task has a program counter (`clean -> parse ->
extract -> split -> add -> mark -> load -> loading -> finish -> complete`, with `wipe`
and `reload` for a task that resumes), the segments it works on, and where its chunk
threads are: to do, pause flag checked, loaded. A *part* is one chunk of up to ten
segments. Tasks are taken in the order they were queued, by any of the workers: so it is
with one worker container; with several, Celery's prefetching may reorder them. A task
is acknowledged when it is taken, so that a killed worker (`Crash`) loses it.

`mishaps` is history, the provisos of the properties: two tasks overlapped, a task was
killed, a keyword thread failed, a clean failed, a document was deleted after its
cleaning task was taken, a resumed splitting deleted rows that had nodes in the index
(finding 5). They are not hidden: the model reaches what goes wrong then, and each of them
is a hazard in `PROJECT.json`.

### SegmentIndex

A request looks at the Redis key and the row (`Read`), commits its change (`Commit`),
sets the key and queues the task (`Send`; nothing that another could do differs
between these two; `SendFails` is the failure of either). An edit writes the index itself
(`unindex`, `reindex`); `update_segment` with `enabled: false` ("off") disables a segment
and looks only at the segment's own key. A task reads what it works on, writes the index,
and deletes the key in its `finally`, where it has one. Load and clean are two steps each
in the code, vectors and keywords: a task or an edit that fails (`AddFails`,
`RemoveFails`, `EditFails`) may have put its nodes in, or taken them out, already. A
removal that fails enables its segment again; that of a document does so only before the
clean (`TakeDocumentFails`), and logs a failure of the clean itself. `Killed` is the death
of a worker. `Available` is the document's display status: what retrieval asks first.
`content` counts a segment's edits, so that a text that is out of date can be told from
the present one.

`mishaps` is history, the provisos of the properties: requests that overlapped between a
look and its key ("overlap"); a key that expired before its task ended ("expired"); an
edit begun while a task of the document was in hand ("edit"); a failed removal that enabled
again what was gone from the index ("undone"); a task lost with its worker, or never
queued ("lost"), whose key stays until it expires. The model reaches all of them.

### LoadBalancing

Every Redis command is a step: `incr`, `set` when the counter reaches its end, `expire`,
the look at a cooldown key, the setting of one. `Pick` has Python's modulo and negative
index. `volatile` says whether the counter's key has a time to live: `incr` leaves it,
`set` takes it away, `expire` gives it; a key that has one may expire at any time.

`disturbed` is history: during a fetch the counter expired or someone else moved it.
Such a fetch may meet one cooling configuration several times and give up early; the
code counts meetings, not configurations. `lap` is history too: where in its list a
fetch started the counter again itself. That cuts a round short unless 9999999 is a
multiple of the number of configurations (`LastRound`): with two configurations a lone
fetch that gets 9999999 and then 1 meets the first one twice, and gives up without a
look at the second. The comment of `model_manager.py`, 471 ("all configs are in
cooldown") is not true of either fetch. The properties say what holds: which
configurations such a fetch can pass over, and that any other has seen them all.

## 3. What is checked

| Run | Instance | Shows |
|---|---|---|
| `RateLimit` | 2 requests, 1 update, 2 processes, limits 0 and 1, clock 0..3, alive 1, expiry 2 | `TypeOK`; `DeadRequestsExpire`: a recalculation that ended without raising purged what had timed out, whatever others did between its steps; `SlotsAreOwned`: a slot belongs to a request that is being served, died, or failed with `RateLimitError`; `SlotsLast`: nothing else than its `exit`, its age or the expiry of the table takes a slot away |
| `RateLimitOver` | 2 requests, limit 1 | **violated**: `LimitRespected` (finding 1) |
| `WorkflowRun` | 2 node executions, 1 notice | `TypeOK`; `EndedRunIsTerminal`; `TerminalIsFinal`; `EndedRunIsSettled`: no row stays "running" but those given up in a run that ended well; `RaisesOnlyBeforeStart`; `ImplementsLifecycle`: every step is one of `RunLifecycle` or shows nothing; `PipelineEnds` |
| `WorkflowRunStop` | 1 node execution | **violated**: `StopEndsListening` (finding 2) |
| `GraphEngine` | 7 nodes, a nested fork in one branch, 2 workers, 3 submissions, 4 steps | `TypeOK`; `SubmitCountAccounts`; `JoinWaitsForBranches`; `SuccessMeansSuccess`; `NodesRunOnce`; `StepsOvershoot`; `UpstreamIsDone`: a node is executed when nothing upstream of it is, or will be; `RunEnds`; `ImplementsGraphRun` |
| `GraphEngineStarved` | 7 nodes, a fork in both branches, 2 workers | **violated**: `TimeLimitEndsRun` (finding 3) |
| `Iteration` | 4 items, 2 workers, 3 places, both modes of running, three error modes | `TypeOK`; `SuccessMeansNoFailure`; `SuccessMeansAllDone`: after a success nothing is at work but branches of items that got no output; `OutputsAreTheirOwn`; `NodeEnds`; `ImplementsItemsRun`: every step is one of `ItemsRun` or shows nothing |
| `DocumentIndexing` | 2 chunks, 2 workers, 2 callers, 3 requests, at most one killed worker | `TypeOK`; `CompletedMeansIndexed`; `NothingLeftOfDeleted`; `AtRestMeansSettled`; `CompletedStays`: no step takes a completed document up again, unless it is to be done anew |
| `DocumentIndexingDelete` | 2 chunks, 2 workers, 1 caller, 1 deletion, no killed worker | **violated**: `DeletedLeavesNothing` (finding 4) |
| `DocumentIndexingReplace` | 1 chunk, 1 worker, 2 callers, 5 requests, no killed worker | **violated**: `ReplacedIsCleaned` (finding 5) |
| `SegmentIndex` | 2 segments, 2 callers, 2 workers, 5 requests | `TypeOK`; `OneTaskAtATime`; `Retrievable`: whatever failed, half done or not, what is enabled is found with its present text, under the provisos its comment lists; `KeysReleased`; `StaysRetrievable`: no step takes what is to be retrieved out of the index |
| `LoadBalancing` | 3 configurations, 2 callers, counter up to 5 | `TypeOK`; `NoConfigTwice`: a fetch that nobody disturbs meets a configuration twice only across its own restart of the counter; `UndisturbedNoneMeansAllCooling`: it gives up without a look at one only there; `CallsEnd` |

### Findings

1. **More requests than the limit are served.** `enter()` counts with HLEN and inserts
   with HSET; two requests may count before either inserts.
2. **Events are handled after the Stop.** The Stop and its None are two messages, and
   the runner publishes between them; a streaming pipeline then marks nodes running,
   or the run succeeded, after it was stopped. `TerminalIsFinal` and
   `EndedRunIsSettled` hold when no Stop was published by the listener, and always for
   blocking requests, which leave at the first final response.
3. **The time limit does not end a starved run.** Branches that fork keep their
   worker; when they hold all of them nothing looks at the clock any more.
4. **A document is deleted while it is being indexed.** The controller answers "Cannot
   delete document during indexing." to an error that `delete_document` never raises. The
   task goes on. A row deleted before the task reads it again ends the task
   (`indexing_runner.py`, 382 or 845) and nothing is left; one deleted after that read and
   before the first commit of `add_documents` (`dataset_docstore.py`, 82-128) does not:
   segments are added to a document that no longer exists, after the cleaning task has
   read what to clean. `NothingLeftOfDeleted` says when nothing is left.
5. **A replaced document keeps nodes of the old one in the index.** A resumed splitting
   deletes the segments' rows and not their nodes, assuming that a document in status
   "splitting" has none. It may have: it is paused while it is loaded (status
   "indexing"), a replacement or a retry sets the status to "waiting", the resumed task
   splits the document on top of the old segments and is paused there. Resumed once
   more, it deletes the rows, and the task of the replacement, which removes the nodes
   of the rows it finds, finds none. No task failed, and none met another. The attempt
   to prove `CompletedMeansIndexed` without this proviso led to it; the run needs five
   requests, more than `DocumentIndexing` makes.

Apart from these, several properties have provisos that the model shows to be needed:
`EndedRunIsSettled` (node executions given up inside of an iteration),
`SuccessMeansNoFailure` (a None that overtakes a failure), `SuccessMeansAllDone` and
`OutputsAreTheirOwn` (branches left behind by items given up), `OneTaskAtATime`,
`KeysReleased`, `Retrievable`, `StaysRetrievable`, `CompletedMeansIndexed` and
`CompletedStays` (`mishaps`), `NoConfigTwice` and `UndisturbedNoneMeansAllCooling` (a
disturbed fetch, and the restart of the counter). No document of the repository denies
the first of them; the last two contradict the comment of `model_manager.py`, 471, and say
how far it is true. What is exempted is exempted, not excluded: where a hazard of
`PROJECT.json` lies within a proviso its note says so.

### Bounds

* `RateLimit`: with alive = 1, interval = 0 and expiry = 2, a clock up to 3 has a
  request time out, both keys expire, and recalculations before and after each. Two
  requests and an update give three threads, so that two threads of one process and
  one of another flush at once. Limits 0 and 1 are "unlimited" and "one"; `Unset` is
  the database's NULL. At the last instant of the clock no update is under way
  (`UpdatedEarly`). The proofs cover all other values, and have no such bound.
* `WorkflowRun`: two node executions are needed for one to be under way when the other
  fails. `MaxNotices` bounds events that only produce a response (branch progress,
  pings): they change no row and are there to sit between other messages. Nothing
  bounds the queue but what is published. The listener publishes a Stop after every
  message while the flag is set, so there may be infinitely many messages; the view
  compares queues only up to the first None, since nothing behind it is ever read
  (`HandleNone` leaves the loop), and `Listening` stops at the pipeline's end, since no
  row changes any more and what `PipelineEnds` asks for has come. `OneOrder` names the
  node executions in the order they start. None of the three hides a behaviour, an
  infinite one included: the states they identify have the same successors. `FewNotices`
  does: a notice comes while at most one node execution has started (the proofs have
  no such bound).
* `GraphEngine`: two workers are the fewest for a nested fork to progress while its
  branch waits. `MaxSubmit = 3` is below the four branches of the graph, so a
  submission may be refused. `MaxSteps = 4` is below the seven nodes, so the limit
  strikes; the five nodes of the path that skips the nested fork can all run, and the
  nested join is reached when the increment of a step is lost. A state in which more
  than two things have gone wrong - nodes that failed, a failure continued on error,
  refusals, the time limit, a step not counted, a consumer that went away - is checked
  and not left (`TwoMishaps`); the proofs have no such bound.
* `MCGraphEngine` also evaluates `Sections` and `Nested`, the conditions of the theorems
  about `GraphEngine`, on both graphs.
* `Iteration`: with four items, two workers and three places a submission is queued,
  another is refused, and an iteration may fail while one before it has ended and one
  behind it waits. At most two iterations fail without excuse or are lost
  (`TwoMishaps`); the proofs have no such bound.
* `DocumentIndexing`: two chunks are the fewest for one to be loaded while the other
  is paused or fails; three requests with two at a time have a pause overtaken by a
  resume and both by a retry or a deletion. Requests are limited to two once something
  has gone wrong, one thing goes wrong, and once tasks overlap there is no third and
  their chunk threads take turns (`Bounded`, `TakeTurns`): the properties with provisos
  do not speak of those states, `AtRestMeansSettled` does. All are proved for any
  number of requests and tasks.
* `DocumentIndexingReplace`: one chunk and one worker are enough, and the constraint
  leaves out what goes wrong in any other way (`OnlyOrphans`). With four requests
  nothing is violated.
* `SegmentIndex`: a segment to be worked on while the document's task holds both needs
  three requests; two more undo each. No more than three after a mishap (`Bounded`).
* `LoadBalancing`: `ResetAt = 5` (ten million in the code) has the counter start again
  within a fetch of three configurations, one step into a round; the proofs hold for
  every value above `N`.
* Symmetry is used over requests and processes, callers and segments,
  only in runs without liveness.

### Fairness

`WorkflowRun` assumes a fair request thread and that time passes; nothing of the
runner, which may hang. `GraphEngine` assumes that every thread with something to do
does it and that a node ends (each node type's own timeouts). In `RunEnds` the time
limit needs no help; in `TimeLimitEndsRun` it is also assumed to elapse. Nobody is
assumed to stop a run. `Iteration` assumes the same of the node's thread and of its
iterations; a thread that died is excepted. `LoadBalancing` assumes that a call that
has begun goes on and that the model answers; `CallsEnd` also assumes that cooldowns
cease to expire, since otherwise the loop of retries need not end. `RateLimit`,
`DocumentIndexing` and `SegmentIndex` have safety properties only, most of them about
the states in which everything has come to rest.

Deadlock checking is on in `LoadBalancing` and off in the other runs: a finished run,
or a bounded clock or number of requests, is the end.

## 4. What is proved

For all values of the constants, under the assumptions named in the modules
(identities are distinct, limits are numbers, NULL is none).

* `RateLimit_proofs!TypeCorrect`: `TypeOK`.
* `RateLimit_proofs!DeadRequestsExpireAlways`. The property alone is not inductive: it
  speaks of processes with no thread in `flush_cache`. `FlushInv` adds three facts: no
  time stamp is in the future (`StampsArePast`); a thread about to delete has in its
  list every request that was too old when it began, because those who insert after it
  read the table insert younger stamps (`StaleIsComplete`); a process has either a
  thread still at work that recorded its last recalculation, or a purged table
  (`PurgedOrFlushing`). A thread that raises is the one exception, recorded in
  `broken`.
* `RateLimit_proofs!SlotsAreOwnedAlways`, strengthened by: a request that was let in
  without a limit never had a slot (`UnlimitedHasNoSlot`), so that `exit` may do
  nothing for it.
* `RateLimit_proofs!SlotsLastAlways`. A flush removes what it found in an earlier read,
  and between the two a request may be let in, leave and another flush have been
  through. What makes the removal safe is `StaleIsOver`: a request on such a list has
  entered already, so it gets no younger stamp, and the stamp it may still have is too
  old.
* `WorkflowRun_proofs!TypeCorrect`, with queues of any length.
* `WorkflowRun_proofs!EndedRunIsTerminalAlways`. Inductive invariant `PipelineInv`: a
  None in the queue, or one about to be put, has a terminal event in front of it, or
  the run is final already (`Announced`, `Announces`); a blocking pipeline that is
  still listening has not finished its run.
* `WorkflowRun_proofs!TerminalIsFinalAlways`, from the same invariant: Started is
  published once (`StartedOnce`), and without a Stop there is one finishing event
  (`FinishedOnce`).
* `WorkflowRunLifecycle_proofs`: `EndedRunIsSettledAlways`,
  `RaisesOnlyBeforeStartAlways` and `Refinement` (`ImplementsLifecycle`). A handler
  does the right thing only if the messages come in order, so the invariant `OrderInv`
  is about what is in the queue and what the runner may still put: a node's start
  precedes its end (`NodeInOrder`), all ends precede a success (`EndedBeforeSuccess`),
  unless the node was given up, nothing follows a finish (`NothingAfterFinish`), the run's
  creation is first
  (`QueueOrder`), and one log is written per finish (`Logged`). Every safety property
  of `WorkflowRun` is proved.
* `GraphEngine_proofs!TypeCorrect`, for every graph: the branches of a fork are in a
  parallel (`InParallel`), so that a join knows where it ends.
* `GraphEngine_proofs!NodesRunOnceAlways`, `SubmitCountAccountsAlways`,
  `JoinWaitsForBranchesAlways`, `SuccessMeansSuccessAlways`, `StepsOvershootAlways`:
  every safety property of `GraphEngine`, for every graph that satisfies `Sections`,
  with any number of workers, places and steps. `Sections` is the kind of graph the
  engine is made for: no cycles, every branch starts at one fork, and branches meet
  only where their parallel ends. (Where two of several branches meet inside their
  parallel both go on, and the node runs twice.) The argument: a frame meets its own
  nodes in their order and is submitted once, so a node that is about to start has not
  started (`Placed`); a branch about to be submitted is fresh, because its fork's node
  was decided only once (`EngineInv`). On that rests `ResultInv`: in every queue the
  successes counted and waiting are at most those of the branches that ended, and a
  failure is met before all are counted (`Ledger`); every branch descends from the
  root (`Descent`) and one that is no longer waited for has ended with all its own
  (`Settled`); a failure is, as long as the run goes on, in a queue that is read, or
  with a frame that raises or has raised (`FailureFound`). `StepInv` adds that nodes
  started are counted or about to be, and that those between the check and the count
  fit into the pool.
* `GraphEngine_proofs!UpstreamIsDoneAlways` and `Refinement` (`ImplementsGraphRun`), for
  graphs that satisfy `Nested` too: an edge that is no fork leads on in the section of
  its node or out of forks that the node is in. Two nodes with a path between them then
  have a frame, or a fork, in which one comes before the other (`Before`, proved for
  every path by instantiating the closed sets of `Upstream`). The frames above a branch
  under way stay at the nodes it was forked from (`AboveStays`, from `Descent`), and
  what a started node is in was forked before (`ForksDecided`, inductive); so a frame
  that executes the first node would have to be behind it already. For the refinement a
  branch stays in its parallel (`Within`) and failed nodes are over (`FailedOver`); each
  step is the start of a node, its end, the end of the run, or shows nothing
  (`KindsOfSteps`).
* `Iteration_proofs`: every safety property, and `Refinement` (`ImplementsItemsRun`).
  `IInv` says where threads may be while items are submitted (`Unsubmitted`), what each
  has still to put (`EventsFit`), that the counter does not exceed what was reported
  (`CountFits`), that an unexcused failure in the queue is followed by what ends the
  node, unless overtaken (`FailureFollowed`), that a `None` has a reason
  (`NoneJustified`), that an iteration at work, or ahead, has written nothing yet
  (`Unwritten`), and that a stray is an item without output that the node has left
  behind (`StraysBehind`), so that what it writes late can be told apart. For the
  refinement `RInv` adds that there is no result before the node is closed (`Ongoing`),
  that what is fatal in the queue comes from a failed iteration (`Blamed`), that the end
  comes after the last item (`AtEnd`), and that the shared pool stays clean where
  failures are not excused (`Clean`). The hard step is the successful end: a counter
  that has reached the number of items means that each of them has been done
  (`AllReported`).
* `DocumentIndexing_proofs`: every property that a passing run checks. `TypeCorrect`
  (with `Shape`: where the segments of a task may be). `AtRestMeansSettledAlways`, from
  `InProgressIsCared`: for every document in progress some task or request is
  responsible, or a pause's flag waits for a resume. `CompletedMeansIndexedAlways` and
  `NothingLeftOfDeletedAlways`, from `Orderly`, which holds while nothing has gone
  wrong: one task runs (`OneRuns`); every node has its row (`NodesHaveRows`), which is
  what a clean relies on; what is left of a deleted document waits for its cleaning
  task (`CleanMeansDeleted`, `DeletedIsCleaned`); and a document that will not be done
  anew (`Redone`) can be resumed where it was stopped (`Accounted`). The last is the
  heart of it: the status alone tells the task that resumes what it will find
  (`Resumable`), so each point of a task must keep what the status it would leave
  behind promises (`Progress`, `StatusFits`), down to the chunk threads, in whose hands
  is whatever is not completed (`InHand`). Requests break this on purpose - a retry or
  a replacement sets the status back - but then they owe a task that begins by
  removing everything. `CompletedStaysAlways` is read off the same invariant: a task
  that can still change the status has one before it that is not completed
  (`StatusFits`), and one taken from the queue finds nothing to resume; only the first,
  which indexes, would not look, and it comes before there is anything
  (`IndexIsFirst`).
* `SegmentIndex_proofs`: every property. `Serial` says that, while nothing disturbs the
  keys, a key exists while a task for it is in hand, and no longer unless one was lost
  (`KeyMeansTask`), that what a request saw when it looked is still so, and that a
  failed segment is disabled and no task has work to do for it (`FailedMeansDisabled`;
  such a task would leave its key behind): `OneTaskAtATimeAlways`, `KeysReleasedAlways`.
  `RetrievableAlways` rests on `Placed`, which holds while nothing at all has gone
  wrong: the present text of every enabled segment is in the index, or a request or a
  task is going to put it there (`Owed`, `EnabledIsIndexed`); neither the index nor a
  task holds an old text, except where an edit is about to remove it (`NothingStale`);
  an edit is alone with the document (`EditAlone`); a task removes only what is not to
  be retrieved (`RemovesUnwanted`). A removal that fails half done and enables its
  segment again keeps this only if the segment's node is still there (`NodeIsCurrent`).
  `StaysRetrievableAlways` follows for the removing tasks from `RemovesUnwanted`; for an
  edit it needs that no task has put the new text into the index before the edit removes
  the old one (`EditedAnew`), which rests on texts only growing newer (`NoneAhead`) and
  on nobody else being at work on the segment.
* `LoadBalancing_proofs`: every safety property. `WalkInv`: an undisturbed fetch has
  met consecutive indices from where it began, and from 1 on after it started the
  counter again, which it does once at most (`WalksFrom`, `Index`); N consecutive
  indices modulo N are all configurations, and after a restart those below `LastRound`
  are met before it or after.

Lemmas about `Append` and `Tail` carry the statements about positions of the queue.

Only model-checked: the liveness properties `PipelineEnds`, `RunEnds`, `CallsEnd` and
`NodeEnds`. Liveness under fairness,
`ENABLED`, induction over data and recursive operators are out of the prover's reach.

## 5. What is not modelled

* `RateLimit`: a request's half-built object (two threads of a process constructing it
  at the same instant).
* `WorkflowRun`: text chunks, speech and trace tasks; failing database calls; the
  debugger's runs that save no log. The key that says whom a task belongs to lives
  1800 s, longer than a request (`APP_MAX_EXECUTION_TIME` = 1200 s), so it is always
  there while it matters.
* `GraphEngine`: the variable pool, the release of the pool in
  `workflow_thread_pool_mapping`, and sub-workflows and iterations that share the
  pool.
* `Iteration`: an absent or empty list; the flattening of outputs; token totals, which
  are added up by several threads without synchronisation, each from a copy of the
  total; a node inside an outer parallel branch.
* `DocumentIndexing`: synchronisation of websites and Notion pages;
  `DocumentProcessingApi` (`datasets_document.py`, 670-704), a second pair of pause
  and resume that sets no key; the keyword table that accompanies a vector store;
  batches of documents; whole datasets.
* `SegmentIndex`: creating and deleting segments; edits that keep the text (also those
  that enable a segment so); a document that is indexed again meanwhile, or whose
  indexing status a task finds changed, on which it returns before its `try`. A key that
  a killed worker or a failing `delay()` leaves behind until it expires is modelled, and
  excepted by the properties.
* `LoadBalancing`: the removal of `__inherit__` from the list (`model_manager.py`,
  430-436), and which exception is raised at the end.
* Assignments that change no value are no steps: the ORM writes no row for them.

Graph parsing and the stream processors are recursive walks over mutable mappings with
no concurrency; a test can reach what they do, and they would be for TLC only. Of the
remaining components accounts, quota and drafts have a check and a use each, in
separate round trips; the chat pipelines repeat the structure of `WorkflowRun`.
Controllers, model providers, tools, vector-store adapters, migrations and schemas are
most of the repository's lines, and have no state or protocol of their own to model: a
share of the lines as large as a third is not within reach of a model that is
faithful.

## 6. Plan

Done, in this order: the concurrency limit, the run of a workflow and its lifecycle,
the graph engine, document indexing, load balancing, segments, iteration, with their
proofs. What is left:

1. `AdvancedChatRun`: `WorkflowRun` with a message row, the message-end event and
   annotation replies, implementing `RunLifecycle` as well.
2. `GraphParsing`: parallels and their end nodes on all small graphs against a
   reference definition, and that what it yields satisfies `Sections` where branches
   meet only at the end of their parallel.
3. Accounts, quota and drafts: counters and hashes checked and used in separate round
   trips.
