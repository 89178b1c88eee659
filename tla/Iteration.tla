----------------------------- MODULE Iteration -----------------------------
(***************************************************************************)
(* An iteration node of a workflow (IterationNode._run): its graph is run   *)
(* once for each item of a list, one after the other or, in parallel mode,  *)
(* on a thread pool of the node's own.  What an iteration yields reaches    *)
(* the node's consumer, the engine of the outer graph, directly or through  *)
(* a queue.  The error mode decides what becomes of a failing iteration.    *)
(*                                                                         *)
(* Of the events only those that the node or its consumer reacts to are in  *)
(* the queue.  The node is one of the outer graph's root frame: its         *)
(* consumer closes the generator at the first failed node, even one inside  *)
(* the iteration, and at RunCompletedEvent.                                 *)
(***************************************************************************)
EXTENDS Naturals, Sequences, FiniteSets

CONSTANTS
  NItems,    \* the length of iterator_list_value, which is not empty
  Workers,   \* parallel_nums
  MaxSubmit  \* MAX_SUBMIT_COUNT

ASSUME IterationAssumption ==
  NItems \in Nat \ {0} /\ Workers \in Nat \ {0} /\ MaxSubmit \in Nat

Items == 1..NItems
None  == 0  \* no output; Python's None

Modes  == {"terminated", "continue-on-error", "remove-abnormal-output"}
Events == {"Next", "Failed", "NodeFailed", "Completed", "None"}

VARIABLES
  parallel,  \* is_parallel
  mode,      \* error_handle_mode
  main,      \* where _run is
  next,      \* the item to be submitted, or to be iterated over (the pool's "index")
  iter,      \* the iterations' threads: their futures
  events,    \* what each of them has still to put in the queue
  q,
  counted,   \* succeeded_count
  outputs,   \* item -> the item of which its output is
  leftover,  \* the item whose output is in the node's variable pool
  strays,    \* the items whose iteration was given up while other branches of its
             \*   graph were at work: these go on
  result,    \* how the node ended
  broken,    \* history: the iterations that failed, and that the mode does not excuse
  overtook   \* history: the None of a failure was put before the failing
             \*   iteration had put all its events

vars == <<parallel, mode, main, next, iter, events, q, counted, outputs, leftover,
          strays, result, broken, overtook>>

config     == <<parallel, mode>>
threadVars == <<iter, events>>
seqVars    == <<next, leftover>>

Init ==
  /\ parallel \in BOOLEAN /\ mode \in Modes
  /\ main = IF parallel THEN "submit" ELSE "single"
  /\ next = 1
  /\ iter = [i \in Items |-> "absent"] /\ events = [i \in Items |-> <<>>]
  /\ q = <<>> /\ counted = 0
  /\ outputs = [i \in Items |-> None] /\ leftover = None /\ strays = {}
  /\ result = "running" /\ broken = {} /\ overtook = FALSE

AtWork(i) == iter[i] \in {"run", "emit"}
InFlight  == {i \in Items : AtWork(i) \/ iter[i] = "queued"}

Close(how) == main' = "closed" /\ result' = how

\* An event is yielded: the consumer asks for the next one, or closes the
\* generator there, when the run was stopped.
Yield(to) == (main' = to /\ UNCHANGED result) \/ Close("abandoned")

(***************************************************************************)
(* Parallel mode: _run                                                     *)
(***************************************************************************)

\* Mutant: the places of the pool are not limited.
SubmitAlways ==
  /\ main = "submit"
  /\ iter' = [iter EXCEPT ![next] = "queued"]
  /\ next' = next + 1
  /\ main' = IF next = NItems THEN "collect" ELSE "submit"
  /\ UNCHANGED <<config, events, q, counted, outputs, leftover, strays, result, broken, overtook>>

\* A submission that is refused raises out of the node.
Submit ==
  /\ main = "submit"
  /\ IF Cardinality(InFlight) + 1 > MaxSubmit
     THEN Close("raised") /\ UNCHANGED <<iter, next>>
     ELSE /\ iter' = [iter EXCEPT ![next] = "queued"]
          /\ next' = next + 1
          /\ main' = IF next = NItems THEN "collect" ELSE "submit"
          /\ UNCHANGED result
  /\ UNCHANGED <<config, events, q, counted, outputs, leftover, strays, broken, overtook>>

Collect(event) == main = "collect" /\ q # <<>> /\ Head(q) = event

\* Mutant: the collecting ends with the first iteration that succeeds.
LastOneFirst == counted + 1 = 1

\* Mutant: the counter is compared before it is raised.
LastOneLate == counted = NItems

LastOne == counted + 1 = NItems

CollectNext ==
  /\ Collect("Next")
  /\ counted' = counted + 1
  /\ q' = IF LastOne THEN Append(Tail(q), "None") ELSE Tail(q)
  /\ Yield("collect")
  /\ UNCHANGED <<config, seqVars, threadVars, outputs, strays, broken, overtook>>

\* The failure is yielded twice, and ends the collecting by a None.
CollectFailed ==
  /\ Collect("Failed")
  /\ q' = Append(Tail(q), "None")
  /\ overtook' = (overtook \/ \E i \in broken : events[i] # <<>>)
  /\ Yield("collect")
  /\ UNCHANGED <<config, seqVars, threadVars, counted, outputs, strays, broken>>

\* A failed node fails the outer run, RunCompletedEvent this node.  What _run
\* does after it has yielded them - to cancel the futures - is never executed.
CollectFailure ==
  /\ Collect("NodeFailed") \/ Collect("Completed")
  /\ q' = Tail(q)
  /\ Close("failed")
  /\ UNCHANGED <<config, seqVars, threadVars, counted, outputs, strays, broken, overtook>>

CollectNone ==
  /\ Collect("None")
  /\ q' = Tail(q)
  /\ main' = "wait"
  /\ UNCHANGED <<config, seqVars, threadVars, counted, outputs, strays, result, broken, overtook>>

\* Mutant: wait(futures, return_when=FIRST_COMPLETED).
SomeDone == \E i \in Items : iter[i] \in {"done", "lost"}

AllDone == \A i \in Items : iter[i] \in {"done", "lost"}

Wait ==
  /\ main = "wait" /\ AllDone
  /\ main' = "finish"
  /\ UNCHANGED <<config, seqVars, threadVars, q, counted, outputs, strays, result, broken, overtook>>

(***************************************************************************)
(* Parallel mode: _run_single_iter_parallel                                *)
(***************************************************************************)

\* An iteration is given up while other branches of its graph are at work, or not.
LeavesBranches(i) == strays' \in {strays, strays \cup {i}}

Thread(i) == UNCHANGED <<config, main, seqVars, counted, result, overtook>>

Start(i) ==
  /\ iter[i] = "queued" /\ \A j \in 1..(i - 1) : iter[j] # "queued"
  /\ Cardinality({j \in Items : AtWork(j)}) < Workers
  /\ iter' = [iter EXCEPT ![i] = "run"]
  /\ UNCHANGED <<events, q, outputs, strays, broken>> /\ Thread(i)

\* The variable pool cannot be copied, since a branch of the outer graph changes
\* it, or the item cannot be added to it: the thread ends, nobody is told.
Dies(i) ==
  /\ iter[i] = "run"
  /\ iter' = [iter EXCEPT ![i] = "lost"]
  /\ UNCHANGED <<events, q, outputs, strays, broken>> /\ Thread(i)

Ends(i, es) ==
  /\ iter[i] = "run"
  /\ iter' = [iter EXCEPT ![i] = "emit"] /\ events' = [events EXCEPT ![i] = es]
  /\ UNCHANGED q /\ Thread(i)

Completes(i) ==
  /\ Ends(i, <<"Next">>)
  /\ outputs' = [outputs EXCEPT ![i] = i]
  /\ UNCHANGED <<strays, broken>>

\* Mutant: the iteration returns after its IterationRunFailedEvent.
OfFailedNodeShort == <<"Failed">>

\* The events of a failed node when the mode is "terminated".
OfFailedNode == <<"Failed", "NodeFailed", "Failed", "Completed">>

NodeFails(i) ==
  /\ Ends(i, IF mode = "terminated" THEN OfFailedNode ELSE <<"Next">>)
  /\ broken' = IF mode = "terminated" THEN broken \cup {i} ELSE broken
  /\ LeavesBranches(i)
  /\ UNCHANGED outputs

\* The graph fails otherwise, or has not run the node of the output selector:
\* no mode excuses it.
GraphFails(i) ==
  /\ Ends(i, <<"Failed", "Completed">>)
  /\ broken' = broken \cup {i}
  /\ LeavesBranches(i)
  /\ UNCHANGED outputs

Put(i) ==
  /\ iter[i] = "emit"
  /\ q' = Append(q, Head(events[i]))
  /\ events' = [events EXCEPT ![i] = Tail(@)]
  /\ iter' = IF Len(events[i]) = 1 THEN [iter EXCEPT ![i] = "done"] ELSE iter
  /\ UNCHANGED <<outputs, strays, broken>> /\ Thread(i)

Iterate(i) == Start(i) \/ Dies(i) \/ Completes(i) \/ NodeFails(i) \/ GraphFails(i) \/ Put(i)

(***************************************************************************)
(* Sequential mode: _run_single_iter                                       *)
(***************************************************************************)

Single == main = "single" /\ UNCHANGED <<config, threadVars, q, counted, overtook>>

Advance ==
  /\ next' = next + 1
  /\ Yield(IF next = NItems THEN "finish" ELSE "single")

\* What is in the pool for the output selector: this iteration's, if it has run
\* that node and nobody has written since, otherwise what an earlier one has left
\* there.
Found(ran) == IF ran THEN next ELSE leftover

\* Mutant: the nodes' outputs are not removed from the pool.
SingleCompletesKeeping(ran) ==
  /\ Single /\ Found(ran) # None
  /\ outputs' = [outputs EXCEPT ![next] = Found(ran)]
  /\ leftover' = Found(ran)
  /\ Advance
  /\ UNCHANGED <<strays, broken>>

SingleCompletes(ran) ==
  /\ Single /\ Found(ran) # None
  /\ outputs' = [outputs EXCEPT ![next] = Found(ran)]
  /\ leftover' = None
  /\ Advance
  /\ UNCHANGED <<strays, broken>>

\* The pool is left as it is.
SingleExcused(ran) ==
  /\ Single /\ mode # "terminated"
  /\ leftover' = Found(ran)
  /\ LeavesBranches(next)
  /\ Advance
  /\ UNCHANGED <<outputs, broken>>

\* A branch left behind by item j writes into the pool, which all iterations
\* share, what a node of it has made of the item that was there when it read it.
StrayWrites(j) ==
  /\ Single /\ j \in strays
  /\ leftover' \in j..next
  /\ UNCHANGED <<main, next, outputs, strays, result, broken>>

\* The consumer stops at the failed node, or at RunCompletedEvent; or before.
SingleFails ==
  /\ Single
  /\ Close("failed") \/ Close("abandoned")
  /\ broken' = broken \cup {next}
  /\ LeavesBranches(next)
  /\ UNCHANGED <<seqVars, outputs>>

-----------------------------------------------------------------------------

\* The successful end: RunCompletedEvent with the outputs.
Finish ==
  /\ main = "finish"
  /\ Close("succeeded") \/ Close("abandoned")
  /\ UNCHANGED <<config, seqVars, threadVars, q, counted, outputs, strays, broken, overtook>>

Run ==
  \/ Submit \/ CollectNext \/ CollectFailed \/ CollectFailure \/ CollectNone \/ Wait
  \/ (\E ran \in BOOLEAN : SingleCompletes(ran) \/ SingleExcused(ran)) \/ SingleFails
  \/ Finish

Next == Run \/ \E i \in Items : Iterate(i) \/ StrayWrites(i)

Spec == Init /\ [][Next]_vars

\* The node's thread and those of its iterations run, and their graphs end.
FairSpec == Spec /\ WF_vars(Run) /\ \A i \in Items : WF_vars(Iterate(i))

-----------------------------------------------------------------------------

\* The node's variables and queue hold values of their types, and its pool never
\* has more work than MAX_SUBMIT_COUNT.
TypeOK ==
  /\ parallel \in BOOLEAN /\ mode \in Modes
  /\ main \in {"submit", "collect", "wait", "single", "finish", "closed"}
  /\ next \in 1..(NItems + 1)
  /\ iter \in [Items -> {"absent", "queued", "run", "emit", "done", "lost"}]
  /\ events \in [Items -> Seq(Events)] /\ q \in Seq(Events)
  /\ counted \in Nat
  /\ outputs \in [Items -> Items \cup {None}] /\ leftover \in Items \cup {None}
  /\ result \in {"running", "succeeded", "failed", "raised", "abandoned"}
  /\ strays \subseteq Items /\ broken \subseteq Items /\ overtook \in BOOLEAN
  /\ Cardinality(InFlight) <= MaxSubmit

\* The node succeeds only if no iteration failed that the error mode does not
\* excuse, however the events of the iterations met in the queue - unless the
\* None that _run puts when it hears of a failure overtook the failing
\* iteration's own last events: then the node is reported as succeeded.
SuccessMeansNoFailure == result = "succeeded" /\ ~overtook => broken = {}

\* When the node succeeds its pool has nothing left to do: of an iteration whose
\* output it reports nothing runs at the same time as the node behind it.  Of an
\* item that was given up, and has no output, branches may still be at work.
SuccessMeansAllDone ==
  result = "succeeded" => InFlight = {} /\ \A i \in strays : outputs[i] = None

\* An item's output was computed from that item; in sequential mode perhaps from
\* an earlier one, when all iterations from that on were excused a failure, since
\* only a successful one cleans the variable pool, or when a branch writes late
\* that an item given up, not behind that one, has left at work.
OutputsAreTheirOwn ==
  \A i \in Items : outputs[i] # None =>
    \/ outputs[i] = i
    \/ /\ ~parallel /\ outputs[i] < i
       /\ \/ \A j \in outputs[i]..(i - 1) : outputs[j] = None
          \/ \E j \in strays : j <= outputs[i] /\ outputs[j] = None

\* How far the node is with an item.
ItemState(i) ==
  IF i \in broken THEN "broken"
  ELSE IF iter[i] = "lost" THEN "lost"
  ELSE IF iter[i] \in {"emit", "done"} \/ (~parallel /\ i < next) THEN "done"
  ELSE "todo"

Loop == INSTANCE ItemsRun WITH item <- [i \in Items |-> ItemState(i)]

\* Whatever the threads, the pool and the queue do, what they make of the list is
\* one iteration over it with one result.
ImplementsItemsRun == Loop!Spec

\* The node ends, whatever fails and in whatever order the iterations report,
\* unless a thread died without a word.
NodeEnds == <>(main = "closed" \/ \E i \in Items : iter[i] = "lost")
=============================================================================
