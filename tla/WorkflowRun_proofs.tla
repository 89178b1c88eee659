------------------------- MODULE WorkflowRun_proofs -------------------------
(***************************************************************************)
(* What WorkflowRun guarantees for every set of node executions and every  *)
(* number of messages.                                                     *)
(***************************************************************************)
EXTENDS WorkflowRun, SequenceTheorems, TLAPS

LEMMA MessageTypes ==
  /\ \A type \in (EventTypes \ NodeEvents) \cup {"None"} :
       Event(type) \in Message /\ Event(type).type = type
  /\ \A type \in NodeEvents, n \in Nodes :
       NodeEvent(type, n) \in Message /\ NodeEvent(type, n).type = type
  /\ None \in Message /\ None.type = "None"
  /\ \A m \in Message : m.type \in EventTypes \cup {"None"}
  /\ \A m \in Message : m.type \in NodeEvents => m.node \in Nodes
BY DEF Message, Event, NodeEvent, None, EventTypes, NodeEvents, TerminalEvents, FinishEvents

\* The first message of a queue.
LEMMA HeadIsFirst ==
  ASSUME NEW s \in Seq(Message), s # <<>>
  PROVE  /\ Head(s) = s[1] /\ Head(s) \in Message
         /\ Len(s) \in Nat /\ Len(s) >= 1
         /\ Tail(s) \in Seq(Message) /\ Len(Tail(s)) = Len(s) - 1
         /\ \A i \in 1 .. Len(s) - 1 : Tail(s)[i] = s[i + 1]
BY HeadTailProperties

(***************************************************************************)
(* Type correctness                                                        *)
(***************************************************************************)

LEMMA RunnerPutType ==
  ASSUME TypeOK, NEW event \in Message, RunnerPut(event),
         graph' \in {"init", "running", "failed", "ended"},
         node' \in [Nodes -> {"idle", "running", "done", "exception", "lost"}],
         notices' \in Nat
  PROVE  TypeOK'
BY AppendProperties DEF TypeOK, RunnerPut, Put, dbVars, flagVars

LEMMA TakeType ==
  ASSUME TypeOK, NEW types, Take(types)
  PROVE  /\ q' \in Seq(Message) /\ Head(q) \in Message /\ Head(q).type \in types
         /\ ppc' = "finally" /\ ppc = "get" /\ q # <<>> /\ q' = Tail(q)
         /\ UNCHANGED <<streaming, stopFlag, timedOut, rpc, graph, node, notices, stopSent>>
BY HeadIsFirst DEF TypeOK, Take, flagVars, runnerVars

LEMMA TypeInvariant == TypeOK /\ [Next]_vars => TypeOK'
<1> SUFFICES ASSUME TypeOK, [Next]_vars PROVE TypeOK'
  OBVIOUS
<1>1. CASE RunnerStep
  <2>1. CASE PublishStarted
    BY <2>1, RunnerPutType, MessageTypes
    DEF PublishStarted, TypeOK, EventTypes, TerminalEvents, FinishEvents, NodeEvents
  <2>2. CASE PublishBranch
    BY <2>2, RunnerPutType, MessageTypes
    DEF PublishBranch, TypeOK, EventTypes, TerminalEvents, FinishEvents, NodeEvents
  <2>3. CASE PublishError
    BY <2>3, RunnerPutType, MessageTypes
    DEF PublishError, TypeOK, EventTypes, TerminalEvents, FinishEvents, NodeEvents
  <2>4. ASSUME NEW n \in Nodes, PublishNodeStarted(n) PROVE TypeOK'
    BY <2>4, RunnerPutType, MessageTypes DEF PublishNodeStarted, TypeOK, NodeEvents
  <2>5. ASSUME NEW n \in Nodes, NEW type \in NodeEvents, PublishNodeEnd(n, type) PROVE TypeOK'
    BY <2>5, RunnerPutType, MessageTypes DEF PublishNodeEnd, TypeOK
  <2>6. ASSUME NEW type \in FinishEvents, PublishGraphEnd(type) PROVE TypeOK'
    BY <2>6, RunnerPutType, MessageTypes
    DEF PublishGraphEnd, TypeOK, EventTypes, TerminalEvents, FinishEvents, NodeEvents
  <2>7. CASE RunnerPutNone
    BY <2>7, MessageTypes, AppendProperties DEF RunnerPutNone, Put, TypeOK, dbVars, flagVars
  <2>8. CASE RunnerCheck
    BY <2>8 DEF RunnerCheck, TypeOK, dbVars, flagVars
  <2>9. ASSUME NEW n \in Nodes, LoseNode(n) PROVE TypeOK'
    BY <2>9 DEF LoseNode, TypeOK, dbVars, flagVars
  <2> QED
    BY <1>1, <2>1, <2>2, <2>3, <2>4, <2>5, <2>6, <2>7, <2>8, <2>9 DEF RunnerStep
<1>2. CASE PipelineStep
  <2>1. CASE HandlePing
    BY <2>1, TakeType DEF HandlePing, Yield, TypeOK, dbVars
  <2>2. CASE HandleBranch
    BY <2>2, TakeType DEF HandleBranch, Raise, Yield, TypeOK, dbVars
  <2>3. CASE HandleError
    BY <2>3, TakeType DEF HandleError, TypeOK, dbVars
  <2>4. CASE HandleStarted
    BY <2>4, TakeType DEF HandleStarted, Yield, TypeOK, Status
  <2>5. CASE HandleNodeStarted
    BY <2>5, TakeType, MessageTypes
    DEF HandleNodeStarted, Raise, Yield, TypeOK, dbVars, NodeEvents
  <2>6. CASE HandleNodeEnd
    <3>1. EndStatus(Head(q).type) \in {"SUCCEEDED", "EXCEPTION", "FAILED"}
      BY DEF EndStatus
    <3> QED
      BY <2>6, <3>1, TakeType, MessageTypes DEF HandleNodeEnd, Raise, Yield, TypeOK, dbVars
  <2>7. CASE HandleSuccess
    BY <2>7, TakeType DEF HandleSuccess, Raise, Yield, TypeOK, dbVars, Status, Terminal
  <2>8. CASE HandleFailed
    BY <2>8, TakeType DEF HandleFailed, FailRunning, Raise, Yield, TypeOK, dbVars, Status, Terminal
  <2>9. CASE HandleNone
    BY <2>9, TakeType DEF HandleNone, TypeOK, dbVars
  <2>10. CASE PollEmpty
    BY <2>10 DEF PollEmpty, TypeOK, flagVars, runnerVars, dbVars
  <2>11. CASE Finally
    <3>1. /\ Append(q, Event("Stop")) \in Seq(Message)
          /\ Append(q, Event("Ping")) \in Seq(Message)
      BY AppendProperties, MessageTypes
      DEF TypeOK, EventTypes, TerminalEvents, FinishEvents, NodeEvents
    <3>2. q' \in Seq(Message) /\ notices' \in Nat
      BY <2>11, <3>1 DEF Finally, PutAndPing, TypeOK
    <3>3. ppc' \in {"putNone", "get"} /\ stopSent' \in BOOLEAN
      BY <2>11 DEF Finally, TypeOK
    <3> QED
      BY <2>11, <3>2, <3>3 DEF Finally, TypeOK, flagVars, runnerVars, dbVars
  <2>12. CASE ListenerPutNone
    <3>1. /\ Append(q, None) \in Seq(Message)
          /\ Append(Append(q, None), Event("Ping")) \in Seq(Message)
      BY AppendProperties, MessageTypes
      DEF TypeOK, EventTypes, TerminalEvents, FinishEvents, NodeEvents
    <3>2. q' \in Seq(Message)
      BY <2>12, <3>1 DEF ListenerPutNone, PutAndPing
    <3>3. notices' \in Nat
      BY <2>12 DEF ListenerPutNone, PutAndPing, TypeOK
    <3> QED
      BY <2>12, <3>2, <3>3 DEF ListenerPutNone, TypeOK, flagVars, runnerVars, dbVars
  <2>13. CASE Leave
    BY <2>13 DEF Leave, TypeOK, flagVars, runnerVars, dbVars
  <2> QED
    BY <1>2, <2>1, <2>2, <2>3, <2>4, <2>5, <2>6, <2>7, <2>8, <2>9, <2>10, <2>11,
       <2>12, <2>13 DEF PipelineStep
<1>3. CASE Environment
  <2>1. stopFlag' \in BOOLEAN /\ timedOut' \in BOOLEAN
    BY <1>3 DEF Environment, UserStop, StopFlagExpires, TimeOut, TypeOK
  <2>2. UNCHANGED <<streaming, q, rpc, graph, node, ppc, outcome, run, nodeExec, wip,
                    appLogs, notices, stopSent>>
    BY <1>3 DEF Environment, UserStop, StopFlagExpires, TimeOut, runnerVars, dbVars
  <2> QED
    BY <2>1, <2>2 DEF TypeOK
<1>4. CASE UNCHANGED vars
  BY <1>4 DEF vars, TypeOK, flagVars, runnerVars, dbVars
<1> QED
  BY <1>1, <1>2, <1>3, <1>4 DEF Next

\* Every variable keeps its type; in particular every message in the queue is
\* one that the pipeline has a handler for.
THEOREM TypeCorrect == Spec => []TypeOK
<1>1. Init => TypeOK
  <2>1. ASSUME Init PROVE q \in Seq(Message)
    BY <2>1 DEF Init
  <2>2. ASSUME Init PROVE wip \in SUBSET Nodes /\ appLogs \in Nat /\ notices \in Nat
    BY <2>2 DEF Init
  <2>3. ASSUME Init
        PROVE  /\ node \in [Nodes -> {"idle", "running", "done", "exception", "lost"}]
               /\ nodeExec \in [Nodes -> {"absent", "RUNNING", "SUCCEEDED", "FAILED", "EXCEPTION"}]
    BY <2>3 DEF Init
  <2> QED
    BY <2>1, <2>2, <2>3 DEF Init, TypeOK, Status
<1> QED
  BY <1>1, TypeInvariant, PTL DEF Spec

(***************************************************************************)
(* The parts of PipelineInv when a message is put                          *)
(***************************************************************************)

\* The queue may grow by a None only behind a terminal event.
LEMMA AnnouncedWhenPut ==
  ASSUME q \in Seq(Message), NEW m \in Message, q' = Append(q, m), run' = run, Announced,
         m.type = "None" =>
           run \in Terminal \/ \E k \in 1 .. Len(q) : q[k].type \in TerminalEvents
  PROVE  Announced'
<1>1. /\ Len(q') = Len(q) + 1 /\ Len(q) \in Nat
      /\ \A i \in 1 .. Len(q) : q'[i] = q[i]
      /\ q'[Len(q) + 1] = m
  BY AppendProperties
<1> SUFFICES ASSUME NEW i \in 1 .. Len(q'), q'[i].type = "None", run \notin Terminal
             PROVE  \E k \in 1 .. (i - 1) : q'[k].type \in TerminalEvents
  BY DEF Announced
<1>2. CASE i = Len(q) + 1
  BY <1>1, <1>2
<1>3. CASE i \in 1 .. Len(q)
  <2>1. PICK k \in 1 .. (i - 1) : q[k].type \in TerminalEvents
    BY <1>1, <1>3 DEF Announced
  <2> QED
    BY <1>1, <1>3, <2>1
<1> QED
  BY <1>1, <1>2, <1>3

LEMMA AnnouncementStays ==
  ASSUME q \in Seq(Message), NEW m \in Message, q' = Append(q, m),
         \E k \in 1 .. Len(q) : q[k].type \in TerminalEvents
  PROVE  \E k \in 1 .. Len(q') : q'[k].type \in TerminalEvents
BY AppendProperties

LEMMA StartedOnceWhenPut ==
  ASSUME q \in Seq(Message), NEW m \in Message, q' = Append(q, m), run' = run, StartedOnce,
         graph' = "init" => graph = "init",
         m.type = "Started" => graph = "init" /\ graph' # "init"
  PROVE  StartedOnce'
<1>1. /\ Len(q') = Len(q) + 1 /\ Len(q) \in Nat
      /\ \A i \in 1 .. Len(q) : q'[i] = q[i]
      /\ q'[Len(q) + 1] = m
  BY AppendProperties
<1> QED
  BY <1>1 DEF StartedOnce

LEMMA FinishedOnceWhenPut ==
  ASSUME q \in Seq(Message), NEW m \in Message, q' = Append(q, m), run' = run, FinishedOnce,
         graph = "ended" => graph' = "ended",
         m.type \in FinishEvents => graph # "ended" /\ graph' = "ended"
  PROVE  FinishedOnce'
<1>1. /\ Len(q') = Len(q) + 1 /\ Len(q) \in Nat
      /\ \A i \in 1 .. Len(q) : q'[i] = q[i]
      /\ q'[Len(q) + 1] = m
  BY AppendProperties
<1> QED
  BY <1>1 DEF FinishedOnce

(***************************************************************************)
(* The parts of PipelineInv when a message is taken                        *)
(***************************************************************************)

LEMMA AnnouncedWhenTaken ==
  ASSUME q \in Seq(Message), q # <<>>, q' = Tail(q), Announced,
         run \in Terminal => run' \in Terminal,
         Head(q).type \notin TerminalEvents \/ run' \in Terminal
  PROVE  Announced'
<1>1. /\ Head(q) = q[1] /\ Len(q) \in Nat /\ Len(q') = Len(q) - 1
      /\ \A i \in 1 .. Len(q) - 1 : q'[i] = q[i + 1]
  BY HeadIsFirst
<1> SUFFICES ASSUME NEW i \in 1 .. Len(q'), q'[i].type = "None", run' \notin Terminal
             PROVE  \E k \in 1 .. (i - 1) : q'[k].type \in TerminalEvents
  BY DEF Announced
<1>2. i + 1 \in 1 .. Len(q) /\ q[i + 1].type = "None"
  BY <1>1
<1>3. PICK k \in 1 .. i : q[k].type \in TerminalEvents
  BY <1>2 DEF Announced
<1>4. k # 1
  BY <1>1, <1>3
<1>5. k - 1 \in 1 .. (i - 1) /\ q'[k - 1] = q[k]
  BY <1>1, <1>4
<1> QED
  BY <1>3, <1>5

LEMMA AnnouncementWhenTaken ==
  ASSUME q \in Seq(Message), q # <<>>, q' = Tail(q),
         Head(q).type \notin TerminalEvents,
         \E k \in 1 .. Len(q) : q[k].type \in TerminalEvents
  PROVE  \E k \in 1 .. Len(q') : q'[k].type \in TerminalEvents
<1>1. /\ Head(q) = q[1] /\ Len(q) \in Nat /\ Len(q') = Len(q) - 1
      /\ \A i \in 1 .. Len(q) - 1 : q'[i] = q[i + 1]
  BY HeadIsFirst
<1>2. PICK k \in 1 .. Len(q) : q[k].type \in TerminalEvents
  OBVIOUS
<1>3. k - 1 \in 1 .. Len(q') /\ q'[k - 1] = q[k]
  BY <1>1, <1>2
<1> QED
  BY <1>2, <1>3

LEMMA StartedOnceWhenTaken ==
  ASSUME q \in Seq(Message), q # <<>>, q' = Tail(q), graph' = graph, StartedOnce,
         run' = run \/ run # "absent" \/ Head(q).type = "Started"
  PROVE  StartedOnce'
<1>1. /\ Head(q) = q[1] /\ Len(q) \in Nat /\ Len(q) >= 1 /\ Len(q') = Len(q) - 1
      /\ \A i \in 1 .. Len(q) - 1 : q'[i] = q[i + 1]
  BY HeadIsFirst
<1>2. \A i \in 1 .. Len(q') : i + 1 \in 1 .. Len(q) /\ i + 1 # 1 /\ q'[i] = q[i + 1]
  BY <1>1
<1>3. 1 \in 1 .. Len(q)
  BY <1>1
<1>4. CASE Head(q).type = "Started"
  <2>1. graph' # "init"
    BY <1>1, <1>3, <1>4 DEF StartedOnce
  <2>2. \A i \in 1 .. Len(q') : q'[i].type # "Started"
    BY <1>1, <1>2, <1>3, <1>4 DEF StartedOnce
  <2> QED
    BY <2>1, <2>2 DEF StartedOnce
<1>5. CASE run # "absent"
  <2>1. graph' # "init"
    BY <1>5 DEF StartedOnce
  <2>2. \A i \in 1 .. Len(q') : q'[i].type # "Started"
    BY <1>2, <1>5 DEF StartedOnce
  <2> QED
    BY <2>1, <2>2 DEF StartedOnce
<1>6. CASE run' = run
  <2>1. \A i, k \in 1 .. Len(q') : q'[i].type = "Started" /\ q'[k].type = "Started" => i = k
    BY <1>1, <1>2 DEF StartedOnce
  <2> QED
    BY <1>2, <1>6, <2>1 DEF StartedOnce
<1> QED
  BY <1>4, <1>5, <1>6

LEMMA FinishedOnceWhenTaken ==
  ASSUME q \in Seq(Message), q # <<>>, q' = Tail(q), graph' = graph, FinishedOnce,
         run' = run \/ run' \notin Terminal \/ Head(q).type \in FinishEvents
  PROVE  FinishedOnce'
<1>1. /\ Head(q) = q[1] /\ Len(q) \in Nat /\ Len(q) >= 1 /\ Len(q') = Len(q) - 1
      /\ \A i \in 1 .. Len(q) - 1 : q'[i] = q[i + 1]
  BY HeadIsFirst
<1>2. \A i \in 1 .. Len(q') : i + 1 \in 1 .. Len(q) /\ i + 1 # 1 /\ q'[i] = q[i + 1]
  BY <1>1
<1>3. 1 \in 1 .. Len(q)
  BY <1>1
<1>4. \A i, k \in 1 .. Len(q') :
        q'[i].type \in FinishEvents /\ q'[k].type \in FinishEvents => i = k
  BY <1>1, <1>2 DEF FinishedOnce
<1>5. CASE Head(q).type \in FinishEvents
  <2>1. graph' = "ended"
    BY <1>1, <1>3, <1>5 DEF FinishedOnce
  <2>2. \A i \in 1 .. Len(q') : q'[i].type \notin FinishEvents
    BY <1>1, <1>2, <1>3, <1>5 DEF FinishedOnce
  <2> QED
    BY <2>1, <2>2 DEF FinishedOnce
<1>6. CASE run' = run \/ run' \notin Terminal
  BY <1>2, <1>4, <1>6 DEF FinishedOnce
<1> QED
  BY <1>5, <1>6

(***************************************************************************)
(* The inductive invariant                                                 *)
(***************************************************************************)

IInv == TypeOK /\ PipelineInv /\ EndedRunIsTerminal

\* Whichever event the runner publishes, in an order the graph allows.
LEMMA RunnerPutKeeps ==
  ASSUME IInv, NEW event \in Message, RunnerPut(event), event.type # "None",
         graph = "ended" => graph' = "ended",
         graph' = "init" => graph = "init",
         event.type = "Started" => graph = "init" /\ graph' # "init",
         event.type \in FinishEvents => graph # "ended" /\ graph' = "ended"
  PROVE  PipelineInv' /\ EndedRunIsTerminal'
<1>1. /\ UNCHANGED <<streaming, ppc, outcome, run, stopSent>>
      /\ rpc = "run"
      /\ rpc' = IF event.type \in TerminalEvents THEN "putNone" ELSE "check"
  BY DEF RunnerPut, dbVars
<1>2. EndedRunIsTerminal'
  BY <1>1 DEF IInv, EndedRunIsTerminal
<1>3. CASE ppc = "ended"
  <2>1. q' = q
    BY <1>3 DEF RunnerPut, Put
  <2>2. StartedOnce'
    BY <1>1, <2>1 DEF IInv, PipelineInv, StartedOnce
  <2> QED
    BY <1>1, <1>2, <1>3, <2>2 DEF IInv, PipelineInv
<1>4. CASE ppc # "ended"
  <2>1. q' = Append(q, event) /\ q \in Seq(Message)
    BY <1>4 DEF RunnerPut, Put, IInv, TypeOK
  <2>2. StartedOnce'
    BY <1>1, <2>1, StartedOnceWhenPut DEF IInv, PipelineInv
  <2>3. ASSUME outcome = "running" /\ ~stopSent PROVE FinishedOnce'
    BY <1>1, <2>1, <2>3, FinishedOnceWhenPut DEF IInv, PipelineInv
  <2>4. ASSUME outcome = "running" PROVE Announced'
    BY <1>1, <2>1, <2>4, AnnouncedWhenPut DEF IInv, PipelineInv
  <2>5. ASSUME outcome = "running" PROVE Announces'
    <3>1. CASE event.type \in TerminalEvents
      BY <2>1, <3>1, AppendProperties DEF Announces
    <3>2. CASE event.type \notin TerminalEvents
      BY <1>1, <2>1, <2>5, <3>2, AnnouncementStays DEF IInv, PipelineInv, Announces
    <3> QED
      BY <3>1, <3>2
  <2> QED
    BY <1>1, <1>2, <2>2, <2>3, <2>4, <2>5 DEF IInv, PipelineInv
<1> QED
  BY <1>3, <1>4

\* Whichever message the pipeline handles, if its handler treats the run's
\* status as the hypotheses say.
LEMMA HandledKeeps ==
  ASSUME IInv, NEW types, Take(types),
         run \in Terminal => run' \in Terminal,
         run' = run \/ run # "absent" \/ Head(q).type = "Started",
         run' = run \/ run' \notin Terminal \/ Head(q).type \in FinishEvents,
         outcome' = "running" =>
           /\ Head(q).type \notin TerminalEvents \/ run' \in Terminal
           /\ ~streaming => run' \notin Terminal,
         outcome' \in {"finished", "returned"} => run' \in Terminal,
         outcome' # "unexpected"
  PROVE  PipelineInv' /\ EndedRunIsTerminal'
<1>1. /\ q \in Seq(Message) /\ q # <<>> /\ q' = Tail(q)
      /\ ppc = "get" /\ ppc' = "finally" /\ outcome = "running"
      /\ UNCHANGED <<streaming, rpc, graph, stopSent>>
  BY TakeType DEF IInv, TypeOK, PipelineInv
<1>2. StartedOnce'
  BY <1>1, StartedOnceWhenTaken DEF IInv, PipelineInv
<1>3. ASSUME ~stopSent PROVE FinishedOnce'
  BY <1>1, <1>3, FinishedOnceWhenTaken DEF IInv, PipelineInv
<1>4. ASSUME outcome' = "running" PROVE Announced'
  BY <1>1, <1>4, AnnouncedWhenTaken DEF IInv, PipelineInv
<1>5. ASSUME outcome' = "running" PROVE Announces'
  BY <1>1, <1>5, AnnouncementWhenTaken DEF IInv, PipelineInv, Announces
<1> QED
  BY <1>1, <1>2, <1>3, <1>4, <1>5 DEF PipelineInv, EndedRunIsTerminal

\* When the queue is read, the run is not over.
LEMMA FirstMessage ==
  ASSUME IInv, NEW types, Take(types)
  PROVE  /\ outcome = "running" /\ Head(q) = q[1] /\ 1 \in 1 .. Len(q)
         /\ Head(q).type \in types
         /\ StartedOnce /\ Announced
         /\ ~stopSent => FinishedOnce
         /\ ~streaming => run \notin Terminal
<1>1. q \in Seq(Message) /\ q # <<>> /\ ppc = "get" /\ Head(q).type \in types
  BY TakeType DEF IInv, TypeOK
<1> QED
  BY <1>1, HeadIsFirst DEF IInv, PipelineInv

LEMMA PipelineKeeps ==
  ASSUME IInv, PipelineStep
  PROVE  PipelineInv' /\ EndedRunIsTerminal'
<1>1. CASE HandlePing
  <2>1. run' = run /\ outcome' \in {"running", "closed"}
    BY <1>1 DEF HandlePing, Yield, dbVars
  <2> QED
    BY <1>1, <2>1, HandledKeeps, FirstMessage DEF HandlePing, TerminalEvents, FinishEvents
<1>2. CASE HandleBranch
  BY <1>2, HandledKeeps, FirstMessage
  DEF HandleBranch, Raise, Yield, dbVars, TerminalEvents, FinishEvents
<1>3. CASE HandleError
  BY <1>3, HandledKeeps, FirstMessage DEF HandleError, dbVars
<1>4. CASE HandleStarted
  <2>1. run \notin Terminal /\ run' \notin Terminal
    BY <1>4, FirstMessage DEF HandleStarted, StartedOnce, Terminal
  <2> QED
    BY <1>4, <2>1, HandledKeeps, FirstMessage
    DEF HandleStarted, Yield, TerminalEvents, FinishEvents
<1>5. CASE HandleNodeStarted
  <2>1. run' = run /\ outcome' \in {"running", "closed", "raised"}
    BY <1>5 DEF HandleNodeStarted, Raise, Yield, dbVars
  <2> QED
    BY <1>5, <2>1, HandledKeeps, FirstMessage DEF HandleNodeStarted, TerminalEvents, FinishEvents
<1>6. CASE HandleNodeEnd
  <2>1. run' = run /\ outcome' \in {"running", "closed", "raised"}
    BY <1>6 DEF HandleNodeEnd, Raise, Yield, dbVars
  <2> QED
    BY <1>6, <2>1, HandledKeeps, FirstMessage
    DEF HandleNodeEnd, NodeEvents, TerminalEvents, FinishEvents
<1>7. CASE HandleSuccess
  <2>1. CASE run = "absent"
    BY <1>7, <2>1, HandledKeeps, FirstMessage DEF HandleSuccess, Raise, dbVars, Terminal
  <2>2. CASE run # "absent"
    <3>1. run' \in Terminal /\ (streaming => outcome' \in {"running", "closed"})
          /\ (~streaming => outcome' = "returned")
      BY <1>7, <2>2 DEF HandleSuccess, Yield, Terminal
    <3> QED
      BY <1>7, <2>2, <3>1, HandledKeeps, FirstMessage DEF HandleSuccess, FinishEvents, IInv, TypeOK
  <2> QED
    BY <2>1, <2>2
<1>8. CASE HandleFailed
  <2>1. CASE run = "absent"
    BY <1>8, <2>1, HandledKeeps, FirstMessage DEF HandleFailed, Raise, dbVars, Terminal
  <2>2. CASE run # "absent"
    <3>1. run' \in Terminal /\ (streaming => outcome' \in {"running", "closed"})
          /\ (~streaming => outcome' = "returned")
      BY <1>8, <2>2 DEF HandleFailed, Yield, Terminal
    <3> QED
      BY <1>8, <2>2, <3>1, HandledKeeps, FirstMessage DEF HandleFailed, FinishEvents, IInv, TypeOK
  <2> QED
    BY <2>1, <2>2
<1>9. CASE HandleNone
  <2>1. run \in Terminal
    BY <1>9, FirstMessage DEF HandleNone, Announced
  <2>2. streaming /\ outcome' = "finished" /\ run' = run
    BY <1>9, <2>1, FirstMessage DEF HandleNone, dbVars
  <2> QED
    BY <1>9, <2>1, <2>2, HandledKeeps, FirstMessage DEF HandleNone
<1>10. CASE PollEmpty
  BY <1>10
  DEF PollEmpty, IInv, PipelineInv, EndedRunIsTerminal, Announced, Announces, StartedOnce,
      FinishedOnce, runnerVars, dbVars
<1>11. CASE Finally
  <2>1. /\ UNCHANGED <<streaming, rpc, graph, outcome, run>>
        /\ outcome = "running" /\ q \in Seq(Message)
    BY <1>11 DEF Finally, runnerVars, dbVars, IInv, TypeOK
  <2>2. CASE MustStop
    <3>1. q' = Append(q, Event("Stop")) /\ Event("Stop") \in Message
          /\ Event("Stop").type = "Stop" /\ ppc' = "putNone" /\ stopSent'
      BY <1>11, <2>2, MessageTypes
      DEF Finally, EventTypes, TerminalEvents, FinishEvents, NodeEvents
    <3>2. StartedOnce' /\ Announced'
      BY <2>1, <3>1, StartedOnceWhenPut, AnnouncedWhenPut DEF IInv, PipelineInv
    <3>3. Announces'
      BY <2>1, <3>1, AppendProperties DEF Announces, TerminalEvents, FinishEvents
    <3> QED
      BY <2>1, <3>1, <3>2, <3>3 DEF IInv, PipelineInv, EndedRunIsTerminal
  <2>3. CASE ~MustStop
    <3>1. PutAndPing(q) /\ ppc' = "get" /\ stopSent' = stopSent /\ ppc = "finally"
      BY <1>11, <2>3 DEF Finally
    <3>2. CASE q' = q
      BY <2>1, <3>1, <3>2
      DEF IInv, PipelineInv, EndedRunIsTerminal, Announced, Announces, StartedOnce, FinishedOnce
    <3>3. CASE q' = Append(q, Event("Ping"))
      <4>1. Event("Ping") \in Message /\ Event("Ping").type = "Ping"
        BY MessageTypes DEF EventTypes, TerminalEvents, FinishEvents, NodeEvents
      <4>2. StartedOnce' /\ Announced'
        BY <2>1, <3>3, <4>1, StartedOnceWhenPut, AnnouncedWhenPut DEF IInv, PipelineInv
      <4>3. Announces'
        BY <2>1, <3>1, <3>3, <4>1, AnnouncementStays DEF IInv, PipelineInv, Announces
      <4>4. ~stopSent => FinishedOnce'
        BY <2>1, <3>3, <4>1, FinishedOnceWhenPut DEF IInv, PipelineInv, FinishEvents
      <4> QED
        BY <2>1, <3>1, <4>2, <4>3, <4>4 DEF IInv, PipelineInv, EndedRunIsTerminal
    <3> QED
      BY <3>1, <3>2, <3>3 DEF PutAndPing
  <2> QED
    BY <2>2, <2>3
<1>12. CASE ListenerPutNone
  <2>1. /\ UNCHANGED <<streaming, rpc, graph, outcome, run, stopSent>>
        /\ ppc = "putNone" /\ ppc' = "get" /\ outcome = "running" /\ q \in Seq(Message)
    BY <1>12 DEF ListenerPutNone, runnerVars, dbVars, IInv, TypeOK, PipelineInv
  <2>2. /\ Len(q) \in Nat /\ Len(q') \in {Len(q) + 1, Len(q) + 2}
        /\ \A i \in 1 .. Len(q) : q'[i] = q[i]
        /\ q'[Len(q) + 1].type = "None"
        /\ Len(q') = Len(q) + 2 => q'[Len(q) + 2].type = "Ping"
    <3>1. /\ None \in Message /\ None.type = "None"
          /\ Event("Ping") \in Message /\ Event("Ping").type = "Ping"
      BY MessageTypes DEF EventTypes, TerminalEvents, FinishEvents, NodeEvents
    <3> DEFINE r == Append(q, None)
    <3>2. /\ Len(q) \in Nat /\ r \in Seq(Message) /\ Len(r) = Len(q) + 1
          /\ \A i \in 1 .. Len(q) : r[i] = q[i]
          /\ r[Len(q) + 1] = None
      BY <2>1, <3>1, AppendProperties
    <3>3. q' = r \/ q' = Append(r, Event("Ping"))
      BY <1>12 DEF ListenerPutNone, PutAndPing
    <3> HIDE DEF r
    <3>4. CASE q' = r
      BY <3>1, <3>2, <3>4
    <3>5. CASE q' = Append(r, Event("Ping"))
      BY <3>1, <3>2, <3>5, AppendProperties
    <3> QED
      BY <3>3, <3>4, <3>5
  <2>3. StartedOnce'
    BY <2>1, <2>2 DEF IInv, PipelineInv, StartedOnce
  <2>4. ~stopSent => FinishedOnce'
    <3>1. \A i \in 1 .. Len(q') :
            q'[i].type \in FinishEvents => i \in 1 .. Len(q) /\ q'[i] = q[i]
      BY <2>2 DEF FinishEvents
    <3> QED
      BY <2>1, <3>1 DEF IInv, PipelineInv, FinishedOnce
  <2>5. run \in Terminal \/ \E k \in 1 .. Len(q) : q[k].type \in TerminalEvents
    BY <2>1 DEF IInv, PipelineInv, Announces
  <2>6. Announced'
    <3> SUFFICES ASSUME NEW i \in 1 .. Len(q'), q'[i].type = "None", run \notin Terminal
                 PROVE  \E k \in 1 .. (i - 1) : q'[k].type \in TerminalEvents
      BY <2>1 DEF Announced
    <3>1. CASE i \in 1 .. Len(q)
      <4>1. PICK k \in 1 .. (i - 1) : q[k].type \in TerminalEvents
        BY <2>1, <2>2, <3>1 DEF IInv, PipelineInv, Announced
      <4> QED
        BY <2>2, <3>1, <4>1
    <3>2. CASE i = Len(q) + 1
      BY <2>2, <2>5, <3>2
    <3> QED
      BY <2>2, <3>1, <3>2
  <2>7. Announces'
    BY <2>1, <2>2, <2>5 DEF Announces
  <2> QED
    BY <2>1, <2>3, <2>4, <2>6, <2>7 DEF IInv, PipelineInv, EndedRunIsTerminal
<1>13. CASE Leave
  BY <1>13
  DEF Leave, IInv, PipelineInv, EndedRunIsTerminal, StartedOnce, runnerVars, dbVars
<1> QED
  BY <1>1, <1>2, <1>3, <1>4, <1>5, <1>6, <1>7, <1>8, <1>9, <1>10, <1>11, <1>12, <1>13
  DEF PipelineStep

LEMMA RunnerKeeps ==
  ASSUME IInv, RunnerStep
  PROVE  PipelineInv' /\ EndedRunIsTerminal'
<1>1. CASE PublishStarted
  BY <1>1, MessageTypes, RunnerPutKeeps
  DEF PublishStarted, EventTypes, TerminalEvents, FinishEvents, NodeEvents
<1>2. CASE PublishBranch
  BY <1>2, MessageTypes, RunnerPutKeeps
  DEF PublishBranch, EventTypes, TerminalEvents, FinishEvents, NodeEvents
<1>3. CASE PublishError
  BY <1>3, MessageTypes, RunnerPutKeeps
  DEF PublishError, EventTypes, TerminalEvents, FinishEvents, NodeEvents
<1>4. ASSUME NEW n \in Nodes, PublishNodeStarted(n)
      PROVE  PipelineInv' /\ EndedRunIsTerminal'
  BY <1>4, MessageTypes, RunnerPutKeeps DEF PublishNodeStarted, NodeEvents, FinishEvents
<1>5. ASSUME NEW n \in Nodes, NEW type \in NodeEvents, PublishNodeEnd(n, type)
      PROVE  PipelineInv' /\ EndedRunIsTerminal'
  BY <1>5, MessageTypes, RunnerPutKeeps DEF PublishNodeEnd, NodeEvents, FinishEvents
<1>6. ASSUME NEW type \in FinishEvents, PublishGraphEnd(type)
      PROVE  PipelineInv' /\ EndedRunIsTerminal'
  BY <1>6, MessageTypes, RunnerPutKeeps
  DEF PublishGraphEnd, GraphEnd, EventTypes, TerminalEvents, FinishEvents, NodeEvents
<1>7. CASE RunnerPutNone
  <2>1. /\ UNCHANGED <<streaming, graph, ppc, outcome, run, stopSent>>
        /\ rpc = "putNone" /\ rpc' = "check" /\ q \in Seq(Message)
    BY <1>7 DEF RunnerPutNone, dbVars, IInv, TypeOK
  <2>2. CASE ppc = "ended"
    <3>1. q' = q
      BY <1>7, <2>2 DEF RunnerPutNone, Put
    <3> QED
      BY <2>1, <2>2, <3>1 DEF IInv, PipelineInv, EndedRunIsTerminal, StartedOnce
  <2>3. CASE ppc # "ended"
    <3>1. q' = Append(q, None)
      BY <1>7, <2>3 DEF RunnerPutNone, Put
    <3>2. StartedOnce'
      BY <2>1, <3>1, MessageTypes, StartedOnceWhenPut DEF IInv, PipelineInv
    <3>3. outcome = "running" /\ ~stopSent => FinishedOnce'
      BY <2>1, <3>1, MessageTypes, FinishedOnceWhenPut DEF IInv, PipelineInv, FinishEvents
    <3>4. outcome = "running" => Announced'
      BY <2>1, <3>1, MessageTypes, AnnouncedWhenPut DEF IInv, PipelineInv, Announces
    <3>5. outcome = "running" => Announces'
      BY <2>1, <3>1, MessageTypes, AnnouncementStays DEF IInv, PipelineInv, Announces
    <3> QED
      BY <2>1, <3>2, <3>3, <3>4, <3>5 DEF IInv, PipelineInv, EndedRunIsTerminal
  <2> QED
    BY <2>2, <2>3
<1>8. CASE RunnerCheck
  BY <1>8
  DEF RunnerCheck, IInv, PipelineInv, EndedRunIsTerminal, Announced, Announces, StartedOnce,
      FinishedOnce, dbVars
<1>9. ASSUME NEW n \in Nodes, LoseNode(n)
      PROVE  PipelineInv' /\ EndedRunIsTerminal'
  BY <1>9
  DEF LoseNode, IInv, PipelineInv, EndedRunIsTerminal, Announced, Announces, StartedOnce,
      FinishedOnce, dbVars
<1> QED
  BY <1>1, <1>2, <1>3, <1>4, <1>5, <1>6, <1>7, <1>8, <1>9 DEF RunnerStep

LEMMA Invariance == IInv /\ [Next]_vars => IInv'
<1> SUFFICES ASSUME IInv, [Next]_vars PROVE PipelineInv' /\ EndedRunIsTerminal'
  BY TypeInvariant DEF IInv
<1>1. ASSUME Environment \/ UNCHANGED vars PROVE PipelineInv' /\ EndedRunIsTerminal'
  <2>1. UNCHANGED <<streaming, q, rpc, graph, ppc, outcome, run, stopSent>>
    BY <1>1 DEF Environment, UserStop, StopFlagExpires, TimeOut, vars, runnerVars, dbVars
  <2> QED
    BY <2>1 DEF IInv, PipelineInv, EndedRunIsTerminal, Announced, Announces, StartedOnce, FinishedOnce
<1> QED
  BY <1>1, RunnerKeeps, PipelineKeeps DEF Next

LEMMA IInvAlways == Spec => []IInv
<1>1. Init => PipelineInv /\ EndedRunIsTerminal
  <2> SUFFICES ASSUME Init PROVE PipelineInv /\ EndedRunIsTerminal
    OBVIOUS
  <2>1. Len(q) = 0 /\ run \notin Terminal /\ run = "absent"
    BY DEF Init, Terminal
  <2> QED
    BY <2>1 DEF Init, PipelineInv, EndedRunIsTerminal, Announced, Announces, StartedOnce, FinishedOnce
<1> QED
  BY <1>1, Invariance, TypeCorrect, PTL DEF Spec, IInv

\* However the two publishers interleave, and however many node executions
\* there are, a request that ended because the queue said so leaves a run with a
\* final status, and no blocking request ends with "Queue listening stopped
\* unexpectedly."
THEOREM EndedRunIsTerminalAlways == Spec => []EndedRunIsTerminal
BY IInvAlways, PTL DEF IInv

\* Unless listen() published a Stop in a stream, no message overwrites a final
\* status.
THEOREM TerminalIsFinalAlways == Spec => TerminalIsFinal
<1>1. IInv /\ [Next]_vars => [(run \in Terminal /\ (~streaming \/ ~stopSent)) => run' = run]_vars
  <2> SUFFICES ASSUME IInv, Next, run \in Terminal, ~streaming \/ ~stopSent
               PROVE  run' = run
    OBVIOUS
  <2>1. CASE HandleStarted
    BY <2>1, FirstMessage DEF HandleStarted, StartedOnce, Terminal
  <2>2. CASE HandleSuccess
    BY <2>2, FirstMessage DEF HandleSuccess, FinishedOnce, FinishEvents
  <2>3. CASE HandleFailed
    BY <2>3, FirstMessage DEF HandleFailed, FinishedOnce, FinishEvents
  <2>4. CASE RunnerStep
    BY <2>4 DEF RunnerStep, PublishStarted, PublishBranch, PublishError, PublishNodeStarted,
                PublishNodeEnd, PublishGraphEnd, LoseNode, RunnerPut, RunnerPutNone, RunnerCheck, dbVars
  <2>5. CASE Environment
    BY <2>5 DEF Environment, UserStop, StopFlagExpires, TimeOut, dbVars
  <2>6. CASE HandlePing \/ HandleBranch \/ HandleError \/ HandleNodeStarted \/ HandleNodeEnd
             \/ HandleNone \/ PollEmpty \/ Finally \/ ListenerPutNone \/ Leave
    BY <2>6 DEF HandlePing, HandleBranch, HandleError, HandleNodeStarted, HandleNodeEnd,
                HandleNone, PollEmpty, Finally, ListenerPutNone, Leave, Raise, dbVars
  <2> QED
    BY <2>1, <2>2, <2>3, <2>4, <2>5, <2>6 DEF Next, PipelineStep
<1> QED
  BY <1>1, IInvAlways, PTL DEF Spec, TerminalIsFinal
=============================================================================
