------------------------- MODULE GraphEngine_proofs -------------------------
(***************************************************************************)
(* What GraphEngine guarantees for every graph and every size of the pool. *)
(***************************************************************************)
EXTENDS GraphEngine, FiniteSetTheorems, SequenceTheorems, TLAPS

(***************************************************************************)
(* Types                                                                   *)
(***************************************************************************)

\* Branches are nodes of a parallel, so that it is known where they end to.
InParallel ==
  \A f \in Frames : \A b \in edges[f] \cup futures[f] : ParallelOf[b] # None

Labels == {"absent", "queued", "top", "start", "count", "node", "route", "excepted",
           "submit", "collect", "wait", "finish", "raise", "exit", "done"}
Reports == {"NodeFailed", "BranchSucceeded", "BranchFailed", "None"}
Results == {"running", "succeeded", "partial", "failed", "abandoned"}

LEMMA TypeInit == Init => TypeOK /\ InParallel
<1> SUFFICES ASSUME Init PROVE TypeOK /\ InParallel
  OBVIOUS
<1>1. InParallel
  BY DEF Init, InParallel
<1>2. pc \in [Frames -> Labels] /\ cur \in [Frames -> Nodes]
  BY DEF Init, Labels, Frames
<1>3. /\ edges \in [Frames -> SUBSET Frames] /\ futures \in [Frames -> SUBSET Frames]
      /\ parent \in [Frames -> Frames \cup {None}]
  BY DEF Init
<1>4. inbox \in [Frames -> Seq(Reports)] /\ work \in Seq(Frames)
  BY DEF Init
<1>5. /\ succeeded \in [Frames -> Nat] /\ seen \in [Frames -> Nat] /\ starts \in [Nodes -> Nat]
      /\ submitCount \in Int /\ steps \in Nat /\ refused \in Nat
  BY DEF Init
<1> QED
  BY <1>1, <1>2, <1>3, <1>4, <1>5 DEF Init, TypeOK, Labels, Reports

\* Putting an event into a queue, or giving it to run().
LEMMA EmitType ==
  ASSUME TypeOK, NEW f \in Frames, NEW event \in Reports, Emit(f, event)
  PROVE  inbox' \in [Frames -> Seq(Reports)] /\ result' \in Results
<1>1. inbox \in [Frames -> Seq(Reports)] /\ result \in Results
  BY DEF TypeOK, Reports, Results
<1>2. CASE f = Root
  BY <1>1, <1>2 DEF Emit, Results
<1>3. CASE f # Root
  <2>1. CASE parent[f] \in Frames
    <3>1. Append(inbox[parent[f]], event) \in Seq(Reports)
      BY <1>1, <2>1
    <3> QED
      BY <1>1, <1>3, <3>1 DEF Emit
  <2>2. CASE parent[f] \notin Frames
    BY <1>1, <1>3, <2>2 DEF Emit
  <2> QED
    BY <2>1, <2>2
<1> QED
  BY <1>2, <1>3

LEMMA GotoType ==
  ASSUME TypeOK, NEW f \in Frames, NEW label \in Labels, Goto(f, label)
  PROVE  pc' \in [Frames -> Labels]
BY DEF Goto, TypeOK, Labels

LEMMA ContinueType ==
  ASSUME TypeOK, NEW f \in Frames, NEW n \in Nodes \cup {None}, Continue(f, n)
  PROVE  pc' \in [Frames -> Labels] /\ cur' \in [Frames -> Nodes]
BY DEF Continue, Goto, TypeOK, Labels

\* The variables that no node and no event changes.
LEMMA PlainStep ==
  ASSUME TypeOK, InParallel, NEW f \in Frames,
         \/ LoopTop(f) \/ NodeStart(f) \/ NodeCounted(f) \/ NodeSucceeds(f) \/ NodeExcepts(f)
         \/ Submitted(f) \/ Exit(f) \/ CollectFailed(f) \/ CollectNone(f)
         \/ CollectSucceeded(f)
  PROVE  TypeOK' /\ InParallel'
<1>1. InParallel'
  BY DEF InParallel, LoopTop, NodeStart, NodeCounted, NodeSucceeds, NodeExcepts, Submitted,
         Exit, CollectFailed, CollectNone, CollectSucceeded, frameVars
<1>2. CASE LoopTop(f) \/ NodeSucceeds(f) \/ NodeExcepts(f) \/ Submitted(f) \/ Exit(f)
  <2>1. pc' \in [Frames -> Labels]
    BY <1>2, GotoType DEF LoopTop, NodeSucceeds, NodeExcepts, Submitted, Exit, Labels
  <2>2. submitCount' \in Int
    <3>1. submitCount \in Int
      BY DEF TypeOK
    <3> QED
      BY <1>2, <3>1 DEF LoopTop, NodeSucceeds, NodeExcepts, Submitted, Exit
  <2>4. exceptions' \in BOOLEAN
    <3>1. exceptions \in BOOLEAN
      BY DEF TypeOK
    <3> QED
      BY <1>2, <3>1 DEF LoopTop, NodeSucceeds, NodeExcepts, Submitted, Exit
  <2>3. UNCHANGED <<frameVars, inbox, work, stepVars, timedOut, result, refused, failed, starts,
                    lost>>
    BY <1>2 DEF LoopTop, NodeSucceeds, NodeExcepts, Submitted, Exit
  <2> QED
    BY <1>1, <2>1, <2>2, <2>3, <2>4 DEF TypeOK, frameVars, stepVars, Labels
<1>3. CASE NodeStart(f) \/ NodeCounted(f)
  <2>1. pc' \in [Frames -> Labels]
    BY <1>3, GotoType DEF NodeStart, NodeCounted, Labels
  <2>2. /\ seen' \in [Frames -> Nat] /\ steps' \in Nat /\ starts' \in [Nodes -> Nat]
    <3>1. /\ seen \in [Frames -> Nat] /\ steps \in Nat /\ starts \in [Nodes -> Nat]
          /\ cur[f] \in Nodes
      BY DEF TypeOK
    <3>2. CASE NodeStart(f)
      BY <3>1, <3>2 DEF NodeStart
    <3>3. CASE NodeCounted(f)
      BY <3>1, <3>3 DEF NodeCounted
    <3> QED
      BY <1>3, <3>2, <3>3
  <2>4. lost' \in BOOLEAN
    <3>1. lost \in BOOLEAN
      BY DEF TypeOK
    <3> QED
      BY <1>3, <3>1 DEF NodeStart, NodeCounted
  <2>3. UNCHANGED <<frameVars, inbox, work, submitCount, exceptions, timedOut, result, refused,
                    failed>>
    BY <1>3 DEF NodeStart, NodeCounted
  <2> QED
    BY <1>1, <2>1, <2>2, <2>3, <2>4 DEF TypeOK, frameVars, Labels
<1>4. CASE CollectFailed(f) \/ CollectNone(f)
  <2>1. inbox[f] \in Seq(Reports) /\ inbox[f] # <<>>
    BY <1>4 DEF TypeOK, CollectFailed, CollectNone, Collect, Reports
  <2>2. Tail(inbox[f]) \in Seq(Reports)
    BY <2>1
  <2>3. inbox' \in [Frames -> Seq(Reports)]
    BY <1>4, <2>2 DEF TypeOK, CollectFailed, CollectNone, Reports
  <2> QED
    BY <1>1, <1>4, <2>3
       DEF TypeOK, CollectFailed, CollectNone, Goto, frameVars, stepVars, Reports
<1>5. CASE CollectSucceeded(f)
  <2>1. inbox[f] \in Seq(Reports) /\ inbox[f] # <<>>
    BY <1>5 DEF TypeOK, CollectSucceeded, Collect, Reports
  <2>2. Tail(inbox[f]) \in Seq(Reports) /\ Append(Tail(inbox[f]), "None") \in Seq(Reports)
    BY <2>1 DEF Reports
  <2>3. inbox' \in [Frames -> Seq(Reports)]
    BY <1>5, <2>2 DEF TypeOK, CollectSucceeded, Reports
  <2> QED
    BY <1>1, <1>5, <2>3 DEF TypeOK, CollectSucceeded, stepVars, Reports
<1> QED
  BY <1>1, <1>2, <1>3, <1>4, <1>5

LEMMA EmittingStep ==
  ASSUME TypeOK, InParallel, NEW f \in Frames,
         NodeFails(f) \/ NodeRaises(f) \/ Finish(f) \/ Raise(f)
  PROVE  TypeOK' /\ InParallel'
<1>1. InParallel'
  BY DEF InParallel, NodeFails, NodeRaises, Finish, Raise, frameVars
<1>2. inbox' \in [Frames -> Seq(Reports)] /\ result' \in Results
  <2>1. CASE NodeFails(f) \/ NodeRaises(f)
    BY <2>1, EmitType DEF NodeFails, NodeRaises, Reports
  <2>2. CASE Raise(f)
    BY <2>2, EmitType DEF Raise, Reports
  <2>3. CASE Finish(f)
    BY <2>3, EmitType DEF Finish, Reports, Results, TypeOK
  <2> QED
    BY <2>1, <2>2, <2>3
<1>3. pc' \in [Frames -> Labels]
  BY GotoType DEF NodeFails, NodeRaises, Finish, Raise, Labels
<1>4. failed' \subseteq Nodes
  BY DEF NodeFails, NodeRaises, Finish, Raise, TypeOK
<1> QED
  BY <1>1, <1>2, <1>3, <1>4
     DEF TypeOK, NodeFails, NodeRaises, Finish, Raise, frameVars, stepVars, Labels, Reports,
         Results

LEMMA CollectNodeFailedStep ==
  ASSUME TypeOK, InParallel, NEW f \in Frames, CollectNodeFailed(f)
  PROVE  TypeOK' /\ InParallel'
<1>1. \A g \in Frames : inbox[g] \in Seq(Reports)
  BY DEF TypeOK, Reports
<1>2. inbox[f] # <<>> /\ Tail(inbox[f]) \in Seq(Reports)
  BY <1>1 DEF CollectNodeFailed, Collect
<1>3. \A g \in Frames : Append(inbox[g], "NodeFailed") \in Seq(Reports)
  BY <1>1 DEF Reports
<1>4. inbox' \in [Frames -> Seq(Reports)]
  BY <1>1, <1>2, <1>3 DEF CollectNodeFailed
<1>5. pc' \in [Frames -> Labels] /\ result' \in Results
  BY DEF CollectNodeFailed, Goto, TypeOK, Labels, Results
<1> QED
  BY <1>4, <1>5 DEF CollectNodeFailed, TypeOK, InParallel, frameVars, stepVars, Labels, Reports,
     Results

LEMMA RouteStep ==
  ASSUME TypeOK, InParallel, NEW f \in Frames, Route(f)
  PROVE  TypeOK' /\ InParallel'
<1>1. PICK targets \in Alternatives[cur[f]] \cup {{}} :
        \/ /\ targets = {} \/ Cardinality(targets) = 1
           /\ \E n \in targets \cup {None} : Continue(f, n)
           /\ UNCHANGED edges
        \/ /\ \E first \in targets : Fork(f, targets, first)
           /\ UNCHANGED cur
  BY DEF Route
<1>2. targets \subseteq Nodes
  BY <1>1, GraphEngineAssumption DEF TypeOK
<1>3. UNCHANGED <<futures, succeeded, parent, inbox, work, submitCount, stepVars,
                  exceptions, timedOut, result, refused, failed, starts, lost>>
  BY DEF Route
<1>4. CASE /\ \E n \in targets \cup {None} : Continue(f, n)
           /\ UNCHANGED edges
  <2>1. pc' \in [Frames -> Labels] /\ cur' \in [Frames -> Nodes]
    BY <1>2, <1>4, ContinueType
  <2> QED
    BY <1>3, <1>4, <2>1 DEF TypeOK, InParallel, stepVars, Labels
<1>5. CASE /\ \E first \in targets : Fork(f, targets, first)
           /\ UNCHANGED cur
  <2>1. PICK first \in targets : Fork(f, targets, first)
    BY <1>5
  <2>2. pc' \in [Frames -> Labels]
    BY <2>1 DEF Fork, Goto, TypeOK, Labels
  <2>3. /\ edges' \in [Frames -> SUBSET Frames]
        /\ \A g \in Frames : \A b \in edges'[g] : ParallelOf[b] # None
    <3>1. edges \in [Frames -> SUBSET Frames]
      BY DEF TypeOK
    <3>2. CASE ParallelOf[first] = None
      BY <2>1, <3>1, <3>2 DEF Fork, InParallel
    <3>3. CASE ParallelOf[first] # None
      <4> DEFINE branches == {t \in targets : ParallelOf[t] = ParallelOf[first]}
      <4>1. edges' = [edges EXCEPT ![f] = branches]
        BY <2>1, <3>3 DEF Fork
      <4>2. branches \in SUBSET Frames /\ \A b \in branches : ParallelOf[b] # None
        BY <1>2, <3>3 DEF Frames
      <4> HIDE DEF branches
      <4> QED
        BY <3>1, <4>1, <4>2 DEF InParallel
    <3> QED
      BY <3>2, <3>3
  <2> QED
    BY <1>3, <1>5, <2>2, <2>3 DEF TypeOK, InParallel, stepVars, Labels
<1> QED
  BY <1>1, <1>4, <1>5

LEMMA SubmitTypeStep ==
  ASSUME TypeOK, InParallel, NEW f \in Frames, Submit(f)
  PROVE  TypeOK' /\ InParallel'
<1>1. UNCHANGED <<cur, succeeded, inbox, stepVars, exceptions, timedOut, result, failed, starts,
                  lost>>
      /\ submitCount' \in Int
  BY DEF Submit, TypeOK
<1>2. CASE submitCount' > MaxSubmit
  <2>1. /\ refused' = refused + 1 /\ UNCHANGED <<edges, futures, parent, work>>
        /\ Goto(f, "raise")
    BY <1>2 DEF Submit
  <2>2. pc' \in [Frames -> Labels]
    BY <2>1, GotoType DEF Labels
  <2> QED
    BY <1>1, <2>1, <2>2 DEF TypeOK, InParallel, stepVars, Labels
<1>3. CASE ~(submitCount' > MaxSubmit)
  <2>1. PICK b \in edges[f] :
               /\ edges' = [edges EXCEPT ![f] = @ \ {b}]
               /\ futures' = [futures EXCEPT ![f] = @ \cup {b}]
               /\ parent' = [parent EXCEPT ![b] = f]
               /\ work' = Append(work, b)
               /\ pc' = [pc EXCEPT ![b] = "queued"]
               /\ refused' = refused
    BY <1>3 DEF Submit
  <2>2. b \in Frames
    BY DEF TypeOK
  <2>3. /\ edges' \in [Frames -> SUBSET Frames] /\ futures' \in [Frames -> SUBSET Frames]
        /\ parent' \in [Frames -> Frames \cup {None}] /\ work' \in Seq(Frames)
        /\ pc' \in [Frames -> Labels]
    BY <2>1, <2>2 DEF TypeOK, Labels
  <2>4. InParallel'
    BY <2>1, <2>2 DEF InParallel, TypeOK
  <2> QED
    BY <1>1, <2>1, <2>3, <2>4 DEF TypeOK, stepVars, Labels
<1> QED
  BY <1>2, <1>3

LEMMA JoinTypeStep ==
  ASSUME TypeOK, InParallel, NEW f \in Frames, Join(f)
  PROVE  TypeOK' /\ InParallel'
<1>1. PICK b \in futures[f] : Continue(f, EndTo[ParallelOf[b]])
  BY DEF Join
<1>2. EndTo[ParallelOf[b]] \in Nodes \cup {None}
  <2>1. b \in Nodes /\ ParallelOf[b] # None
    BY DEF TypeOK, InParallel, Frames
  <2>2. ParallelOf[b] \in Parallels
    BY <2>1 DEF Parallels
  <2> QED
    BY <2>2, GraphEngineAssumption
<1>3. pc' \in [Frames -> Labels] /\ cur' \in [Frames -> Nodes]
  BY <1>1, <1>2, ContinueType
<1>4. /\ futures' \in [Frames -> SUBSET Frames] /\ succeeded' \in [Frames -> Nat]
      /\ UNCHANGED <<edges, parent, inbox, work, submitCount, stepVars, exceptions,
                     timedOut, result, refused, failed, starts, lost>>
  BY DEF Join, TypeOK
<1>5. InParallel'
  BY DEF Join, InParallel, TypeOK
<1> QED
  BY <1>3, <1>4, <1>5 DEF TypeOK, stepVars, Labels

LEMMA TypeStep ==
  ASSUME TypeOK, InParallel, [Next]_vars
  PROVE  TypeOK' /\ InParallel'
<1>1. ASSUME NEW f \in Frames, FrameStep(f)
      PROVE  TypeOK' /\ InParallel'
  BY <1>1, PlainStep, EmittingStep, CollectNodeFailedStep, RouteStep, SubmitTypeStep,
     JoinTypeStep
     DEF FrameStep, NodeEnd
<1>2. CASE TakeWork
  <2>1. Head(work) \in Frames /\ Tail(work) \in Seq(Frames)
    BY <1>2 DEF TakeWork, TypeOK
  <2>2. pc' \in [Frames -> Labels]
    BY <1>2, <2>1, GotoType DEF TakeWork, Labels
  <2> QED
    BY <1>2, <2>1, <2>2 DEF TakeWork, TypeOK, InParallel, frameVars, stepVars, Labels
<1>3. CASE Abandon
  <2>1. pc' \in [Frames -> Labels]
    BY <1>3, GotoType, GraphEngineAssumption DEF Abandon, Frames, Labels
  <2> QED
    BY <1>3, <2>1 DEF Abandon, TypeOK, InParallel, frameVars, stepVars, Labels
<1>4. CASE TimeOut
  BY <1>4 DEF TimeOut, TypeOK, InParallel, frameVars, stepVars
<1>5. CASE UNCHANGED vars
  BY <1>5 DEF vars, TypeOK, InParallel, frameVars, stepVars
<1> QED
  BY <1>1, <1>2, <1>3, <1>4, <1>5 DEF Next

\* Every reachable state of the engine is well typed, in every graph: a frame
\* never runs without a node, whatever the edges and parallels it follows
\* (GraphEngine._run, _run_parallel_branches).
THEOREM TypeCorrect == Spec => []TypeOK
<1>1. Init => TypeOK /\ InParallel
  BY TypeInit
<1>2. TypeOK /\ InParallel /\ [Next]_vars => TypeOK' /\ InParallel'
  BY TypeStep
<1> QED
  BY <1>1, <1>2, PTL DEF Spec

(***************************************************************************)
(* Counters and joins, in graphs where every branch starts at one fork     *)
(* (ForksApart) and as long as no node runs twice (NodesRunOnce): the next *)
(* section shows that none does                                            *)
(***************************************************************************)

\* Where a frame is between the start of a node and the choice of the next.
Executing == {"count", "node", "excepted", "route"}

\* Where a frame has no branches.
Alone == {"absent", "queued", "top", "start", "count", "node", "excepted", "route", "finish"}

\* The node was executed, and what follows it is decided.
Decided(n) == starts[n] # 0 /\ \A f \in Frames : pc[f] \in Executing => cur[f] # n

ForkedFrom(b) == \E n \in Nodes : Decided(n) /\ Forks(n, b)

\* A node is executed by one frame.
OneEach ==
  \A f \in Frames : pc[f] \in Executing =>
    /\ starts[cur[f]] # 0
    /\ \A g \in Frames : pc[g] \in Executing /\ cur[g] = cur[f] => g = f

RootOut == pc[Root] \notin {"absent", "queued", "exit"}

\* A branch not yet submitted is nobody else's, and a fork behind it is over.
Fresh ==
  \A f \in Frames : \A b \in edges[f] :
    /\ b # Root /\ pc[b] = "absent" /\ ForkedFrom(b)
    /\ \A g \in Frames : b \in edges[g] => g = f

Traced == \A b \in Frames \ {Root} : pc[b] # "absent" => ForkedFrom(b)

InWork ==
  /\ \A f \in Frames : pc[f] = "queued" <=> \E i \in 1..Len(work) : work[i] = f
  /\ \A i, k \in 1..Len(work) : work[i] = work[k] => i = k

\* A branch under way is among the futures its frame will wait for.
Waited == \A f, b \in Frames : parent[b] = f /\ pc[b] # "done" => b \in futures[f]

AloneIsFree == \A f \in Frames : pc[f] \in Alone => futures[f] = {}

EngineInv ==
  /\ OneEach /\ RootOut /\ Fresh /\ Traced /\ InWork /\ Waited /\ AloneIsFree
  /\ SubmitCountAccounts

LEMMA RunningFinite == IsFiniteSet(Running)
<1>1. IsFiniteSet(Frames) /\ Running \subseteq Frames
  BY GraphEngineAssumption DEF Frames, Running
<1> QED
  BY <1>1, FS_Subset

LEMMA EngineInit == Init => EngineInv
<1> SUFFICES ASSUME Init PROVE EngineInv
  OBVIOUS
<1>1. Running = {}
  BY DEF Init, Running, Waiting, Frames
<1>2. SubmitCountAccounts
  <2>1. Cardinality(Running) = 0
    BY <1>1, FS_EmptySet
  <2> QED
    BY <2>1 DEF Init, SubmitCountAccounts
<1>3. OneEach /\ RootOut /\ Fresh /\ Traced
  BY GraphEngineAssumption DEF Init, OneEach, RootOut, Fresh, Traced, Executing, Frames
<1>4. InWork
  BY DEF Init, InWork, Frames
<1>5. Waited /\ AloneIsFree
  BY GraphEngineAssumption DEF Init, Waited, AloneIsFree, Frames
<1> QED
  BY <1>2, <1>3, <1>4, <1>5 DEF EngineInv

\* A frame goes on, ends with its work, or has joined its branches.
Moves(f, label) ==
  /\ pc[f] \notin Waiting \cup {"exit"} /\ label \notin {"absent", "queued"}
  /\ label = "exit" => f # Root
  /\ label = "done" => f = Root
  /\ pc' = [pc EXCEPT ![f] = label]
  /\ label \in Executing => pc[f] \in Executing /\ cur' = cur
  /\ \A g \in Frames \ {f} : cur'[g] = cur[g] /\ futures'[g] = futures[g]
  /\ futures'[f] = futures[f] \/ AllDone(f)
  /\ label \in Alone => futures'[f] = {}
  /\ UNCHANGED <<edges, parent, work, submitCount, refused, starts>>

LEMMA MovesStep ==
  ASSUME TypeOK, EngineInv, NEW f \in Frames, NEW label \in Labels, Moves(f, label)
  PROVE  EngineInv'
<1>0. /\ pc \in [Frames -> Labels] /\ futures \in [Frames -> SUBSET Frames]
      /\ edges \in [Frames -> SUBSET Frames]
  BY DEF TypeOK, Labels
<1>1. /\ pc'[f] = label
      /\ \A g \in Frames \ {f} : pc'[g] = pc[g]
  BY <1>0 DEF Moves
<1>2. Running' = Running
  BY <1>1 DEF Moves, Running, Waiting
<1>3. SubmitCountAccounts'
  BY <1>2 DEF EngineInv, SubmitCountAccounts, Moves
<1>4. \A g \in Frames : pc'[g] \in Executing => pc[g] \in Executing /\ cur'[g] = cur[g]
  BY <1>1 DEF Moves
<1>5. OneEach'
  BY <1>4 DEF EngineInv, OneEach, Moves
<1>6. \A n \in Nodes : Decided(n) => Decided(n)'
  BY <1>4 DEF Decided, Moves
<1>7. \A b \in Frames : ForkedFrom(b) => ForkedFrom(b)'
  BY <1>6 DEF ForkedFrom
<1>8. RootOut'
  BY <1>1, GraphEngineAssumption DEF EngineInv, RootOut, Moves, Frames
<1>9. Fresh'
  <2>1. \A g \in Frames : \A b \in edges[g] : b \in Frames /\ pc'[b] = pc[b]
    BY <1>0, <1>1 DEF EngineInv, Fresh, Moves, Waiting
  <2> QED
    BY <2>1, <1>7 DEF EngineInv, Fresh, Moves
<1>10. Traced'
  BY <1>1, <1>7 DEF EngineInv, Traced, Moves, Waiting
<1>11. InWork'
  BY <1>1 DEF EngineInv, InWork, Moves, Waiting
<1>12. Waited'
  BY <1>0, <1>1 DEF EngineInv, Waited, Moves, Waiting, AllDone
<1>13. AloneIsFree'
  BY <1>1 DEF EngineInv, AloneIsFree, Moves
<1> QED
  BY <1>3, <1>5, <1>8, <1>9, <1>10, <1>11, <1>12, <1>13 DEF EngineInv

LEMMA StillStep ==
  ASSUME EngineInv, UNCHANGED <<pc, cur, edges, futures, parent, work, submitCount, refused, starts>>
  PROVE  EngineInv'
BY DEF EngineInv, OneEach, RootOut, Fresh, Traced, InWork, Waited, AloneIsFree,
       SubmitCountAccounts, Running, ForkedFrom, Decided

LEMMA LoopMoves ==
  ASSUME TypeOK, EngineInv, NEW f \in Frames,
         LoopTop(f) \/ NodeCounted(f) \/ NodeEnd(f)
  PROVE  \E label \in Labels : Moves(f, label)
<1> USE DEF Moves, Goto, frameVars, Waiting, Executing, Alone, Labels
<1>0. \A g \in Frames : pc[g] \in Alone => futures[g] = {}
  BY DEF EngineInv, AloneIsFree
<1>1. CASE LoopTop(f)
  <2>1. Moves(f, IF OutOfLimits THEN "raise" ELSE "start")
    BY <1>0, <1>1 DEF LoopTop
  <2> QED
    BY <2>1
<1>2. CASE NodeCounted(f)
  <2>1. Moves(f, "node")
    BY <1>0, <1>2 DEF NodeCounted
  <2> QED
    BY <2>1
<1>3. CASE NodeSucceeds(f)
  <2>1. Moves(f, "route")
    BY <1>0, <1>3 DEF NodeSucceeds
  <2> QED
    BY <2>1
<1>4. CASE NodeExcepts(f)
  <2>1. Moves(f, "excepted")
    BY <1>0, <1>4 DEF NodeExcepts
  <2> QED
    BY <2>1
<1>5. CASE NodeFails(f)
  <2>1. Moves(f, IF f = Root THEN "done" ELSE "route")
    BY <1>0, <1>5 DEF NodeFails
  <2> QED
    BY <2>1
<1>6. CASE NodeRaises(f)
  <2>1. Moves(f, IF f = Root THEN "done" ELSE "raise")
    BY <1>0, <1>6 DEF NodeRaises
  <2> QED
    BY <2>1
<1> QED
  BY <1>1, <1>2, <1>3, <1>4, <1>5, <1>6 DEF NodeEnd

LEMMA CollectMoves ==
  ASSUME TypeOK, EngineInv, NEW f \in Frames,
         Submitted(f) \/ CollectFailed(f) \/ CollectNone(f) \/ Finish(f) \/ Raise(f)
  PROVE  \E label \in Labels : Moves(f, label)
<1> USE DEF Moves, Goto, frameVars, Waiting, Executing, Alone, Labels
<1>1. CASE Submitted(f)
  <2>1. Moves(f, "collect")
    BY <1>1 DEF Submitted
  <2> QED
    BY <2>1
<1>2. CASE CollectFailed(f)
  <2>1. Moves(f, "raise")
    BY <1>2 DEF CollectFailed, Collect
  <2> QED
    BY <2>1
<1>3. CASE CollectNone(f)
  <2>1. Moves(f, "wait")
    BY <1>3 DEF CollectNone, Collect
  <2> QED
    BY <2>1
<1>4. CASE Finish(f) \/ Raise(f)
  <2>1. Moves(f, IF f = Root THEN "done" ELSE "exit")
    BY <1>4 DEF Finish, Raise
  <2> QED
    BY <2>1
<1> QED
  BY <1>1, <1>2, <1>3, <1>4

\* The end of a frame's turn: to the next node, or to its end.
LEMMA ContinueMoves ==
  ASSUME TypeOK, NEW f \in Frames, NEW next, Continue(f, next)
  PROVE  \E label \in {"top", "finish"} :
           /\ pc' = [pc EXCEPT ![f] = label]
           /\ \A g \in Frames \ {f} : cur'[g] = cur[g]
BY DEF Continue, Goto, TypeOK

LEMMA JoinMoves ==
  ASSUME TypeOK, EngineInv, NEW f \in Frames, Join(f)
  PROVE  \E label \in Labels : Moves(f, label)
<1>1. PICK b \in futures[f] : Continue(f, EndTo[ParallelOf[b]])
  BY DEF Join
<1>2. PICK label \in {"top", "finish"} :
        /\ pc' = [pc EXCEPT ![f] = label]
        /\ \A g \in Frames \ {f} : cur'[g] = cur[g]
  BY <1>1, ContinueMoves
<1>3. futures'[f] = {} /\ \A g \in Frames \ {f} : futures'[g] = futures[g]
  BY DEF Join, TypeOK
<1>4. Moves(f, label)
  BY <1>2, <1>3 DEF Join, Moves, Waiting, Executing, Alone
<1> QED
  BY <1>4 DEF Labels

LEMMA NodeStartStep ==
  ASSUME TypeOK, EngineInv, NodesRunOnce', NEW f \in Frames, NodeStart(f)
  PROVE  EngineInv'
<1>0. /\ pc \in [Frames -> Labels] /\ starts \in [Nodes -> Nat] /\ cur[f] \in Nodes
      /\ edges \in [Frames -> SUBSET Frames]
  BY DEF TypeOK, Labels
<1>1. /\ pc[f] = "start" /\ pc'[f] = "count"
      /\ \A g \in Frames \ {f} : pc'[g] = pc[g]
      /\ starts'[cur[f]] = starts[cur[f]] + 1
      /\ \A n \in Nodes \ {cur[f]} : starts'[n] = starts[n]
      /\ UNCHANGED <<cur, edges, futures, parent, work, submitCount, refused>>
  BY <1>0 DEF NodeStart, Goto, frameVars
<1>2. starts[cur[f]] = 0
  BY <1>0, <1>1 DEF NodesRunOnce
<1>3. Running' = Running
  BY <1>1 DEF Running, Waiting
<1>4. SubmitCountAccounts'
  BY <1>1, <1>3 DEF EngineInv, SubmitCountAccounts
<1>5. \A g \in Frames \ {f} : pc[g] \in Executing => cur[g] # cur[f]
  BY <1>2 DEF EngineInv, OneEach
<1>6. OneEach'
  <2>1. \A g \in Frames : cur[g] \in Nodes
    BY DEF TypeOK
  <2>2. starts'[cur[f]] # 0
    BY <1>1, <1>2
  <2> QED
    BY <1>1, <1>5, <2>1, <2>2 DEF EngineInv, OneEach
<1>7. \A n \in Nodes : Decided(n) => Decided(n)'
  <2>1. ASSUME NEW n \in Nodes, Decided(n) PROVE Decided(n)'
    <3>1. n # cur[f]
      BY <1>2, <2>1 DEF Decided
    <3> QED
      BY <1>1, <2>1, <3>1 DEF Decided
  <2> QED
    BY <2>1
<1>8. \A b \in Frames : ForkedFrom(b) => ForkedFrom(b)'
  BY <1>7 DEF ForkedFrom
<1>9. RootOut' /\ AloneIsFree'
  BY <1>1, GraphEngineAssumption DEF EngineInv, RootOut, AloneIsFree, Alone, Frames
<1>10. Fresh' /\ Traced'
  <2>1. \A g \in Frames : \A b \in edges[g] : b \in Frames /\ pc'[b] = pc[b]
    BY <1>0, <1>1 DEF EngineInv, Fresh
  <2>2. Fresh'
    BY <1>1, <1>8, <2>1 DEF EngineInv, Fresh
  <2>3. Traced'
    BY <1>1, <1>8 DEF EngineInv, Traced
  <2> QED
    BY <2>2, <2>3
<1>11. InWork' /\ Waited'
  <2>1. \A g \in Frames : (pc'[g] = "queued" <=> pc[g] = "queued")
                       /\ (pc'[g] = "done" <=> pc[g] = "done")
    BY <1>1
  <2> QED
    BY <1>1, <2>1 DEF EngineInv, InWork, Waited
<1> QED
  BY <1>4, <1>6, <1>9, <1>10, <1>11 DEF EngineInv

\* A node forks into branches that nobody forked into before.
LEMMA ForkStep ==
  ASSUME ForksApart, TypeOK, EngineInv, NEW f \in Frames, pc[f] \in Executing,
         NEW branches \in SUBSET Nodes, \A b \in branches : Forks(cur[f], b),
         edges' = [edges EXCEPT ![f] = branches], pc' = [pc EXCEPT ![f] = "submit"],
         UNCHANGED <<cur, futures, parent, work, submitCount, refused, starts>>
  PROVE  EngineInv'
<1>0. /\ pc \in [Frames -> Labels] /\ starts \in [Nodes -> Nat] /\ cur[f] \in Nodes
      /\ edges \in [Frames -> SUBSET Frames]
  BY DEF TypeOK, Labels
<1>1. /\ pc'[f] = "submit" /\ \A g \in Frames \ {f} : pc'[g] = pc[g]
      /\ edges'[f] = branches /\ \A g \in Frames \ {f} : edges'[g] = edges[g]
  BY <1>0
<1>2. Running' = Running
  BY <1>1 DEF Running, Waiting, Executing
<1>3. SubmitCountAccounts'
  BY <1>2 DEF EngineInv, SubmitCountAccounts
<1>4. \A g \in Frames : pc'[g] \in Executing => pc[g] \in Executing /\ g # f
  BY <1>1 DEF Executing
<1>5. OneEach'
  BY <1>4 DEF EngineInv, OneEach
<1>6. \A n \in Nodes : Decided(n) => Decided(n)'
  BY <1>4 DEF Decided
<1>7. \A b \in Frames : ForkedFrom(b) => ForkedFrom(b)'
  BY <1>6 DEF ForkedFrom
<1>8. Decided(cur[f])'
  BY <1>4 DEF EngineInv, OneEach, Decided
<1>9. \A b \in branches : b # Root /\ ~ForkedFrom(b)
  <2>1. ~Decided(cur[f])
    BY DEF Decided
  <2> QED
    BY <1>0, <2>1 DEF ForksApart, ForkedFrom
<1>10. \A b \in branches : pc[b] = "absent" /\ \A g \in Frames : b \notin edges[g]
  BY <1>9 DEF EngineInv, Traced, Fresh, Frames
<1>11. \A b \in branches : pc'[b] = "absent" /\ ForkedFrom(b)'
  BY <1>0, <1>1, <1>8, <1>10 DEF ForkedFrom, Executing, Frames
<1>12. RootOut' /\ AloneIsFree'
  BY <1>1, GraphEngineAssumption DEF EngineInv, RootOut, AloneIsFree, Alone, Frames
<1>13. Fresh'
  <2>1. \A g \in Frames : \A b \in edges[g] : b \in Frames /\ pc'[b] = pc[b]
    BY <1>0, <1>1 DEF EngineInv, Fresh, Executing
  <2>2. ASSUME NEW g \in Frames, NEW b \in edges'[g]
        PROVE  /\ b # Root /\ pc'[b] = "absent" /\ ForkedFrom(b)'
               /\ \A h \in Frames : b \in edges'[h] => h = g
    <3>1. CASE g = f
      BY <1>1, <1>9, <1>10, <1>11, <2>2, <3>1
    <3>2. CASE g # f
      BY <1>1, <1>7, <1>10, <2>1, <2>2, <3>2 DEF EngineInv, Fresh
    <3> QED
      BY <3>1, <3>2
  <2> QED
    BY <2>2 DEF Fresh
<1>14. Traced'
  BY <1>1, <1>7 DEF EngineInv, Traced, Executing
<1>15. InWork' /\ Waited'
  <2>1. \A g \in Frames : (pc'[g] = "queued" <=> pc[g] = "queued")
                       /\ (pc'[g] = "done" <=> pc[g] = "done")
    BY <1>1 DEF Executing
  <2> QED
    BY <2>1 DEF EngineInv, InWork, Waited
<1> QED
  BY <1>3, <1>5, <1>12, <1>13, <1>14, <1>15 DEF EngineInv

LEMMA RouteEngineStep ==
  ASSUME ForksApart, TypeOK, EngineInv, NEW f \in Frames, Route(f)
  PROVE  EngineInv'
<1>0. /\ pc[f] \in {"route", "excepted"} /\ cur[f] \in Nodes
      /\ UNCHANGED <<futures, parent, work, submitCount, refused, starts>>
  BY DEF Route, TypeOK
<1>1. futures[f] = {}
  BY <1>0 DEF EngineInv, AloneIsFree, Alone
<1>2. ASSUME NEW next, Continue(f, next), UNCHANGED edges
      PROVE  EngineInv'
  <2>1. PICK label \in {"top", "finish"} :
          /\ pc' = [pc EXCEPT ![f] = label]
          /\ \A g \in Frames \ {f} : cur'[g] = cur[g]
    BY <1>2, ContinueMoves
  <2>2. Moves(f, label)
    BY <1>0, <1>1, <1>2, <2>1 DEF Moves, Waiting, Executing, Alone
  <2> QED
    BY <2>2, MovesStep DEF Labels
<1>3. ASSUME NEW targets \in Alternatives[cur[f]], Cardinality(targets) > 1,
             NEW first \in targets, Fork(f, targets, first), UNCHANGED cur
      PROVE  EngineInv'
  <2>1. CASE ParallelOf[first] = None
    <3>1. Moves(f, "raise")
      BY <1>0, <1>1, <1>3, <2>1 DEF Fork, Moves, Goto, Waiting, Executing, Alone
    <3> QED
      BY <3>1, MovesStep DEF Labels
  <2>2. CASE ParallelOf[first] # None
    <3> DEFINE branches == {t \in targets : ParallelOf[t] = ParallelOf[first]}
    <3>1. edges' = [edges EXCEPT ![f] = branches] /\ pc' = [pc EXCEPT ![f] = "submit"]
      BY <1>3, <2>2 DEF Fork, Goto
    <3>2. branches \in SUBSET Nodes /\ \A b \in branches : Forks(cur[f], b)
      BY <1>0, <1>3, GraphEngineAssumption DEF Forks
    <3> HIDE DEF branches
    <3>3. pc[f] \in Executing
      BY <1>0 DEF Executing
    <3> QED
      BY <1>0, <1>3, <3>1, <3>2, <3>3, ForkStep
  <2> QED
    BY <2>1, <2>2
<1>4. PICK targets \in Alternatives[cur[f]] \cup (IF pc[f] = "excepted" THEN {{}} ELSE {}) :
        \/ /\ targets = {} /\ Continue(f, None) /\ UNCHANGED edges
        \/ /\ \E next \in targets : Continue(f, next)
           /\ UNCHANGED edges
        \/ /\ Cardinality(targets) > 1
           /\ \E first \in targets : Fork(f, targets, first)
           /\ UNCHANGED cur
  BY DEF Route
<1>5. CASE /\ Cardinality(targets) > 1
           /\ \E first \in targets : Fork(f, targets, first)
           /\ UNCHANGED cur
  <2>1. targets \in Alternatives[cur[f]]
    BY <1>4, <1>5
  <2> QED
    BY <1>3, <1>5, <2>1
<1> QED
  BY <1>2, <1>4, <1>5

LEMMA SubmitEngineStep ==
  ASSUME TypeOK, EngineInv, NEW f \in Frames, Submit(f)
  PROVE  EngineInv'
<1>0. /\ pc \in [Frames -> Labels] /\ edges \in [Frames -> SUBSET Frames]
      /\ futures \in [Frames -> SUBSET Frames] /\ parent \in [Frames -> Frames \cup {None}]
      /\ work \in Seq(Frames) /\ submitCount \in Int /\ refused \in Nat
  BY DEF TypeOK, Labels
<1>1. pc[f] = "submit" /\ submitCount' = submitCount + 1 /\ UNCHANGED <<cur, starts>>
  BY DEF Submit
<1>2. Cardinality(Running) \in Nat
  BY RunningFinite, FS_CardinalityType
<1>3. CASE submitCount' > MaxSubmit
  <2>1. /\ refused' = refused + 1 /\ pc' = [pc EXCEPT ![f] = "raise"]
        /\ UNCHANGED <<edges, futures, parent, work>>
    BY <1>3 DEF Submit, Goto
  <2>2. pc'[f] = "raise" /\ \A g \in Frames \ {f} : pc'[g] = pc[g]
    BY <1>0, <2>1
  <2>3. Running' = Running
    BY <1>1, <2>2 DEF Running, Waiting
  <2>4. SubmitCountAccounts'
    BY <1>0, <1>1, <1>2, <2>1, <2>3 DEF EngineInv, SubmitCountAccounts
  <2>5. \A g \in Frames : pc'[g] \in Executing => pc[g] \in Executing
    BY <2>2 DEF Executing
  <2>6. \A b \in Frames : ForkedFrom(b) => ForkedFrom(b)'
    BY <1>1, <2>5 DEF ForkedFrom, Decided
  <2>7. OneEach' /\ RootOut' /\ AloneIsFree'
    BY <1>1, <2>1, <2>2, <2>5, GraphEngineAssumption
       DEF EngineInv, OneEach, RootOut, AloneIsFree, Alone, Frames
  <2>8. Fresh' /\ Traced'
    <3>1. \A g \in Frames : \A b \in edges[g] : b \in Frames /\ pc'[b] = pc[b]
      BY <1>0, <1>1, <2>2 DEF EngineInv, Fresh
    <3>2. Fresh'
      BY <2>1, <2>6, <3>1 DEF EngineInv, Fresh
    <3> QED
      BY <1>1, <2>2, <2>6, <3>2 DEF EngineInv, Traced
  <2>9. InWork' /\ Waited'
    <3>1. \A g \in Frames : (pc'[g] = "queued" <=> pc[g] = "queued")
                         /\ (pc'[g] = "done" <=> pc[g] = "done")
      BY <1>1, <2>2
    <3> QED
      BY <2>1, <3>1 DEF EngineInv, InWork, Waited
  <2> QED
    BY <2>4, <2>7, <2>8, <2>9 DEF EngineInv
<1>4. CASE ~(submitCount' > MaxSubmit)
  <2>1. PICK b \in edges[f] :
          /\ edges' = [edges EXCEPT ![f] = @ \ {b}]
          /\ futures' = [futures EXCEPT ![f] = @ \cup {b}]
          /\ parent' = [parent EXCEPT ![b] = f]
          /\ work' = Append(work, b)
          /\ pc' = [pc EXCEPT ![b] = "queued"]
          /\ refused' = refused
    BY <1>4 DEF Submit
  <2>2. b \in Frames /\ b # f /\ b # Root /\ pc[b] = "absent" /\ ForkedFrom(b)
    BY <1>0, <1>1 DEF EngineInv, Fresh
  <2>3. pc'[b] = "queued" /\ \A g \in Frames \ {b} : pc'[g] = pc[g]
    BY <1>0, <2>1, <2>2
  <2>4. Running' = Running
    BY <2>2, <2>3 DEF Running, Waiting
  <2>5. Len(work') = Len(work) + 1 /\ Len(work) \in Nat
    BY <1>0, <2>1, <2>2
  <2>6. SubmitCountAccounts'
    BY <1>0, <1>1, <1>2, <2>1, <2>4, <2>5 DEF EngineInv, SubmitCountAccounts
  <2>7. \A g \in Frames : pc'[g] \in Executing => pc[g] \in Executing
    BY <2>3 DEF Executing
  <2>8. \A c \in Frames : ForkedFrom(c) => ForkedFrom(c)'
    BY <1>1, <2>7 DEF ForkedFrom, Decided
  <2>9. OneEach'
    BY <1>1, <2>7 DEF EngineInv, OneEach
  <2>10. RootOut'
    BY <2>2, <2>3, GraphEngineAssumption DEF EngineInv, RootOut, Frames
  <2>11. Fresh'
    <3>1. /\ edges'[f] = edges[f] \ {b} /\ \A g \in Frames \ {f} : edges'[g] = edges[g]
      BY <1>0, <2>1
    <3>2. \A g \in Frames : edges'[g] \subseteq edges[g] /\ b \notin edges'[g]
      BY <3>1 DEF EngineInv, Fresh
    <3>3. \A g \in Frames : \A c \in edges'[g] : c \in Frames /\ pc'[c] = pc[c]
      BY <1>0, <2>3, <3>2
    <3> QED
      BY <2>8, <3>2, <3>3 DEF EngineInv, Fresh
  <2>12. Traced'
    BY <2>2, <2>3, <2>8 DEF EngineInv, Traced
  <2>13. InWork'
    <3>1. /\ \A i \in 1..Len(work) : work'[i] = work[i] /\ work[i] # b
          /\ work'[Len(work) + 1] = b
      BY <1>0, <2>1, <2>2 DEF EngineInv, InWork
    <3>2. 1..Len(work') = 1..Len(work) \cup {Len(work) + 1}
      BY <2>5
    <3>3. \A g \in Frames : pc'[g] = "queued" <=> \E i \in 1..Len(work') : work'[i] = g
      BY <2>3, <3>1, <3>2 DEF EngineInv, InWork
    <3>4. \A i, k \in 1..Len(work') : work'[i] = work'[k] => i = k
      BY <3>1, <3>2 DEF EngineInv, InWork
    <3> QED
      BY <3>3, <3>4 DEF InWork
  <2>14. Waited'
    <3>1. /\ parent'[b] = f /\ \A c \in Frames \ {b} : parent'[c] = parent[c]
          /\ futures'[f] = futures[f] \cup {b}
          /\ \A g \in Frames \ {f} : futures'[g] = futures[g]
      BY <1>0, <2>1, <2>2
    <3> QED
      BY <2>2, <2>3, <3>1 DEF EngineInv, Waited
  <2>15. AloneIsFree'
    <3>1. \A g \in Frames \ {f} : futures'[g] = futures[g]
      BY <1>0, <2>1
    <3>2. \A g \in Frames \ {f} : pc'[g] \in Alone => pc[g] \in Alone
      BY <2>2, <2>3 DEF Alone
    <3> QED
      BY <1>1, <2>2, <2>3, <3>1, <3>2 DEF EngineInv, AloneIsFree, Alone
  <2> QED
    BY <2>6, <2>9, <2>10, <2>11, <2>12, <2>13, <2>14, <2>15 DEF EngineInv
<1> QED
  BY <1>3, <1>4

LEMMA TakeWorkStep ==
  ASSUME TypeOK, EngineInv, TakeWork
  PROVE  EngineInv'
<1> DEFINE w == Head(work)
<1>0. /\ pc \in [Frames -> Labels] /\ edges \in [Frames -> SUBSET Frames]
      /\ work \in Seq(Frames) /\ submitCount \in Int /\ refused \in Nat
  BY DEF TypeOK, Labels
<1>1. /\ work # <<>> /\ work' = Tail(work) /\ pc' = [pc EXCEPT ![w] = "top"]
      /\ UNCHANGED <<cur, edges, futures, parent, submitCount, refused, starts>>
  BY DEF TakeWork, Goto, frameVars
<1>2. /\ Len(work) \in Nat \ {0} /\ w = work[1] /\ w \in Frames
      /\ Len(work') = Len(work) - 1
      /\ \A i \in 1..Len(work') : work'[i] = work[i + 1]
  BY <1>0, <1>1
<1> HIDE DEF w
<1>3. pc[w] = "queued" /\ w # Root
  <2>1. 1 \in 1..Len(work)
    BY <1>2
  <2> QED
    BY <1>2, <2>1 DEF EngineInv, InWork, RootOut
<1>4. pc'[w] = "top" /\ \A g \in Frames \ {w} : pc'[g] = pc[g]
  BY <1>0, <1>1, <1>2
<1>5. SubmitCountAccounts'
  <2>1. Running' = Running \cup {w} /\ w \notin Running
    BY <1>2, <1>3, <1>4 DEF Running, Waiting
  <2>2. /\ Cardinality(Running) \in Nat
        /\ Cardinality(Running \cup {w}) = Cardinality(Running) + 1
    BY <2>1, RunningFinite, FS_AddElement, FS_CardinalityType
  <2> QED
    BY <1>0, <1>1, <1>2, <2>1, <2>2 DEF EngineInv, SubmitCountAccounts
<1>6. \A g \in Frames : pc'[g] \in Executing => pc[g] \in Executing
  BY <1>4 DEF Executing
<1>7. \A b \in Frames : ForkedFrom(b) => ForkedFrom(b)'
  BY <1>1, <1>6 DEF ForkedFrom, Decided
<1>8. OneEach' /\ RootOut'
  BY <1>1, <1>3, <1>4, <1>6, GraphEngineAssumption DEF EngineInv, OneEach, RootOut, Frames
<1>9. Fresh' /\ Traced'
  <2>1. \A g \in Frames : \A b \in edges[g] : b \in Frames /\ pc'[b] = pc[b]
    BY <1>0, <1>3, <1>4 DEF EngineInv, Fresh
  <2>2. Fresh'
    BY <1>1, <1>7, <2>1 DEF EngineInv, Fresh
  <2>3. Traced'
    BY <1>3, <1>4, <1>7 DEF EngineInv, Traced
  <2> QED
    BY <2>2, <2>3
<1>10. InWork'
  <2>1. \A i, k \in 1..Len(work') : work'[i] = work'[k] => i = k
    <3>1. ASSUME NEW i \in 1..Len(work'), NEW k \in 1..Len(work'), work'[i] = work'[k]
          PROVE  i = k
      <4>1. i + 1 \in 1..Len(work) /\ k + 1 \in 1..Len(work) /\ work[i + 1] = work[k + 1]
        BY <1>2, <3>1
      <4>2. i + 1 = k + 1
        BY <4>1 DEF EngineInv, InWork
      <4> QED
        BY <1>2, <4>2
    <3> QED
      BY <3>1
  <2>2. \A i \in 1..Len(work') : work'[i] # w
    <3>1. ASSUME NEW i \in 1..Len(work'), work'[i] = w PROVE FALSE
      <4>1. i + 1 \in 1..Len(work) /\ 1 \in 1..Len(work) /\ work[i + 1] = work[1]
        BY <1>2, <3>1
      <4>2. i + 1 = 1
        BY <4>1 DEF EngineInv, InWork
      <4> QED
        BY <1>2, <4>2
    <3> QED
      BY <3>1
  <2>3. \A g \in Frames \ {w} :
          (\E i \in 1..Len(work) : work[i] = g) <=> (\E i \in 1..Len(work') : work'[i] = g)
    <3> TAKE g \in Frames \ {w}
    <3>1. ASSUME NEW i \in 1..Len(work), work[i] = g
          PROVE  \E k \in 1..Len(work') : work'[k] = g
      <4>1. i # 1 /\ i - 1 \in 1..Len(work')
        BY <1>2, <3>1
      <4>2. work'[i - 1] = work[i]
        BY <1>2, <4>1
      <4> QED
        BY <3>1, <4>1, <4>2
    <3>2. ASSUME NEW i \in 1..Len(work'), work'[i] = g
          PROVE  \E k \in 1..Len(work) : work[k] = g
      <4>1. i + 1 \in 1..Len(work)
        BY <1>2
      <4> QED
        BY <1>2, <3>2, <4>1
    <3> QED
      BY <3>1, <3>2
  <2>4. \A g \in Frames : pc'[g] = "queued" <=> \E i \in 1..Len(work') : work'[i] = g
    BY <1>4, <2>2, <2>3 DEF EngineInv, InWork
  <2> QED
    BY <2>1, <2>4 DEF InWork
<1>11. Waited'
  BY <1>1, <1>3, <1>4 DEF EngineInv, Waited
<1>12. AloneIsFree'
  BY <1>1, <1>2, <1>3, <1>4 DEF EngineInv, AloneIsFree, Alone
<1> QED
  BY <1>5, <1>8, <1>9, <1>10, <1>11, <1>12 DEF EngineInv

LEMMA ExitStep ==
  ASSUME TypeOK, EngineInv, NEW f \in Frames, Exit(f)
  PROVE  EngineInv'
<1>0. /\ pc \in [Frames -> Labels] /\ edges \in [Frames -> SUBSET Frames]
      /\ work \in Seq(Frames) /\ submitCount \in Int /\ refused \in Nat
  BY DEF TypeOK, Labels
<1>1. /\ pc[f] = "exit" /\ submitCount' = submitCount - 1 /\ pc' = [pc EXCEPT ![f] = "done"]
      /\ UNCHANGED <<cur, edges, futures, parent, work, refused, starts>>
  BY DEF Exit, Goto, frameVars
<1>2. f # Root
  BY <1>1 DEF EngineInv, RootOut
<1>3. pc'[f] = "done" /\ \A g \in Frames \ {f} : pc'[g] = pc[g]
  BY <1>0, <1>1
<1>4. SubmitCountAccounts'
  <2>1. Running' = Running \ {f} /\ f \in Running
    BY <1>1, <1>2, <1>3 DEF Running, Waiting
  <2>2. /\ Cardinality(Running) \in Nat
        /\ Cardinality(Running \ {f}) = Cardinality(Running) - 1
    BY <2>1, RunningFinite, FS_RemoveElement, FS_CardinalityType
  <2>3. Len(work) \in Nat
    BY <1>0
  <2> QED
    BY <1>0, <1>1, <2>1, <2>2, <2>3 DEF EngineInv, SubmitCountAccounts
<1>5. \A g \in Frames : pc'[g] \in Executing => pc[g] \in Executing
  BY <1>3 DEF Executing
<1>6. \A b \in Frames : ForkedFrom(b) => ForkedFrom(b)'
  BY <1>1, <1>5 DEF ForkedFrom, Decided
<1>7. OneEach' /\ RootOut'
  BY <1>1, <1>2, <1>3, <1>5, GraphEngineAssumption DEF EngineInv, OneEach, RootOut, Frames
<1>8. Fresh' /\ Traced'
  <2>1. \A g \in Frames : \A b \in edges[g] : b \in Frames /\ pc'[b] = pc[b]
    BY <1>0, <1>1, <1>3 DEF EngineInv, Fresh
  <2>2. Fresh'
    BY <1>1, <1>6, <2>1 DEF EngineInv, Fresh
  <2>3. Traced'
    BY <1>1, <1>3, <1>6 DEF EngineInv, Traced
  <2> QED
    BY <2>2, <2>3
<1>9. InWork' /\ Waited' /\ AloneIsFree'
  BY <1>1, <1>3 DEF EngineInv, InWork, Waited, AloneIsFree, Alone
<1> QED
  BY <1>4, <1>7, <1>8, <1>9 DEF EngineInv

LEMMA EngineStep ==
  ASSUME ForksApart, TypeOK, EngineInv, NodesRunOnce', [Next]_vars
  PROVE  EngineInv'
<1>1. ASSUME NEW f \in Frames, FrameStep(f)
      PROVE  EngineInv'
  <2>1. CASE LoopTop(f) \/ NodeCounted(f) \/ NodeEnd(f)
    BY <2>1, LoopMoves, MovesStep
  <2>2. CASE Submitted(f) \/ CollectFailed(f) \/ CollectNone(f) \/ Finish(f) \/ Raise(f)
    BY <2>2, CollectMoves, MovesStep
  <2>3. CASE CollectSucceeded(f)
    BY <2>3, StillStep DEF CollectSucceeded
  <2>4. CASE CollectNodeFailed(f)
    <3>1. CASE f = Root
      <4>1. Moves(f, "done")
        BY <2>4, <3>1
           DEF CollectNodeFailed, Collect, Goto, Moves, Waiting, Executing, Alone, frameVars
      <4> QED
        BY <4>1, MovesStep DEF Labels
    <3>2. CASE f # Root
      BY <2>4, <3>2, StillStep DEF CollectNodeFailed, frameVars
    <3> QED
      BY <3>1, <3>2
  <2>5. CASE Join(f)
    BY <2>5, JoinMoves, MovesStep
  <2> QED
    BY <1>1, <2>1, <2>2, <2>3, <2>4, <2>5, NodeStartStep, RouteEngineStep, SubmitEngineStep,
       ExitStep DEF FrameStep
<1>2. CASE Abandon
  <2>1. Moves(Root, "done") /\ Root \in Frames
    BY <1>2, GraphEngineAssumption
       DEF Abandon, Goto, Moves, Waiting, Executing, Alone, frameVars, Frames
  <2> QED
    BY <2>1, MovesStep DEF Labels
<1>3. CASE TimeOut
  BY <1>3, StillStep DEF TimeOut, frameVars
<1>4. CASE UNCHANGED vars
  BY <1>4, StillStep DEF vars, frameVars
<1> QED
  BY <1>1, <1>2, <1>3, <1>4, TakeWorkStep DEF Next

(***************************************************************************)
(* No node runs twice, in graphs whose branches meet only where their      *)
(* parallel ends                                                           *)
(***************************************************************************)

\* Every frame is at a node of its own, behind those of its nodes that have
\* started, and its branches are those of the node it is at.
Placed(Owner, Rank) ==
  /\ \A f \in Frames : IF pc[f] = "absent" THEN cur[f] = f ELSE Owner[cur[f]] = f
  /\ \A n \in Nodes : starts[n] # 0 =>
       /\ pc[Owner[n]] \notin {"absent", "queued"}
       /\ Rank[n] <= Rank[cur[Owner[n]]]
       /\ pc[Owner[n]] \in {"top", "start"} => Rank[n] < Rank[cur[Owner[n]]]
  /\ \A f \in Frames : \A b \in edges[f] \cup futures[f] : Forks(cur[f], b)
  /\ \A f \in Frames : edges[f] # {} => pc[f] \in {"submit", "raise", "exit", "done"}
  /\ NodesRunOnce

LEMMA PlacedInit ==
  ASSUME NEW Owner, NEW Rank, Sections(Owner, Rank), Init
  PROVE  Placed(Owner, Rank)
BY GraphEngineAssumption DEF Sections, Init, Placed, NodesRunOnce, Frames

\* A frame goes on without going to another node.
Keeps(f, label) ==
  /\ pc[f] \notin {"absent", "queued"} /\ label \notin {"absent", "queued", "top"}
  /\ label = "start" => pc[f] = "top"
  /\ pc' = [pc EXCEPT ![f] = label]
  /\ edges[f] # {} => label \in {"submit", "raise", "exit", "done"}
  /\ UNCHANGED <<cur, starts, edges>>
  /\ \A g \in Frames : futures'[g] \subseteq futures[g]

LEMMA PlacedKeeps ==
  ASSUME NEW Owner, NEW Rank, Sections(Owner, Rank), TypeOK, Placed(Owner, Rank),
         NEW f \in Frames, NEW label, Keeps(f, label)
  PROVE  Placed(Owner, Rank)'
<1>1. /\ pc'[f] = label /\ \A g \in Frames \ {f} : pc'[g] = pc[g]
      /\ UNCHANGED <<cur, starts, edges>>
  BY DEF Keeps, TypeOK
<1>2. \A g \in Frames : IF pc'[g] = "absent" THEN cur'[g] = g ELSE Owner[cur'[g]] = g
  BY <1>1 DEF Placed, Keeps
<1>3. ASSUME NEW n \in Nodes, starts'[n] # 0
      PROVE  /\ pc'[Owner[n]] \notin {"absent", "queued"}
             /\ Rank[n] <= Rank[cur'[Owner[n]]]
             /\ pc'[Owner[n]] \in {"top", "start"} => Rank[n] < Rank[cur'[Owner[n]]]
  <2>1. Owner[n] \in Frames
    BY DEF Sections, Frames
  <2> QED
    BY <1>1, <1>3, <2>1 DEF Placed, Keeps
<1>4. \A g \in Frames : \A b \in edges'[g] \cup futures'[g] : Forks(cur'[g], b)
  BY <1>1 DEF Placed, Keeps
<1>5. \A g \in Frames : edges'[g] # {} => pc'[g] \in {"submit", "raise", "exit", "done"}
  BY <1>1 DEF Placed, Keeps
<1>6. NodesRunOnce'
  BY <1>1 DEF Placed, NodesRunOnce
<1> QED
  BY <1>2, <1>3, <1>4, <1>5, <1>6 DEF Placed

\* A frame goes on to a next node, or ends.
LEMMA PlacedContinue ==
  ASSUME NEW Owner, NEW Rank, Sections(Owner, Rank), TypeOK, Placed(Owner, Rank),
         NEW f \in Frames, pc[f] \notin {"absent", "queued"}, edges[f] = {},
         NEW next \in Nodes \cup {None}, next # None => Follows(cur[f], next),
         Continue(f, next), UNCHANGED <<starts, edges>>, futures'[f] = {},
         \A g \in Frames \ {f} : futures'[g] = futures[g]
  PROVE  Placed(Owner, Rank)'
<1>1. CASE next = None \/ Leaves(f, next)
  <2>1. Keeps(f, "finish")
    BY <1>1 DEF Continue, Goto, Keeps
  <2> QED
    BY <2>1, PlacedKeeps
<1>2. CASE ~(next = None \/ Leaves(f, next))
  <2>1. /\ pc'[f] = "top" /\ \A g \in Frames \ {f} : pc'[g] = pc[g]
        /\ cur'[f] = next /\ \A g \in Frames \ {f} : cur'[g] = cur[g]
    BY <1>2 DEF Continue, Goto, TypeOK
  <2>2. Owner[cur[f]] = f /\ cur[f] \in Nodes /\ next \in Nodes
    BY <1>2 DEF Placed, TypeOK
  <2>3. Owner[next] = f /\ Rank[next] > Rank[cur[f]]
    BY <1>2, <2>2 DEF Sections, Leaves
  <2>4. \A g \in Frames : IF pc'[g] = "absent" THEN cur'[g] = g ELSE Owner[cur'[g]] = g
    BY <2>1, <2>3 DEF Placed
  <2>5. ASSUME NEW n \in Nodes, starts'[n] # 0
        PROVE  /\ pc'[Owner[n]] \notin {"absent", "queued"}
               /\ Rank[n] <= Rank[cur'[Owner[n]]]
               /\ pc'[Owner[n]] \in {"top", "start"} => Rank[n] < Rank[cur'[Owner[n]]]
    <3>1. Owner[n] \in Frames /\ starts[n] # 0
      BY <2>5 DEF Sections, Frames
    <3>2. CASE Owner[n] = f
      <4>1. Rank[n] <= Rank[cur[f]]
        BY <3>1, <3>2 DEF Placed
      <4>2. Rank[n] \in Nat /\ Rank[cur[f]] \in Nat /\ Rank[next] \in Nat
        BY <2>2 DEF Sections
      <4>3. Rank[n] < Rank[next]
        BY <2>3, <4>1, <4>2
      <4> QED
        BY <2>1, <3>2, <4>2, <4>3
    <3>3. CASE Owner[n] # f
      BY <2>1, <3>1, <3>3 DEF Placed
    <3> QED
      BY <3>2, <3>3
  <2>6. \A g \in Frames : \A b \in edges'[g] \cup futures'[g] : Forks(cur'[g], b)
    BY <2>1 DEF Placed
  <2>7. \A g \in Frames : edges'[g] # {} => pc'[g] \in {"submit", "raise", "exit", "done"}
    BY <2>1 DEF Placed
  <2>8. NodesRunOnce'
    BY DEF Placed, NodesRunOnce
  <2> QED
    BY <2>4, <2>5, <2>6, <2>7, <2>8 DEF Placed
<1> QED
  BY <1>1, <1>2

LEMMA PlacedRoute ==
  ASSUME NEW Owner, NEW Rank, Sections(Owner, Rank), TypeOK, EngineInv, Placed(Owner, Rank),
         NEW f \in Frames, Route(f)
  PROVE  Placed(Owner, Rank)'
<1>0. /\ pc[f] \in {"route", "excepted"} /\ cur[f] \in Nodes /\ futures[f] = {} /\ edges[f] = {}
      /\ UNCHANGED <<futures, starts>>
  BY DEF Route, TypeOK, EngineInv, AloneIsFree, Alone, Placed
<1>1. PICK targets \in Alternatives[cur[f]] \cup (IF pc[f] = "excepted" THEN {{}} ELSE {}) :
        \/ /\ targets = {} /\ Continue(f, None) /\ UNCHANGED edges
        \/ /\ Cardinality(targets) = 1
           /\ \E next \in targets : Continue(f, next)
           /\ UNCHANGED edges
        \/ /\ Cardinality(targets) > 1
           /\ \E first \in targets : Fork(f, targets, first)
           /\ UNCHANGED cur
  BY DEF Route
<1>2. CASE targets = {} /\ Continue(f, None) /\ UNCHANGED edges
  BY <1>0, <1>2, PlacedContinue
<1>3. CASE /\ Cardinality(targets) = 1
           /\ \E next \in targets : Continue(f, next)
           /\ UNCHANGED edges
  <2>1. PICK next \in targets : Continue(f, next)
    BY <1>3
  <2>2. targets \in Alternatives[cur[f]]
    BY <1>1, <2>1
  <2>3. next \in Nodes /\ Follows(cur[f], next)
    BY <1>0, <1>3, <2>2, GraphEngineAssumption DEF Follows
  <2> QED
    BY <1>0, <1>3, <2>1, <2>3, PlacedContinue
<1>4. CASE /\ Cardinality(targets) > 1
           /\ \E first \in targets : Fork(f, targets, first)
           /\ UNCHANGED cur
  <2>1. PICK first \in targets : Fork(f, targets, first)
    BY <1>4
  <2>2. targets \in Alternatives[cur[f]]
    BY <1>1, <2>1
  <2>3. CASE ParallelOf[first] = None
    <3>1. Keeps(f, "raise")
      BY <1>0, <1>4, <2>1, <2>3 DEF Fork, Goto, Keeps
    <3> QED
      BY <3>1, PlacedKeeps
  <2>4. CASE ParallelOf[first] # None
    <3> DEFINE branches == {t \in targets : ParallelOf[t] = ParallelOf[first]}
    <3>1. edges' = [edges EXCEPT ![f] = branches] /\ pc' = [pc EXCEPT ![f] = "submit"]
      BY <2>1, <2>4 DEF Fork, Goto
    <3>2. \A b \in branches : Forks(cur[f], b)
      BY <1>4, <2>2 DEF Forks
    <3> HIDE DEF branches
    <3>3. /\ edges'[f] = branches /\ \A g \in Frames \ {f} : edges'[g] = edges[g]
          /\ pc'[f] = "submit" /\ \A g \in Frames \ {f} : pc'[g] = pc[g]
      BY <3>1 DEF TypeOK
    <3>4. \A g \in Frames : IF pc'[g] = "absent" THEN cur'[g] = g ELSE Owner[cur'[g]] = g
      BY <1>0, <1>4, <3>3 DEF Placed
    <3>5. ASSUME NEW n \in Nodes, starts'[n] # 0
          PROVE  /\ pc'[Owner[n]] \notin {"absent", "queued"}
                 /\ Rank[n] <= Rank[cur'[Owner[n]]]
                 /\ pc'[Owner[n]] \in {"top", "start"} => Rank[n] < Rank[cur'[Owner[n]]]
      <4>1. Owner[n] \in Frames
        BY DEF Sections, Frames
      <4> QED
        BY <1>0, <1>4, <3>3, <3>5, <4>1 DEF Placed
    <3>6. \A g \in Frames : \A b \in edges'[g] \cup futures'[g] : Forks(cur'[g], b)
      BY <1>0, <1>4, <3>2, <3>3 DEF Placed
    <3>7. \A g \in Frames : edges'[g] # {} => pc'[g] \in {"submit", "raise", "exit", "done"}
      BY <3>3 DEF Placed
    <3>8. NodesRunOnce'
      BY <1>0 DEF Placed, NodesRunOnce
    <3> QED
      BY <3>4, <3>5, <3>6, <3>7, <3>8 DEF Placed
  <2> QED
    BY <2>3, <2>4
<1> QED
  BY <1>1, <1>2, <1>3, <1>4

LEMMA PlacedSubmit ==
  ASSUME NEW Owner, NEW Rank, Sections(Owner, Rank), TypeOK, EngineInv, Placed(Owner, Rank),
         NEW f \in Frames, Submit(f)
  PROVE  Placed(Owner, Rank)'
<1>0. pc[f] = "submit" /\ UNCHANGED <<cur, starts>>
  BY DEF Submit
<1>1. CASE submitCount' > MaxSubmit
  <2>1. Keeps(f, "raise")
    BY <1>0, <1>1 DEF Submit, Goto, Keeps
  <2> QED
    BY <2>1, PlacedKeeps
<1>2. CASE ~(submitCount' > MaxSubmit)
  <2>1. PICK b \in edges[f] :
          /\ edges' = [edges EXCEPT ![f] = @ \ {b}]
          /\ futures' = [futures EXCEPT ![f] = @ \cup {b}]
          /\ pc' = [pc EXCEPT ![b] = "queued"]
    BY <1>2 DEF Submit
  <2>2. b \in Frames /\ b # f /\ pc[b] = "absent" /\ cur[f] \in Nodes
    BY <1>0 DEF EngineInv, Fresh, TypeOK
  <2>3. Owner[b] = b /\ cur[b] = b /\ edges[b] = {}
    BY <2>2 DEF Placed, Sections, Frames
  <2>4. pc'[b] = "queued" /\ \A g \in Frames \ {b} : pc'[g] = pc[g]
    BY <2>1, <2>2 DEF TypeOK
  <2>5. /\ edges'[f] = edges[f] \ {b} /\ futures'[f] = futures[f] \cup {b}
        /\ \A g \in Frames \ {f} : edges'[g] = edges[g] /\ futures'[g] = futures[g]
    BY <2>1 DEF TypeOK
  <2>6. \A g \in Frames : IF pc'[g] = "absent" THEN cur'[g] = g ELSE Owner[cur'[g]] = g
    BY <1>0, <2>3, <2>4 DEF Placed
  <2>7. ASSUME NEW n \in Nodes, starts'[n] # 0
        PROVE  /\ pc'[Owner[n]] \notin {"absent", "queued"}
               /\ Rank[n] <= Rank[cur'[Owner[n]]]
               /\ pc'[Owner[n]] \in {"top", "start"} => Rank[n] < Rank[cur'[Owner[n]]]
    <3>1. Owner[n] \in Frames /\ Owner[n] # b
      BY <1>0, <2>2, <2>7 DEF Sections, Frames, Placed
    <3> QED
      BY <1>0, <2>4, <2>7, <3>1 DEF Placed
  <2>8. \A g \in Frames : \A c \in edges'[g] \cup futures'[g] : Forks(cur'[g], c)
    BY <1>0, <2>5 DEF Placed
  <2>9. \A g \in Frames : edges'[g] # {} => pc'[g] \in {"submit", "raise", "exit", "done"}
    <3>1. \A g \in Frames : edges'[g] # {} => edges[g] # {} /\ g # b
      BY <2>2, <2>3, <2>5
    <3> QED
      BY <2>4, <3>1 DEF Placed
  <2>10. NodesRunOnce'
    BY <1>0 DEF Placed, NodesRunOnce
  <2> QED
    BY <2>6, <2>7, <2>8, <2>9, <2>10 DEF Placed
<1> QED
  BY <1>1, <1>2

LEMMA PlacedJoin ==
  ASSUME NEW Owner, NEW Rank, Sections(Owner, Rank), TypeOK, InParallel, Placed(Owner, Rank),
         NEW f \in Frames, Join(f)
  PROVE  Placed(Owner, Rank)'
<1>1. PICK b \in futures[f] : Continue(f, EndTo[ParallelOf[b]])
  BY DEF Join
<1> DEFINE next == EndTo[ParallelOf[b]]
<1>2. /\ pc[f] = "wait" /\ edges[f] = {} /\ UNCHANGED <<starts, edges>>
      /\ futures'[f] = {} /\ \A g \in Frames \ {f} : futures'[g] = futures[g]
  BY DEF Join, Placed, TypeOK
<1>3. b \in Nodes /\ ParallelOf[b] # None /\ Forks(cur[f], b)
  BY DEF TypeOK, InParallel, Placed, Frames
<1>4. next \in Nodes \cup {None}
  <2>1. ParallelOf[b] \in Parallels
    BY <1>3 DEF Parallels
  <2> QED
    BY <2>1, GraphEngineAssumption
<1>5. Follows(cur[f], next)
  BY <1>3 DEF Follows
<1> HIDE DEF next
<1>6. Continue(f, next)
  BY <1>1 DEF next
<1> QED
  BY <1>2, <1>4, <1>5, <1>6, PlacedContinue

LEMMA PlacedStart ==
  ASSUME NEW Owner, NEW Rank, Sections(Owner, Rank), TypeOK, Placed(Owner, Rank),
         NEW f \in Frames, NodeStart(f)
  PROVE  Placed(Owner, Rank)'
<1>1. /\ pc[f] = "start" /\ pc'[f] = "count" /\ \A g \in Frames \ {f} : pc'[g] = pc[g]
      /\ cur[f] \in Nodes /\ starts'[cur[f]] = starts[cur[f]] + 1
      /\ \A n \in Nodes \ {cur[f]} : starts'[n] = starts[n]
      /\ UNCHANGED <<cur, edges, futures>>
  BY DEF NodeStart, Goto, frameVars, TypeOK
<1>2. Owner[cur[f]] = f /\ Rank[cur[f]] \in Nat
  BY <1>1 DEF Placed, Sections
<1>3. starts[cur[f]] = 0
  <2> SUFFICES ASSUME starts[cur[f]] # 0 PROVE FALSE
    OBVIOUS
  <2>1. Rank[cur[f]] < Rank[cur[f]]
    BY <1>1, <1>2 DEF Placed
  <2> QED
    BY <1>2, <2>1
<1>4. NodesRunOnce'
  BY <1>1, <1>3 DEF Placed, NodesRunOnce
<1>5. \A g \in Frames : IF pc'[g] = "absent" THEN cur'[g] = g ELSE Owner[cur'[g]] = g
  BY <1>1 DEF Placed
<1>6. ASSUME NEW n \in Nodes, starts'[n] # 0
      PROVE  /\ pc'[Owner[n]] \notin {"absent", "queued"}
             /\ Rank[n] <= Rank[cur'[Owner[n]]]
             /\ pc'[Owner[n]] \in {"top", "start"} => Rank[n] < Rank[cur'[Owner[n]]]
  <2>1. Owner[n] \in Frames
    BY DEF Sections, Frames
  <2>2. CASE n = cur[f]
    BY <1>1, <1>2, <2>2
  <2>3. CASE n # cur[f]
    BY <1>1, <1>6, <2>1, <2>3 DEF Placed
  <2> QED
    BY <2>2, <2>3
<1>7. /\ \A g \in Frames : \A b \in edges'[g] \cup futures'[g] : Forks(cur'[g], b)
      /\ \A g \in Frames : edges'[g] # {} => pc'[g] \in {"submit", "raise", "exit", "done"}
  BY <1>1 DEF Placed
<1> QED
  BY <1>4, <1>5, <1>6, <1>7 DEF Placed

LEMMA PlacedTaken ==
  ASSUME NEW Owner, NEW Rank, Sections(Owner, Rank), TypeOK, EngineInv, Placed(Owner, Rank),
         TakeWork
  PROVE  Placed(Owner, Rank)'
<1>1. PICK w \in Frames : w = Head(work)
  BY DEF TakeWork, TypeOK
<1>2. pc[w] = "queued"
  <2>1. 1 \in 1..Len(work) /\ work[1] = w
    BY <1>1 DEF TakeWork, TypeOK
  <2> QED
    BY <2>1 DEF EngineInv, InWork
<1>3. /\ pc'[w] = "top" /\ \A g \in Frames \ {w} : pc'[g] = pc[g]
      /\ UNCHANGED <<cur, edges, futures, starts>>
  BY <1>1 DEF TakeWork, Goto, TypeOK, frameVars
<1>4. /\ \A g \in Frames : IF pc'[g] = "absent" THEN cur'[g] = g ELSE Owner[cur'[g]] = g
      /\ \A g \in Frames : \A b \in edges'[g] \cup futures'[g] : Forks(cur'[g], b)
      /\ \A g \in Frames : edges'[g] # {} => pc'[g] \in {"submit", "raise", "exit", "done"}
      /\ NodesRunOnce'
  BY <1>2, <1>3 DEF Placed, NodesRunOnce
<1>5. ASSUME NEW n \in Nodes, starts'[n] # 0
      PROVE  /\ pc'[Owner[n]] \notin {"absent", "queued"}
             /\ Rank[n] <= Rank[cur'[Owner[n]]]
             /\ pc'[Owner[n]] \in {"top", "start"} => Rank[n] < Rank[cur'[Owner[n]]]
  <2>1. Owner[n] \in Frames /\ Owner[n] # w
    BY <1>2, <1>3, <1>5 DEF Sections, Frames, Placed
  <2> QED
    BY <1>3, <1>5, <2>1 DEF Placed
<1> QED
  BY <1>4, <1>5 DEF Placed

LEMMA PlacedStill ==
  ASSUME NEW Owner, NEW Rank, Placed(Owner, Rank), UNCHANGED <<pc, cur, edges, futures, starts>>
  PROVE  Placed(Owner, Rank)'
BY DEF Placed, NodesRunOnce

\* The other steps of a frame keep it at its node.
LEMMA StepKeeps ==
  ASSUME NEW Owner, NEW Rank, TypeOK, EngineInv, Placed(Owner, Rank), NEW f \in Frames,
         \/ LoopTop(f) \/ NodeCounted(f) \/ NodeEnd(f) \/ Submitted(f)
         \/ CollectFailed(f) \/ CollectNone(f) \/ Finish(f) \/ Raise(f) \/ Exit(f)
         \/ CollectNodeFailed(f) /\ f = Root
  PROVE  \E label \in Labels : Keeps(f, label)
<1> USE DEF Keeps, Goto, frameVars, Labels
<1>0. edges[f] # {} => pc[f] \in {"submit", "raise", "exit", "done"}
  BY DEF Placed
<1>1. CASE LoopTop(f)
  <2>1. Keeps(f, IF OutOfLimits THEN "raise" ELSE "start")
    BY <1>0, <1>1 DEF LoopTop
  <2> QED
    BY <2>1
<1>2. CASE NodeCounted(f)
  <2>1. Keeps(f, "node")
    BY <1>0, <1>2 DEF NodeCounted
  <2> QED
    BY <2>1
<1>3. CASE NodeEnd(f)
  <2>1. \E label \in {"route", "excepted", "raise", "done"} : Keeps(f, label)
    BY <1>0, <1>3 DEF NodeEnd, NodeSucceeds, NodeExcepts, NodeFails, NodeRaises
  <2> QED
    BY <2>1
<1>4. CASE Submitted(f)
  <2>1. Keeps(f, "collect")
    BY <1>0, <1>4 DEF Submitted
  <2> QED
    BY <2>1
<1>5. CASE CollectFailed(f)
  <2>1. Keeps(f, "raise")
    BY <1>0, <1>5 DEF CollectFailed, Collect
  <2> QED
    BY <2>1
<1>6. CASE CollectNone(f)
  <2>1. Keeps(f, "wait")
    BY <1>0, <1>6 DEF CollectNone, Collect
  <2> QED
    BY <2>1
<1>7. CASE Finish(f) \/ Raise(f)
  <2>1. \E label \in {"done", "exit"} : Keeps(f, label)
    BY <1>0, <1>7 DEF Finish, Raise
  <2> QED
    BY <2>1
<1>8. CASE Exit(f)
  <2>1. Keeps(f, "done")
    BY <1>0, <1>8 DEF Exit
  <2> QED
    BY <2>1
<1>9. CASE CollectNodeFailed(f) /\ f = Root
  <2>1. Keeps(f, "done")
    BY <1>0, <1>9 DEF CollectNodeFailed, Collect
  <2> QED
    BY <2>1
<1> QED
  BY <1>1, <1>2, <1>3, <1>4, <1>5, <1>6, <1>7, <1>8, <1>9

LEMMA PlacedStep ==
  ASSUME NEW Owner, NEW Rank, Sections(Owner, Rank), TypeOK, InParallel, EngineInv,
         Placed(Owner, Rank), [Next]_vars
  PROVE  Placed(Owner, Rank)'
<1>1. ASSUME NEW f \in Frames, FrameStep(f)
      PROVE  Placed(Owner, Rank)'
  <2>1. CASE \/ LoopTop(f) \/ NodeCounted(f) \/ NodeEnd(f) \/ Submitted(f)
             \/ CollectFailed(f) \/ CollectNone(f) \/ Finish(f) \/ Raise(f) \/ Exit(f)
    BY <2>1, StepKeeps, PlacedKeeps
  <2>2. CASE CollectSucceeded(f)
    BY <2>2, PlacedStill DEF CollectSucceeded
  <2>3. CASE NodeStart(f)
    BY <2>3, PlacedStart
  <2>4. CASE Route(f)
    BY <2>4, PlacedRoute
  <2>5. CASE Submit(f)
    BY <2>5, PlacedSubmit
  <2>6. CASE Join(f)
    BY <2>6, PlacedJoin
  <2>7. CASE CollectNodeFailed(f)
    <3>1. CASE f = Root
      BY <2>7, <3>1, StepKeeps, PlacedKeeps
    <3>2. CASE f # Root
      BY <2>7, <3>2, PlacedStill DEF CollectNodeFailed, frameVars
    <3> QED
      BY <3>1, <3>2
  <2> QED
    BY <1>1, <2>1, <2>2, <2>3, <2>4, <2>5, <2>6, <2>7 DEF FrameStep
<1>2. CASE TakeWork
  BY <1>2, PlacedTaken
<1>3. CASE Abandon
  <2>1. Root \in Frames
    BY GraphEngineAssumption DEF Frames
  <2>2. Keeps(Root, "done")
    BY <1>3 DEF Abandon, Keeps, Goto, frameVars
  <2> QED
    BY <2>1, <2>2, PlacedKeeps
<1>4. CASE TimeOut \/ UNCHANGED vars
  BY <1>4, PlacedStill DEF TimeOut, vars, frameVars
<1> QED
  BY <1>1, <1>2, <1>3, <1>4 DEF Next

\* In every graph without cycles whose branches meet only where their parallel
\* ends no node runs twice, whatever frame meets it first: a frame meets the nodes
\* that are its own in their order, a branch is submitted once, and line 425
\* stops it where its parallel ends (GraphEngine._run, _run_parallel_branches).
THEOREM NodesRunOnceAlways ==
  ASSUME NEW Owner, NEW Rank, Sections(Owner, Rank)
  PROVE  Spec => []NodesRunOnce
<1> DEFINE Inv == TypeOK /\ InParallel /\ EngineInv /\ Placed(Owner, Rank)
<1>1. Init => Inv
  BY TypeInit, EngineInit, PlacedInit
<1>2. Inv /\ [Next]_vars => Inv'
  <2> SUFFICES ASSUME Inv, [Next]_vars PROVE Inv'
    OBVIOUS
  <2>1. Placed(Owner, Rank)' /\ TypeOK' /\ InParallel'
    BY PlacedStep, TypeStep
  <2>2. NodesRunOnce'
    BY <2>1 DEF Placed
  <2>3. EngineInv'
    BY <2>2, EngineStep DEF Sections
  <2> QED
    BY <2>1, <2>3
<1>3. Inv => NodesRunOnce
  BY DEF Placed
<1> HIDE DEF Inv
<1> QED
  BY <1>1, <1>2, <1>3, PTL DEF Spec

LEMMA EngineInvAlways ==
  ASSUME NEW Owner, NEW Rank, Sections(Owner, Rank)
  PROVE  Spec => []EngineInv
<1>1. Init => TypeOK /\ InParallel /\ EngineInv
  BY TypeInit, EngineInit
<1>2. TypeOK /\ InParallel /\ EngineInv /\ NodesRunOnce' /\ [Next]_vars
        => TypeOK' /\ InParallel' /\ EngineInv'
  BY TypeStep, EngineStep DEF Sections
<1>3. Spec => []NodesRunOnce
  BY NodesRunOnceAlways
<1> QED
  BY <1>1, <1>2, <1>3, PTL DEF Spec

\* submit_count is exact in every such graph, with any number of workers and of
\* places: no failure, refusal or abandoned run leaks a place of the pool
\* (GraphEngineThreadPool.submit, task_done_callback).
THEOREM SubmitCountAccountsAlways ==
  ASSUME NEW Owner, NEW Rank, Sections(Owner, Rank)
  PROVE  Spec => []SubmitCountAccounts
<1>1. EngineInv => SubmitCountAccounts
  BY DEF EngineInv
<1> QED
  BY <1>1, EngineInvAlways, PTL

\* In every such graph a frame executes no node while a branch that it forked
\* is under way, at any depth and however its branches end
\* (GraphEngine._run_parallel_branches, wait).
THEOREM JoinWaitsForBranchesAlways ==
  ASSUME NEW Owner, NEW Rank, Sections(Owner, Rank)
  PROVE  Spec => []JoinWaitsForBranches
<1>1. EngineInv => JoinWaitsForBranches
  BY DEF EngineInv, Waited, AloneIsFree, Alone, JoinWaitsForBranches
<1> QED
  BY <1>1, EngineInvAlways, PTL

(***************************************************************************)
(* A success is one, in the same graphs                                    *)
(***************************************************************************)

Failures == {"NodeFailed", "BranchFailed"}

\* The reports of success among the first n of a queue.
Successes(q, n) == {i \in 1..n : q[i] = "BranchSucceeded"}

\* The branches of f that ended and left no branches of their own behind.
Ended(f) == {b \in futures[f] : pc[b] \in {"exit", "done"} /\ futures[b] = {}}

\* A failure on its way to run(): in a queue that is read, in a frame that
\* raises, or in one that raised and left its branches behind.
Failing(f) ==
  \/ Collecting(f) /\ \E i \in 1..Len(inbox[f]) : inbox[f][i] \in Failures
  \/ pc[f] = "raise"
  \/ pc[f] \in {"exit", "done"} /\ futures[f] # {}

\* Every branch descends from the root.
Descent ==
  /\ \A b \in Frames : pc[b] = "absent" => \A c \in Frames : parent[c] # b
  /\ \A b \in Frames \ {Root} : pc[b] # "absent" => parent[b] \in Frames
  /\ \A S \in SUBSET Frames : (\A b \in S : b # Root /\ parent[b] \in S) => S = {}

\* A branch that its frame no longer waits for has ended, with all its own.
Settled ==
  \A f, b \in Frames : parent[b] = f /\ b \notin futures[f] => pc[b] = "done" /\ futures[b] = {}

\* The queue of frame f.  The successes counted and to be counted are of
\* branches that ended; a failure is in front of the last success; the None
\* comes when all succeeded, and nothing is left beside it.
Ledger(f) ==
  /\ pc[f] \in Alone => succeeded[f] = 0 /\ inbox[f] = <<>>
  /\ pc[f] \in {"submit", "collect", "wait"} =>
       succeeded[f] + Cardinality(Successes(inbox[f], Len(inbox[f]))) <= Cardinality(Ended(f))
  /\ Collecting(f) => \A i \in 1..Len(inbox[f]) : inbox[f][i] \in Failures =>
       succeeded[f] + Cardinality(Successes(inbox[f], i - 1)) < Cardinality(futures[f])
  /\ Collecting(f) => \A i \in 1..Len(inbox[f]) : inbox[f][i] = "None" =>
       pc[f] = "collect" /\ inbox[f] = <<"None">> /\ succeeded[f] = Cardinality(futures[f])
  /\ pc[f] = "wait" => inbox[f] = <<>> /\ succeeded[f] = Cardinality(futures[f])

RootEnds == result = "running" <=> pc[Root] # "done"

FailureFound == result = "running" /\ failed # {} => \E f \in Frames : Failing(f)

ResultInv ==
  /\ Descent /\ Settled /\ (\A f \in Frames : Ledger(f)) /\ RootEnds /\ FailureFound
  /\ SuccessMeansSuccess

LEMMA SuccessesType ==
  ASSUME NEW q, NEW n \in Nat
  PROVE  IsFiniteSet(Successes(q, n)) /\ Cardinality(Successes(q, n)) \in Nat
<1>1. IsFiniteSet(1..n) /\ Successes(q, n) \subseteq 1..n
  BY FS_Interval DEF Successes
<1> QED
  BY <1>1, FS_Subset, FS_CardinalityType

LEMMA SuccessesAppend ==
  ASSUME NEW q \in Seq(Reports), NEW event \in Reports
  PROVE  LET r == Append(q, event) IN
         /\ \A n \in 0..Len(q) : Successes(r, n) = Successes(q, n)
         /\ Cardinality(Successes(r, Len(r))) =
              Cardinality(Successes(q, Len(q))) + (IF event = "BranchSucceeded" THEN 1 ELSE 0)
<1> DEFINE r == Append(q, event)
<1>1. /\ Len(r) = Len(q) + 1 /\ Len(q) \in Nat /\ r[Len(q) + 1] = event
      /\ \A i \in 1..Len(q) : r[i] = q[i]
  OBVIOUS
<1> HIDE DEF r
<1>2. \A n \in 0..Len(q) : Successes(r, n) = Successes(q, n)
  BY <1>1 DEF Successes
<1>3. CASE event = "BranchSucceeded"
  <2>1. Successes(r, Len(r)) = Successes(q, Len(q)) \cup {Len(q) + 1}
    BY <1>1, <1>3 DEF Successes
  <2>2. Len(q) + 1 \notin Successes(q, Len(q))
    BY <1>1 DEF Successes
  <2> QED
    BY <1>1, <1>2, <1>3, <2>1, <2>2, SuccessesType, FS_AddElement DEF r
<1>4. CASE event # "BranchSucceeded"
  <2>1. Successes(r, Len(r)) = Successes(q, Len(q))
    BY <1>1, <1>4 DEF Successes
  <2>2. Cardinality(Successes(q, Len(q))) \in Nat
    BY <1>1, SuccessesType
  <2> QED
    BY <1>2, <1>4, <2>1, <2>2 DEF r
<1> QED
  BY <1>3, <1>4

LEMMA SuccessesTail ==
  ASSUME NEW q \in Seq(Reports), q # <<>>, NEW n \in 0..(Len(q) - 1)
  PROVE  Cardinality(Successes(q, n + 1)) =
           Cardinality(Successes(Tail(q), n)) + (IF Head(q) = "BranchSucceeded" THEN 1 ELSE 0)
<1> DEFINE r == Tail(q)
           later == {i \in 2..(n + 1) : q[i] = "BranchSucceeded"}
           shift == [i \in Successes(r, n) |-> i + 1]
<1>1. /\ Len(q) \in Nat \ {0} /\ Len(r) = Len(q) - 1 /\ Head(q) = q[1]
      /\ \A i \in 1..(Len(q) - 1) : r[i] = q[i + 1]
  OBVIOUS
<1> HIDE DEF r
<1>2. Cardinality(later) = Cardinality(Successes(r, n)) /\ IsFiniteSet(later)
  <2>1. shift \in [Successes(r, n) -> later]
    BY <1>1 DEF Successes
  <2>2. \A i, k \in Successes(r, n) : shift[i] = shift[k] => i = k
    BY DEF Successes
  <2>3. \A k \in later : \E i \in Successes(r, n) : shift[i] = k
    <3>1. ASSUME NEW k \in later PROVE k - 1 \in Successes(r, n) /\ shift[k - 1] = k
      <4>1. k - 1 \in 1..n /\ r[k - 1] = q[k]
        BY <1>1
      <4>2. k - 1 \in Successes(r, n)
        BY <4>1 DEF Successes
      <4> QED
        BY <4>1, <4>2
    <3> QED
      BY <3>1
  <2> HIDE DEF shift, later
  <2>4. shift \in Bijection(Successes(r, n), later)
    BY <2>1, <2>2, <2>3 DEF Bijection, Injection, Surjection, IsInjective
  <2>5. ExistsBijection(Successes(r, n), later)
    BY <2>4 DEF ExistsBijection
  <2> QED
    BY <2>5, FS_Bijection, SuccessesType
<1>3. Successes(q, n + 1) = later \cup (IF q[1] = "BranchSucceeded" THEN {1} ELSE {})
  BY DEF Successes
<1>4. 1 \notin later
  OBVIOUS
<1>5. Cardinality(Successes(r, n)) \in Nat
  BY SuccessesType
<1> HIDE DEF later, shift
<1>6. CASE q[1] = "BranchSucceeded"
  BY <1>1, <1>2, <1>3, <1>4, <1>5, <1>6, FS_AddElement DEF r
<1>7. CASE q[1] # "BranchSucceeded"
  <2>1. Successes(q, n + 1) = later
    BY <1>3, <1>7
  <2>2. Cardinality(Successes(q, n + 1)) = Cardinality(Successes(r, n)) + 0
    BY <1>2, <1>5, <2>1
  <2> QED
    BY <1>1, <1>7, <2>2 DEF r
<1> QED
  BY <1>6, <1>7

LEMMA PartOfFrames ==
  ASSUME NEW F \in SUBSET Frames, NEW E \in SUBSET F
  PROVE  /\ IsFiniteSet(F) /\ Cardinality(F) \in Nat
         /\ IsFiniteSet(E) /\ Cardinality(E) \in Nat /\ Cardinality(E) <= Cardinality(F)
         /\ Cardinality(E) = Cardinality(F) => E = F
<1>1. IsFiniteSet(F)
  BY GraphEngineAssumption, FS_Subset DEF Frames
<1>2. /\ IsFiniteSet(E) /\ Cardinality(E) <= Cardinality(F)
      /\ Cardinality(F) = Cardinality(E) => F = E
  BY <1>1, FS_Subset
<1> QED
  BY <1>1, <1>2, FS_CardinalityType

LEMMA EndedType ==
  ASSUME TypeOK, NEW f \in Frames
  PROVE  /\ IsFiniteSet(futures[f]) /\ Cardinality(futures[f]) \in Nat
         /\ Ended(f) \subseteq futures[f] /\ IsFiniteSet(Ended(f))
         /\ Cardinality(Ended(f)) \in Nat /\ Cardinality(Ended(f)) <= Cardinality(futures[f])
         /\ Cardinality(Ended(f)) = Cardinality(futures[f]) => Ended(f) = futures[f]
<1>1. futures[f] \in SUBSET Frames /\ Ended(f) \in SUBSET futures[f]
  BY DEF TypeOK, Ended
<1> QED
  BY <1>1, PartOfFrames

LEMMA EndedTypeNext ==
  ASSUME TypeOK', NEW f \in Frames, NEW E \in SUBSET Ended(f)'
  PROVE  /\ Cardinality(futures'[f]) \in Nat /\ Cardinality(Ended(f)') \in Nat
         /\ Cardinality(Ended(f)') <= Cardinality(futures'[f])
         /\ Cardinality(E) <= Cardinality(Ended(f)')
<1>1. futures'[f] \in SUBSET Frames /\ Ended(f)' \in SUBSET futures'[f]
      /\ Ended(f)' \in SUBSET Frames
  BY DEF TypeOK, Ended
<1> QED
  BY <1>1, PartOfFrames

LEMMA EndedKept ==
  ASSUME UNCHANGED futures, NEW g \in Frames, TypeOK,
         \A b \in Frames : pc[b] \in {"exit", "done"} => pc'[b] \in {"exit", "done"}
  PROVE  Ended(g) \subseteq Ended(g)'
BY DEF Ended, TypeOK

LEMMA LedgerKept ==
  ASSUME TypeOK, TypeOK', NEW g \in Frames, Ledger(g), Ended(g) \subseteq Ended(g)',
         pc'[g] = pc[g], succeeded'[g] = succeeded[g], inbox'[g] = inbox[g],
         futures'[g] = futures[g]
  PROVE  Ledger(g)'
<1>1. Cardinality(Ended(g)) <= Cardinality(Ended(g)')
  BY EndedTypeNext
<1>2. Cardinality(Ended(g)) \in Nat /\ Cardinality(Ended(g)') \in Nat
  BY EndedType, EndedTypeNext
<1>3. /\ succeeded[g] \in Nat
      /\ Cardinality(Successes(inbox[g], Len(inbox[g]))) \in Nat
  BY SuccessesType DEF TypeOK
<1>4. Successes(inbox[g], Len(inbox[g]))' = Successes(inbox[g], Len(inbox[g]))
  BY DEF Successes
<1>5. \A i \in 1..Len(inbox[g]) : Successes(inbox'[g], i - 1) = Successes(inbox[g], i - 1)
  OBVIOUS
<1>6. /\ pc'[g] \in {"submit", "collect", "wait"} =>
          succeeded'[g] + Cardinality(Successes(inbox[g], Len(inbox[g]))') <= Cardinality(Ended(g)')
  BY <1>1, <1>2, <1>3, <1>4 DEF Ledger
<1>7. Collecting(g)' <=> Collecting(g)
  BY DEF Collecting
<1> QED
  BY <1>5, <1>6, <1>7 DEF Ledger

LEMMA NotOver ==
  ASSUME EngineInv, ResultInv, NEW f \in Frames, pc[f] \notin {"absent", "done"}
  PROVE  result \notin {"succeeded", "partial"}
<1> SUFFICES ASSUME result \in {"succeeded", "partial"} PROVE FALSE
  OBVIOUS
<1>1. Running = {} /\ work = <<>> /\ pc[Root] = "done"
  BY DEF ResultInv, SuccessMeansSuccess, RootEnds
<1>2. pc[f] # "queued"
  BY <1>1 DEF EngineInv, InWork
<1> QED
  BY <1>1, <1>2 DEF Running, Waiting

\* A root that has no branches has no descendants at work.
LEMMA NothingLeft ==
  ASSUME TypeOK, EngineInv, ResultInv, futures[Root] = {}
  PROVE  \A b \in Frames \ {Root} : pc[b] \in {"absent", "done"} /\ futures[b] = {}
<1> DEFINE S == {b \in Frames \ {Root} : pc[b] # "absent" /\ (pc[b] # "done" \/ futures[b] # {})}
<1>1. ASSUME NEW b \in S PROVE b # Root /\ parent[b] \in S
  <2>1. parent[b] \in Frames
    BY DEF ResultInv, Descent
  <2>2. b \in futures[parent[b]]
    BY <2>1 DEF ResultInv, Settled
  <2>3. parent[b] # Root /\ pc[parent[b]] # "absent"
    BY <2>1, <2>2 DEF EngineInv, AloneIsFree, Alone
  <2> QED
    BY <2>1, <2>2, <2>3
<1>2. S = {}
  <2>1. S \in SUBSET Frames
    OBVIOUS
  <2> HIDE DEF S
  <2> QED
    BY <1>1, <2>1 DEF ResultInv, Descent
<1>3. \A b \in Frames : pc[b] = "absent" => futures[b] = {}
  BY DEF EngineInv, AloneIsFree, Alone
<1> QED
  BY <1>2, <1>3

\* Who hears of the end of branch f.
LEMMA ParentFacts ==
  ASSUME TypeOK, EngineInv, ResultInv, NEW f \in Frames \ {Root},
         pc[f] \notin {"absent", "exit", "done"}
  PROVE  /\ parent[f] \in Frames /\ parent[f] # f /\ f \in futures[parent[f]]
         /\ Collecting(parent[f]) \/ pc[parent[f]] \in {"raise", "exit", "done"}
         /\ Cardinality(Ended(parent[f])) < Cardinality(futures[parent[f]])
         /\ \A i \in 1..Len(inbox[parent[f]]) :
              Collecting(parent[f]) => inbox[parent[f]][i] # "None"
<1> DEFINE h == parent[f]
<1>1. h \in Frames /\ h # f
  <2>1. h \in Frames
    BY DEF ResultInv, Descent
  <2>2. CASE h = f
    <3>1. {f} \in SUBSET Frames /\ \A b \in {f} : b # Root /\ parent[b] \in {f}
      BY <2>2
    <3>2. {f} = {}
      BY <3>1 DEF ResultInv, Descent
    <3> QED
      BY <3>2
  <2> QED
    BY <2>1, <2>2
<1>2. f \in futures[h]
  BY <1>1 DEF ResultInv, Settled
<1> HIDE DEF h
<1>3. f \notin Ended(h)
  BY DEF Ended
<1>4. /\ Cardinality(Ended(h)) < Cardinality(futures[h])
      /\ Cardinality(Ended(h)) \in Nat /\ Cardinality(futures[h]) \in Nat
  BY <1>1, <1>2, <1>3, EndedType
<1>5. /\ succeeded[h] \in Nat
      /\ Cardinality(Successes(inbox[h], Len(inbox[h]))) \in Nat
      /\ pc[h] \in Labels
  BY <1>1, SuccessesType DEF TypeOK, Labels
<1>6. Ledger(h)
  BY <1>1 DEF ResultInv
<1>7. pc[h] \in {"submit", "collect", "wait"} => succeeded[h] # Cardinality(futures[h])
  BY <1>4, <1>5, <1>6 DEF Ledger
<1>8. pc[h] # "wait"
  BY <1>6, <1>7 DEF Ledger
<1>9. Collecting(h) => \A i \in 1..Len(inbox[h]) : inbox[h][i] # "None"
  BY <1>6, <1>7 DEF Ledger, Collecting
<1>10. pc[h] \notin Alone
  BY <1>1, <1>2 DEF EngineInv, AloneIsFree
<1>11. Collecting(h) \/ pc[h] \in {"raise", "exit", "done"}
  BY <1>5, <1>8, <1>10 DEF Labels, Alone, Collecting
<1> QED
  BY <1>1, <1>2, <1>4, <1>9, <1>11 DEF h

\* A frame walks on by itself, without news to anybody.
Walks(f, label) ==
  /\ \/ pc[f] \in Alone \ {"absent"} /\ label \in (Alone \ {"absent"}) \cup {"submit", "raise"}
     \/ pc[f] = "submit" /\ label \in {"collect", "raise"}
     \/ pc[f] = "exit" /\ label = "done" /\ f # Root
  /\ pc' = [pc EXCEPT ![f] = label]
  /\ UNCHANGED <<futures, succeeded, parent, inbox, result, failed>>

LEMMA WalksStep ==
  ASSUME TypeOK, TypeOK', EngineInv, ResultInv, NEW f \in Frames, NEW label, Walks(f, label)
  PROVE  ResultInv'
<1>0. /\ pc'[f] = label /\ \A g \in Frames \ {f} : pc'[g] = pc[g]
      /\ pc \in [Frames -> Labels]
      /\ UNCHANGED <<futures, succeeded, parent, inbox, result, failed>>
  BY DEF Walks, TypeOK, Labels
<1>1. \A b \in Frames : /\ pc[b] \in {"exit", "done"} => pc'[b] \in {"exit", "done"}
                        /\ pc[b] = "done" => pc'[b] = "done"
                        /\ pc[b] = "absent" <=> pc'[b] = "absent"
  BY <1>0 DEF Walks, Alone
<1>2. Descent' /\ Settled'
  BY <1>0, <1>1 DEF ResultInv, Descent, Settled
<1>3. \A g \in Frames : Ended(g) \subseteq Ended(g)'
  BY <1>0, <1>1, EndedKept
<1>4. \A g \in Frames \ {f} : Ledger(g)'
  BY <1>0, <1>3, LedgerKept DEF ResultInv
<1>5. Ledger(f)'
  <2>1. Ledger(f)
    BY DEF ResultInv
  <2>2. CASE label \in Alone
    <3>1. pc[f] \in Alone
      BY <2>2 DEF Walks, Alone
    <3> QED
      BY <1>0, <2>1, <2>2, <3>1 DEF Ledger, Alone, Collecting
  <2>3. CASE label = "submit"
    <3>1. succeeded'[f] = 0 /\ inbox'[f] = <<>>
      BY <1>0, <2>1, <2>3 DEF Walks, Ledger
    <3>2. Cardinality(Successes(inbox'[f], Len(inbox'[f]))) = 0
      <4>1. Successes(inbox'[f], Len(inbox'[f])) = {}
        BY <3>1 DEF Successes
      <4> QED
        BY <4>1, FS_EmptySet
    <3>3. Cardinality(Ended(f)') \in Nat
      BY EndedTypeNext
    <3> QED
      BY <1>0, <2>3, <3>1, <3>2, <3>3 DEF Ledger, Alone, Collecting
  <2>4. CASE label = "collect"
    <3>1. pc[f] = "submit"
      BY <2>4 DEF Walks, Alone
    <3>2. Cardinality(Ended(f)) <= Cardinality(Ended(f)')
      BY <1>3, EndedTypeNext
    <3>3. Cardinality(Ended(f)) \in Nat /\ Cardinality(Ended(f)') \in Nat
      BY <1>3, EndedType, EndedTypeNext
    <3>4. /\ succeeded[f] \in Nat
          /\ Cardinality(Successes(inbox[f], Len(inbox[f]))) \in Nat
      BY SuccessesType DEF TypeOK
    <3> QED
      BY <1>0, <2>1, <2>4, <3>1, <3>2, <3>3, <3>4 DEF Ledger, Alone, Collecting
  <2>5. CASE label \in {"raise", "done"}
    BY <1>0, <2>5 DEF Ledger, Alone, Collecting
  <2> QED
    BY <2>2, <2>3, <2>4, <2>5 DEF Walks
<1>6. RootEnds'
  BY <1>0 DEF ResultInv, RootEnds, Walks, Alone
<1>7. FailureFound'
  <2>1. \A g \in Frames : Failing(g) => Failing(g)'
    BY <1>0 DEF Failing, Walks, Alone, Collecting
  <2> QED
    BY <1>0, <2>1 DEF ResultInv, FailureFound
<1>8. SuccessMeansSuccess'
  <2>1. pc[f] \notin {"absent", "done"}
    BY DEF Walks, Alone
  <2> QED
    BY <1>0, <2>1, NotOver DEF SuccessMeansSuccess
<1> QED
  BY <1>2, <1>4, <1>5, <1>6, <1>7, <1>8 DEF ResultInv

\* The root frame ends: run() has yielded its last event.
LEMMA RootStep ==
  ASSUME TypeOK, TypeOK', EngineInv, ResultInv, Root \in Frames,
         pc[Root] \notin {"absent", "exit", "done"}, pc' = [pc EXCEPT ![Root] = "done"],
         result' # "running", UNCHANGED <<futures, succeeded, parent>>,
         \A g \in Frames \ {Root} : inbox'[g] = inbox[g],
         SuccessMeansSuccess'
  PROVE  ResultInv'
<1>0. /\ pc'[Root] = "done" /\ \A g \in Frames \ {Root} : pc'[g] = pc[g]
  BY DEF TypeOK
<1>1. \A b \in Frames : /\ pc[b] \in {"exit", "done"} => pc'[b] \in {"exit", "done"}
                        /\ pc[b] = "done" => pc'[b] = "done"
                        /\ pc[b] = "absent" <=> pc'[b] = "absent"
  BY <1>0
<1>2. Descent' /\ Settled'
  BY <1>0, <1>1 DEF ResultInv, Descent, Settled
<1>3. \A g \in Frames : Ended(g) \subseteq Ended(g)'
  BY <1>1, EndedKept
<1>4. \A g \in Frames \ {Root} : Ledger(g)'
  BY <1>0, <1>3, LedgerKept DEF ResultInv
<1>5. Ledger(Root)'
  BY <1>0 DEF Ledger, Alone, Collecting
<1>6. RootEnds' /\ FailureFound'
  BY <1>0 DEF RootEnds, FailureFound
<1> QED
  BY <1>2, <1>4, <1>5, <1>6 DEF ResultInv

\* A branch puts an event in the queue of the frame that forked it.
Tells(f, event, label) ==
  /\ pc' = [pc EXCEPT ![f] = label]
  /\ inbox' = IF Collecting(parent[f])
              THEN [inbox EXCEPT ![parent[f]] = Append(@, event)] ELSE inbox
  /\ UNCHANGED <<futures, succeeded, parent, result>>

\* A failure told is on its way: it is in the queue, or the frame that forked
\* the branch has raised already.
LEMMA FailureTold ==
  ASSUME TypeOK, EngineInv, ResultInv, NEW f \in Frames \ {Root},
         pc[f] \notin {"absent", "exit", "done"}, NEW event \in Failures,
         NEW h \in Frames, parent[f] = h,
         pc'[h] = pc[h], futures'[h] = futures[h],
         Collecting(h) => inbox'[h] = Append(inbox[h], event)
  PROVE  Failing(h)'
<1>1. futures[h] # {} /\ (Collecting(h) \/ pc[h] \in {"raise", "exit", "done"})
  BY ParentFacts
<1>2. CASE Collecting(h)
  <2>1. inbox[h] \in Seq(Reports) /\ event \in Reports
    BY <1>1 DEF TypeOK, Reports, Failures
  <2>2. /\ Len(inbox'[h]) = Len(inbox[h]) + 1 /\ Len(inbox[h]) \in Nat
        /\ inbox'[h][Len(inbox[h]) + 1] = event
    BY <1>1, <1>2, <2>1
  <2>3. Len(inbox[h]) + 1 \in 1..Len(inbox'[h])
    BY <2>2
  <2> QED
    BY <1>1, <1>2, <2>2, <2>3 DEF Failing, Collecting
<1>3. CASE ~Collecting(h)
  BY <1>1, <1>3 DEF Failing
<1> QED
  BY <1>2, <1>3

\* The queue that is told of a failure.
LEMMA LedgerOfFailure ==
  ASSUME TypeOK, TypeOK', EngineInv, ResultInv, NEW f \in Frames \ {Root},
         pc[f] \notin {"absent", "exit", "done"}, NEW event \in Failures,
         NEW h \in Frames, parent[f] = h, NEW q, q = inbox[h],
         Collecting(h), inbox'[h] = Append(q, event),
         pc'[h] = pc[h], futures'[h] = futures[h], succeeded'[h] = succeeded[h],
         Ended(h) \subseteq Ended(h)'
  PROVE  Ledger(h)'
<1>1. /\ Cardinality(Ended(h)) < Cardinality(futures[h])
      /\ \A i \in 1..Len(q) : q[i] # "None"
  BY ParentFacts
<1>2. pc[h] \in {"submit", "collect"}
  BY DEF Collecting
<1>3. q \in Seq(Reports) /\ event \in Reports /\ succeeded[h] \in Nat
  BY <1>1 DEF TypeOK, Reports, Failures
<1>4. Ledger(h)
  BY <1>1 DEF ResultInv
<1>5. /\ Len(inbox'[h]) = Len(q) + 1 /\ Len(q) \in Nat
      /\ \A i \in 1..Len(q) : inbox'[h][i] = q[i]
      /\ inbox'[h][Len(q) + 1] = event
  BY <1>2, <1>3
<1>6. /\ \A n \in 0..Len(q) : Successes(inbox'[h], n) = Successes(q, n)
      /\ Cardinality(Successes(inbox'[h], Len(inbox'[h]))) = Cardinality(Successes(q, Len(q))) + 0
  BY <1>2, <1>3, SuccessesAppend DEF Failures
<1>7. Cardinality(Successes(q, Len(q))) \in Nat
  BY <1>5, SuccessesType
<1>8. succeeded[h] + Cardinality(Successes(q, Len(q))) <= Cardinality(Ended(h))
  BY <1>2, <1>4 DEF Ledger
<1>9. /\ Cardinality(Ended(h)) \in Nat /\ Cardinality(futures[h]) \in Nat
      /\ Cardinality(Ended(h)') \in Nat /\ Cardinality(Ended(h)) <= Cardinality(Ended(h)')
  <2>1. Cardinality(Ended(h)) \in Nat /\ Cardinality(futures[h]) \in Nat
    BY EndedType
  <2>2. Cardinality(Ended(h)') \in Nat /\ Cardinality(Ended(h)) <= Cardinality(Ended(h)')
    BY EndedTypeNext
  <2> QED
    BY <2>1, <2>2
<1>10. succeeded'[h] + Cardinality(Successes(inbox'[h], Len(inbox'[h]))) <= Cardinality(Ended(h)')
  BY <1>2, <1>3, <1>6, <1>7, <1>8, <1>9
<1>11. ASSUME NEW i \in 1..Len(inbox'[h]), inbox'[h][i] \in Failures
       PROVE  succeeded'[h] + Cardinality(Successes(inbox'[h], i - 1)) < Cardinality(futures'[h])
  <2>1. Successes(inbox'[h], i - 1) = Successes(q, i - 1)
    BY <1>5, <1>6
  <2>2. CASE i \in 1..Len(q)
    BY <1>2, <1>4, <1>5, <1>11, <2>1, <2>2 DEF Ledger
  <2>3. CASE i = Len(q) + 1
    <3>1. Cardinality(Successes(q, i - 1)) = Cardinality(Successes(q, Len(q)))
      BY <1>5, <2>3
    <3> QED
      BY <1>1, <1>2, <1>3, <1>7, <1>8, <1>9, <2>1, <3>1
  <2> QED
    BY <1>5, <2>2, <2>3
<1>12. \A i \in 1..Len(inbox'[h]) : inbox'[h][i] # "None"
  BY <1>1, <1>5 DEF Failures
<1> QED
  BY <1>2, <1>10, <1>11, <1>12 DEF Ledger, Alone, Collecting

\* The queue that is told of a success: its branch has ended.
LEMMA LedgerOfSuccess ==
  ASSUME TypeOK, TypeOK', EngineInv, ResultInv, NEW f \in Frames \ {Root},
         pc[f] \notin {"absent", "exit", "done"},
         NEW h \in Frames, parent[f] = h, NEW q, q = inbox[h],
         Collecting(h), inbox'[h] = Append(q, "BranchSucceeded"),
         pc'[h] = pc[h], futures'[h] = futures[h], succeeded'[h] = succeeded[h],
         Ended(h) \cup {f} \subseteq Ended(h)'
  PROVE  Ledger(h)'
<1>1. \A i \in 1..Len(q) : q[i] # "None"
  BY ParentFacts
<1>2. pc[h] \in {"submit", "collect"}
  BY DEF Collecting
<1>3. q \in Seq(Reports) /\ succeeded[h] \in Nat
  BY DEF TypeOK, Reports
<1>4. Ledger(h)
  BY DEF ResultInv
<1>5. /\ Len(inbox'[h]) = Len(q) + 1 /\ Len(q) \in Nat
      /\ \A i \in 1..Len(q) : inbox'[h][i] = q[i]
      /\ inbox'[h][Len(q) + 1] = "BranchSucceeded"
  BY <1>3
<1>6. /\ \A n \in 0..Len(q) : Successes(inbox'[h], n) = Successes(q, n)
      /\ Cardinality(Successes(inbox'[h], Len(inbox'[h]))) = Cardinality(Successes(q, Len(q))) + 1
  BY <1>3, SuccessesAppend DEF Reports
<1>7. Cardinality(Successes(q, Len(q))) \in Nat
  BY <1>5, SuccessesType
<1>8. succeeded[h] + Cardinality(Successes(q, Len(q))) <= Cardinality(Ended(h))
  BY <1>2, <1>4 DEF Ledger
<1>9. /\ Cardinality(Ended(h)) \in Nat /\ Cardinality(Ended(h)') \in Nat
      /\ Cardinality(Ended(h)) + 1 <= Cardinality(Ended(h)')
  <2>1. IsFiniteSet(Ended(h)) /\ Cardinality(Ended(h)) \in Nat
    BY EndedType
  <2>2. f \notin Ended(h)
    BY DEF Ended
  <2>3. Cardinality(Ended(h) \cup {f}) = Cardinality(Ended(h)) + 1
    BY <2>1, <2>2, FS_AddElement
  <2>4. Cardinality(Ended(h)') \in Nat /\ Cardinality(Ended(h) \cup {f}) <= Cardinality(Ended(h)')
    BY EndedTypeNext
  <2> QED
    BY <2>1, <2>3, <2>4
<1>10. succeeded'[h] + Cardinality(Successes(inbox'[h], Len(inbox'[h]))) <= Cardinality(Ended(h)')
  BY <1>3, <1>6, <1>7, <1>8, <1>9
<1>11. ASSUME NEW i \in 1..Len(inbox'[h]), inbox'[h][i] \in Failures
       PROVE  succeeded'[h] + Cardinality(Successes(inbox'[h], i - 1)) < Cardinality(futures'[h])
  <2>1. i \in 1..Len(q)
    BY <1>5, <1>11 DEF Failures
  <2>2. Successes(inbox'[h], i - 1) = Successes(q, i - 1)
    BY <1>5, <1>6
  <2> QED
    BY <1>4, <1>5, <1>11, <2>1, <2>2 DEF Ledger
<1>12. \A i \in 1..Len(inbox'[h]) : inbox'[h][i] # "None"
  BY <1>1, <1>5
<1> QED
  BY <1>2, <1>10, <1>11, <1>12 DEF Ledger, Alone, Collecting

LEMMA TellsStep ==
  ASSUME TypeOK, TypeOK', EngineInv, ResultInv, NEW f \in Frames \ {Root},
         NEW event, NEW label, Tells(f, event, label),
         \/ event \in Failures /\ pc[f] = "node" /\ label \in {"route", "raise"}
         \/ event \in Failures /\ pc[f] = "raise" /\ label = "exit"
         \/ /\ event = "BranchSucceeded" /\ pc[f] = "finish" /\ label = "exit"
            /\ failed' = failed
  PROVE  ResultInv'
<1> DEFINE h == parent[f]
<1>0. /\ pc'[f] = label /\ \A g \in Frames \ {f} : pc'[g] = pc[g]
      /\ UNCHANGED <<futures, succeeded, parent, result>>
  BY DEF Tells, TypeOK
<1>1. /\ h \in Frames /\ h # f /\ f \in futures[h]
      /\ Collecting(h) \/ pc[h] \in {"raise", "exit", "done"}
  BY ParentFacts
<1>2. /\ Collecting(h) => inbox'[h] = Append(inbox[h], event)
      /\ \A g \in Frames : g # h \/ ~Collecting(h) => inbox'[g] = inbox[g]
  BY <1>1 DEF Tells, TypeOK
<1>3. \A b \in Frames : /\ pc[b] \in {"exit", "done"} => pc'[b] \in {"exit", "done"}
                        /\ pc[b] = "done" => pc'[b] = "done"
                        /\ pc[b] = "absent" <=> pc'[b] = "absent"
  BY <1>0
<1>4. Descent' /\ Settled'
  BY <1>0, <1>3 DEF ResultInv, Descent, Settled
<1>5. \A g \in Frames : Ended(g) \subseteq Ended(g)'
  BY <1>0, <1>3, EndedKept
<1>6. \A g \in Frames \ {f, h} : Ledger(g)'
  BY <1>0, <1>2, <1>5, LedgerKept DEF ResultInv
<1>7. Ledger(f)'
  <2>1. Ledger(f)
    BY DEF ResultInv
  <2> QED
    BY <1>0, <1>1, <1>2, <2>1 DEF Ledger, Alone, Collecting
<1>8. PICK k \in Frames : k = h
  BY <1>1
<1>9. Ledger(k)'
  <2>1. CASE ~Collecting(k)
    BY <1>0, <1>1, <1>2, <1>5, <1>8, <2>1, LedgerKept DEF ResultInv
  <2>2. CASE Collecting(k) /\ event \in Failures
    BY <1>0, <1>1, <1>2, <1>5, <1>8, <2>2, LedgerOfFailure
  <2>3. CASE Collecting(k) /\ event \notin Failures
    <3>1. event = "BranchSucceeded" /\ pc[f] = "finish" /\ label = "exit"
      BY <2>3
    <3>2. futures[f] = {}
      BY <3>1 DEF EngineInv, AloneIsFree, Alone
    <3>3. f \in Ended(k)'
      BY <1>0, <1>1, <1>8, <3>1, <3>2 DEF Ended
    <3> QED
      BY <1>0, <1>1, <1>2, <1>5, <1>8, <2>3, <3>1, <3>3, LedgerOfSuccess
  <2> QED
    BY <2>1, <2>2, <2>3
<1>10. RootEnds'
  BY <1>0, GraphEngineAssumption DEF ResultInv, RootEnds, Frames
<1>11. FailureFound'
  <2>1. CASE event \in Failures
    <3>1. Failing(k)'
      BY <1>0, <1>1, <1>2, <1>8, <2>1, FailureTold
    <3> QED
      BY <3>1 DEF FailureFound
  <2>2. CASE event \notin Failures
    <3>1. failed' = failed /\ pc[f] = "finish" /\ label = "exit" /\ event = "BranchSucceeded"
      BY <2>2
    <3>2. \A g \in Frames : g # f /\ Failing(g) => Failing(g)'
      <4> SUFFICES ASSUME NEW g \in Frames, g # f, Failing(g) PROVE Failing(g)'
        OBVIOUS
      <4>1. pc'[g] = pc[g] /\ futures'[g] = futures[g]
        BY <1>0
      <4>2. CASE inbox'[g] = inbox[g]
        BY <4>1, <4>2 DEF Failing, Collecting
      <4>3. CASE inbox'[g] # inbox[g]
        <5>1. inbox'[g] = Append(inbox[g], event) /\ Collecting(g)
          BY <1>2, <4>3
        <5>2. inbox[g] \in Seq(Reports) /\ event \in Reports
          BY <3>1 DEF TypeOK, Reports
        <5>3. /\ \A i \in 1..Len(inbox[g]) : i \in 1..Len(inbox'[g]) /\ inbox'[g][i] = inbox[g][i]
          BY <5>1, <5>2
        <5> QED
          BY <4>1, <5>1, <5>3 DEF Failing, Collecting
      <4> QED
        BY <4>2, <4>3
    <3>3. ~Failing(f)
      BY <3>1 DEF Failing, Collecting
    <3> QED
      BY <1>0, <3>1, <3>2, <3>3 DEF ResultInv, FailureFound
  <2> QED
    BY <2>1, <2>2
<1>12. SuccessMeansSuccess'
  BY <1>0, NotOver DEF SuccessMeansSuccess
<1> QED
  BY <1>4, <1>6, <1>7, <1>8, <1>9, <1>10, <1>11, <1>12 DEF ResultInv

\* Taking an event of a branch from the queue, and counting it.
LEMMA TailFacts ==
  ASSUME TypeOK, NEW f \in Frames, Ledger(f), Collecting(f), NEW q, q = inbox[f], q # <<>>,
         Head(q) \in {"NodeFailed", "BranchSucceeded"},
         NEW count, count = succeeded[f] + (IF Head(q) = "BranchSucceeded" THEN 1 ELSE 0)
  PROVE  /\ Tail(q) \in Seq(Reports) /\ count \in Nat
         /\ count + Cardinality(Successes(Tail(q), Len(Tail(q)))) <= Cardinality(Ended(f))
         /\ \A i \in 1..Len(Tail(q)) : Tail(q)[i] \in Failures =>
              count + Cardinality(Successes(Tail(q), i - 1)) < Cardinality(futures[f])
         /\ \A i \in 1..Len(Tail(q)) : Tail(q)[i] # "None"
<1>0. q \in Seq(Reports) /\ succeeded[f] \in Nat /\ Tail(q) \in Seq(Reports)
  BY DEF TypeOK, Reports
<1>1. /\ Len(q) \in Nat \ {0} /\ Len(Tail(q)) = Len(q) - 1 /\ Head(q) = q[1]
      /\ \A i \in 1..(Len(q) - 1) : Tail(q)[i] = q[i + 1]
  BY <1>0
<1>2. \A n \in 0..(Len(q) - 1) :
        /\ Cardinality(Successes(Tail(q), n)) \in Nat
        /\ Cardinality(Successes(q, n + 1)) =
             Cardinality(Successes(Tail(q), n)) + (IF Head(q) = "BranchSucceeded" THEN 1 ELSE 0)
  BY <1>0, <1>1, SuccessesType, SuccessesTail
<1>3. succeeded[f] + Cardinality(Successes(q, Len(q))) <= Cardinality(Ended(f))
  BY DEF Ledger, Collecting
<1>4. count + Cardinality(Successes(Tail(q), Len(Tail(q)))) <= Cardinality(Ended(f))
  <2>1. /\ Len(Tail(q)) \in 0..(Len(q) - 1) /\ Len(Tail(q)) + 1 = Len(q)
    BY <1>1
  <2>2. Cardinality(Successes(q, Len(q))) =
          Cardinality(Successes(Tail(q), Len(Tail(q))))
            + (IF Head(q) = "BranchSucceeded" THEN 1 ELSE 0)
    BY <1>2, <2>1
  <2>3. Cardinality(Successes(Tail(q), Len(Tail(q)))) \in Nat
    BY <1>2, <2>1
  <2>4. Cardinality(Ended(f)) \in Nat
    BY EndedType
  <2> QED
    BY <1>0, <1>3, <2>2, <2>3, <2>4
<1>5. ASSUME NEW i \in 1..Len(Tail(q)), Tail(q)[i] \in Failures
      PROVE  count + Cardinality(Successes(Tail(q), i - 1)) < Cardinality(futures[f])
  <2>1. q[i + 1] \in Failures /\ i + 1 \in 1..Len(q) /\ (i + 1) - 1 = (i - 1) + 1
    <3>1. i \in 1..(Len(q) - 1)
      BY <1>1
    <3>2. Tail(q)[i] = q[i + 1]
      BY <1>1, <3>1
    <3>3. i + 1 \in 1..Len(q) /\ (i + 1) - 1 = (i - 1) + 1
      BY <1>1, <3>1
    <3> QED
      BY <1>5, <3>2, <3>3
  <2>2. succeeded[f] + Cardinality(Successes(q, (i - 1) + 1)) < Cardinality(futures[f])
    BY <2>1 DEF Ledger
  <2>3. i - 1 \in 0..(Len(q) - 1)
    BY <1>1
  <2>4. /\ Cardinality(Successes(Tail(q), i - 1)) \in Nat
        /\ Cardinality(Successes(q, (i - 1) + 1)) =
             Cardinality(Successes(Tail(q), i - 1))
               + (IF Head(q) = "BranchSucceeded" THEN 1 ELSE 0)
    BY <1>2, <2>3
  <2>5. Cardinality(futures[f]) \in Nat
    BY EndedType
  <2> QED
    BY <1>0, <2>2, <2>4, <2>5
<1>6. \A i \in 1..Len(Tail(q)) : Tail(q)[i] # "None"
  <2>1. ASSUME NEW i \in 1..Len(Tail(q)), Tail(q)[i] = "None" PROVE FALSE
    <3>1. q[i + 1] = "None" /\ i + 1 \in 1..Len(q)
      BY <1>1, <2>1
    <3>2. q = <<"None">>
      BY <3>1 DEF Ledger
    <3> QED
      BY <3>2
  <2> QED
    BY <2>1
<1>7. count \in Nat
  BY <1>0
<1> QED
  BY <1>0, <1>4, <1>5, <1>6, <1>7

LEMMA CollectSucceededStep ==
  ASSUME TypeOK, TypeOK', EngineInv, ResultInv, NEW f \in Frames, CollectSucceeded(f)
  PROVE  ResultInv'
<1> DEFINE q == inbox[f]
<1>0. /\ pc[f] = "collect" /\ q # <<>> /\ Head(q) = "BranchSucceeded"
      /\ UNCHANGED <<pc, futures, parent, result, failed, work>>
      /\ succeeded' = [succeeded EXCEPT ![f] = @ + 1]
      /\ inbox' = [inbox EXCEPT ![f] = IF LastSuccess(f) THEN Append(Tail(@), "None") ELSE Tail(@)]
  BY DEF CollectSucceeded, Collect, frameVars
<1>1. /\ succeeded'[f] = succeeded[f] + 1 /\ \A g \in Frames \ {f} : succeeded'[g] = succeeded[g]
      /\ inbox'[f] = (IF LastSuccess(f) THEN Append(Tail(q), "None") ELSE Tail(q))
      /\ \A g \in Frames \ {f} : inbox'[g] = inbox[g]
  BY <1>0 DEF TypeOK
<1>2. \A g \in Frames : Ended(g)' = Ended(g)
  BY <1>0 DEF Ended
<1>3. \A g \in Frames \ {f} : Ledger(g)'
  BY <1>0, <1>1, <1>2, LedgerKept DEF ResultInv
<1>4. Ledger(f)
  BY DEF ResultInv
<1>5. /\ Tail(q) \in Seq(Reports) /\ succeeded[f] + 1 \in Nat
      /\ succeeded[f] + 1 + Cardinality(Successes(Tail(q), Len(Tail(q)))) <= Cardinality(Ended(f))
      /\ \A i \in 1..Len(Tail(q)) : Tail(q)[i] \in Failures =>
           succeeded[f] + 1 + Cardinality(Successes(Tail(q), i - 1)) < Cardinality(futures[f])
      /\ \A i \in 1..Len(Tail(q)) : Tail(q)[i] # "None"
  BY <1>0, <1>4, TailFacts DEF Collecting
<1>6. /\ Cardinality(futures[f]) \in Nat /\ Cardinality(Ended(f)) \in Nat
      /\ Cardinality(Ended(f)) <= Cardinality(futures[f])
  BY EndedType
<1> DEFINE r == Tail(q)
<1>7. r \in Seq(Reports) /\ Len(r) \in Nat
  BY <1>5
<1> HIDE DEF q, r
<1>8. ASSUME ~LastSuccess(f) PROVE Ledger(f)'
  <2>1. inbox'[f] = r
    BY <1>1, <1>8 DEF r
  <2> QED
    BY <1>0, <1>1, <1>2, <1>5, <2>1 DEF r, Ledger, Alone, Collecting
<1>9. ASSUME LastSuccess(f) PROVE Ledger(f)'
  <2>1. succeeded[f] + 1 = Cardinality(futures[f])
    BY <1>9 DEF LastSuccess
  <2>2. \A i \in 1..Len(r) : FALSE
    <3>1. ASSUME NEW i \in 1..Len(r) PROVE FALSE
      <4>1. Cardinality(Successes(r, i - 1)) \in Nat /\ Cardinality(Successes(r, Len(r))) \in Nat
        BY <1>7, SuccessesType
      <4>2. Cardinality(Successes(r, Len(r))) = 0
        BY <1>5, <1>6, <2>1, <4>1 DEF r
      <4>3. Successes(r, Len(r)) = {}
        BY <1>7, <4>2, SuccessesType, FS_EmptySet
      <4>4. r[i] # "BranchSucceeded"
        BY <4>3 DEF Successes
      <4>5. r[i] \notin Failures
        BY <1>5, <1>6, <2>1, <4>1 DEF r
      <4>6. r[i] # "None" /\ r[i] \in Reports
        BY <1>5, <1>7 DEF r
      <4> QED
        BY <4>4, <4>5, <4>6 DEF Reports, Failures
    <3> QED
      BY <3>1
  <2>3. r = <<>>
    BY <1>7, <2>2
  <2>4. inbox'[f] = <<"None">>
    <3>1. inbox'[f] = Append(<<>>, "None")
      BY <1>1, <1>9, <2>3 DEF r
    <3> QED
      BY <3>1
  <2>5. Cardinality(Successes(inbox'[f], Len(inbox'[f]))) = 0
    <3>1. Successes(inbox'[f], Len(inbox'[f])) = {}
      BY <2>4 DEF Successes
    <3> QED
      BY <3>1, FS_EmptySet
  <2>6. Cardinality(Successes(r, Len(r))) \in Nat
    BY <1>7, SuccessesType
  <2>7. succeeded'[f] + Cardinality(Successes(inbox'[f], Len(inbox'[f]))) <= Cardinality(Ended(f))
    BY <1>1, <1>5, <1>6, <2>5, <2>6 DEF r
  <2>8. \A i \in 1..Len(inbox'[f]) : inbox'[f][i] \notin Failures
    BY <2>4 DEF Failures
  <2>9. /\ pc'[f] = "collect" /\ succeeded'[f] = Cardinality(futures'[f])
        /\ Ended(f)' = Ended(f)
    BY <1>0, <1>1, <1>2, <2>1
  <2> QED
    BY <2>4, <2>7, <2>8, <2>9 DEF Ledger, Alone, Collecting
<1>10. Ledger(f)'
  BY <1>8, <1>9
<1>11. FailureFound'
  <2>1. \A g \in Frames \ {f} : Failing(g) => Failing(g)'
    BY <1>0, <1>1 DEF Failing, Collecting
  <2>2. Failing(f) => Failing(f)'
    <3> SUFFICES ASSUME Failing(f) PROVE Failing(f)'
      OBVIOUS
    <3>1. PICK i \in 1..Len(q) : q[i] \in Failures
      BY <1>0 DEF Failing, q
    <3>2. q \in Seq(Reports) /\ q # <<>> /\ i # 1
      BY <1>0, <3>1 DEF TypeOK, Reports, Failures, q
    <3>3. i - 1 \in 1..Len(r) /\ r[i - 1] \in Failures
      BY <3>1, <3>2 DEF r
    <3>4. i - 1 \in 1..Len(inbox'[f]) /\ inbox'[f][i - 1] = r[i - 1]
      BY <1>1, <1>7, <3>3 DEF r, Reports
    <3> QED
      BY <1>0, <3>3, <3>4 DEF Failing, Collecting
  <2> QED
    BY <1>0, <2>1, <2>2 DEF ResultInv, FailureFound
<1>12. Descent' /\ Settled' /\ RootEnds'
  BY <1>0 DEF ResultInv, Descent, Settled, RootEnds
<1>13. SuccessMeansSuccess'
  BY <1>0, NotOver DEF SuccessMeansSuccess
<1> QED
  BY <1>3, <1>10, <1>11, <1>12, <1>13 DEF ResultInv

\* The collecting ends: a branch failed, or all succeeded.
LEMMA CollectEndsStep ==
  ASSUME TypeOK, TypeOK', EngineInv, ResultInv, NEW f \in Frames,
         CollectFailed(f) \/ CollectNone(f)
  PROVE  ResultInv'
<1>0. /\ pc[f] = "collect" /\ inbox[f] # <<>> /\ inbox[f] \in Seq(Reports)
      /\ UNCHANGED <<futures, succeeded, parent, result, failed>>
      /\ inbox'[f] = Tail(inbox[f]) /\ \A g \in Frames \ {f} : inbox'[g] = inbox[g]
      /\ \A g \in Frames \ {f} : pc'[g] = pc[g]
      /\ \/ Head(inbox[f]) = "BranchFailed" /\ pc'[f] = "raise"
         \/ Head(inbox[f]) = "None" /\ pc'[f] = "wait"
  BY DEF CollectFailed, CollectNone, Collect, Goto, frameVars, TypeOK, Reports
<1>1. \A b \in Frames : /\ pc[b] \in {"exit", "done"} => pc'[b] \in {"exit", "done"}
                        /\ pc[b] = "done" => pc'[b] = "done"
                        /\ pc[b] = "absent" <=> pc'[b] = "absent"
  BY <1>0
<1>2. Descent' /\ Settled'
  BY <1>0, <1>1 DEF ResultInv, Descent, Settled
<1>3. \A g \in Frames : Ended(g) \subseteq Ended(g)'
  BY <1>0, <1>1, EndedKept
<1>4. \A g \in Frames \ {f} : Ledger(g)'
  BY <1>0, <1>3, LedgerKept DEF ResultInv
<1>5. pc'[f] = "wait" => inbox[f] = <<"None">> /\ succeeded[f] = Cardinality(futures[f])
  <2>1. Ledger(f)
    BY DEF ResultInv
  <2>2. Len(inbox[f]) \in Nat \ {0} /\ Head(inbox[f]) = inbox[f][1] /\ 1 \in 1..Len(inbox[f])
    BY <1>0
  <2> QED
    BY <1>0, <2>1, <2>2 DEF Ledger, Collecting
<1>6. Ledger(f)'
  <2>1. CASE pc'[f] = "raise"
    BY <2>1 DEF Ledger, Alone, Collecting
  <2>2. CASE pc'[f] = "wait"
    <3>1. inbox'[f] = <<>>
      <4>1. inbox'[f] = Tail(<<"None">>)
        BY <1>0, <1>5, <2>2
      <4>2. Tail(<<"None">>) = <<>>
        OBVIOUS
      <4> QED
        BY <4>1, <4>2
    <3>2. Cardinality(Successes(inbox'[f], Len(inbox'[f]))) = 0
      <4>1. Successes(inbox'[f], Len(inbox'[f])) = {}
        BY <3>1 DEF Successes
      <4> QED
        BY <4>1, FS_EmptySet
    <3>3. succeeded[f] <= Cardinality(Ended(f))
      <4>1. /\ succeeded[f] \in Nat /\ Cardinality(Ended(f)) \in Nat
            /\ Cardinality(Successes(inbox[f], Len(inbox[f]))) \in Nat
        <5>1. Len(inbox[f]) \in Nat
          BY <1>0
        <5> QED
          BY <5>1, SuccessesType, EndedType DEF TypeOK
      <4>2. succeeded[f] + Cardinality(Successes(inbox[f], Len(inbox[f]))) <= Cardinality(Ended(f))
        BY <1>0 DEF ResultInv, Ledger
      <4> QED
        BY <4>1, <4>2
    <3>4. Cardinality(Ended(f)) \in Nat /\ succeeded[f] \in Nat
      BY EndedType DEF TypeOK
    <3>5. Cardinality(Ended(f)') \in Nat /\ Cardinality(Ended(f)) <= Cardinality(Ended(f)')
      BY <1>3, EndedTypeNext
    <3>6. succeeded'[f] + Cardinality(Successes(inbox'[f], Len(inbox'[f])))
            <= Cardinality(Ended(f)')
      BY <1>0, <3>2, <3>3, <3>4, <3>5
    <3>7. succeeded'[f] = Cardinality(futures'[f])
      BY <1>0, <1>5, <2>2
    <3> QED
      BY <2>2, <3>1, <3>6, <3>7 DEF Ledger, Alone, Collecting
  <2> QED
    BY <1>0, <2>1, <2>2
<1>7. RootEnds'
  BY <1>0, GraphEngineAssumption DEF ResultInv, RootEnds, Frames
<1>8. FailureFound'
  <2>1. \A g \in Frames \ {f} : Failing(g) => Failing(g)'
    BY <1>0 DEF Failing, Collecting
  <2>2. Failing(f) => Failing(f)'
    <3>1. CASE pc'[f] = "raise"
      BY <3>1 DEF Failing
    <3>2. CASE pc'[f] = "wait"
      BY <1>0, <1>5, <3>2 DEF Failing, Failures
    <3> QED
      BY <1>0, <3>1, <3>2
  <2> QED
    BY <1>0, <2>1, <2>2 DEF ResultInv, FailureFound
<1>9. SuccessMeansSuccess'
  BY <1>0, NotOver DEF SuccessMeansSuccess
<1> QED
  BY <1>2, <1>4, <1>6, <1>7, <1>8, <1>9 DEF ResultInv

\* A branch's collecting frame passes on that a node failed.
LEMMA PassesOnStep ==
  ASSUME TypeOK, TypeOK', EngineInv, ResultInv, NEW f \in Frames \ {Root},
         CollectNodeFailed(f)
  PROVE  ResultInv'
<1>0. /\ pc[f] = "collect" /\ inbox[f] # <<>> /\ Head(inbox[f]) = "NodeFailed"
      /\ UNCHANGED <<pc, futures, succeeded, parent, result, failed, work>>
  BY DEF CollectNodeFailed, Collect, frameVars
<1>1. PICK h \in Frames : parent[f] = h /\ h # f
  BY <1>0, ParentFacts
<1>2. /\ inbox'[f] = Tail(inbox[f])
      /\ Collecting(h) => inbox'[h] = Append(inbox[h], "NodeFailed")
      /\ \A g \in Frames \ {f} : g # h \/ ~Collecting(h) => inbox'[g] = inbox[g]
  BY <1>1 DEF CollectNodeFailed
<1>3. \A g \in Frames : Ended(g)' = Ended(g)
  BY <1>0 DEF Ended
<1>4. \A g \in Frames \ {f, h} : Ledger(g)'
  BY <1>0, <1>2, <1>3, LedgerKept DEF ResultInv
<1>5. Ledger(f)'
  <2> DEFINE r == Tail(inbox[f])
  <2>1. Ledger(f) /\ succeeded[f] \in Nat /\ succeeded[f] = succeeded[f] + 0
    BY DEF ResultInv, TypeOK
  <2>2. /\ succeeded[f] + Cardinality(Successes(r, Len(r))) <= Cardinality(Ended(f))
        /\ \A i \in 1..Len(r) : r[i] \in Failures =>
             succeeded[f] + Cardinality(Successes(r, i - 1)) < Cardinality(futures[f])
        /\ \A i \in 1..Len(r) : r[i] # "None"
    BY <1>0, <2>1, TailFacts DEF Collecting
  <2>3. inbox'[f] = r
    BY <1>2
  <2> HIDE DEF r
  <2> QED
    BY <1>0, <1>3, <2>2, <2>3 DEF Ledger, Alone, Collecting
<1>6. Ledger(h)'
  <2>1. CASE Collecting(h)
    BY <1>0, <1>1, <1>2, <1>3, <2>1, LedgerOfFailure DEF Failures
  <2>2. CASE ~Collecting(h)
    BY <1>0, <1>1, <1>2, <1>3, <2>2, LedgerKept DEF ResultInv
  <2> QED
    BY <2>1, <2>2
<1>7. FailureFound'
  <2>1. Failing(h)'
    BY <1>0, <1>1, <1>2, FailureTold DEF Failures
  <2> QED
    BY <2>1 DEF FailureFound
<1>8. Descent' /\ Settled' /\ RootEnds'
  BY <1>0 DEF ResultInv, Descent, Settled, RootEnds
<1>9. SuccessMeansSuccess'
  BY <1>0, NotOver DEF SuccessMeansSuccess
<1> QED
  BY <1>4, <1>5, <1>6, <1>7, <1>8, <1>9 DEF ResultInv

LEMMA JoinStep ==
  ASSUME TypeOK, TypeOK', EngineInv, ResultInv, NEW f \in Frames, Join(f)
  PROVE  ResultInv'
<1>0. PICK label \in {"top", "finish"} : pc' = [pc EXCEPT ![f] = label]
  BY ContinueMoves DEF Join
<1>1. /\ pc[f] = "wait" /\ AllDone(f) /\ pc'[f] = label
      /\ \A g \in Frames \ {f} : pc'[g] = pc[g]
      /\ futures'[f] = {} /\ \A g \in Frames \ {f} : futures'[g] = futures[g]
      /\ succeeded'[f] = 0 /\ \A g \in Frames \ {f} : succeeded'[g] = succeeded[g]
      /\ UNCHANGED <<parent, inbox, result, failed>>
  BY <1>0 DEF Join, TypeOK
<1>2. Ledger(f)
  BY DEF ResultInv
<1>3. inbox[f] = <<>> /\ Ended(f) = futures[f]
  <2>1. succeeded[f] = Cardinality(futures[f]) /\ inbox[f] = <<>>
    BY <1>1, <1>2 DEF Ledger
  <2>2. Cardinality(Successes(inbox[f], Len(inbox[f]))) = 0
    <3>1. Successes(inbox[f], Len(inbox[f])) = {}
      BY <2>1 DEF Successes
    <3> QED
      BY <3>1, FS_EmptySet
  <2>3. succeeded[f] <= Cardinality(Ended(f))
    <3>1. succeeded[f] + Cardinality(Successes(inbox[f], Len(inbox[f]))) <= Cardinality(Ended(f))
      BY <1>1, <1>2 DEF Ledger
    <3>2. succeeded[f] \in Nat
      BY DEF TypeOK
    <3> QED
      BY <2>2, <3>1, <3>2
  <2> QED
    BY <2>1, <2>3, EndedType
<1>4. Descent'
  BY <1>0, <1>1 DEF ResultInv, Descent
<1>5. Settled'
  <2>1. ASSUME NEW g \in Frames, NEW b \in Frames, parent[b] = g, b \notin futures'[g]
        PROVE  pc'[b] = "done" /\ futures'[b] = {}
    <3>1. CASE b \in futures[g]
      <4>1. g = f
        BY <1>1, <2>1, <3>1
      <4>2. pc[b] = "done" /\ futures[b] = {}
        BY <1>1, <1>3, <3>1, <4>1 DEF AllDone, Ended
      <4> QED
        BY <1>1, <4>2
    <3>2. CASE b \notin futures[g]
      <4>1. pc[b] = "done" /\ futures[b] = {}
        BY <2>1, <3>2 DEF ResultInv, Settled
      <4> QED
        BY <1>1, <4>1
    <3> QED
      BY <3>1, <3>2
  <2> QED
    BY <1>1, <2>1 DEF Settled
<1>6. \A g \in Frames \ {f} : Ended(g) \subseteq Ended(g)'
  <2>1. ASSUME NEW g \in Frames \ {f}, NEW b \in Ended(g) PROVE b \in Ended(g)'
    <3>1. b \in Frames /\ b \in futures[g] /\ pc[b] \in {"exit", "done"} /\ futures[b] = {}
      BY <2>1 DEF Ended, TypeOK
    <3> QED
      BY <1>1, <3>1 DEF Ended
  <2> QED
    BY <2>1
<1>7. \A g \in Frames \ {f} : Ledger(g)'
  BY <1>1, <1>6, LedgerKept DEF ResultInv
<1>8. Ledger(f)'
  BY <1>1, <1>3 DEF Ledger, Alone, Collecting
<1>9. RootEnds'
  BY <1>1, GraphEngineAssumption DEF ResultInv, RootEnds, Frames
<1>10. FailureFound'
  <2>1. \A g \in Frames : Failing(g) => Failing(g)'
    BY <1>1 DEF Failing, Collecting
  <2> QED
    BY <1>1, <2>1 DEF ResultInv, FailureFound
<1>11. SuccessMeansSuccess'
  BY <1>1, NotOver DEF SuccessMeansSuccess
<1> QED
  BY <1>4, <1>5, <1>7, <1>8, <1>9, <1>10, <1>11 DEF ResultInv

LEMMA SubmitStep ==
  ASSUME TypeOK, TypeOK', EngineInv, ResultInv, NEW f \in Frames, Submit(f)
  PROVE  ResultInv'
<1>1. CASE submitCount' > MaxSubmit
  <2>1. Walks(f, "raise")
    BY <1>1 DEF Submit, Walks, Goto, Alone
  <2> QED
    BY <2>1, WalksStep
<1>2. CASE ~(submitCount' > MaxSubmit)
  <2>1. PICK b \in edges[f] :
          /\ futures' = [futures EXCEPT ![f] = @ \cup {b}]
          /\ parent' = [parent EXCEPT ![b] = f]
          /\ pc' = [pc EXCEPT ![b] = "queued"]
    BY <1>2 DEF Submit
  <2>2. b \in Frames /\ b # f /\ b # Root /\ pc[b] = "absent" /\ pc[f] = "submit"
    BY DEF EngineInv, Fresh, Submit, TypeOK
  <2>3. /\ pc'[b] = "queued" /\ \A g \in Frames \ {b} : pc'[g] = pc[g]
        /\ futures'[f] = futures[f] \cup {b} /\ \A g \in Frames \ {f} : futures'[g] = futures[g]
        /\ parent'[b] = f /\ \A g \in Frames \ {b} : parent'[g] = parent[g]
        /\ UNCHANGED <<succeeded, inbox, result, failed>>
    BY <2>1, <2>2 DEF TypeOK, Submit
  <2>4. \A c \in Frames : parent[c] # b
    BY <2>2 DEF ResultInv, Descent
  <2>5. Descent'
    <3>1. ASSUME NEW S \in SUBSET Frames, \A c \in S : c # Root /\ parent'[c] \in S
          PROVE  S = {}
      <4>1. CASE b \in S
        <5>1. f \in S \ {b}
          BY <2>2, <2>3, <3>1, <4>1
        <5>2. \A c \in S \ {b} : c # Root /\ parent[c] \in S \ {b}
          BY <2>3, <2>4, <3>1
        <5>3. S \ {b} \in SUBSET Frames
          OBVIOUS
        <5>4. S \ {b} = {}
          BY <5>2, <5>3 DEF ResultInv, Descent
        <5> QED
          BY <5>1, <5>4
      <4>2. CASE b \notin S
        <5>1. \A c \in S : c # Root /\ parent[c] \in S
          BY <2>3, <3>1, <4>2
        <5> QED
          BY <5>1 DEF ResultInv, Descent
      <4> QED
        BY <4>1, <4>2
    <3>2. \A c \in Frames : pc'[c] = "absent" => \A d \in Frames : parent'[d] # c
      BY <2>2, <2>3 DEF ResultInv, Descent
    <3>3. \A c \in Frames \ {Root} : pc'[c] # "absent" => parent'[c] \in Frames
      BY <2>2, <2>3 DEF ResultInv, Descent
    <3> QED
      BY <3>1, <3>2, <3>3 DEF Descent
  <2>6. Settled'
    BY <2>2, <2>3 DEF ResultInv, Settled
  <2>7. \A g \in Frames : Ended(g) \subseteq Ended(g)'
    <3>1. ASSUME NEW g \in Frames, NEW c \in Ended(g) PROVE c \in Ended(g)'
      <4>1. c \in Frames /\ c \in futures[g] /\ pc[c] \in {"exit", "done"} /\ futures[c] = {}
        BY <3>1 DEF Ended, TypeOK
      <4>2. c # b /\ c # f
        BY <2>2, <4>1
      <4> QED
        BY <2>3, <4>1, <4>2 DEF Ended
    <3> QED
      BY <3>1
  <2>8. \A g \in Frames \ {f, b} : Ledger(g)'
    BY <2>3, <2>7, LedgerKept DEF ResultInv
  <2>9. Ledger(b)'
    BY <2>2, <2>3 DEF ResultInv, Ledger, Alone, Collecting
  <2>10. Ledger(f)'
    <3>1. Ledger(f)
      BY DEF ResultInv
    <3>2. /\ Cardinality(Ended(f)) \in Nat /\ Cardinality(Ended(f)') \in Nat
          /\ Cardinality(Ended(f)) <= Cardinality(Ended(f)')
      BY <2>7, EndedType, EndedTypeNext
    <3>3. /\ Cardinality(futures[f]) \in Nat /\ Cardinality(futures'[f]) \in Nat
          /\ Cardinality(futures[f]) <= Cardinality(futures'[f])
      <4>1. futures'[f] \in SUBSET Frames /\ futures[f] \in SUBSET futures'[f]
        BY <2>3 DEF TypeOK
      <4> QED
        BY <4>1, PartOfFrames
    <3>4. /\ succeeded[f] \in Nat /\ Len(inbox[f]) \in Nat
      BY DEF TypeOK
    <3>5. \A n \in 0..Len(inbox[f]) : Cardinality(Successes(inbox[f], n)) \in Nat
      BY <3>4, SuccessesType
    <3>6. succeeded[f] + Cardinality(Successes(inbox[f], Len(inbox[f]))) <= Cardinality(Ended(f)')
      <4>1. Cardinality(Successes(inbox[f], Len(inbox[f]))) \in Nat
        BY <3>4, <3>5
      <4>2. succeeded[f] + Cardinality(Successes(inbox[f], Len(inbox[f]))) <= Cardinality(Ended(f))
        BY <2>2, <3>1 DEF Ledger
      <4> QED
        BY <3>2, <3>4, <4>1, <4>2
    <3>7. ASSUME NEW i \in 1..Len(inbox[f]), inbox[f][i] \in Failures
          PROVE  succeeded[f] + Cardinality(Successes(inbox[f], i - 1)) < Cardinality(futures'[f])
      <4>1. Cardinality(Successes(inbox[f], i - 1)) \in Nat
        BY <3>4, <3>5
      <4>2. succeeded[f] + Cardinality(Successes(inbox[f], i - 1)) < Cardinality(futures[f])
        BY <2>2, <3>1, <3>7 DEF Ledger, Collecting
      <4> QED
        BY <3>3, <3>4, <4>1, <4>2
    <3>8. \A i \in 1..Len(inbox[f]) : inbox[f][i] # "None"
      BY <2>2, <3>1 DEF Ledger, Collecting
    <3>9. pc'[f] = "submit"
      BY <2>2, <2>3
    <3> QED
      BY <2>3, <3>6, <3>7, <3>8, <3>9 DEF Ledger, Alone, Collecting
  <2>11. RootEnds'
    BY <2>2, <2>3, GraphEngineAssumption DEF ResultInv, RootEnds, Frames
  <2>12. FailureFound'
    <3>1. \A g \in Frames : Failing(g) => Failing(g)'
      BY <2>2, <2>3 DEF Failing, Collecting
    <3> QED
      BY <2>3, <3>1 DEF ResultInv, FailureFound
  <2>13. SuccessMeansSuccess'
    BY <2>2, <2>3, NotOver DEF SuccessMeansSuccess
  <2> QED
    BY <2>5, <2>6, <2>8, <2>9, <2>10, <2>11, <2>12, <2>13 DEF ResultInv
<1> QED
  BY <1>1, <1>2

LEMMA ResultInit == Init => ResultInv
<1> SUFFICES ASSUME Init PROVE ResultInv
  OBVIOUS
<1>1. \A b \in Frames : parent[b] = None /\ None \notin Frames
  BY GraphEngineAssumption DEF Init, Frames
<1>2. Descent
  BY <1>1 DEF Init, Descent
<1>3. Settled
  BY <1>1 DEF Settled
<1>4. \A f \in Frames : Ledger(f)
  BY DEF Init, Ledger, Alone, Collecting
<1>5. RootEnds
  BY GraphEngineAssumption DEF Init, RootEnds, Frames
<1>6. FailureFound /\ SuccessMeansSuccess
  BY DEF Init, FailureFound, SuccessMeansSuccess
<1> QED
  BY <1>2, <1>3, <1>4, <1>5, <1>6 DEF ResultInv

LEMMA ResultStill ==
  ASSUME ResultInv, UNCHANGED <<pc, futures, succeeded, parent, inbox, result, failed, work>>
  PROVE  ResultInv'
<1>1. Descent' /\ Settled' /\ RootEnds' /\ SuccessMeansSuccess'
  BY DEF ResultInv, Descent, Settled, RootEnds, SuccessMeansSuccess, Running
<1>2. \A f \in Frames : Ledger(f)'
  BY DEF ResultInv, Ledger, Ended, Collecting
<1>3. FailureFound'
  BY DEF ResultInv, FailureFound, Failing, Collecting
<1> QED
  BY <1>1, <1>2, <1>3 DEF ResultInv

LEMMA LoopWalks ==
  ASSUME TypeOK, NEW f \in Frames,
         \/ LoopTop(f) \/ NodeStart(f) \/ NodeCounted(f) \/ NodeSucceeds(f) \/ NodeExcepts(f)
         \/ Submitted(f)
  PROVE  \E label \in Labels : Walks(f, label)
<1> USE DEF Walks, Goto, frameVars, Alone, Labels
<1>1. CASE LoopTop(f)
  <2>1. Walks(f, IF OutOfLimits THEN "raise" ELSE "start")
    BY <1>1 DEF LoopTop
  <2> QED
    BY <2>1
<1>2. CASE NodeStart(f)
  <2>1. Walks(f, "count")
    BY <1>2 DEF NodeStart
  <2> QED
    BY <2>1
<1>3. CASE NodeCounted(f)
  <2>1. Walks(f, "node")
    BY <1>3 DEF NodeCounted
  <2> QED
    BY <2>1
<1>4. CASE NodeSucceeds(f)
  <2>1. Walks(f, "route")
    BY <1>4 DEF NodeSucceeds
  <2> QED
    BY <2>1
<1>5. CASE NodeExcepts(f)
  <2>1. Walks(f, "excepted")
    BY <1>5 DEF NodeExcepts
  <2> QED
    BY <2>1
<1>6. CASE Submitted(f)
  <2>1. Walks(f, "collect")
    BY <1>6 DEF Submitted
  <2> QED
    BY <2>1
<1> QED
  BY <1>1, <1>2, <1>3, <1>4, <1>5, <1>6

LEMMA RouteWalks ==
  ASSUME TypeOK, NEW f \in Frames, Route(f)
  PROVE  \E label \in Labels : Walks(f, label)
<1>1. /\ pc[f] \in {"route", "excepted"}
      /\ UNCHANGED <<futures, succeeded, parent, inbox, result, failed>>
  BY DEF Route
<1>2. \E label \in {"top", "finish", "raise", "submit"} : pc' = [pc EXCEPT ![f] = label]
  <2>1. (\E next \in Nodes \cup {None} : Continue(f, next))
          \/ \E targets \in SUBSET Nodes : \E first \in targets : Fork(f, targets, first)
    <3>1. Alternatives[cur[f]] \subseteq SUBSET Nodes
      BY GraphEngineAssumption DEF TypeOK
    <3> QED
      BY <3>1 DEF Route
  <2>2. CASE \E next \in Nodes \cup {None} : Continue(f, next)
    BY <2>2, ContinueMoves
  <2>3. CASE \E targets \in SUBSET Nodes : \E first \in targets : Fork(f, targets, first)
    BY <2>3 DEF Fork, Goto
  <2> QED
    BY <2>1, <2>2, <2>3
<1>3. PICK label \in {"top", "finish", "raise", "submit"} : pc' = [pc EXCEPT ![f] = label]
  BY <1>2
<1>4. Walks(f, label)
  BY <1>1, <1>3 DEF Walks, Alone
<1> QED
  BY <1>4 DEF Labels

\* What the root frame does with an event or an exception ends the run.
LEMMA RootFails ==
  ASSUME TypeOK, TypeOK', EngineInv, ResultInv, Root \in Frames,
         \/ NodeFails(Root) \/ NodeRaises(Root) \/ Raise(Root) \/ CollectNodeFailed(Root)
         \/ Abandon
  PROVE  ResultInv'
<1>1. /\ pc[Root] \notin {"absent", "exit", "done"} /\ pc' = [pc EXCEPT ![Root] = "done"]
      /\ result' \in {"failed", "abandoned"} /\ UNCHANGED <<futures, succeeded, parent>>
      /\ \A g \in Frames \ {Root} : inbox'[g] = inbox[g]
  BY DEF NodeFails, NodeRaises, Raise, CollectNodeFailed, Collect, Abandon, Emit, Goto, frameVars
<1>2. SuccessMeansSuccess'
  BY <1>1 DEF SuccessMeansSuccess
<1> QED
  BY <1>1, <1>2, RootStep

LEMMA RootFinishes ==
  ASSUME TypeOK, TypeOK', EngineInv, ResultInv, Root \in Frames, Finish(Root)
  PROVE  ResultInv'
<1>1. /\ pc[Root] = "finish" /\ pc' = [pc EXCEPT ![Root] = "done"]
      /\ result' \in {"partial", "succeeded"}
      /\ UNCHANGED <<futures, succeeded, parent, inbox, work, failed>>
  BY DEF Finish, Goto, frameVars
<1>2. \A b \in Frames \ {Root} : pc[b] \in {"absent", "done"} /\ futures[b] = {}
  <2>1. futures[Root] = {}
    BY <1>1 DEF EngineInv, AloneIsFree, Alone
  <2> QED
    BY <2>1, NothingLeft
<1>3. Running' = {}
  BY <1>1, <1>2 DEF Running, Waiting, TypeOK
<1>4. work = <<>>
  <2>1. ASSUME work # <<>> PROVE FALSE
    <3>1. 1 \in 1..Len(work) /\ work[1] \in Frames
      <4>1. work \in Seq(Frames)
        BY DEF TypeOK
      <4> QED
        BY <2>1, <4>1
    <3>2. pc[work[1]] = "queued"
      BY <3>1 DEF EngineInv, InWork
    <3> QED
      BY <1>1, <1>2, <3>1, <3>2
  <2> QED
    BY <2>1
<1>5. failed = {}
  <2>1. result = "running"
    BY <1>1 DEF ResultInv, RootEnds
  <2>2. \A g \in Frames : ~Failing(g)
    BY <1>1, <1>2 DEF Failing, Collecting
  <2> QED
    BY <2>1, <2>2 DEF ResultInv, FailureFound
<1>6. SuccessMeansSuccess'
  BY <1>1, <1>3, <1>4, <1>5 DEF SuccessMeansSuccess
<1> QED
  BY <1>1, <1>6, RootStep

LEMMA BranchTells ==
  ASSUME TypeOK, TypeOK', EngineInv, ResultInv, NEW f \in Frames \ {Root},
         NodeFails(f) \/ NodeRaises(f) \/ Raise(f) \/ Finish(f)
  PROVE  ResultInv'
<1> USE DEF Tells, Emit, Goto, frameVars, Failures
<1>1. CASE NodeFails(f)
  <2>1. Tells(f, "NodeFailed", "route") /\ pc[f] = "node"
    BY <1>1 DEF NodeFails
  <2> QED
    BY <2>1, TellsStep
<1>2. CASE NodeRaises(f)
  <2>1. Tells(f, "NodeFailed", "raise") /\ pc[f] = "node"
    BY <1>2 DEF NodeRaises
  <2> QED
    BY <2>1, TellsStep
<1>3. CASE Raise(f)
  <2>1. Tells(f, "BranchFailed", "exit") /\ pc[f] = "raise"
    BY <1>3 DEF Raise
  <2> QED
    BY <2>1, TellsStep
<1>4. CASE Finish(f)
  <2>1. Tells(f, "BranchSucceeded", "exit") /\ pc[f] = "finish" /\ failed' = failed
    BY <1>4 DEF Finish
  <2> QED
    BY <2>1, TellsStep
<1> QED
  BY <1>1, <1>2, <1>3, <1>4

LEMMA ResultStep ==
  ASSUME TypeOK, TypeOK', EngineInv, ResultInv, [Next]_vars
  PROVE  ResultInv'
<1>0. Root \in Frames
  BY GraphEngineAssumption DEF Frames
<1>1. ASSUME NEW f \in Frames, FrameStep(f)
      PROVE  ResultInv'
  <2>1. CASE \/ LoopTop(f) \/ NodeStart(f) \/ NodeCounted(f) \/ NodeSucceeds(f)
             \/ NodeExcepts(f) \/ Submitted(f)
    BY <2>1, LoopWalks, WalksStep
  <2>2. CASE NodeFails(f) \/ NodeRaises(f) \/ Raise(f)
    <3>1. CASE f = Root
      BY <1>0, <2>2, <3>1, RootFails
    <3>2. CASE f # Root
      BY <2>2, <3>2, BranchTells
    <3> QED
      BY <3>1, <3>2
  <2>3. CASE Finish(f)
    <3>1. CASE f = Root
      BY <1>0, <2>3, <3>1, RootFinishes
    <3>2. CASE f # Root
      BY <2>3, <3>2, BranchTells
    <3> QED
      BY <3>1, <3>2
  <2>4. CASE CollectNodeFailed(f)
    <3>1. CASE f = Root
      BY <1>0, <2>4, <3>1, RootFails
    <3>2. CASE f # Root
      BY <2>4, <3>2, PassesOnStep
    <3> QED
      BY <3>1, <3>2
  <2>5. CASE Route(f)
    BY <2>5, RouteWalks, WalksStep
  <2>6. CASE Exit(f)
    <3>1. f # Root
      BY <2>6 DEF Exit, EngineInv, RootOut
    <3>2. Walks(f, "done")
      BY <2>6, <3>1 DEF Exit, Walks, Goto, frameVars
    <3> QED
      BY <3>2, WalksStep
  <2> QED
    BY <1>1, <2>1, <2>2, <2>3, <2>4, <2>5, <2>6, CollectSucceededStep, CollectEndsStep,
       JoinStep, SubmitStep
       DEF FrameStep, NodeEnd
<1>2. CASE TakeWork
  <2>1. PICK f \in Frames : f = Head(work)
    BY <1>2 DEF TakeWork, TypeOK
  <2>2. pc[f] = "queued"
    <3>1. 1 \in 1..Len(work) /\ work[1] = f
      BY <1>2, <2>1 DEF TakeWork, TypeOK
    <3> QED
      BY <3>1 DEF EngineInv, InWork
  <2>3. Walks(f, "top")
    BY <1>2, <2>1, <2>2 DEF TakeWork, Walks, Goto, frameVars, Alone
  <2> QED
    BY <2>3, WalksStep
<1>3. CASE Abandon
  BY <1>0, <1>3, RootFails
<1>4. CASE TimeOut \/ UNCHANGED vars
  BY <1>4, ResultStill DEF TimeOut, vars, frameVars
<1> QED
  BY <1>1, <1>2, <1>3, <1>4 DEF Next

\* In every such graph a run that is reported as succeeded, or partially
\* succeeded, had no failed node in any branch at any depth, and leaves no
\* branch at work, whatever order the branches put their events in
\* (GraphEngine.run, _run_parallel_branches, _run_parallel_node).
THEOREM SuccessMeansSuccessAlways ==
  ASSUME NEW Owner, NEW Rank, Sections(Owner, Rank)
  PROVE  Spec => []SuccessMeansSuccess
<1>1. Init => TypeOK /\ InParallel /\ EngineInv /\ ResultInv
  BY TypeInit, EngineInit, ResultInit
<1>2. TypeOK /\ InParallel /\ EngineInv /\ ResultInv /\ NodesRunOnce' /\ [Next]_vars
        => TypeOK' /\ InParallel' /\ EngineInv' /\ ResultInv'
  BY TypeStep, EngineStep, ResultStep DEF Sections
<1>3. ResultInv => SuccessMeansSuccess
  BY DEF ResultInv
<1>4. Spec => []NodesRunOnce
  BY NodesRunOnceAlways
<1> QED
  BY <1>1, <1>2, <1>3, <1>4, PTL DEF Spec

(***************************************************************************)
(* The limit of steps, in the same graphs                                  *)
(***************************************************************************)

Started == {n \in Nodes : starts[n] > 0}

At(label) == {f \in Frames : pc[f] = label}

\* Every node started is counted or about to be, and those that passed the
\* check of the limit fit in the pool.
StepInv ==
  /\ Cardinality(Running) <= Workers
  /\ ~lost => /\ Cardinality(Started) = steps + Cardinality(At("count"))
              /\ Cardinality(Started) + Cardinality(At("start")) <= MaxSteps + Workers

LEMMA FramesFinite ==
  ASSUME NEW S \in SUBSET Frames
  PROVE  IsFiniteSet(S) /\ Cardinality(S) \in Nat
BY PartOfFrames

LEMMA StepInit == Init => StepInv
<1> SUFFICES ASSUME Init PROVE StepInv
  OBVIOUS
<1>1. Running = {} /\ Started = {} /\ At("count") = {} /\ At("start") = {}
  BY DEF Init, Running, Waiting, Started, At, Frames
<1>2. /\ Cardinality(Running) = 0 /\ Cardinality(Started) = 0
      /\ Cardinality(At("count")) = 0 /\ Cardinality(At("start")) = 0
  BY <1>1, FS_EmptySet
<1>3. steps = 0 /\ 0 <= Workers /\ 0 <= MaxSteps + Workers
  BY GraphEngineAssumption DEF Init
<1> HIDE DEF Init
<1> QED
  BY <1>2, <1>3 DEF StepInv

\* Executing frames are in the pool, or the root is the only one.
LEMMA ExecutingFit ==
  ASSUME TypeOK, EngineInv, ResultInv, StepInv, NEW f \in Frames, pc[f] = "top"
  PROVE  Cardinality(At("count")) + Cardinality(At("start")) + 1 <= Workers
<1> DEFINE C == At("count")
           S == At("start")
<1>1. C \in SUBSET Frames /\ S \in SUBSET Frames /\ {f} \in SUBSET Frames
      /\ C \cap S = {} /\ f \notin C \cup S
  BY DEF At
<1>2. IsFiniteSet(C) /\ IsFiniteSet(S) /\ Cardinality(C) \in Nat /\ Cardinality(S) \in Nat
  BY <1>1, FramesFinite
<1>3. CASE f = Root
  <2>1. futures[Root] = {}
    BY <1>3 DEF EngineInv, AloneIsFree, Alone
  <2>2. C = {} /\ S = {}
    BY <1>3, <2>1, NothingLeft DEF At
  <2>3. Cardinality(C) = 0 /\ Cardinality(S) = 0
    BY <2>2, FS_EmptySet
  <2> QED
    BY <2>3, GraphEngineAssumption
<1>4. CASE f # Root
  <2>1. futures[Root] # {}
    BY <1>4, NothingLeft
  <2>2. pc[Root] \notin {"count", "start"}
    BY <2>1, GraphEngineAssumption DEF EngineInv, AloneIsFree, Alone, Frames
  <2>3. C \cup S \cup {f} \subseteq Running
    BY <1>4, <2>2 DEF At, Running, Waiting
  <2>4. Running \in SUBSET Frames
    BY DEF Running
  <2>5. Cardinality(C \cup S \cup {f}) <= Cardinality(Running) /\ Cardinality(Running) \in Nat
    BY <2>3, <2>4, PartOfFrames
  <2>6. Cardinality(C \cup S) = Cardinality(C) + Cardinality(S) /\ IsFiniteSet(C \cup S)
    <3>1. Cardinality(C \cap S) = 0
      BY <1>1, FS_EmptySet
    <3> HIDE DEF C, S
    <3>2. /\ IsFiniteSet(C \cup S)
          /\ Cardinality(C \cup S) = Cardinality(C) + Cardinality(S) - Cardinality(C \cap S)
      BY <1>2, FS_Union
    <3> QED
      BY <1>2, <3>1, <3>2
  <2>7. Cardinality(C \cup S \cup {f}) = Cardinality(C) + Cardinality(S) + 1
    <3> HIDE DEF C, S
    <3> QED
      BY <1>1, <1>2, <2>6, FS_AddElement
  <2> HIDE DEF C, S
  <2>8. Cardinality(C) + Cardinality(S) + 1 <= Cardinality(Running)
    BY <2>5, <2>7
  <2> QED
    BY <1>2, <2>5, <2>8, GraphEngineAssumption DEF StepInv, C, S
<1> QED
  BY <1>3, <1>4

\* A step neither starts nor counts a node.
LEMMA OtherStep ==
  ASSUME StepInv, TypeOK, Running' \subseteq Running,
         At("count")' = At("count"), At("start")' = At("start"), UNCHANGED <<starts, steps, lost>>
  PROVE  StepInv'
<1>1. Running \in SUBSET Frames /\ Running' \in SUBSET Running
  BY DEF Running
<1>2. Cardinality(Running') <= Cardinality(Running)
      /\ Cardinality(Running) \in Nat /\ Cardinality(Running') \in Nat
  BY <1>1, PartOfFrames
<1>3. Started' = Started
  BY DEF Started
<1> QED
  BY <1>2, <1>3, GraphEngineAssumption DEF StepInv

\* A frame goes from a place that has to do with neither starting nor counting
\* to another.
LEMMA ElsewhereStep ==
  ASSUME StepInv, TypeOK, NEW f \in Frames, NEW label,
         pc[f] \notin Waiting \cup {"start", "count"},
         label \notin {"absent", "queued", "start", "count"},
         pc' = [pc EXCEPT ![f] = label], UNCHANGED <<starts, steps, lost>>
  PROVE  StepInv'
<1>1. pc'[f] = label /\ \A g \in Frames \ {f} : pc'[g] = pc[g]
  BY DEF TypeOK
<1>2. Running' \subseteq Running
  BY <1>1 DEF Running, Waiting
<1>3. At("count")' = At("count") /\ At("start")' = At("start")
  BY <1>1 DEF At
<1> QED
  BY <1>2, <1>3, OtherStep

\* The pool is as full, or as empty, after a step of a frame that goes on.
LEMMA GoesOn ==
  ASSUME TypeOK, StepInv, NEW f \in Frames, NEW label,
         pc[f] \notin Waiting, label \notin Waiting, Goto(f, label)
  PROVE  Running' = Running /\ Cardinality(Running') <= Workers
BY DEF TypeOK, Goto, Running, Waiting, StepInv

LEMMA TopStep ==
  ASSUME TypeOK, EngineInv, ResultInv, StepInv, NEW f \in Frames, LoopTop(f)
  PROVE  StepInv'
<1>1. CASE OutOfLimits
  BY <1>1, ElsewhereStep DEF LoopTop, Goto, stepVars, Waiting
<1>2. CASE ~OutOfLimits
  <2>1. steps <= MaxSteps /\ steps \in Nat
    BY <1>2, GraphEngineAssumption DEF OutOfLimits, TypeOK
  <2>2. pc[f] = "top" /\ Goto(f, "start") /\ UNCHANGED <<steps, starts, lost>>
    BY <1>2 DEF LoopTop, stepVars
  <2>3. Cardinality(Running') <= Workers
    BY <2>2, GoesOn DEF Waiting
  <2>4. /\ At("count")' = At("count") /\ At("start")' = At("start") \cup {f}
        /\ f \notin At("start") /\ Started' = Started
    BY <2>2 DEF TypeOK, Goto, At, Started
  <2>5. At("start") \in SUBSET Frames /\ At("count") \in SUBSET Frames
    BY DEF At
  <2>6. /\ IsFiniteSet(At("start")) /\ Cardinality(At("start")) \in Nat
        /\ Cardinality(At("count")) \in Nat
    BY <2>5, FramesFinite
  <2>7. Cardinality(At("start")') = Cardinality(At("start")) + 1
    <3> DEFINE S == At("start")
    <3> HIDE DEF S
    <3>1. Cardinality(S \cup {f}) = Cardinality(S) + 1
      BY <2>4, <2>6, FS_AddElement DEF S
    <3> QED
      BY <2>4, <3>1 DEF S
  <2>8. Cardinality(At("count")) + Cardinality(At("start")) + 1 <= Workers
    BY <2>2, ExecutingFit
  <2>9. ASSUME ~lost' PROVE /\ Cardinality(Started') = steps' + Cardinality(At("count")')
                            /\ Cardinality(Started') + Cardinality(At("start")') <= MaxSteps + Workers
    <3>1. ~lost /\ steps' = steps
      BY <2>2, <2>9
    <3>2. Cardinality(Started) = steps + Cardinality(At("count"))
      BY <3>1 DEF StepInv
    <3> QED
      BY <2>1, <2>4, <2>6, <2>7, <2>8, <3>1, <3>2, GraphEngineAssumption
  <2> QED
    BY <2>3, <2>9 DEF StepInv
<1> QED
  BY <1>1, <1>2

LEMMA StartStep ==
  ASSUME TypeOK, StepInv, NodesRunOnce', NEW f \in Frames, NodeStart(f)
  PROVE  StepInv'
<1>1. /\ pc[f] = "start" /\ Goto(f, "count") /\ UNCHANGED <<steps, lost>>
      /\ cur[f] \in Nodes /\ starts \in [Nodes -> Nat]
      /\ starts' = [starts EXCEPT ![cur[f]] = @ + 1] /\ steps \in Nat
  BY DEF NodeStart, TypeOK
<1>2. Cardinality(Running') <= Workers
  BY <1>1, GoesOn DEF Waiting
<1>3. /\ At("count")' = At("count") \cup {f} /\ f \notin At("count")
      /\ At("start")' = At("start") \ {f} /\ f \in At("start")
  BY <1>1 DEF TypeOK, Goto, At
<1>4. starts[cur[f]] = 0
  BY <1>1 DEF NodesRunOnce
<1>5. Started' = Started \cup {cur[f]} /\ cur[f] \notin Started
  BY <1>1, <1>4 DEF Started
<1>6. /\ At("start") \in SUBSET Frames /\ At("count") \in SUBSET Frames
      /\ Started \in SUBSET Frames
  BY DEF At, Started, Frames
<1>7. /\ IsFiniteSet(At("start")) /\ IsFiniteSet(At("count")) /\ IsFiniteSet(Started)
      /\ Cardinality(At("start")) \in Nat /\ Cardinality(At("count")) \in Nat
      /\ Cardinality(Started) \in Nat
  BY <1>6, FramesFinite
<1>8. /\ Cardinality(At("count")') = Cardinality(At("count")) + 1
      /\ Cardinality(Started') = Cardinality(Started) + 1
      /\ Cardinality(At("start")') = Cardinality(At("start")) - 1
  <2> DEFINE C == At("count")
             S == At("start")
             D == Started
  <2> HIDE DEF C, S, D
  <2>1. /\ Cardinality(C \cup {f}) = Cardinality(C) + 1
        /\ Cardinality(D \cup {cur[f]}) = Cardinality(D) + 1
    BY <1>3, <1>5, <1>7, FS_AddElement DEF C, D
  <2>2. Cardinality(S \ {f}) = Cardinality(S) - 1
    BY <1>3, <1>7, FS_RemoveElement DEF S
  <2> QED
    BY <1>3, <1>5, <2>1, <2>2 DEF C, S, D
<1>9. ASSUME ~lost' PROVE /\ Cardinality(Started') = steps' + Cardinality(At("count")')
                          /\ Cardinality(Started') + Cardinality(At("start")') <= MaxSteps + Workers
  <2>1. /\ Cardinality(Started) = steps + Cardinality(At("count")) /\ steps' = steps
        /\ Cardinality(Started) + Cardinality(At("start")) <= MaxSteps + Workers
    BY <1>1, <1>9 DEF StepInv
  <2> QED
    BY <1>1, <1>7, <1>8, <2>1, GraphEngineAssumption
<1> QED
  BY <1>2, <1>9 DEF StepInv

LEMMA CountedStep ==
  ASSUME TypeOK, StepInv, NEW f \in Frames, NodeCounted(f)
  PROVE  StepInv'
<1>1. /\ pc[f] = "count" /\ Goto(f, "node") /\ UNCHANGED starts
      /\ steps' = seen[f] + 1 /\ lost' = (lost \/ steps # seen[f])
      /\ steps \in Nat /\ seen[f] \in Nat
  BY DEF NodeCounted, TypeOK
<1>2. Cardinality(Running') <= Workers
  BY <1>1, GoesOn DEF Waiting
<1>3. /\ At("count")' = At("count") \ {f} /\ f \in At("count")
      /\ At("start")' = At("start") /\ Started' = Started
  BY <1>1 DEF TypeOK, Goto, At, Started
<1>4. At("count") \in SUBSET Frames
  BY DEF At
<1>5. IsFiniteSet(At("count")) /\ Cardinality(At("count")) \in Nat
  BY <1>4, FramesFinite
<1>6. Cardinality(At("count")') = Cardinality(At("count")) - 1
  <2> DEFINE C == At("count")
  <2> HIDE DEF C
  <2>1. Cardinality(C \ {f}) = Cardinality(C) - 1
    BY <1>3, <1>5, FS_RemoveElement DEF C
  <2> QED
    BY <1>3, <2>1 DEF C
<1>7. ASSUME ~lost' PROVE /\ Cardinality(Started') = steps' + Cardinality(At("count")')
                          /\ Cardinality(Started') + Cardinality(At("start")') <= MaxSteps + Workers
  <2>1. ~lost /\ steps = seen[f]
    BY <1>1, <1>7
  <2>2. /\ Cardinality(Started) = steps + Cardinality(At("count"))
        /\ Cardinality(Started) + Cardinality(At("start")) <= MaxSteps + Workers
    BY <2>1 DEF StepInv
  <2> QED
    BY <1>1, <1>3, <1>5, <1>6, <2>1, <2>2
<1> QED
  BY <1>2, <1>7 DEF StepInv

\* The frames that go on in other ways.
LEMMA NoStartStep ==
  ASSUME StepInv, TypeOK, EngineInv, NEW f \in Frames,
         \/ NodeEnd(f) \/ Route(f) \/ Submit(f) \/ Submitted(f)
         \/ CollectNodeFailed(f) \/ CollectSucceeded(f) \/ CollectFailed(f) \/ CollectNone(f)
         \/ Join(f) \/ Finish(f) \/ Raise(f) \/ Exit(f)
  PROVE  StepInv'
<1> USE DEF Waiting, Goto, stepVars
<1>1. CASE NodeEnd(f)
  BY <1>1, ElsewhereStep DEF NodeEnd, NodeSucceeds, NodeExcepts, NodeFails, NodeRaises
<1>2. CASE Route(f)
  <2>1. \E label \in {"top", "finish", "raise", "submit"} : Goto(f, label)
    BY <1>2 DEF Route, Continue, Fork
  <2> QED
    BY <1>2, <2>1, ElsewhereStep DEF Route
<1>3. CASE Submit(f)
  <2>1. CASE submitCount' > MaxSubmit
    BY <1>3, <2>1, ElsewhereStep DEF Submit
  <2>2. CASE ~(submitCount' > MaxSubmit)
    <3>1. PICK b \in edges[f] : pc' = [pc EXCEPT ![b] = "queued"]
      BY <1>3, <2>2 DEF Submit
    <3>2. b \in Frames /\ pc[b] = "absent"
      BY DEF EngineInv, Fresh, TypeOK
    <3>3. pc'[b] = "queued" /\ \A g \in Frames \ {b} : pc'[g] = pc[g]
      BY <3>1, <3>2 DEF TypeOK
    <3>4. Running' \subseteq Running
      BY <3>3 DEF Running
    <3>5. At("count")' = At("count") /\ At("start")' = At("start")
      BY <3>2, <3>3 DEF At
    <3> QED
      BY <1>3, <3>4, <3>5, OtherStep DEF Submit
  <2> QED
    BY <2>1, <2>2
<1>4. CASE Submitted(f) \/ CollectFailed(f) \/ CollectNone(f)
  BY <1>4, ElsewhereStep DEF Submitted, CollectFailed, CollectNone, Collect
<1>5. CASE CollectSucceeded(f)
  <2>1. UNCHANGED <<pc, starts, steps, lost>>
    BY <1>5 DEF CollectSucceeded
  <2> QED
    BY <2>1, OtherStep DEF Running, At
<1>6. CASE CollectNodeFailed(f)
  <2>1. CASE f = Root
    BY <1>6, <2>1, ElsewhereStep DEF CollectNodeFailed, Collect
  <2>2. CASE f # Root
    <3>1. UNCHANGED <<pc, starts, steps, lost>>
      BY <1>6, <2>2 DEF CollectNodeFailed
    <3> QED
      BY <3>1, OtherStep DEF Running, At
  <2> QED
    BY <2>1, <2>2
<1>7. CASE Join(f)
  <2>1. \E label \in {"top", "finish"} : Goto(f, label)
    BY <1>7 DEF Join, Continue
  <2> QED
    BY <1>7, <2>1, ElsewhereStep DEF Join
<1>8. CASE Finish(f) \/ Raise(f)
  <2>1. \E label \in {"done", "exit"} : Goto(f, label)
    BY <1>8 DEF Finish, Raise
  <2> QED
    BY <1>8, <2>1, ElsewhereStep DEF Finish, Raise
<1>9. CASE Exit(f)
  BY <1>9, ElsewhereStep DEF Exit
<1> QED
  BY <1>1, <1>2, <1>3, <1>4, <1>5, <1>6, <1>7, <1>8, <1>9

LEMMA TakenStep ==
  ASSUME TypeOK, EngineInv, StepInv, TakeWork
  PROVE  StepInv'
<1>1. PICK w \in Frames : w = Head(work)
  BY DEF TakeWork, TypeOK
<1>2. pc[w] = "queued"
  <2>1. 1 \in 1..Len(work) /\ work[1] = w
    BY <1>1 DEF TakeWork, TypeOK
  <2> QED
    BY <2>1 DEF EngineInv, InWork
<1>3. w # Root
  BY <1>2 DEF EngineInv, RootOut
<1>4. pc'[w] = "top" /\ \A g \in Frames \ {w} : pc'[g] = pc[g]
  BY <1>1 DEF TakeWork, Goto, TypeOK
<1>5. Running' = Running \cup {w} /\ w \notin Running
  BY <1>2, <1>3, <1>4 DEF Running, Waiting
<1>6. IsFiniteSet(Running) /\ Cardinality(Running) \in Nat
  <2>1. Running \in SUBSET Frames
    BY DEF Running
  <2> QED
    BY <2>1, FramesFinite
<1>7. Cardinality(Running') = Cardinality(Running) + 1
  <2> DEFINE R == Running
  <2> HIDE DEF R
  <2>1. Cardinality(R \cup {w}) = Cardinality(R) + 1
    BY <1>5, <1>6, FS_AddElement DEF R
  <2> QED
    BY <1>5, <2>1 DEF R
<1>8. Cardinality(Running') <= Workers
  <2>1. Cardinality(Running) < Workers
    BY DEF TakeWork
  <2> QED
    BY <1>6, <1>7, <2>1, GraphEngineAssumption
<1>9. At("count")' = At("count") /\ At("start")' = At("start") /\ Started' = Started
  BY <1>2, <1>4 DEF At, Started, TakeWork
<1>10. UNCHANGED <<steps, lost>>
  BY DEF TakeWork, stepVars
<1> QED
  BY <1>8, <1>9, <1>10 DEF StepInv

LEMMA StepsStep ==
  ASSUME TypeOK, EngineInv, ResultInv, NodesRunOnce', StepInv, [Next]_vars
  PROVE  StepInv'
<1>1. ASSUME NEW f \in Frames, FrameStep(f)
      PROVE  StepInv'
  BY <1>1, TopStep, StartStep, CountedStep, NoStartStep DEF FrameStep
<1>2. CASE TakeWork
  BY <1>2, TakenStep
<1>3. CASE Abandon
  <2>1. pc[Root] \in {"top", "node", "route", "excepted", "collect"}
    BY <1>3 DEF Abandon
  <2>2. Root \in Frames
    BY GraphEngineAssumption DEF Frames
  <2> QED
    BY <1>3, <2>1, <2>2, ElsewhereStep DEF Abandon, Goto, stepVars, Waiting
<1>4. CASE TimeOut \/ UNCHANGED vars
  <2>1. UNCHANGED <<pc, starts, steps, lost>>
    BY <1>4 DEF TimeOut, vars, stepVars
  <2> QED
    BY <2>1, OtherStep DEF Running, At
<1> QED
  BY <1>1, <1>2, <1>3, <1>4 DEF Next

\* In every such graph no more nodes start than WORKFLOW_MAX_EXECUTION_STEPS and
\* one for each worker of the pool, as long as no count of a step was lost
\* (GraphEngine._run, the check before a node and the increment after its start).
THEOREM StepsOvershootAlways ==
  ASSUME NEW Owner, NEW Rank, Sections(Owner, Rank)
  PROVE  Spec => []StepsOvershoot
<1>1. Init => TypeOK /\ InParallel /\ EngineInv /\ ResultInv /\ StepInv
  BY TypeInit, EngineInit, ResultInit, StepInit
<1>2. TypeOK /\ InParallel /\ EngineInv /\ ResultInv /\ StepInv /\ NodesRunOnce' /\ [Next]_vars
        => TypeOK' /\ InParallel' /\ EngineInv' /\ ResultInv' /\ StepInv'
  BY TypeStep, EngineStep, ResultStep, StepsStep DEF Sections
<1>3. StepInv => StepsOvershoot
  <2> SUFFICES ASSUME StepInv, ~lost
               PROVE  Cardinality({n \in Nodes : starts[n] > 0}) <= MaxSteps + Workers
    BY DEF StepsOvershoot
  <2>1. Cardinality(Started) + Cardinality(At("start")) <= MaxSteps + Workers
    BY DEF StepInv
  <2>2. Started \in SUBSET Frames /\ At("start") \in SUBSET Frames
    BY DEF Started, At, Frames
  <2>3. Cardinality(Started) \in Nat /\ Cardinality(At("start")) \in Nat
    BY <2>2, FramesFinite
  <2>4. Cardinality(Started) <= MaxSteps + Workers
    BY <2>1, <2>3, GraphEngineAssumption
  <2> QED
    BY <2>4 DEF Started
<1>4. Spec => []NodesRunOnce
  BY NodesRunOnceAlways
<1> QED
  BY <1>1, <1>2, <1>3, <1>4, PTL DEF Spec

(***************************************************************************)
(* The order of the nodes, in graphs whose forks nest                      *)
(***************************************************************************)

\* What paths of the graph come to: the first node forks into what the second is
\* in, or a fork that it is in, or itself, has the second behind it.
Before(Owner, Rank, Above, n, m) ==
  \/ n \in Above[m]
  \/ \E x \in {n} \cup Above[n], y \in {m} \cup Above[m] :
       Owner[x] = Owner[y] /\ Rank[x] < Rank[y]

LEMMA EdgeBefore ==
  ASSUME NEW Owner, NEW Rank, NEW Above, Nested(Owner, Rank, Above),
         NEW n \in Nodes, NEW m \in Nodes, Edge(n, m)
  PROVE  Before(Owner, Rank, Above, n, m)
<1>1. CASE Forks(n, m)
  BY <1>1 DEF Nested, Before
<1>2. CASE ~Forks(n, m)
  BY <1>2 DEF Nested, Before
<1> QED
  BY <1>1, <1>2

LEMMA OneMoreEdge ==
  ASSUME NEW Owner, NEW Rank, NEW Above, Sections(Owner, Rank), Nested(Owner, Rank, Above),
         NEW n \in Nodes, NEW k \in Nodes, NEW m \in Nodes,
         Before(Owner, Rank, Above, n, k), Edge(k, m)
  PROVE  Before(Owner, Rank, Above, n, m)
<1>0. /\ Above \in [Nodes -> SUBSET Nodes] /\ Owner \in [Nodes -> Nodes] /\ Rank \in [Nodes -> Nat]
      /\ \A x \in Nodes : Above[x] = Above[Owner[x]]
      /\ \A z \in Nodes : \A x, y \in Above[z] :
           Above[x] \subseteq Above[z] /\ (x = y \/ x \in Above[y] \/ y \in Above[x])
  BY DEF Sections, Nested
<1>1. CASE Forks(k, m)
  <2>1. Above[m] = {k} \cup Above[k]
    BY <1>1 DEF Nested
  <2> QED
    BY <2>1 DEF Before
<1>2. CASE ~Forks(k, m)
  <2>1. PICK z \in {k} \cup Above[k] : Owner[z] = Owner[m] /\ Rank[z] < Rank[m]
    BY <1>2 DEF Nested
  <2>2. z \in Nodes /\ Above[m] = Above[z]
    BY <1>0, <2>1
  <2>3. CASE n \in Above[k]
    <3>1. n = z \/ n \in Above[z] \/ z \in Above[n]
      BY <1>0, <2>1, <2>3
    <3> QED
      BY <2>1, <2>2, <3>1 DEF Before
  <2>4. ASSUME NEW x \in {n} \cup Above[n], NEW y \in {k} \cup Above[k],
               Owner[x] = Owner[y], Rank[x] < Rank[y]
        PROVE  Before(Owner, Rank, Above, n, m)
    <3>1. x \in Nodes /\ y \in Nodes
      BY <1>0
    <3>2. y = z \/ y \in Above[z] \/ z \in Above[y]
      BY <1>0, <2>1
    <3>3. CASE y = z
      <4>1. Rank[x] < Rank[m]
        BY <1>0, <2>1, <2>4, <3>1, <3>3
      <4> QED
        BY <2>1, <2>4, <3>3, <4>1 DEF Before
    <3>4. CASE y \in Above[z]
      BY <2>2, <2>4, <3>4 DEF Before
    <3>5. CASE z \in Above[y]
      <4>1. Above[x] = Above[y]
        BY <1>0, <2>4, <3>1
      <4>2. z \in Above[n]
        BY <1>0, <3>5, <4>1
      <4> QED
        BY <2>1, <4>2 DEF Before
    <3> QED
      BY <3>2, <3>3, <3>4, <3>5
  <2> QED
    BY <2>3, <2>4 DEF Before
<1> QED
  BY <1>1, <1>2

\* Every path leads on in this sense.
LEMMA UpstreamBefore ==
  ASSUME NEW Owner, NEW Rank, NEW Above, Sections(Owner, Rank), Nested(Owner, Rank, Above),
         NEW n \in Nodes, NEW m \in Nodes, <<n, m>> \in Upstream
  PROVE  Before(Owner, Rank, Above, n, m)
<1> DEFINE S == {k \in Nodes : Before(Owner, Rank, Above, n, k)}
<1>1. S \in ClosedFrom(n)
  <2>1. ASSUME NEW x \in Nodes, Edge(n, x) PROVE x \in S
    BY <2>1, EdgeBefore
  <2>2. ASSUME NEW k \in S, NEW x \in Nodes, Edge(k, x) PROVE x \in S
    BY <2>2, OneMoreEdge
  <2> QED
    BY <2>1, <2>2 DEF ClosedFrom
<1>2. m \in Downstream(n)
  BY DEF Upstream
<1> QED
  BY <1>1, <1>2 DEF Downstream

\* The frames above a branch that is under way stay at the nodes it was forked from.
LEMMA AboveStays ==
  ASSUME NEW Owner, NEW Rank, NEW Above, Sections(Owner, Rank), Nested(Owner, Rank, Above),
         TypeOK, EngineInv, Placed(Owner, Rank), ResultInv,
         NEW f \in Frames, pc[f] \notin {"absent", "done"}, NEW k \in Above[f]
  PROVE  cur[Owner[k]] = k
<1> DEFINE S == {b \in Frames \ {Root} :
                   /\ pc[b] # "absent" /\ (pc[b] # "done" \/ futures[b] # {})
                   /\ \E x \in Above[b] : cur[Owner[x]] # x}
<1>1. ASSUME NEW b \in S PROVE b # Root /\ parent[b] \in S
  <2>1. parent[b] \in Frames
    BY DEF ResultInv, Descent
  <2>2. b \in futures[parent[b]]
    BY <2>1 DEF ResultInv, Settled
  <2>3. pc[parent[b]] # "absent"
    BY <2>1, <2>2 DEF EngineInv, AloneIsFree, Alone
  <2>4. /\ cur[parent[b]] \in Nodes /\ Owner[cur[parent[b]]] = parent[b]
        /\ Forks(cur[parent[b]], b)
    BY <2>1, <2>2, <2>3 DEF Placed, TypeOK
  <2>5. Above[b] = {cur[parent[b]]} \cup Above[parent[b]]
    BY <2>4 DEF Nested, Frames
  <2>6. \E x \in Above[parent[b]] : cur[Owner[x]] # x
    BY <2>4, <2>5
  <2>7. parent[b] # Root
    BY <2>6 DEF Nested
  <2> QED
    BY <2>1, <2>2, <2>3, <2>6, <2>7
<1>2. S = {}
  <2>1. S \in SUBSET Frames
    OBVIOUS
  <2> HIDE DEF S
  <2> QED
    BY <1>1, <2>1 DEF ResultInv, Descent
<1>3. f # Root
  BY DEF Nested
<1> QED
  BY <1>2, <1>3

\* What a started node is in was forked before.
ForksDecided(Above) == \A m \in Nodes : starts[m] # 0 => \A k \in Above[m] : Decided(k)

\* A node starts, and no other frame is disturbed; or none does.
Begins(f) ==
  /\ pc[f] = "start" /\ pc' = [pc EXCEPT ![f] = "count"] /\ cur' = cur
  /\ starts' = [starts EXCEPT ![cur[f]] = @ + 1]

Quiet ==
  /\ starts' = starts
  /\ \A f \in Frames :
       /\ pc'[f] \in Executing => pc[f] \in Executing /\ cur'[f] = cur[f]
       /\ pc'[f] \in {"count", "node"} => pc[f] \in {"count", "node"}

LEMMA BeginsOrQuiet ==
  ASSUME TypeOK, [Next]_vars
  PROVE  Quiet \/ \E f \in Frames : Begins(f)
<1> USE DEF Quiet, Executing, Goto, frameVars
<1>1. ASSUME NEW f \in Frames, FrameStep(f)
      PROVE  Quiet \/ Begins(f)
  <2>0. pc \in [Frames -> Labels] /\ cur \in [Frames -> Nodes]
    BY DEF TypeOK, Labels
  <2>1. CASE LoopTop(f)
    BY <2>0, <2>1 DEF LoopTop
  <2>2. CASE NodeStart(f)
    BY <2>2 DEF NodeStart, Begins
  <2>3. CASE NodeCounted(f)
    BY <2>0, <2>3 DEF NodeCounted
  <2>4. CASE NodeEnd(f)
    BY <2>0, <2>4 DEF NodeEnd, NodeSucceeds, NodeExcepts, NodeFails, NodeRaises
  <2>5. CASE Route(f) \/ Join(f)
    <3>1. starts' = starts
      BY <2>5 DEF Route, Join
    <3>2. \/ \E next : Continue(f, next)
          \/ \E targets, first : Fork(f, targets, first) /\ cur' = cur
      BY <2>5 DEF Route, Join
    <3>3. ASSUME NEW next, Continue(f, next) PROVE Quiet
      BY <2>0, <3>1, <3>3 DEF Continue
    <3>4. ASSUME NEW targets, NEW first, Fork(f, targets, first), cur' = cur PROVE Quiet
      BY <2>0, <3>1, <3>4 DEF Fork
    <3> HIDE DEF Quiet
    <3> QED
      BY <3>2, <3>3, <3>4
  <2>6. CASE Submit(f)
    BY <2>0, <2>6 DEF Submit
  <2>7. CASE \/ Submitted(f) \/ CollectNodeFailed(f) \/ CollectSucceeded(f)
             \/ CollectFailed(f) \/ CollectNone(f)
    BY <2>0, <2>7 DEF Submitted, Collect, CollectNodeFailed, CollectSucceeded, CollectFailed,
                      CollectNone
  <2>8. CASE Finish(f) \/ Raise(f) \/ Exit(f)
    BY <2>0, <2>8 DEF Finish, Raise, Exit
  <2> QED
    BY <1>1, <2>1, <2>2, <2>3, <2>4, <2>5, <2>6, <2>7, <2>8 DEF FrameStep
<1>2. CASE TakeWork
  BY <1>2 DEF TakeWork, TypeOK
<1>3. CASE Abandon
  BY <1>3 DEF Abandon, TypeOK
<1>4. CASE TimeOut \/ UNCHANGED vars
  BY <1>4 DEF TimeOut, vars
<1> QED
  BY <1>1, <1>2, <1>3, <1>4 DEF Next

LEMMA DecidedKept ==
  ASSUME TypeOK, TypeOK', NodesRunOnce', [Next]_vars, NEW n \in Nodes, Decided(n)
  PROVE  Decided(n)'
<1>1. CASE Quiet
  BY <1>1 DEF Quiet, Decided
<1>2. ASSUME NEW f \in Frames, Begins(f) PROVE Decided(n)'
  <2>1. starts \in [Nodes -> Nat] /\ cur[f] \in Nodes /\ pc \in [Frames -> Labels]
    BY DEF TypeOK, Labels
  <2>2. starts[cur[f]] = 0
    BY <1>2, <2>1 DEF Begins, NodesRunOnce
  <2> QED
    BY <1>2, <2>1, <2>2 DEF Begins, Decided, Executing
<1> QED
  BY <1>1, <1>2, BeginsOrQuiet

LEMMA ForksDecidedInit ==
  ASSUME NEW Above, Init
  PROVE  ForksDecided(Above)
BY DEF Init, ForksDecided

LEMMA ForksDecidedStep ==
  ASSUME NEW Owner, NEW Rank, NEW Above, Sections(Owner, Rank), Nested(Owner, Rank, Above),
         TypeOK, TypeOK', EngineInv, Placed(Owner, Rank), NodesRunOnce', ForksDecided(Above),
         [Next]_vars
  PROVE  ForksDecided(Above)'
<1> SUFFICES ASSUME NEW m \in Nodes, starts'[m] # 0, NEW k \in Above[m]
             PROVE  Decided(k)'
  BY DEF ForksDecided
<1>0. k \in Nodes
  BY DEF Nested
<1>1. CASE starts[m] # 0
  BY <1>0, <1>1, DecidedKept DEF ForksDecided
<1>2. CASE starts[m] = 0
  <2>1. PICK f \in Frames : Begins(f)
    BY <1>2, BeginsOrQuiet DEF Quiet
  <2>2. cur[f] = m
    BY <1>2, <2>1 DEF Begins, TypeOK
  <2>3. Owner[m] = f /\ pc[f] # "absent"
    BY <2>1, <2>2 DEF Begins, Placed
  <2>4. Above[m] = Above[f]
    BY <2>3 DEF Nested
  <2>5. f # Root
    BY <2>4 DEF Nested
  <2>6. PICK n \in Nodes : Decided(n) /\ Forks(n, f)
    BY <2>3, <2>5 DEF EngineInv, Traced, ForkedFrom
  <2>7. k = n \/ k \in Above[n]
    BY <2>4, <2>6 DEF Nested, Frames
  <2>8. Decided(k)
    BY <2>6, <2>7 DEF ForksDecided, Decided
  <2> QED
    BY <1>0, <2>8, DecidedKept
<1> QED
  BY <1>1, <1>2

LEMMA UpstreamDone ==
  ASSUME NEW Owner, NEW Rank, NEW Above, Sections(Owner, Rank), Nested(Owner, Rank, Above),
         TypeOK, EngineInv, Placed(Owner, Rank), ResultInv, ForksDecided(Above)
  PROVE  UpstreamIsDone
<1> SUFFICES ASSUME NEW f \in Frames, pc[f] \in {"start", "count", "node"},
                    NEW m \in Nodes, <<cur[f], m>> \in Upstream, starts[m] # 0
             PROVE  FALSE
  BY DEF UpstreamIsDone
<1>0. /\ cur[f] \in Nodes /\ Owner[cur[f]] = f /\ Above[cur[f]] = Above[f]
      /\ Above \in [Nodes -> SUBSET Nodes] /\ Owner \in [Nodes -> Nodes] /\ Rank \in [Nodes -> Nat]
  <2>1. cur[f] \in Nodes
    BY DEF TypeOK
  <2>2. Owner[cur[f]] = f
    BY DEF Placed
  <2>3. Above[cur[f]] = Above[f]
    BY <2>1, <2>2 DEF Nested
  <2>4. /\ Above \in [Nodes -> SUBSET Nodes] /\ Owner \in [Nodes -> Nodes]
        /\ Rank \in [Nodes -> Nat]
    BY DEF Nested, Sections
  <2> QED
    BY <2>1, <2>2, <2>3, <2>4
<1>1. Before(Owner, Rank, Above, cur[f], m)
  BY <1>0, UpstreamBefore
<1>2. CASE cur[f] \in Above[m]
  <2>1. Decided(cur[f])
    BY <1>2 DEF ForksDecided
  <2>2. pc[f] = "start" /\ starts[cur[f]] # 0
    BY <2>1 DEF Decided, Executing
  <2>3. Rank[cur[f]] < Rank[cur[f]]
    BY <1>0, <2>2 DEF Placed
  <2> QED
    BY <1>0, <2>3
<1>3. ASSUME NEW x \in {cur[f]} \cup Above[cur[f]], NEW y \in {m} \cup Above[m],
             Owner[x] = Owner[y], Rank[x] < Rank[y]
      PROVE  FALSE
  <2>1. x \in Nodes /\ y \in Nodes
    BY <1>0
  <2>2. cur[Owner[x]] = x
    BY <1>0, AboveStays
  <2>3. starts[y] # 0
    BY DEF ForksDecided, Decided
  <2>4. Rank[y] <= Rank[x]
    BY <1>3, <2>1, <2>2, <2>3 DEF Placed
  <2> QED
    BY <1>0, <1>3, <2>1, <2>4
<1> QED
  BY <1>1, <1>2, <1>3 DEF Before

(***************************************************************************)
(* The engine implements GraphRun, in the same graphs                      *)
(***************************************************************************)

\* A branch stays in its parallel.
Within ==
  \A f \in Frames \ {Root} : pc[f] # "absent" =>
    ParallelOf[f] # None /\ ParallelOf[cur[f]] = ParallelOf[f]

\* A failed node has been executed.
FailedOver ==
  \A n \in failed :
    starts[n] # 0 /\ \A f \in Frames : pc[f] \in {"count", "node"} => cur[f] # n

LEMMA RunInit == Init => Within /\ FailedOver
BY GraphEngineAssumption DEF Init, Within, FailedOver, Frames

\* A step leaves a frame at its node, or takes it to one in its parallel.
LEMMA StaysOrContinues ==
  ASSUME TypeOK, EngineInv, [Next]_vars, NEW g \in Frames
  PROVE  \/ cur'[g] = cur[g] /\ (pc[g] = "absent" => pc'[g] = "absent" \/ \E f \in Frames : g \in edges[f])
         \/ pc[g] # "absent" /\ ~Leaves(g, cur'[g])
<1> USE DEF Goto, frameVars
<1>0. pc \in [Frames -> Labels] /\ cur \in [Frames -> Nodes] /\ work \in Seq(Frames)
  BY DEF TypeOK, Labels
<1>1. ASSUME NEW f \in Frames, FrameStep(f)
      PROVE  \/ cur'[g] = cur[g] /\ (pc[g] = "absent" => pc'[g] = "absent" \/ \E h \in Frames : g \in edges[h])
             \/ pc[g] # "absent" /\ ~Leaves(g, cur'[g])
  <2>1. CASE \/ LoopTop(f) \/ NodeStart(f) \/ NodeCounted(f) \/ NodeEnd(f)
    BY <1>0, <2>1 DEF LoopTop, NodeStart, NodeCounted, NodeEnd, NodeSucceeds, NodeExcepts,
                      NodeFails, NodeRaises
  <2>2. CASE Route(f) \/ Join(f)
    <3>1. \/ \E next : Continue(f, next)
          \/ \E targets, first : Fork(f, targets, first) /\ cur' = cur
      BY <2>2 DEF Route, Join
    <3>2. pc[f] # "absent"
      BY <2>2 DEF Route, Join
    <3>3. ASSUME NEW next, Continue(f, next)
          PROVE  \/ cur'[g] = cur[g] /\ (pc[g] = "absent" => pc'[g] = "absent")
                 \/ g = f /\ ~Leaves(f, cur'[f])
      <4>1. CASE next = None \/ Leaves(f, next)
        BY <1>0, <3>2, <3>3, <4>1 DEF Continue
      <4>2. CASE ~(next = None \/ Leaves(f, next))
        <5>1. pc' = [pc EXCEPT ![f] = "top"] /\ cur' = [cur EXCEPT ![f] = next]
          BY <3>3, <4>2 DEF Continue
        <5> QED
          BY <1>0, <3>2, <4>2, <5>1
      <4> QED
        BY <4>1, <4>2
    <3>4. ASSUME NEW targets, NEW first, Fork(f, targets, first), cur' = cur
          PROVE  cur'[g] = cur[g] /\ (pc[g] = "absent" => pc'[g] = "absent")
      BY <1>0, <3>2, <3>4 DEF Fork
    <3> QED
      BY <3>1, <3>2, <3>3, <3>4
  <2>3. CASE Submit(f)
    BY <1>0, <2>3 DEF Submit
  <2>4. CASE \/ Submitted(f) \/ CollectNodeFailed(f) \/ CollectSucceeded(f)
             \/ CollectFailed(f) \/ CollectNone(f) \/ Finish(f) \/ Raise(f) \/ Exit(f)
    BY <1>0, <2>4 DEF Submitted, Collect, CollectNodeFailed, CollectSucceeded, CollectFailed,
                      CollectNone, Finish, Raise, Exit
  <2> QED
    BY <1>1, <2>1, <2>2, <2>3, <2>4 DEF FrameStep
<1>2. CASE TakeWork
  <2>1. 1 \in 1..Len(work) /\ work[1] = Head(work) /\ Head(work) \in Frames
    BY <1>0, <1>2 DEF TakeWork
  <2>2. pc[Head(work)] = "queued"
    BY <2>1 DEF EngineInv, InWork
  <2> QED
    BY <1>0, <1>2, <2>1, <2>2 DEF TakeWork
<1>3. CASE Abandon \/ TimeOut \/ UNCHANGED vars
  BY <1>0, <1>3 DEF Abandon, TimeOut, vars, EngineInv, RootOut
<1> QED
  BY <1>1, <1>2, <1>3 DEF Next

LEMMA WithinStep ==
  ASSUME NEW Owner, NEW Rank, TypeOK, InParallel, EngineInv, Placed(Owner, Rank), Within,
         [Next]_vars
  PROVE  Within'
<1> SUFFICES ASSUME NEW g \in Frames \ {Root}, pc'[g] # "absent"
             PROVE  ParallelOf[g] # None /\ ParallelOf[cur'[g]] = ParallelOf[g]
  BY DEF Within
<1>1. CASE pc[g] # "absent"
  BY <1>1, StaysOrContinues DEF Within, Leaves
<1>2. CASE pc[g] = "absent"
  <2>1. cur'[g] = cur[g] /\ \E f \in Frames : g \in edges[f]
    BY <1>2, StaysOrContinues
  <2> QED
    BY <1>2, <2>1 DEF Placed, InParallel
<1> QED
  BY <1>1, <1>2

\* The frames that execute a node.
AtWork == {"count", "node"}

\* Nothing starts and nothing ends.
SameNodes ==
  /\ UNCHANGED <<starts, failed, exceptions>>
  /\ \A f \in Frames : /\ pc'[f] \in AtWork <=> pc[f] \in AtWork
                       /\ pc[f] \in AtWork => cur'[f] = cur[f]

\* The node of frame f ends.
Ends(f) ==
  /\ pc[f] = "node" /\ pc'[f] \notin AtWork /\ \A g \in Frames \ {f} : pc'[g] = pc[g]
  /\ UNCHANGED <<cur, starts>>
  /\ failed' \in {failed, failed \cup {cur[f]}}

\* The root frame ends the run.
Concludes ==
  /\ pc[Root] # "done"
  /\ result' \in {"failed", "abandoned"} \/ result' = IF exceptions THEN "partial" ELSE "succeeded"

LEMMA KindsOfSteps ==
  ASSUME TypeOK, EngineInv, FailedOver, [Next]_vars
  PROVE  \/ \E f \in Frames : Begins(f) /\ UNCHANGED <<failed, exceptions, result>>
         \/ \E f \in Frames :
              /\ Ends(f)
              /\ exceptions' = exceptions \/ (failed' = failed /\ exceptions' = TRUE)
              /\ \/ result' = result
                 \/ f = Root /\ failed' # failed /\ result' = "failed"
                 \/ f = Root /\ failed' = failed /\ result' = "abandoned"
         \/ SameNodes /\ (result' = result \/ Concludes)
<1> USE DEF Goto, frameVars, stepVars
<1>0. /\ pc \in [Frames -> Labels] /\ cur \in [Frames -> Nodes] /\ work \in Seq(Frames)
      /\ failed \in SUBSET Nodes /\ exceptions \in BOOLEAN
  BY DEF TypeOK, Labels
<1> DEFINE Kinds ==
  \/ \E f \in Frames : Begins(f) /\ UNCHANGED <<failed, exceptions, result>>
  \/ \E f \in Frames :
       /\ Ends(f)
       /\ exceptions' = exceptions \/ (failed' = failed /\ exceptions' = TRUE)
       /\ \/ result' = result
          \/ f = Root /\ failed' # failed /\ result' = "failed"
          \/ f = Root /\ failed' = failed /\ result' = "abandoned"
  \/ SameNodes /\ (result' = result \/ Concludes)
<1> SUFFICES Kinds
  OBVIOUS
<1>1. ASSUME NEW f \in Frames, FrameStep(f)
      PROVE  Kinds
  <2>1. CASE LoopTop(f) \/ NodeCounted(f) \/ Submitted(f) \/ CollectSucceeded(f)
               \/ CollectFailed(f) \/ CollectNone(f) \/ Exit(f)
    <3>1. SameNodes /\ result' = result
      BY <1>0, <2>1 DEF SameNodes, AtWork, LoopTop, NodeCounted, Submitted, Collect,
           CollectSucceeded, CollectFailed, CollectNone, Exit
    <3> QED
      BY <3>1
  <2>2. CASE NodeStart(f)
    BY <2>2 DEF NodeStart, Begins
  <2>3. CASE NodeSucceeds(f) \/ NodeExcepts(f)
    <3>1. /\ Ends(f) /\ failed' = failed /\ result' = result
          /\ exceptions' = exceptions \/ exceptions' = TRUE
      BY <1>0, <2>3 DEF NodeSucceeds, NodeExcepts, Ends, AtWork
    <3> QED
      BY <3>1
  <2>4. CASE NodeFails(f) \/ NodeRaises(f)
    <3>1. /\ Ends(f) /\ exceptions' = exceptions
          /\ (f = Root /\ result' = "failed") \/ result' = result
      BY <1>0, <2>4 DEF NodeFails, NodeRaises, Emit, Ends, AtWork
    <3>2. failed' = failed \cup {cur[f]}
      BY <2>4 DEF NodeFails, NodeRaises
    <3>3. failed' # failed
      BY <2>4, <3>2 DEF FailedOver, NodeFails, NodeRaises
    <3> QED
      BY <3>1, <3>2, <3>3
  <2>5. CASE Route(f) \/ Join(f)
    <3>1. \/ \E next : Continue(f, next)
          \/ \E targets, first : Fork(f, targets, first) /\ cur' = cur
      BY <2>5 DEF Route, Join
    <3>2. /\ pc[f] \in {"route", "excepted", "wait"}
          /\ UNCHANGED <<starts, failed, exceptions, result>>
      BY <2>5 DEF Route, Join
    <3>3. ASSUME NEW next, Continue(f, next) PROVE SameNodes
      BY <1>0, <3>2, <3>3 DEF Continue, SameNodes, AtWork
    <3>4. ASSUME NEW targets, NEW first, Fork(f, targets, first), cur' = cur PROVE SameNodes
      BY <1>0, <3>2, <3>4 DEF Fork, SameNodes, AtWork
    <3> QED
      BY <3>1, <3>2, <3>3, <3>4
  <2>6. CASE Submit(f)
    <3>1. \A b \in edges[f] : pc[b] = "absent"
      BY DEF EngineInv, Fresh
    <3>2. SameNodes /\ result' = result
      BY <1>0, <2>6, <3>1 DEF Submit, SameNodes, AtWork
    <3> QED
      BY <3>2
  <2>7. CASE CollectNodeFailed(f) \/ Finish(f) \/ Raise(f)
    <3>1. SameNodes
      BY <1>0, <2>7 DEF CollectNodeFailed, Collect, Finish, Raise, SameNodes, AtWork
    <3>2. result' = result \/ Concludes
      BY <2>7 DEF CollectNodeFailed, Collect, Finish, Raise, Emit, Concludes
    <3> QED
      BY <3>1, <3>2
  <2> HIDE DEF Kinds
  <2> QED
    BY <1>1, <2>1, <2>2, <2>3, <2>4, <2>5, <2>6, <2>7 DEF FrameStep, NodeEnd
<1>2. CASE TakeWork
  <2>1. 1 \in 1..Len(work) /\ work[1] = Head(work) /\ Head(work) \in Frames
    BY <1>0, <1>2 DEF TakeWork
  <2>2. pc[Head(work)] = "queued"
    BY <2>1 DEF EngineInv, InWork
  <2>3. SameNodes /\ result' = result
    BY <1>0, <1>2, <2>1, <2>2 DEF TakeWork, SameNodes, AtWork
  <2> QED
    BY <2>3
<1>3. CASE Abandon
  <2>1. Root \in Frames
    BY GraphEngineAssumption DEF Frames
  <2>2. CASE pc[Root] = "node"
    <3>1. Ends(Root) /\ UNCHANGED <<failed, exceptions>> /\ result' = "abandoned"
      BY <1>0, <1>3, <2>1, <2>2 DEF Abandon, Ends, AtWork
    <3> QED
      BY <2>1, <3>1
  <2>3. CASE pc[Root] # "node"
    <3>1. SameNodes /\ Concludes
      BY <1>0, <1>3, <2>1, <2>3 DEF Abandon, SameNodes, AtWork, Concludes
    <3> QED
      BY <3>1
  <2> QED
    BY <2>2, <2>3
<1>4. CASE TimeOut \/ UNCHANGED vars
  <2>1. SameNodes /\ result' = result
    BY <1>4 DEF TimeOut, vars, SameNodes
  <2> QED
    BY <2>1
<1> HIDE DEF Kinds
<1> QED
  BY <1>1, <1>2, <1>3, <1>4 DEF Next

LEMMA FailedOverStep ==
  ASSUME TypeOK, EngineInv, FailedOver, NodesRunOnce', [Next]_vars
  PROVE  FailedOver'
<1>0. /\ pc \in [Frames -> Labels] /\ cur \in [Frames -> Nodes] /\ starts \in [Nodes -> Nat]
      /\ failed \subseteq Nodes
  BY DEF TypeOK, Labels
<1>1. ASSUME NEW f \in Frames, Begins(f), failed' = failed PROVE FailedOver'
  <2>1. starts[cur[f]] = 0
    BY <1>0, <1>1 DEF Begins, NodesRunOnce
  <2> QED
    BY <1>0, <1>1, <2>1 DEF Begins, FailedOver
<1>2. ASSUME NEW f \in Frames, Ends(f) PROVE FailedOver'
  <2>1. starts[cur[f]] # 0 /\ \A g \in Frames : pc[g] \in AtWork /\ cur[g] = cur[f] => g = f
    BY <1>2 DEF EngineInv, OneEach, Ends, Executing, AtWork
  <2> QED
    BY <1>0, <1>2, <2>1 DEF Ends, FailedOver, AtWork
<1>3. CASE SameNodes
  BY <1>0, <1>3 DEF SameNodes, FailedOver, AtWork
<1> QED
  BY <1>1, <1>2, <1>3, KindsOfSteps

\* The root frame goes on only when no node has failed.
LEMMA RootUnfailed ==
  ASSUME TypeOK, EngineInv, ResultInv, pc[Root] = "start"
  PROVE  result = "running" /\ failed = {}
<1>1. result = "running"
  BY DEF ResultInv, RootEnds
<1>2. futures[Root] = {}
  BY GraphEngineAssumption DEF EngineInv, AloneIsFree, Alone, Frames
<1>3. \A g \in Frames : ~Failing(g)
  BY <1>2, NothingLeft DEF Failing, Collecting
<1> QED
  BY <1>1, <1>3 DEF ResultInv, FailureFound

NodeStates == [n \in Nodes |-> NodeState(n)]

LEMMA SameNodesMap ==
  ASSUME SameNodes
  PROVE  NodeStates' = NodeStates
<1>1. ASSUME NEW n \in Nodes PROVE NodeState(n)' = NodeState(n)
  BY DEF SameNodes, NodeState, AtWork
<1> QED
  BY <1>1 DEF NodeStates

LEMMA BeginsMap ==
  ASSUME TypeOK, FailedOver, NodesRunOnce', NEW f \in Frames, Begins(f), failed' = failed
  PROVE  /\ NodeStates[cur[f]] = "idle"
         /\ NodeStates' = [NodeStates EXCEPT ![cur[f]] = "running"]
<1>0. pc \in [Frames -> Labels] /\ cur \in [Frames -> Nodes] /\ starts \in [Nodes -> Nat]
  BY DEF TypeOK, Labels
<1>1. cur[f] \in Nodes /\ starts[cur[f]] = 0
  BY <1>0 DEF Begins, NodesRunOnce
<1>2. NodeState(cur[f]) = "idle"
  BY <1>1 DEF NodeState
<1>3. NodeState(cur[f])' = "running" /\ cur' = cur
  BY <1>0, <1>1 DEF NodeState, Begins, FailedOver
<1>4. ASSUME NEW n \in Nodes, n # cur[f] PROVE NodeState(n)' = NodeState(n)
  <2>1. starts'[n] = starts[n]
    BY <1>0, <1>4 DEF Begins
  <2>2. \A g \in Frames : pc'[g] \in {"count", "node"} /\ cur'[g] = n
                            <=> pc[g] \in {"count", "node"} /\ cur[g] = n
    BY <1>0, <1>4 DEF Begins
  <2> QED
    BY <2>1, <2>2 DEF NodeState
<1>5. \A n \in Nodes : NodeState(n)' = IF n = cur[f] THEN "running" ELSE NodeState(n)
  BY <1>3, <1>4
<1> QED
  BY <1>1, <1>2, <1>5 DEF NodeStates

LEMMA EndsMap ==
  ASSUME TypeOK, EngineInv, FailedOver, NEW f \in Frames, Ends(f)
  PROVE  /\ cur[f] \in Nodes /\ NodeStates[cur[f]] = "running"
         /\ NodeStates' = [NodeStates EXCEPT ![cur[f]] =
                             IF failed' = failed THEN "ended" ELSE "failed"]
<1>0. pc \in [Frames -> Labels] /\ cur \in [Frames -> Nodes]
  BY DEF TypeOK, Labels
<1>1. /\ cur[f] \in Nodes /\ starts[cur[f]] # 0 /\ cur[f] \notin failed
      /\ \A g \in Frames : pc[g] \in AtWork /\ cur[g] = cur[f] => g = f
  BY <1>0 DEF EngineInv, OneEach, Ends, Executing, AtWork, FailedOver
<1>2. NodeState(cur[f]) = "running"
  BY <1>1 DEF NodeState, Ends
<1>3. NodeState(cur[f])' = IF failed' = failed THEN "ended" ELSE "failed"
  BY <1>0, <1>1 DEF NodeState, Ends, AtWork
<1>4. ASSUME NEW n \in Nodes, n # cur[f] PROVE NodeState(n)' = NodeState(n)
  BY <1>0, <1>4 DEF NodeState, Ends, AtWork
<1>5. \A n \in Nodes : NodeState(n)' = IF n = cur[f] THEN IF failed' = failed THEN "ended" ELSE "failed"
                                       ELSE NodeState(n)
  BY <1>3, <1>4, <1>0 DEF Ends
<1> QED
  BY <1>1, <1>2, <1>5 DEF NodeStates

OrderInv(Owner, Rank, Above) ==
  /\ TypeOK /\ InParallel /\ EngineInv /\ Placed(Owner, Rank) /\ ResultInv
  /\ ForksDecided(Above) /\ Within /\ FailedOver

LEMMA OrderInvInit ==
  ASSUME NEW Owner, NEW Rank, NEW Above, Sections(Owner, Rank), Init
  PROVE  OrderInv(Owner, Rank, Above)
BY TypeInit, EngineInit, PlacedInit, ResultInit, ForksDecidedInit, RunInit DEF OrderInv

LEMMA OrderInvStep ==
  ASSUME NEW Owner, NEW Rank, NEW Above, Sections(Owner, Rank), Nested(Owner, Rank, Above),
         OrderInv(Owner, Rank, Above), [Next]_vars
  PROVE  OrderInv(Owner, Rank, Above)'
<1> USE DEF OrderInv
<1>1. Placed(Owner, Rank)' /\ TypeOK' /\ InParallel'
  BY PlacedStep, TypeStep
<1>2. NodesRunOnce'
  BY <1>1 DEF Placed
<1>3. EngineInv' /\ ResultInv' /\ ForksDecided(Above)'
  BY <1>1, <1>2, EngineStep, ResultStep, ForksDecidedStep DEF Sections
<1>4. Within' /\ FailedOver'
  BY <1>2, WithinStep, FailedOverStep
<1> QED
  BY <1>1, <1>3, <1>4

LEMMA OrderInvAlways ==
  ASSUME NEW Owner, NEW Rank, NEW Above, Sections(Owner, Rank), Nested(Owner, Rank, Above)
  PROVE  Spec => []OrderInv(Owner, Rank, Above)
<1>1. Init => OrderInv(Owner, Rank, Above)
  BY OrderInvInit
<1>2. OrderInv(Owner, Rank, Above) /\ [Next]_vars => OrderInv(Owner, Rank, Above)'
  BY OrderInvStep
<1> QED
  BY <1>1, <1>2, PTL DEF Spec

\* In every graph without cycles whose forks nest, at any depth, a node is executed
\* when nothing upstream of it is, or will be: a frame goes on behind a join only
\* when what it joins, and what that has forked, has ended
\* (GraphEngine._run, _run_parallel_branches).
THEOREM UpstreamIsDoneAlways ==
  ASSUME NEW Owner, NEW Rank, NEW Above, Sections(Owner, Rank), Nested(Owner, Rank, Above)
  PROVE  Spec => []UpstreamIsDone
<1>1. OrderInv(Owner, Rank, Above) => UpstreamIsDone
  BY UpstreamDone DEF OrderInv
<1> QED
  BY <1>1, OrderInvAlways, PTL

\* The start of a node.
LEMMA StartImplemented ==
  ASSUME NEW Owner, NEW Rank, NEW Above, Sections(Owner, Rank), Nested(Owner, Rank, Above),
         OrderInv(Owner, Rank, Above), NodesRunOnce', UpstreamIsDone, UpstreamIsDone',
         NEW f \in Frames, Begins(f), UNCHANGED <<failed, exceptions, result>>
  PROVE  Run!Start(cur[f])
<1>0. /\ pc \in [Frames -> Labels] /\ cur \in [Frames -> Nodes] /\ starts \in [Nodes -> Nat]
  BY DEF OrderInv, TypeOK, Labels
<1>1. cur[f] \in Nodes
  BY <1>0
<1>2. /\ NodeStates[cur[f]] = "idle"
      /\ NodeStates' = [NodeStates EXCEPT ![cur[f]] = "running"]
  BY BeginsMap DEF OrderInv
<1>3. result \notin {"succeeded", "partial"}
  BY NotOver DEF OrderInv, Begins
<1>4. ASSUME NEW m \in Nodes, <<m, cur[f]>> \in Upstream PROVE NodeStates[m] # "running"
  <2>1. starts'[cur[f]] # 0
    BY <1>0 DEF Begins
  <2>2. \A g \in Frames : pc[g] \in {"count", "node"} => pc'[g] \in {"count", "node"} /\ cur'[g] = cur[g]
    BY <1>0 DEF Begins
  <2>3. \A g \in Frames : pc[g] \in {"count", "node"} => cur[g] # m
    BY <1>0, <1>1, <1>4, <2>1, <2>2 DEF UpstreamIsDone
  <2> QED
    BY <2>3 DEF NodeStates, NodeState
<1>5. ASSUME NEW m \in Nodes, <<cur[f], m>> \in Upstream PROVE NodeStates[m] = "idle"
  BY <1>1, <1>5 DEF UpstreamIsDone, Begins, NodeStates, NodeState
<1>6. ASSUME ParallelOf[cur[f]] = None
      PROVE  result = "running" /\ \A m \in Nodes : NodeStates[m] # "failed"
  <2>1. f = Root
    BY <1>6 DEF OrderInv, Within, Begins
  <2>2. result = "running" /\ failed = {}
    BY <2>1, RootUnfailed DEF OrderInv, Begins
  <2> QED
    BY <2>2 DEF NodeStates, NodeState
<1> QED
  BY <1>2, <1>3, <1>4, <1>5, <1>6
  DEF Run!Start, Run!Success, Run!NoneFailed, NodeStates

\* The end of a node, with the end of the run or without it.
LEMMA EndImplemented ==
  ASSUME NEW Owner, NEW Rank, NEW Above, OrderInv(Owner, Rank, Above),
         NEW f \in Frames, Ends(f),
         exceptions' = exceptions \/ (failed' = failed /\ exceptions' = TRUE),
         \/ result' = result
         \/ f = Root /\ failed' # failed /\ result' = "failed"
         \/ f = Root /\ failed' = failed /\ result' = "abandoned"
  PROVE  Run!End(cur[f], IF failed' = failed THEN "ended" ELSE "failed")
<1>1. /\ NodeStates[cur[f]] = "running"
      /\ NodeStates' = [NodeStates EXCEPT ![cur[f]] =
                          IF failed' = failed THEN "ended" ELSE "failed"]
  BY EndsMap DEF OrderInv
<1>2. f = Root => result = "running"
  BY DEF OrderInv, ResultInv, RootEnds, Ends
<1> QED
  BY <1>1, <1>2 DEF Run!End, NodeStates

\* The end of the run, by a step that no node sees.
LEMMA ConcludeImplemented ==
  ASSUME NEW Owner, NEW Rank, NEW Above, OrderInv(Owner, Rank, Above), SuccessMeansSuccess',
         TypeOK', ResultInv', SameNodes, Concludes
  PROVE  Run!Conclude
<1>1. NodeStates' = NodeStates /\ exceptions' = exceptions
  BY SameNodesMap DEF SameNodes
<1>2. result = "running"
  BY DEF OrderInv, ResultInv, RootEnds, Concludes
<1>3. ASSUME result' \in {"succeeded", "partial"}
      PROVE  \A n \in Nodes : NodeStates[n] \in {"idle", "ended"}
  <2>1. failed' = {} /\ Running' = {} /\ pc'[Root] = "done"
    BY <1>3 DEF SuccessMeansSuccess, ResultInv, RootEnds
  <2>2. \A g \in Frames : pc'[g] \notin AtWork
    BY <2>1 DEF Running, Waiting, AtWork
  <2>3. failed = {} /\ \A g \in Frames : pc[g] \notin {"count", "node"}
    BY <2>1, <2>2 DEF SameNodes, AtWork
  <2> QED
    BY <2>3 DEF NodeStates, NodeState
<1> QED
  BY <1>1, <1>2, <1>3 DEF Run!Conclude, Concludes, NodeStates

\* In every such graph, whatever the frames, the pool and the queues do, the engine
\* executes it in its order, each node once at most, goes on behind the outermost
\* join only when no node failed, and gives one result, a success only when no
\* node failed and nothing is left to be executed (GraphEngine.run, _run,
\* _run_parallel_branches).
THEOREM Refinement ==
  ASSUME NEW Owner, NEW Rank, NEW Above, Sections(Owner, Rank), Nested(Owner, Rank, Above)
  PROVE  Spec => ImplementsGraphRun
<1> DEFINE Inv == OrderInv(Owner, Rank, Above)
<1>1. Init => Run!Init
  BY DEF Init, Run!Init, NodeState
<1>2. Inv /\ Inv' /\ UpstreamIsDone /\ UpstreamIsDone' /\ [Next]_vars => [Run!Next]_Run!vars
  <2> SUFFICES ASSUME Inv, Inv', UpstreamIsDone, UpstreamIsDone', [Next]_vars
               PROVE  Run!Next \/ UNCHANGED Run!vars
    OBVIOUS
  <2>0. /\ TypeOK /\ EngineInv /\ FailedOver /\ TypeOK' /\ ResultInv' /\ SuccessMeansSuccess'
        /\ NodesRunOnce' /\ cur \in [Frames -> Nodes]
    BY DEF OrderInv, Placed, ResultInv, TypeOK
  <2>1. ASSUME NEW f \in Frames, Begins(f), UNCHANGED <<failed, exceptions, result>>
        PROVE  Run!Next
    <3>1. Run!Start(cur[f])
      BY <2>0, <2>1, StartImplemented
    <3> QED
      BY <2>0, <3>1 DEF Run!Next
  <2>2. ASSUME NEW f \in Frames, Ends(f),
               exceptions' = exceptions \/ (failed' = failed /\ exceptions' = TRUE),
               \/ result' = result
               \/ f = Root /\ failed' # failed /\ result' = "failed"
               \/ f = Root /\ failed' = failed /\ result' = "abandoned"
        PROVE  Run!Next
    <3>1. Run!End(cur[f], IF failed' = failed THEN "ended" ELSE "failed")
      BY <2>2, EndImplemented
    <3>2. \E how \in {"ended", "failed"} : Run!End(cur[f], how)
      BY <3>1
    <3> QED
      BY <2>0, <3>2 DEF Run!Next
  <2>3. CASE SameNodes /\ result' = result
    BY <2>3, SameNodesMap DEF Run!vars, SameNodes, NodeStates
  <2>4. CASE SameNodes /\ Concludes
    BY <2>0, <2>4, ConcludeImplemented DEF Run!Next
  <2> HIDE DEF Inv
  <2> QED
    BY <2>0, <2>1, <2>2, <2>3, <2>4, KindsOfSteps
<1>3. Spec => []Inv /\ []UpstreamIsDone
  BY OrderInvAlways, UpstreamIsDoneAlways
<1> HIDE DEF Inv
<1> QED
  BY <1>1, <1>2, <1>3, PTL DEF Spec, ImplementsGraphRun, Run!Spec
=============================================================================
