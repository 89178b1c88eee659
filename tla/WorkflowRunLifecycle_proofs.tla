-------------------- MODULE WorkflowRunLifecycle_proofs --------------------
(***************************************************************************)
(* WorkflowRun implements RunLifecycle, for every set of node executions:  *)
(* the order of the messages in the queue, and what follows from it.       *)
(***************************************************************************)
EXTENDS WorkflowRun_proofs

(***************************************************************************)
(* The parts of OrderInv when a message is put                             *)
(***************************************************************************)

LEMMA Appended ==
  ASSUME q \in Seq(Message), NEW m \in Message, q' = Append(q, m)
  PROVE  /\ Len(q) \in Nat /\ Len(q') = Len(q) + 1
         /\ \A i \in 1 .. Len(q) : q'[i] = q[i]
         /\ q'[Len(q) + 1] = m
BY AppendProperties

LEMMA CreatedFirstWhenPut ==
  ASSUME q \in Seq(Message), NEW m \in Message, q' = Append(q, m), run' = run, CreatedFirst,
         m.type \in NeedRun => graph \in {"running", "failed"},
         graph' \in {"running", "failed"} =>
           graph \in {"running", "failed"} \/ m.type = "Started",
         m.type = "Stop" => stopSent',
         stopSent => stopSent'
  PROVE  CreatedFirst'
<1>1. /\ Len(q) \in Nat /\ Len(q') = Len(q) + 1
      /\ \A i \in 1 .. Len(q) : q'[i] = q[i]
      /\ q'[Len(q) + 1] = m
  BY Appended
<1>2. ASSUME NEW i \in 1 .. Len(q'), q'[i].type \in NeedRun, run = "absent"
      PROVE  \E k \in 1 .. (i - 1) : q'[k].type = "Started"
  <2>1. CASE i \in 1 .. Len(q)
    <3>1. PICK k \in 1 .. (i - 1) : q[k].type = "Started"
      BY <1>1, <1>2, <2>1 DEF CreatedFirst
    <3> QED
      BY <1>1, <2>1, <3>1
  <2>2. CASE i = Len(q) + 1
    <3>1. PICK k \in 1 .. Len(q) : q[k].type = "Started"
      BY <1>1, <1>2, <2>2 DEF CreatedFirst
    <3> QED
      BY <1>1, <2>2, <3>1
  <2> QED
    BY <1>1, <2>1, <2>2
<1>3. ASSUME graph' \in {"running", "failed"}, run = "absent"
      PROVE  \E k \in 1 .. Len(q') : q'[k].type = "Started"
  BY <1>1, <1>3 DEF CreatedFirst
<1>4. \A i \in 1 .. Len(q') : q'[i].type = "Stop" => stopSent'
  BY <1>1 DEF CreatedFirst
<1> QED
  BY <1>2, <1>3, <1>4 DEF CreatedFirst

LEMMA NothingAfterFinishWhenPut ==
  ASSUME q \in Seq(Message), NEW m \in Message, q' = Append(q, m), run' = run,
         FinishedOnce, NothingAfterFinish,
         m.type \in NodeEvents => graph # "ended"
  PROVE  NothingAfterFinish'
<1>1. /\ Len(q) \in Nat /\ Len(q') = Len(q) + 1
      /\ \A i \in 1 .. Len(q) : q'[i] = q[i]
      /\ q'[Len(q) + 1] = m
  BY Appended
<1>2. m.type \in NodeEvents => m.type \notin FinishEvents
  BY DEF NodeEvents, FinishEvents
<1> QED
  BY <1>1, <1>2 DEF NothingAfterFinish, FinishedOnce

\* A message of no node, or of another one, is put.
LEMMA NodeInOrderWhenPut ==
  ASSUME q \in Seq(Message), NEW m \in Message, q' = Append(q, m), NEW n \in Nodes,
         UNCHANGED <<nodeExec, wip>>, node'[n] = node[n], NodeInOrder(n),
         m.type \notin NodeEvents \/ m.node # n
  PROVE  NodeInOrder(n)'
<1>1. /\ Len(q) \in Nat /\ Len(q') = Len(q) + 1
      /\ \A i \in 1 .. Len(q) : q'[i] = q[i]
      /\ q'[Len(q) + 1] = m
  BY Appended
<1>2. /\ \A i \in 1 .. Len(q') : Starts(i, n)' => i \in 1 .. Len(q) /\ Starts(i, n)
      /\ \A i \in 1 .. Len(q') : Ends(i, n)' => i \in 1 .. Len(q) /\ Ends(i, n)
      /\ \A i \in 1 .. Len(q) : Starts(i, n) => Starts(i, n)'
  BY <1>1 DEF Starts, Ends, NodeEvents
<1>3. Begun(n) => Begun(n)'
  BY <1>1, <1>2 DEF Begun
<1>4. \A i \in 1 .. Len(q) : \A k \in 1 .. (i - 1) : Starts(k, n) => Starts(k, n)'
  BY <1>1, <1>2
<1> HIDE DEF Starts, Ends
<1> QED
  BY <1>1, <1>2, <1>3, <1>4 DEF NodeInOrder

\* Its start is put.
LEMMA NodeInOrderWhenStarted ==
  ASSUME q \in Seq(Message), NEW m \in Message, q' = Append(q, m), NEW n \in Nodes,
         UNCHANGED <<nodeExec, wip>>, NodeInOrder(n),
         m.type = "NodeStarted", m.node = n, node[n] = "idle", node'[n] = "running"
  PROVE  NodeInOrder(n)'
<1>1. /\ Len(q) \in Nat /\ Len(q') = Len(q) + 1
      /\ \A i \in 1 .. Len(q) : q'[i] = q[i]
      /\ q'[Len(q) + 1] = m
  BY Appended
<1>2. /\ \A i \in 1 .. Len(q) : ~Starts(i, n) /\ ~Ends(i, n)
      /\ n \notin wip /\ nodeExec[n] = "absent"
  BY DEF NodeInOrder
<1>3. /\ \A i \in 1 .. Len(q') : Starts(i, n)' <=> i = Len(q) + 1
      /\ \A i \in 1 .. Len(q') : ~Ends(i, n)'
  BY <1>1, <1>2 DEF Starts, Ends
<1>4. Begun(n)'
  BY <1>1, <1>3 DEF Begun
<1> QED
  BY <1>2, <1>3, <1>4 DEF NodeInOrder

\* Its end is put.
LEMMA NodeInOrderWhenEnded ==
  ASSUME q \in Seq(Message), NEW m \in Message, q' = Append(q, m), NEW n \in Nodes,
         UNCHANGED <<nodeExec, wip>>, NodeInOrder(n),
         m.type \in NodeEvents \ {"NodeStarted"}, m.node = n,
         node[n] = "running", node'[n] \in {"done", "exception"}
  PROVE  NodeInOrder(n)'
<1>1. /\ Len(q) \in Nat /\ Len(q') = Len(q) + 1
      /\ \A i \in 1 .. Len(q) : q'[i] = q[i]
      /\ q'[Len(q) + 1] = m
  BY Appended
<1>2. /\ \A i \in 1 .. Len(q) : ~Ends(i, n)
      /\ Begun(n)
  BY DEF NodeInOrder
<1>3. /\ \A i \in 1 .. Len(q') : Starts(i, n)' <=> i \in 1 .. Len(q) /\ Starts(i, n)
      /\ \A i \in 1 .. Len(q') : Ends(i, n)' <=> i = Len(q) + 1
  BY <1>1, <1>2 DEF Starts, Ends
<1>4. n \in wip \/ \E k \in 1 .. (Len(q) + 1 - 1) : Starts(k, n)'
  BY <1>1, <1>2, <1>3 DEF Begun
<1> QED
  BY <1>2, <1>3, <1>4 DEF NodeInOrder

\* Whatever is put: the ends stay in the queue, and a success is put only when
\* no node is under way but those given up.
LEMMA EndedBeforeSuccessWhenPut ==
  ASSUME q \in Seq(Message), NEW m \in Message, q' = Append(q, m), NEW n \in Nodes,
         UNCHANGED wip, NodeInOrder(n), EndedBeforeSuccess(n),
         graph = "ended" => graph' = "ended",
         \/ node'[n] = node[n] /\ ~(m.type = "NodeStarted" /\ m.node = n)
         \/ node'[n] = "running" /\ graph # "ended"
         \/ node'[n] # "idle" /\ m.type \in NodeEvents \ {"NodeStarted"} /\ m.node = n
              /\ graph # "ended",
         node[n] = "lost" => node'[n] = "lost",
         m.type \in {"Succeeded", "PartialSuccess"} =>
           graph' = "ended" /\ node[n] \in {"idle", "done", "exception", "lost"}
  PROVE  EndedBeforeSuccess(n)'
<1>1. /\ Len(q) \in Nat /\ Len(q') = Len(q) + 1
      /\ \A i \in 1 .. Len(q) : q'[i] = q[i]
      /\ q'[Len(q) + 1] = m
  BY Appended
<1>2. /\ \A i \in 1 .. Len(q) : Starts(i, n)' <=> Starts(i, n)
      /\ \A i \in 1 .. Len(q) : Ends(i, n)' <=> Ends(i, n)
  BY <1>1 DEF Starts, Ends
<1>3. Begun(n)' => Begun(n) \/ (m.type = "NodeStarted" /\ m.node = n)
  BY <1>1, <1>2 DEF Begun, Starts
<1>4. node'[n] \in {"done", "exception"} /\ Begun(n)' => \E k \in 1 .. Len(q') : Ends(k, n)'
  <2>1. CASE m.type \in NodeEvents \ {"NodeStarted"} /\ m.node = n
    BY <1>1, <2>1 DEF Ends
  <2>2. CASE node'[n] = node[n] /\ ~(m.type = "NodeStarted" /\ m.node = n)
    BY <1>1, <1>2, <1>3, <2>2 DEF EndedBeforeSuccess
  <2> QED
    BY <2>1, <2>2
<1>5. ASSUME NEW i \in 1 .. Len(q'), q'[i].type \in {"Succeeded", "PartialSuccess"}
      PROVE  /\ graph' = "ended"
             /\ Begun(n)' => node'[n] = "lost" \/ \E k \in 1 .. (i - 1) : Ends(k, n)'
  <2>1. CASE i \in 1 .. Len(q)
    <3>1. /\ graph = "ended"
          /\ Begun(n) => node[n] = "lost" \/ \E k \in 1 .. (i - 1) : Ends(k, n)
      BY <1>1, <1>5, <2>1 DEF EndedBeforeSuccess
    <3>2. ~(m.type = "NodeStarted" /\ m.node = n)
      BY <3>1
    <3> QED
      BY <1>1, <1>2, <1>3, <2>1, <3>1, <3>2
  <2>2. CASE i = Len(q) + 1
    <3>1. q'[i] = m /\ graph' = "ended" /\ node[n] \in {"idle", "done", "exception", "lost"}
      BY <1>1, <1>5, <2>2
    <3>2. Begun(n)' => Begun(n)
      BY <1>3, <1>5, <3>1
    <3>3. node[n] = "idle" => ~Begun(n)
      BY DEF NodeInOrder, Begun
    <3>4. Begun(n) => node'[n] = "lost" \/ \E k \in 1 .. Len(q) : Ends(k, n)
      BY <3>1, <3>3 DEF EndedBeforeSuccess
    <3> QED
      BY <1>1, <1>2, <2>2, <3>1, <3>2, <3>4
  <2> QED
    BY <1>1, <2>1, <2>2
<1> QED
  BY <1>4, <1>5 DEF EndedBeforeSuccess

(***************************************************************************)
(* The parts of OrderInv when a message is taken                           *)
(***************************************************************************)

LEMMA Taken ==
  ASSUME q \in Seq(Message), q # <<>>, q' = Tail(q)
  PROVE  /\ Head(q) = q[1] /\ Len(q) \in Nat /\ Len(q) >= 1 /\ Len(q') = Len(q) - 1
         /\ \A i \in 1 .. Len(q) - 1 : q'[i] = q[i + 1]
         /\ \A i \in 1 .. Len(q') : i + 1 \in 1 .. Len(q) /\ q'[i] = q[i + 1]
BY HeadIsFirst

LEMMA CreatedFirstWhenTaken ==
  ASSUME q \in Seq(Message), q # <<>>, q' = Tail(q), graph' = graph, stopSent' = stopSent,
         CreatedFirst, run # "absent" => run' # "absent",
         run' # "absent" \/ Head(q).type # "Started"
  PROVE  CreatedFirst'
<1>1. /\ Head(q) = q[1] /\ Len(q) \in Nat /\ Len(q) >= 1 /\ Len(q') = Len(q) - 1
      /\ \A i \in 1 .. Len(q) - 1 : q'[i] = q[i + 1]
      /\ \A i \in 1 .. Len(q') : i + 1 \in 1 .. Len(q) /\ q'[i] = q[i + 1]
  BY Taken
<1>2. ASSUME NEW i \in 1 .. Len(q'), q'[i].type \in NeedRun, run' = "absent"
      PROVE  \E k \in 1 .. (i - 1) : q'[k].type = "Started"
  <2>1. PICK k \in 1 .. (i + 1 - 1) : q[k].type = "Started"
    BY <1>1, <1>2 DEF CreatedFirst
  <2>2. k # 1
    BY <1>1, <1>2, <2>1
  <2>3. k - 1 \in 1 .. (i - 1) /\ q'[k - 1] = q[k]
    BY <1>1, <2>1, <2>2
  <2> QED
    BY <2>1, <2>3
<1>3. ASSUME graph' \in {"running", "failed"}, run' = "absent"
      PROVE  \E k \in 1 .. Len(q') : q'[k].type = "Started"
  <2>1. PICK k \in 1 .. Len(q) : q[k].type = "Started"
    BY <1>3 DEF CreatedFirst
  <2>2. k # 1
    BY <1>1, <1>3, <2>1
  <2>3. k - 1 \in 1 .. Len(q') /\ q'[k - 1] = q[k]
    BY <1>1, <2>1, <2>2
  <2> QED
    BY <2>1, <2>3
<1>4. \A i \in 1 .. Len(q') : q'[i].type = "Stop" => stopSent'
  BY <1>1 DEF CreatedFirst
<1> QED
  BY <1>2, <1>3, <1>4 DEF CreatedFirst

LEMMA NothingAfterFinishWhenTaken ==
  ASSUME q \in Seq(Message), q # <<>>, q' = Tail(q), NothingAfterFinish,
         run' = run \/ run' \notin Terminal \/ Head(q).type \in FinishEvents
  PROVE  NothingAfterFinish'
<1>1. /\ Head(q) = q[1] /\ Len(q) \in Nat /\ Len(q) >= 1 /\ Len(q') = Len(q) - 1
      /\ \A i \in 1 .. Len(q') : i + 1 \in 1 .. Len(q) /\ q'[i] = q[i + 1]
  BY Taken
<1>2. \A i, k \in 1 .. Len(q') :
        q'[i].type \in FinishEvents /\ q'[k].type \in NodeEvents => k < i
  <2> SUFFICES ASSUME NEW i \in 1 .. Len(q'), NEW k \in 1 .. Len(q'),
                      q'[i].type \in FinishEvents, q'[k].type \in NodeEvents
               PROVE  k < i
    OBVIOUS
  <2>1. k + 1 < i + 1
    BY <1>1 DEF NothingAfterFinish
  <2> QED
    BY <1>1, <2>1
<1>3. ASSUME run' \in Terminal, NEW k \in 1 .. Len(q'), q'[k].type \in NodeEvents
      PROVE  FALSE
  <2>1. CASE run' = run
    BY <1>1, <1>3, <2>1 DEF NothingAfterFinish
  <2>2. CASE Head(q).type \in FinishEvents
    <3>1. 1 \in 1 .. Len(q) /\ k + 1 \in 1 .. Len(q) /\ ~(k + 1 < 1)
      BY <1>1
    <3> QED
      BY <1>1, <1>3, <2>2, <3>1 DEF NothingAfterFinish
  <2> QED
    BY <1>3, <2>1, <2>2
<1> QED
  BY <1>2, <1>3 DEF NothingAfterFinish

LEMMA Shifted ==
  ASSUME q \in Seq(Message), q # <<>>, q' = Tail(q), NEW n \in Nodes
  PROVE  /\ \A i \in 1 .. Len(q') : Starts(i, n)' <=> Starts(i + 1, n)
         /\ \A i \in 1 .. Len(q') : Ends(i, n)' <=> Ends(i + 1, n)
         /\ \A i \in 1 .. Len(q') : i + 1 \in 1 .. Len(q) /\ q'[i] = q[i + 1]
         /\ \A k \in 1 .. Len(q) : k # 1 => k - 1 \in 1 .. Len(q') /\ q'[k - 1] = q[k]
         /\ 1 \in 1 .. Len(q) /\ Head(q) = q[1]
         /\ Len(q') = Len(q) - 1 /\ Len(q) \in Nat
<1>1. /\ Head(q) = q[1] /\ Len(q) \in Nat /\ Len(q) >= 1 /\ Len(q') = Len(q) - 1
      /\ \A i \in 1 .. Len(q) - 1 : q'[i] = q[i + 1]
      /\ \A i \in 1 .. Len(q') : i + 1 \in 1 .. Len(q) /\ q'[i] = q[i + 1]
  BY Taken
<1>2. \A k \in 1 .. Len(q) : k # 1 => k - 1 \in 1 .. Len(q') /\ q'[k - 1] = q[k]
  BY <1>1
<1> QED
  BY <1>1, <1>2 DEF Starts, Ends

\* A message of no node, or of another one, is taken; when the run fails, node
\* executions that are running fail.
LEMMA NodeInOrderWhenTaken ==
  ASSUME q \in Seq(Message), q # <<>>, q' = Tail(q), NEW n \in Nodes,
         UNCHANGED node, wip' \cap {n} = wip \cap {n},
         \/ nodeExec'[n] = nodeExec[n]
         \/ nodeExec[n] = "RUNNING" /\ nodeExec'[n] \notin {"absent", "RUNNING"},
         NodeInOrder(n), EndedBeforeSuccess(n), graph' = graph,
         Head(q).type \notin NodeEvents \/ Head(q).node # n
  PROVE  NodeInOrder(n)' /\ EndedBeforeSuccess(n)'
<1>1. /\ \A i \in 1 .. Len(q') : Starts(i, n)' <=> Starts(i + 1, n)
      /\ \A i \in 1 .. Len(q') : Ends(i, n)' <=> Ends(i + 1, n)
      /\ \A i \in 1 .. Len(q') : i + 1 \in 1 .. Len(q) /\ q'[i] = q[i + 1]
      /\ \A k \in 1 .. Len(q) : k # 1 => k - 1 \in 1 .. Len(q') /\ q'[k - 1] = q[k]
      /\ 1 \in 1 .. Len(q) /\ Head(q) = q[1]
      /\ Len(q') = Len(q) - 1 /\ Len(q) \in Nat
  BY Shifted
<1>2. ~Starts(1, n) /\ ~Ends(1, n) /\ (n \in wip' <=> n \in wip)
  BY <1>1 DEF Starts, Ends, NodeEvents
<1>3. /\ \A k \in 1 .. Len(q) : Starts(k, n) => k # 1 /\ Starts(k - 1, n)'
      /\ \A k \in 1 .. Len(q) : Ends(k, n) => k # 1 /\ Ends(k - 1, n)'
  BY <1>1, <1>2
<1>4. Begun(n)' <=> Begun(n)
  BY <1>1, <1>2, <1>3 DEF Begun
<1>5. ASSUME NEW i \in 1 .. Len(q'), \E k \in 1 .. (i + 1 - 1) : Starts(k, n)
      PROVE  \E k \in 1 .. (i - 1) : Starts(k, n)'
  BY <1>1, <1>3, <1>5
<1>6. ASSUME NEW i \in 1 .. Len(q'), \E k \in 1 .. (i + 1 - 1) : Ends(k, n)
      PROVE  \E k \in 1 .. (i - 1) : Ends(k, n)'
  BY <1>1, <1>3, <1>6
<1>7. NodeInOrder(n)'
  <2>1. \A i \in 1 .. Len(q') : Starts(i, n)' =>
          nodeExec'[n] = "absent" /\ n \notin wip' /\ node'[n] # "idle"
    BY <1>1, <1>2 DEF NodeInOrder
  <2>2. ASSUME NEW i \in 1 .. Len(q'), Ends(i, n)'
        PROVE  /\ node'[n] \in {"done", "exception"}
               /\ n \in wip' \/ \E k \in 1 .. (i - 1) : Starts(k, n)'
    <3>1. /\ node[n] \in {"done", "exception"}
          /\ n \in wip \/ \E k \in 1 .. (i + 1 - 1) : Starts(k, n)
      BY <1>1, <2>2 DEF NodeInOrder
    <3> QED
      BY <1>2, <1>5, <3>1
  <2>3. ASSUME NEW i \in 1 .. Len(q'), NEW k \in 1 .. Len(q'),
               (Starts(i, n)' /\ Starts(k, n)') \/ (Ends(i, n)' /\ Ends(k, n)')
        PROVE  i = k
    <3>1. (Starts(i + 1, n) /\ Starts(k + 1, n)) \/ (Ends(i + 1, n) /\ Ends(k + 1, n))
      BY <1>1, <2>3
    <3>2. i + 1 = k + 1
      BY <1>1, <3>1 DEF NodeInOrder
    <3> QED
      BY <3>2
  <2>4. /\ node'[n] = "idle" => nodeExec'[n] = "absent" /\ n \notin wip'
        /\ node'[n] = "running" => Begun(n)'
        /\ nodeExec'[n] = "RUNNING" => n \in wip'
        /\ n \in wip' => nodeExec'[n] # "absent"
    BY <1>2, <1>4 DEF NodeInOrder
  <2> QED
    BY <2>1, <2>2, <2>3, <2>4 DEF NodeInOrder
<1>8. EndedBeforeSuccess(n)'
  <2>1. node'[n] \in {"done", "exception"} /\ Begun(n)' => \E k \in 1 .. Len(q') : Ends(k, n)'
    BY <1>1, <1>3, <1>4 DEF EndedBeforeSuccess
  <2>2. ASSUME NEW i \in 1 .. Len(q'), q'[i].type \in {"Succeeded", "PartialSuccess"}
        PROVE  /\ graph' = "ended"
               /\ Begun(n)' => node'[n] = "lost" \/ \E k \in 1 .. (i - 1) : Ends(k, n)'
    <3>1. /\ graph = "ended"
          /\ Begun(n) => node[n] = "lost" \/ \E k \in 1 .. (i + 1 - 1) : Ends(k, n)
      BY <1>1, <2>2 DEF EndedBeforeSuccess
    <3> QED
      BY <1>4, <1>6, <3>1
  <2> QED
    BY <2>1, <2>2 DEF EndedBeforeSuccess
<1> QED
  BY <1>7, <1>8

\* Its start is taken.
LEMMA NodeInOrderWhenBegun ==
  ASSUME q \in Seq(Message), q # <<>>, q' = Tail(q), NEW n \in Nodes,
         UNCHANGED <<node, graph>>, n \in wip', nodeExec'[n] # "absent",
         NodeInOrder(n), EndedBeforeSuccess(n),
         Head(q).type = "NodeStarted", Head(q).node = n
  PROVE  NodeInOrder(n)' /\ EndedBeforeSuccess(n)'
<1>1. /\ \A i \in 1 .. Len(q') : Starts(i, n)' <=> Starts(i + 1, n)
      /\ \A i \in 1 .. Len(q') : Ends(i, n)' <=> Ends(i + 1, n)
      /\ \A i \in 1 .. Len(q') : i + 1 \in 1 .. Len(q) /\ q'[i] = q[i + 1]
      /\ \A k \in 1 .. Len(q) : k # 1 => k - 1 \in 1 .. Len(q') /\ q'[k - 1] = q[k]
      /\ 1 \in 1 .. Len(q) /\ Head(q) = q[1]
      /\ Len(q') = Len(q) - 1 /\ Len(q) \in Nat
  BY Shifted
<1>2. Starts(1, n) /\ ~Ends(1, n) /\ Begun(n) /\ node[n] # "idle"
  BY <1>1 DEF Starts, Ends, Begun, NodeInOrder
<1>3. \A i \in 1 .. Len(q') : ~Starts(i, n)'
  <2> SUFFICES ASSUME NEW i \in 1 .. Len(q'), Starts(i + 1, n) PROVE FALSE
    BY <1>1
  <2>1. i + 1 = 1
    BY <1>1, <1>2 DEF NodeInOrder
  <2> QED
    BY <2>1
<1>4. \A k \in 1 .. Len(q) : Ends(k, n) => k # 1 /\ Ends(k - 1, n)'
  BY <1>1, <1>2
<1>5. \A i, k \in 1 .. Len(q') : Ends(i, n)' /\ Ends(k, n)' => i = k
  <2> SUFFICES ASSUME NEW i \in 1 .. Len(q'), NEW k \in 1 .. Len(q'), Ends(i + 1, n), Ends(k + 1, n)
               PROVE  i = k
    BY <1>1
  <2>1. i + 1 = k + 1
    BY <1>1 DEF NodeInOrder
  <2> QED
    BY <2>1
<1>6. NodeInOrder(n)'
  BY <1>1, <1>2, <1>3, <1>5 DEF NodeInOrder, Begun
<1>7. ASSUME NEW i \in 1 .. Len(q'), q'[i].type \in {"Succeeded", "PartialSuccess"}
      PROVE  graph' = "ended" /\ (node'[n] = "lost" \/ \E k \in 1 .. (i - 1) : Ends(k, n)')
  <2>1. graph = "ended" /\ (node[n] = "lost" \/ \E k \in 1 .. (i + 1 - 1) : Ends(k, n))
    BY <1>1, <1>2, <1>7 DEF EndedBeforeSuccess
  <2> QED
    BY <1>1, <1>4, <2>1
<1>8. node'[n] \in {"done", "exception"} => \E k \in 1 .. Len(q') : Ends(k, n)'
  BY <1>1, <1>2, <1>4 DEF EndedBeforeSuccess
<1> QED
  BY <1>6, <1>7, <1>8 DEF EndedBeforeSuccess

\* Its end is taken.
LEMMA NodeInOrderWhenDone ==
  ASSUME q \in Seq(Message), q # <<>>, q' = Tail(q), NEW n \in Nodes,
         UNCHANGED <<node, graph>>, n \notin wip', nodeExec'[n] # "RUNNING",
         NodeInOrder(n), EndedBeforeSuccess(n),
         Head(q).type \in NodeEvents \ {"NodeStarted"}, Head(q).node = n
  PROVE  /\ NodeInOrder(n)' /\ EndedBeforeSuccess(n)'
         /\ n \in wip
<1>1. /\ \A i \in 1 .. Len(q') : Starts(i, n)' <=> Starts(i + 1, n)
      /\ \A i \in 1 .. Len(q') : Ends(i, n)' <=> Ends(i + 1, n)
      /\ \A i \in 1 .. Len(q') : i + 1 \in 1 .. Len(q) /\ q'[i] = q[i + 1]
      /\ \A k \in 1 .. Len(q) : k # 1 => k - 1 \in 1 .. Len(q') /\ q'[k - 1] = q[k]
      /\ 1 \in 1 .. Len(q) /\ Head(q) = q[1]
      /\ Len(q') = Len(q) - 1 /\ Len(q) \in Nat
  BY Shifted
<1>2. Ends(1, n) /\ n \in wip /\ node[n] \in {"done", "exception"}
  BY <1>1 DEF Ends, NodeInOrder
<1>3. \A i \in 1 .. Len(q') : ~Starts(i, n)'
  BY <1>1, <1>2 DEF NodeInOrder
<1>4. \A i \in 1 .. Len(q') : ~Ends(i, n)'
  <2> SUFFICES ASSUME NEW i \in 1 .. Len(q'), Ends(i + 1, n) PROVE FALSE
    BY <1>1
  <2>1. i + 1 = 1
    BY <1>1, <1>2 DEF NodeInOrder
  <2> QED
    BY <2>1
<1>5. ~Begun(n)'
  BY <1>3 DEF Begun
<1>6. \A i \in 1 .. Len(q') : q'[i].type \in {"Succeeded", "PartialSuccess"} => graph = "ended"
  BY <1>1 DEF EndedBeforeSuccess
<1> QED
  BY <1>2, <1>3, <1>4, <1>5, <1>6 DEF NodeInOrder, EndedBeforeSuccess

(***************************************************************************)
(* The order of the queue                                                  *)
(***************************************************************************)

\* Messages that nobody waits for are put behind what is there, or none.
LEMMA QuietPutOrders ==
  ASSUME q \in Seq(Message), Len(q') \in Nat, Len(q') >= Len(q),
         \A i \in 1 .. Len(q) : q'[i] = q[i],
         \A i \in 1 .. Len(q') : i \in 1 .. Len(q) \/ q'[i].type \in {"None", "Ping"},
         UNCHANGED <<run, nodeExec, wip, node, graph, stopSent>>, QueueOrder
  PROVE  QueueOrder'
<1>1. Len(q) \in Nat
  BY LenProperties
<1>2. \A i \in 1 .. Len(q') :
        q'[i].type \in NeedRun \cup NodeEvents \cup FinishEvents => i \in 1 .. Len(q)
  BY DEF NeedRun, NodeEvents, FinishEvents
<1>3. CreatedFirst'
  <2>1. ASSUME NEW i \in 1 .. Len(q'), q'[i].type \in NeedRun, run' = "absent"
        PROVE  \E k \in 1 .. (i - 1) : q'[k].type = "Started"
    <3>1. i \in 1 .. Len(q)
      BY <1>2, <2>1
    <3>2. PICK k \in 1 .. (i - 1) : q[k].type = "Started"
      BY <2>1, <3>1 DEF QueueOrder, CreatedFirst
    <3> QED
      BY <1>1, <3>1, <3>2
  <2>2. ASSUME graph' \in {"running", "failed"}, run' = "absent"
        PROVE  \E k \in 1 .. Len(q') : q'[k].type = "Started"
    BY <1>1, <2>2 DEF QueueOrder, CreatedFirst
  <2>3. \A i \in 1 .. Len(q') : q'[i].type = "Stop" => stopSent'
    BY <1>2 DEF QueueOrder, CreatedFirst, FinishEvents
  <2> QED
    BY <2>1, <2>2, <2>3 DEF CreatedFirst
<1>4. ASSUME NEW n \in Nodes PROVE NodeInOrder(n)' /\ EndedBeforeSuccess(n)'
  <2>1. NodeInOrder(n) /\ EndedBeforeSuccess(n)
    BY DEF QueueOrder
  <2>2. /\ \A i \in 1 .. Len(q) : Starts(i, n)' <=> Starts(i, n)
        /\ \A i \in 1 .. Len(q) : Ends(i, n)' <=> Ends(i, n)
        /\ \A i \in 1 .. Len(q') : Starts(i, n)' \/ Ends(i, n)' => i \in 1 .. Len(q)
    BY <1>2 DEF Starts, Ends, NodeEvents
  <2>3. Begun(n)' <=> Begun(n)
    BY <1>1, <2>2 DEF Begun
  <2>4. \A i \in 1 .. Len(q) : \A k \in 1 .. (i - 1) :
          (Starts(k, n)' <=> Starts(k, n)) /\ (Ends(k, n)' <=> Ends(k, n))
    BY <1>1, <2>2
  <2>5. NodeInOrder(n)'
    BY <2>1, <2>2, <2>3, <2>4 DEF NodeInOrder
  <2>6. node'[n] \in {"done", "exception"} /\ Begun(n)' => \E k \in 1 .. Len(q') : Ends(k, n)'
    BY <1>1, <2>1, <2>2, <2>3 DEF EndedBeforeSuccess
  <2>7. ASSUME NEW i \in 1 .. Len(q'), q'[i].type \in {"Succeeded", "PartialSuccess"}
        PROVE  /\ graph' = "ended"
               /\ Begun(n)' => node'[n] = "lost" \/ \E k \in 1 .. (i - 1) : Ends(k, n)'
    <3>1. i \in 1 .. Len(q)
      BY <1>2, <2>7 DEF FinishEvents
    <3> QED
      BY <2>1, <2>3, <2>4, <2>7, <3>1 DEF EndedBeforeSuccess
  <2> QED
    BY <2>5, <2>6, <2>7 DEF EndedBeforeSuccess
<1>5. NothingAfterFinish => NothingAfterFinish'
  BY <1>2 DEF NothingAfterFinish
<1> QED
  BY <1>3, <1>4, <1>5 DEF QueueOrder

\* The message m of node n, put while the graph takes a step its node allows.
PutOfNode(m, n) ==
  \/ node'[n] = node[n] /\ (m.type \notin NodeEvents \/ m.node # n)
  \/ /\ m.type = "NodeStarted" /\ m.node = n /\ graph # "ended"
     /\ node[n] = "idle" /\ node'[n] = "running"
  \/ /\ m.type \in NodeEvents \ {"NodeStarted"} /\ m.node = n /\ graph # "ended"
     /\ node[n] = "running" /\ node'[n] \in {"done", "exception"}

LEMMA PutOrders ==
  ASSUME TypeOK, QueueOrder, ~stopSent => FinishedOnce,
         NEW m \in Message, q' = Append(q, m), UNCHANGED <<run, nodeExec, wip>>,
         m.type \in NeedRun => graph \in {"running", "failed"},
         graph' \in {"running", "failed"} =>
           graph \in {"running", "failed"} \/ m.type = "Started",
         graph = "ended" => graph' = "ended",
         m.type = "Stop" => stopSent', stopSent => stopSent',
         \A n \in Nodes : PutOfNode(m, n),
         m.type \in {"Succeeded", "PartialSuccess"} =>
           graph' = "ended" /\ \A n \in Nodes : node[n] # "running"
  PROVE  QueueOrder'
<1>1. q \in Seq(Message) /\ \A n \in Nodes : node[n] \in {"idle", "running", "done", "exception", "lost"}
  BY DEF TypeOK
<1>2. CreatedFirst'
  BY <1>1, CreatedFirstWhenPut DEF QueueOrder
<1>3. ASSUME NEW n \in Nodes PROVE NodeInOrder(n)'
  <2>1. PutOfNode(m, n) /\ NodeInOrder(n)
    BY DEF QueueOrder
  <2> QED
    BY <1>1, <2>1, NodeInOrderWhenPut, NodeInOrderWhenStarted, NodeInOrderWhenEnded
    DEF PutOfNode
<1>4. ASSUME NEW n \in Nodes PROVE EndedBeforeSuccess(n)'
  <2>1. NodeInOrder(n) /\ EndedBeforeSuccess(n)
    BY DEF QueueOrder
  <2>2. m.type \in {"Succeeded", "PartialSuccess"} =>
          graph' = "ended" /\ node[n] \in {"idle", "done", "exception", "lost"}
    BY <1>1
  <2>4. node[n] = "lost" => node'[n] = "lost"
    BY DEF PutOfNode
  <2>3. \/ node'[n] = node[n] /\ ~(m.type = "NodeStarted" /\ m.node = n)
        \/ node'[n] = "running" /\ graph # "ended"
        \/ node'[n] # "idle" /\ m.type \in NodeEvents \ {"NodeStarted"} /\ m.node = n
             /\ graph # "ended"
    BY DEF PutOfNode, NodeEvents
  <2> QED
    BY <1>1, <2>1, <2>2, <2>3, <2>4, EndedBeforeSuccessWhenPut
<1>5. ASSUME ~stopSent' PROVE NothingAfterFinish'
  <2>1. m.type \in NodeEvents => graph # "ended"
    BY DEF NeedRun
  <2> QED
    BY <1>1, <1>5, <2>1, NothingAfterFinishWhenPut DEF QueueOrder
<1> QED
  BY <1>2, <1>3, <1>4, <1>5 DEF QueueOrder

\* What a handler does to the rows of node n when it takes the first message.
TakenByNode(n) ==
  \/ /\ Head(q).type \notin NodeEvents \/ Head(q).node # n
     /\ wip' \cap {n} = wip \cap {n}
     /\ \/ nodeExec'[n] = nodeExec[n]
        \/ nodeExec[n] = "RUNNING" /\ nodeExec'[n] \notin {"absent", "RUNNING"}
  \/ /\ Head(q).type = "NodeStarted" /\ Head(q).node = n
     /\ n \in wip' /\ nodeExec'[n] # "absent"
  \/ /\ Head(q).type \in NodeEvents \ {"NodeStarted"} /\ Head(q).node = n
     /\ n \notin wip' /\ nodeExec'[n] # "RUNNING"

LEMMA TakenOrders ==
  ASSUME TypeOK, QueueOrder, NEW types, Take(types),
         run # "absent" => run' # "absent",
         run' # "absent" \/ Head(q).type # "Started",
         run' = run \/ run' \notin Terminal \/ Head(q).type \in FinishEvents,
         \A n \in Nodes : TakenByNode(n)
  PROVE  QueueOrder'
<1>1. /\ q \in Seq(Message) /\ q # <<>> /\ q' = Tail(q)
      /\ graph' = graph /\ stopSent' = stopSent /\ node' = node
  BY TakeType DEF TypeOK
<1>2. CreatedFirst'
  BY <1>1, CreatedFirstWhenTaken DEF QueueOrder
<1>3. ASSUME NEW n \in Nodes PROVE NodeInOrder(n)' /\ EndedBeforeSuccess(n)'
  <2>1. TakenByNode(n) /\ NodeInOrder(n) /\ EndedBeforeSuccess(n)
    BY DEF QueueOrder
  <2> QED
    BY <1>1, <2>1, NodeInOrderWhenTaken, NodeInOrderWhenBegun, NodeInOrderWhenDone
    DEF TakenByNode
<1>4. ASSUME ~stopSent PROVE NothingAfterFinish'
  BY <1>1, <1>4, NothingAfterFinishWhenTaken DEF QueueOrder
<1> QED
  BY <1>1, <1>2, <1>3, <1>4 DEF QueueOrder

(***************************************************************************)
(* Every step keeps OrderInv                                               *)
(***************************************************************************)

\* What does not touch the rows leaves the log true.
LEMMA LoggedStays ==
  ASSUME Logged, UNCHANGED <<streaming, run, nodeExec, appLogs>>,
         stopSent => stopSent',
         \A n \in Nodes : node[n] = "lost" => node'[n] = "lost"
  PROVE  Logged'
BY DEF Logged, LeftRunning

\* Node executions that run on while the run does.
LEMMA LoggedBefore ==
  ASSUME ~streaming' \/ ~stopSent' => run' \notin Terminal /\ appLogs' = 0
  PROVE  Logged'
BY DEF Logged

\* Whatever the runner publishes.
LEMMA RunnerPutOrders ==
  ASSUME IInv, OrderInv, NEW m \in Message, RunnerPut(m),
         m.type \in NeedRun => graph \in {"running", "failed"},
         graph' \in {"running", "failed"} =>
           graph \in {"running", "failed"} \/ m.type = "Started",
         graph = "ended" => graph' = "ended",
         m.type # "Stop",
         \A n \in Nodes : PutOfNode(m, n),
         m.type \in {"Succeeded", "PartialSuccess"} =>
           graph' = "ended" /\ \A n \in Nodes : node[n] # "running"
  PROVE  OrderInv'
<1>1. UNCHANGED <<streaming, ppc, outcome, run, nodeExec, wip, appLogs, stopSent>>
  BY DEF RunnerPut, dbVars
<1>2. Logged' /\ RaisesOnlyBeforeStart'
  <2>1. \A n \in Nodes : node[n] = "lost" => node'[n] = "lost"
    BY DEF PutOfNode
  <2> QED
    BY <1>1, <2>1, LoggedStays DEF OrderInv, RaisesOnlyBeforeStart
<1>3. ASSUME outcome = "running" PROVE QueueOrder'
  <2>1. q' = Append(q, m)
    BY <1>3 DEF RunnerPut, Put, IInv, PipelineInv
  <2>2. TypeOK /\ QueueOrder /\ (~stopSent => FinishedOnce)
    BY <1>3 DEF IInv, PipelineInv, OrderInv
  <2> QED
    BY <1>1, <2>1, <2>2, PutOrders
<1> QED
  BY <1>1, <1>2, <1>3 DEF OrderInv

\* A step that touches nothing but the queue, quietly.
LEMMA QuietStepOrders ==
  ASSUME IInv, OrderInv,
         UNCHANGED <<streaming, outcome, run, nodeExec, wip, appLogs, node, graph, stopSent>>,
         outcome = "running" =>
           \/ q' = q
           \/ q' = Append(q, None) \/ q' = Append(q, Event("Ping"))
           \/ q' = Append(Append(q, None), Event("Ping"))
  PROVE  OrderInv'
<1>1. Logged' /\ RaisesOnlyBeforeStart'
  BY LoggedStays DEF OrderInv, RaisesOnlyBeforeStart
<1>2. ASSUME outcome = "running" PROVE QueueOrder'
  <2>1. /\ None \in Message /\ None.type = "None"
        /\ Event("Ping") \in Message /\ Event("Ping").type = "Ping"
    BY MessageTypes DEF EventTypes, TerminalEvents, FinishEvents, NodeEvents
  <2>2. q \in Seq(Message) /\ QueueOrder
    BY <1>2 DEF IInv, TypeOK, OrderInv
  <2>3. /\ Len(q') \in Nat /\ Len(q') >= Len(q)
        /\ \A i \in 1 .. Len(q) : q'[i] = q[i]
        /\ \A i \in 1 .. Len(q') : i \in 1 .. Len(q) \/ q'[i].type \in {"None", "Ping"}
    <3> DEFINE r == Append(q, None)
    <3>1. /\ Len(q) \in Nat /\ r \in Seq(Message) /\ Len(r) = Len(q) + 1
          /\ \A i \in 1 .. Len(q) : r[i] = q[i]
          /\ r[Len(q) + 1] = None
      BY <2>1, <2>2, AppendProperties
    <3>2. q' = q \/ q' = r \/ q' = Append(q, Event("Ping")) \/ q' = Append(r, Event("Ping"))
      BY <1>2
    <3> HIDE DEF r
    <3>3. CASE q' = q \/ q' = r
      BY <2>1, <3>1, <3>3
    <3>4. CASE q' = Append(q, Event("Ping"))
      BY <2>1, <2>2, <3>1, <3>4, AppendProperties
    <3>5. CASE q' = Append(r, Event("Ping"))
      BY <2>1, <3>1, <3>5, AppendProperties
    <3> QED
      BY <3>2, <3>3, <3>4, <3>5
  <2> QED
    BY <2>2, <2>3, QuietPutOrders
<1> QED
  BY <1>1, <1>2 DEF OrderInv

LEMMA RunnerOrders ==
  ASSUME IInv, OrderInv, RunnerStep
  PROVE  OrderInv'
<1>1. CASE PublishStarted
  BY <1>1, MessageTypes, RunnerPutOrders
  DEF PublishStarted, PutOfNode, NeedRun, EventTypes, TerminalEvents, FinishEvents, NodeEvents
<1>2. CASE PublishBranch
  BY <1>2, MessageTypes, RunnerPutOrders
  DEF PublishBranch, PutOfNode, NeedRun, EventTypes, TerminalEvents, FinishEvents, NodeEvents
<1>3. CASE PublishError
  BY <1>3, MessageTypes, RunnerPutOrders
  DEF PublishError, PutOfNode, NeedRun, EventTypes, TerminalEvents, FinishEvents, NodeEvents
<1>4. ASSUME NEW n \in Nodes, PublishNodeStarted(n) PROVE OrderInv'
  <2> DEFINE m == NodeEvent("NodeStarted", n)
  <2>1. m \in Message /\ m.type = "NodeStarted" /\ m.node = n
    BY MessageTypes DEF NodeEvent, NodeEvents
  <2>2. /\ RunnerPut(m) /\ graph = "running" /\ graph' = graph /\ node[n] = "idle"
        /\ node' = [node EXCEPT ![n] = "running"]
    BY <1>4 DEF PublishNodeStarted
  <2> HIDE DEF m
  <2>3. ASSUME NEW p \in Nodes PROVE PutOfNode(m, p)
    BY <2>1, <2>2 DEF PutOfNode, IInv, TypeOK
  <2> QED
    BY <2>1, <2>2, <2>3, RunnerPutOrders
<1>5. ASSUME NEW n \in Nodes, NEW type \in NodeEvents, PublishNodeEnd(n, type) PROVE OrderInv'
  <2> DEFINE m == NodeEvent(type, n)
  <2>1. m \in Message /\ m.type = type /\ m.node = n
    BY MessageTypes DEF NodeEvent
  <2>2. /\ RunnerPut(m) /\ graph = "running" /\ graph' \in {"running", "failed"}
        /\ node[n] = "running" /\ type \in NodeEvents \ {"NodeStarted"}
        /\ node' = [node EXCEPT ![n] = IF type = "NodeException" THEN "exception" ELSE "done"]
    BY <1>5 DEF PublishNodeEnd
  <2> HIDE DEF m
  <2>3. ASSUME NEW p \in Nodes PROVE PutOfNode(m, p)
    BY <2>1, <2>2 DEF PutOfNode, IInv, TypeOK
  <2>4. m.type \notin {"Stop", "Succeeded", "PartialSuccess"}
    BY <2>1 DEF NodeEvents
  <2> QED
    BY <2>1, <2>2, <2>3, <2>4, RunnerPutOrders
<1>6. ASSUME NEW type \in FinishEvents, PublishGraphEnd(type) PROVE OrderInv'
  <2> DEFINE m == Event(type)
  <2>1. m \in Message /\ m.type = type
    BY MessageTypes DEF EventTypes, TerminalEvents, FinishEvents, NodeEvents
  <2>2. /\ RunnerPut(m) /\ graph' = "ended" /\ node' = node
        /\ graph \in {"running", "failed"} /\ type # "Stop"
        /\ type \in {"Succeeded", "PartialSuccess"} => \A n \in Nodes : node[n] # "running"
    BY <1>6 DEF PublishGraphEnd, GraphEnd
  <2> HIDE DEF m
  <2>3. ASSUME NEW p \in Nodes PROVE PutOfNode(m, p)
    BY <2>1, <2>2 DEF PutOfNode, FinishEvents, NodeEvents
  <2> QED
    BY <2>1, <2>2, <2>3, RunnerPutOrders
<1>7. CASE RunnerPutNone
  <2>1. outcome = "running" => q' = Append(q, None)
    BY <1>7 DEF RunnerPutNone, Put, IInv, PipelineInv
  <2> QED
    BY <1>7, <2>1, QuietStepOrders DEF RunnerPutNone, dbVars
<1>8. CASE RunnerCheck
  BY <1>8, QuietStepOrders DEF RunnerCheck, dbVars
<1>9. ASSUME NEW n \in Nodes, LoseNode(n) PROVE OrderInv'
  <2>1. /\ UNCHANGED <<streaming, q, graph, ppc, outcome, run, nodeExec, wip, appLogs, stopSent>>
        /\ graph = "running" /\ node[n] = "running" /\ node' = [node EXCEPT ![n] = "lost"]
    BY <1>9 DEF LoseNode, dbVars
  <2>2. ASSUME NEW p \in Nodes
        PROVE  \/ node'[p] = node[p]
               \/ node[p] = "running" /\ node'[p] = "lost"
    BY <2>1 DEF IInv, TypeOK
  <2>3. Logged' /\ RaisesOnlyBeforeStart'
    BY <2>1, <2>2, LoggedStays DEF OrderInv, RaisesOnlyBeforeStart
  <2>4. ASSUME outcome = "running", NEW p \in Nodes
        PROVE  NodeInOrder(p)' /\ EndedBeforeSuccess(p)'
    <3>1. NodeInOrder(p) /\ EndedBeforeSuccess(p)
      BY <2>4 DEF OrderInv, QueueOrder
    <3>2. /\ \A i \in 1 .. Len(q) : Starts(i, p)' <=> Starts(i, p)
          /\ \A i \in 1 .. Len(q) : Ends(i, p)' <=> Ends(i, p)
          /\ Begun(p)' <=> Begun(p)
      BY <2>1 DEF Starts, Ends, Begun
    <3>3. NodeInOrder(p)'
      BY <2>1, <2>2, <3>1, <3>2 DEF NodeInOrder, Starts, Ends, Begun
    <3>4. EndedBeforeSuccess(p)'
      BY <2>1, <2>2, <3>1, <3>2 DEF EndedBeforeSuccess, Starts, Ends, Begun
    <3> QED
      BY <3>3, <3>4
  <2>5. ASSUME outcome = "running" PROVE QueueOrder'
    <3>1. CreatedFirst' /\ (~stopSent => NothingAfterFinish')
      BY <2>1, <2>5 DEF OrderInv, QueueOrder, CreatedFirst, NothingAfterFinish
    <3> QED
      BY <2>1, <2>4, <2>5, <3>1 DEF QueueOrder
  <2> QED
    BY <2>1, <2>3, <2>5 DEF OrderInv
<1> QED
  BY <1>1, <1>2, <1>3, <1>4, <1>5, <1>6, <1>7, <1>8, <1>9 DEF RunnerStep

\* The queue's order tells each handler what it looks for.
LEMMA FirstInOrder ==
  ASSUME IInv, OrderInv, NEW types, Take(types)
  PROVE  /\ QueueOrder /\ Head(q) \in Message /\ Head(q).type \in types
         /\ Head(q).type \in NeedRun => run # "absent"
         /\ Head(q).type = "Stop" => stopSent
         /\ Head(q).type \in NodeEvents => Head(q).node \in Nodes
         /\ Head(q).type = "NodeStarted" =>
              nodeExec[Head(q).node] = "absent" /\ Head(q).node \notin wip
         /\ Head(q).type \in NodeEvents \ {"NodeStarted"} => Head(q).node \in wip
         /\ Head(q).type \in {"Succeeded", "PartialSuccess"} =>
              \A n \in Nodes : nodeExec[n] = "RUNNING" => node[n] = "lost"
         /\ Head(q).type \in NodeEvents \ {"NodeStarted"} => node[Head(q).node] # "lost"
         /\ Head(q).type \in NodeEvents /\ (~streaming \/ ~stopSent) => run \notin Terminal
<1>1. /\ outcome = "running" /\ QueueOrder /\ Head(q) = q[1] /\ 1 \in 1 .. Len(q)
      /\ Head(q) \in Message /\ Head(q).type \in types
      /\ ~streaming => run \notin Terminal
  BY FirstMessage, TakeType DEF OrderInv, IInv
<1>2. Head(q).type \in NeedRun => run # "absent"
  BY <1>1 DEF QueueOrder, CreatedFirst
<1>3. Head(q).type = "Stop" => stopSent
  BY <1>1 DEF QueueOrder, CreatedFirst
<1>4. Head(q).type \in NodeEvents => Head(q).node \in Nodes
  BY <1>1, MessageTypes
<1>5. Head(q).type = "NodeStarted" =>
        nodeExec[Head(q).node] = "absent" /\ Head(q).node \notin wip
  BY <1>1, <1>4 DEF QueueOrder, NodeInOrder, Starts, NodeEvents
<1>6. Head(q).type \in NodeEvents \ {"NodeStarted"} => Head(q).node \in wip
  BY <1>1, <1>4 DEF QueueOrder, NodeInOrder, Ends
<1>7. ASSUME Head(q).type \in {"Succeeded", "PartialSuccess"}, NEW n \in Nodes
      PROVE  nodeExec[n] = "RUNNING" => node[n] = "lost"
  <2>1. Begun(n) => node[n] = "lost"
    BY <1>1, <1>7 DEF QueueOrder, EndedBeforeSuccess
  <2> QED
    BY <1>1, <2>1 DEF QueueOrder, NodeInOrder, Begun
<1>8. Head(q).type \in NodeEvents /\ (~streaming \/ ~stopSent) => run \notin Terminal
  BY <1>1 DEF QueueOrder, NothingAfterFinish
<1>9. Head(q).type \in NodeEvents \ {"NodeStarted"} => node[Head(q).node] # "lost"
  BY <1>1, <1>4 DEF QueueOrder, NodeInOrder, Ends
<1> QED
  BY <1>1, <1>2, <1>3, <1>4, <1>5, <1>6, <1>7, <1>8, <1>9

\* A message of no node is handled without touching the rows, or with touching
\* the run's only.
LEMMA NoNodeTaken ==
  ASSUME Head(q).type \notin NodeEvents, UNCHANGED <<nodeExec, wip>>
  PROVE  \A n \in Nodes : TakenByNode(n)
BY DEF TakenByNode

LEMMA PipelineOrders ==
  ASSUME IInv, OrderInv, PipelineStep
  PROVE  OrderInv'
<1> USE DEF IInv
<1>1. CASE HandlePing
  <2>1. UNCHANGED <<streaming, stopSent, run, nodeExec, wip, appLogs>> /\ outcome' # "raised"
    BY <1>1, TakeType DEF HandlePing, Yield, dbVars
  <2>2. Head(q).type = "Ping" /\ QueueOrder
    BY <1>1, FirstInOrder DEF HandlePing
  <2>3. QueueOrder'
    BY <1>1, <2>1, <2>2, NoNodeTaken, TakenOrders DEF HandlePing, NodeEvents
  <2> QED
    BY <1>1, <2>1, <2>3, TakeType, LoggedStays DEF HandlePing, OrderInv, RaisesOnlyBeforeStart
<1>2. CASE HandleBranch
  <2>1. Head(q).type = "Branch" /\ QueueOrder /\ run # "absent"
    BY <1>2, FirstInOrder DEF HandleBranch, NeedRun
  <2>2. UNCHANGED <<streaming, stopSent, run, nodeExec, wip, appLogs>> /\ outcome' # "raised"
    BY <1>2, <2>1, TakeType DEF HandleBranch, Yield, dbVars
  <2>3. QueueOrder'
    BY <1>2, <2>1, <2>2, NoNodeTaken, TakenOrders DEF HandleBranch, NodeEvents
  <2> QED
    BY <1>2, <2>2, <2>3, TakeType, LoggedStays DEF HandleBranch, OrderInv, RaisesOnlyBeforeStart
<1>3. CASE HandleError
  <2>1. UNCHANGED <<streaming, stopSent, run, nodeExec, wip, appLogs>> /\ outcome' = "error"
    BY <1>3, TakeType DEF HandleError, dbVars
  <2> QED
    BY <1>3, <2>1, TakeType, LoggedStays DEF HandleError, OrderInv, RaisesOnlyBeforeStart
<1>4. CASE HandleStarted
  <2>1. /\ UNCHANGED <<streaming, stopSent, nodeExec, wip, appLogs>> /\ run' = "RUNNING"
        /\ outcome' # "raised"
    BY <1>4, TakeType DEF HandleStarted, Yield
  <2>2. Head(q).type = "Started" /\ QueueOrder /\ run = "absent"
    BY <1>4, FirstInOrder, FirstMessage DEF HandleStarted, StartedOnce
  <2>3. QueueOrder'
    BY <1>4, <2>1, <2>2, NoNodeTaken, TakenOrders DEF HandleStarted, NodeEvents, Terminal
  <2> QED
    BY <2>1, <2>2, <2>3 DEF OrderInv, Logged, RaisesOnlyBeforeStart, Terminal
<1>5. CASE HandleNodeStarted
  <2> DEFINE n == Head(q).node
  <2>1. /\ Head(q).type = "NodeStarted" /\ QueueOrder /\ run # "absent" /\ n \in Nodes
        /\ ~streaming \/ ~stopSent => run \notin Terminal
    BY <1>5, FirstInOrder DEF HandleNodeStarted, NeedRun, NodeEvents
  <2>2. /\ UNCHANGED <<streaming, stopSent, run, appLogs>> /\ outcome' # "raised"
        /\ nodeExec' = [nodeExec EXCEPT ![n] = "RUNNING"] /\ wip' = wip \cup {n}
    BY <1>5, <2>1, TakeType DEF HandleNodeStarted, Yield
  <2>3. \A p \in Nodes : TakenByNode(p)
    BY <2>1, <2>2 DEF TakenByNode, TypeOK
  <2>4. QueueOrder'
    BY <1>5, <2>1, <2>2, <2>3, TakenOrders DEF HandleNodeStarted
  <2> QED
    BY <2>1, <2>2, <2>4 DEF OrderInv, Logged, RaisesOnlyBeforeStart
<1>6. CASE HandleNodeEnd
  <2> DEFINE n == Head(q).node
             ended == EndStatus(Head(q).type)
  <2>1. /\ Head(q).type \in NodeEvents \ {"NodeStarted"} /\ QueueOrder /\ run # "absent"
        /\ n \in Nodes /\ n \in wip
        /\ ~streaming \/ ~stopSent => run \notin Terminal
    BY <1>6, FirstInOrder DEF HandleNodeEnd, NeedRun
  <2>2. /\ UNCHANGED <<streaming, stopSent, run, appLogs>> /\ outcome' # "raised"
        /\ nodeExec' = [nodeExec EXCEPT ![n] = ended] /\ wip' = wip \ {n}
    BY <1>6, <2>1, TakeType DEF HandleNodeEnd, Yield
  <2>3. ended # "RUNNING"
    BY DEF EndStatus
  <2> HIDE DEF ended
  <2>4. \A p \in Nodes : TakenByNode(p)
    BY <2>1, <2>2, <2>3 DEF TakenByNode, TypeOK
  <2>5. QueueOrder'
    BY <1>6, <2>1, <2>2, <2>4, TakenOrders DEF HandleNodeEnd
  <2> QED
    BY <2>1, <2>2, <2>5 DEF OrderInv, Logged, RaisesOnlyBeforeStart
<1>7. CASE HandleSuccess
  <2>1. /\ Head(q).type \in {"Succeeded", "PartialSuccess"} /\ QueueOrder /\ run # "absent"
        /\ \A n \in Nodes : nodeExec[n] = "RUNNING" => node[n] = "lost"
        /\ ~streaming \/ ~stopSent => run \notin Terminal
    BY <1>7, FirstInOrder, FirstMessage
    DEF HandleSuccess, NeedRun, FinishedOnce, FinishEvents
  <2>2. /\ UNCHANGED <<streaming, stopSent, nodeExec, wip, node>> /\ outcome' # "raised"
        /\ run' \in {"SUCCEEDED", "PARTIAL"} /\ run' \in Terminal /\ appLogs' = appLogs + 1
    BY <1>7, <2>1, TakeType DEF HandleSuccess, Yield, Terminal
  <2>3. QueueOrder'
    BY <1>7, <2>1, <2>2, NoNodeTaken, TakenOrders
    DEF HandleSuccess, NodeEvents, FinishEvents, Terminal
  <2>4. Logged'
    BY <2>1, <2>2 DEF OrderInv, Logged, LeftRunning
  <2> QED
    BY <2>1, <2>2, <2>3, <2>4 DEF OrderInv, RaisesOnlyBeforeStart
<1>8. CASE HandleFailed
  <2>1. /\ Head(q).type \in {"Failed", "Stop"} /\ QueueOrder
        /\ run = "absent" => stopSent
        /\ ~streaming \/ ~stopSent => run \notin Terminal
    BY <1>8, FirstInOrder, FirstMessage
    DEF HandleFailed, NeedRun, FinishedOnce, FinishEvents
  <2>2. CASE run = "absent"
    <3>1. /\ UNCHANGED <<streaming, stopSent, run, nodeExec, wip, appLogs>>
          /\ outcome' = "raised"
      BY <1>8, <2>2, TakeType DEF HandleFailed, Raise, dbVars
    <3> QED
      BY <1>8, <2>1, <2>2, <3>1, TakeType, LoggedStays
      DEF HandleFailed, OrderInv, RaisesOnlyBeforeStart
  <2>3. CASE run # "absent"
    <3>1. /\ UNCHANGED <<streaming, stopSent, wip>> /\ outcome' # "raised"
          /\ nodeExec' = FailRunning
          /\ run' \in Terminal /\ appLogs' = appLogs + 1
      BY <1>8, <2>3, TakeType DEF HandleFailed, Yield, Terminal
    <3>2. \A n \in Nodes : TakenByNode(n)
      BY <2>1, <3>1 DEF TakenByNode, FailRunning, NodeEvents
    <3>3. QueueOrder'
      BY <1>8, <2>1, <2>3, <3>1, <3>2, TakenOrders DEF HandleFailed, FinishEvents, Terminal
    <3>4. \A n \in Nodes : nodeExec'[n] # "RUNNING"
      BY <3>1 DEF FailRunning
    <3> QED
      BY <2>1, <3>1, <3>3, <3>4 DEF OrderInv, Logged, RaisesOnlyBeforeStart
  <2> QED
    BY <2>2, <2>3
<1>9. CASE HandleNone
  <2>1. /\ UNCHANGED <<streaming, stopSent, run, nodeExec, wip, appLogs>>
        /\ outcome' \in {"finished", "unexpected"}
    BY <1>9, TakeType DEF HandleNone, dbVars
  <2> QED
    BY <1>9, <2>1, TakeType, LoggedStays DEF HandleNone, OrderInv, RaisesOnlyBeforeStart
<1>10. CASE PollEmpty
  BY <1>10, QuietStepOrders DEF PollEmpty, runnerVars, dbVars
<1>11. CASE Finally
  <2>1. CASE MustStop
    <3>1. /\ UNCHANGED <<streaming, graph, node, outcome, run, nodeExec, wip, appLogs>>
          /\ outcome = "running" /\ stopSent' = TRUE /\ q' = Append(q, Event("Stop"))
      BY <1>11, <2>1 DEF Finally, runnerVars, dbVars
    <3>2. Event("Stop") \in Message /\ Event("Stop").type = "Stop"
      BY MessageTypes DEF EventTypes, TerminalEvents, FinishEvents, NodeEvents
    <3>3. TypeOK /\ QueueOrder /\ (~stopSent => FinishedOnce)
      BY <3>1 DEF PipelineInv, OrderInv
    <3>4. QueueOrder'
      BY <3>1, <3>2, <3>3, PutOrders DEF PutOfNode, NeedRun, NodeEvents
    <3> QED
      BY <3>1, <3>4 DEF OrderInv, Logged, RaisesOnlyBeforeStart, PipelineInv
  <2>2. CASE ~MustStop
    BY <1>11, <2>2, QuietStepOrders DEF Finally, PutAndPing, runnerVars, dbVars
  <2> QED
    BY <2>1, <2>2
<1>12. CASE ListenerPutNone
  BY <1>12, QuietStepOrders DEF ListenerPutNone, PutAndPing, runnerVars, dbVars
<1>13. CASE Leave
  BY <1>13, QuietStepOrders DEF Leave, runnerVars, dbVars
<1> QED
  BY <1>1, <1>2, <1>3, <1>4, <1>5, <1>6, <1>7, <1>8, <1>9, <1>10, <1>11, <1>12, <1>13
  DEF PipelineStep

LEMMA OrderInvariance == IInv /\ OrderInv /\ [Next]_vars => OrderInv'
<1> SUFFICES ASSUME IInv, OrderInv, [Next]_vars PROVE OrderInv'
  OBVIOUS
<1>1. ASSUME Environment \/ UNCHANGED vars PROVE OrderInv'
  BY <1>1, QuietStepOrders
  DEF Environment, UserStop, StopFlagExpires, TimeOut, vars, runnerVars, dbVars
<1> QED
  BY <1>1, RunnerOrders, PipelineOrders DEF Next

LEMMA OrderInvAlways == Spec => []OrderInv
<1>1. Init => OrderInv
  <2> SUFFICES ASSUME Init PROVE OrderInv
    OBVIOUS
  <2>1. /\ Len(q) = 0 /\ run = "absent" /\ run \notin Terminal /\ graph = "init" /\ ~stopSent
        /\ \A n \in Nodes : nodeExec[n] = "absent" /\ node[n] = "idle" /\ n \notin wip
        /\ appLogs = 0 /\ outcome = "running"
    BY DEF Init, Terminal
  <2>2. \A n \in Nodes : NodeInOrder(n) /\ EndedBeforeSuccess(n)
    BY <2>1 DEF NodeInOrder, EndedBeforeSuccess
  <2>3. CreatedFirst /\ NothingAfterFinish
    BY <2>1 DEF CreatedFirst, NothingAfterFinish
  <2> QED
    BY <2>1, <2>2, <2>3 DEF OrderInv, QueueOrder, Logged, RaisesOnlyBeforeStart
<1> QED
  BY <1>1, OrderInvariance, IInvAlways, PTL DEF Spec

\* Whatever was under way when the graph failed, a run with a final status has no
\* node execution left running when its request ends, but those given up inside of
\* an iteration when it ended well, and one log - unless listen() published a Stop
\* in a stream.
THEOREM EndedRunIsSettledAlways == Spec => []EndedRunIsSettled
<1>1. IInv /\ OrderInv => EndedRunIsSettled
  BY DEF IInv, OrderInv, EndedRunIsTerminal, EndedRunIsSettled, Logged
<1> QED
  BY <1>1, IInvAlways, OrderInvAlways, PTL

\* No interleaving of the two publishers makes a handler raise, except that a
\* Stop may arrive before the run has been created.
THEOREM RaisesOnlyBeforeStartAlways == Spec => []RaisesOnlyBeforeStart
BY OrderInvAlways, PTL DEF OrderInv

(***************************************************************************)
(* The refinement                                                          *)
(***************************************************************************)

\* The abstract node executions.
ShownNodes == [n \in Nodes |-> Shown(n)]
Lost       == {n \in Nodes : node[n] = "lost"}

LEMMA Unseen ==
  ASSUME UNCHANGED <<streaming, stopSent, run, nodeExec, appLogs, outcome>>, UNCHANGED Lost
  PROVE  UNCHANGED Lifecycle!vars
BY DEF Lifecycle!vars, Shown, Lost

\* A handler that leaves the rows alone is a step of Serve that only answers.
LEMMA OnlyAnswers ==
  ASSUME outcome = "running", UNCHANGED <<streaming, stopSent, run, nodeExec, appLogs>>,
         node' = node, Lifecycle!Answered
  PROVE  Lifecycle!Next
BY DEF Lifecycle!Next, Lifecycle!Serve, Shown

LEMMA PipelineRefines ==
  ASSUME IInv, OrderInv, PipelineStep
  PROVE  Lifecycle!Next \/ UNCHANGED Lifecycle!vars
<1> USE DEF IInv
<1>1. CASE HandlePing
  <2>1. /\ UNCHANGED <<streaming, stopSent, run, nodeExec, appLogs, node>> /\ outcome = "running"
        /\ ~streaming => outcome' = "running" /\ run \notin Terminal
        /\ streaming => outcome' \in {"running", "closed"}
    BY <1>1, TakeType, FirstMessage DEF HandlePing, Yield, dbVars
  <2> QED
    BY <2>1, OnlyAnswers DEF Lifecycle!Answered, Lifecycle!Final, Terminal, TypeOK
<1>2. CASE HandleBranch
  <2>1. /\ UNCHANGED <<streaming, stopSent, run, nodeExec, appLogs, node>> /\ outcome = "running"
        /\ ~streaming => outcome' = "running" /\ run \notin Terminal
        /\ streaming => outcome' \in {"running", "closed"}
    BY <1>2, TakeType, FirstMessage, FirstInOrder DEF HandleBranch, NeedRun, Yield, dbVars
  <2> QED
    BY <2>1, OnlyAnswers DEF Lifecycle!Answered, Lifecycle!Final, Terminal, TypeOK
<1>3. CASE HandleError
  <2>1. /\ UNCHANGED <<streaming, stopSent, run, nodeExec, appLogs, node>> /\ outcome = "running"
        /\ outcome' = "error"
    BY <1>3, TakeType, FirstMessage DEF HandleError, dbVars
  <2> QED
    BY <2>1, OnlyAnswers DEF Lifecycle!Answered
<1>4. CASE HandleStarted
  <2>1. /\ UNCHANGED <<streaming, stopSent, nodeExec, appLogs, node>> /\ outcome = "running"
        /\ run = "absent" /\ run' = "RUNNING"
        /\ ~streaming => outcome' = "running"
        /\ streaming => outcome' \in {"running", "closed"}
    BY <1>4, TakeType, FirstMessage DEF HandleStarted, Yield, StartedOnce
  <2>2. Lifecycle!Create
    BY <2>1 DEF Lifecycle!Create, Shown
  <2>3. Lifecycle!Answered
    BY <2>1 DEF Lifecycle!Answered, Lifecycle!Final, TypeOK
  <2> QED
    BY <2>1, <2>2, <2>3 DEF Lifecycle!Next, Lifecycle!Serve
<1>5. CASE HandleNodeStarted
  <2> DEFINE n == Head(q).node
  <2>1. /\ run # "absent" /\ n \in Nodes /\ nodeExec[n] = "absent"
        /\ ~streaming \/ ~stopSent => run \notin Terminal
        /\ ~streaming => run \notin Terminal
    BY <1>5, FirstInOrder, FirstMessage DEF HandleNodeStarted, NeedRun, NodeEvents
  <2>2. /\ UNCHANGED <<streaming, stopSent, run, appLogs, node>> /\ outcome = "running"
        /\ nodeExec' = [nodeExec EXCEPT ![n] = "RUNNING"]
        /\ ~streaming => outcome' = "running"
        /\ streaming => outcome' \in {"running", "closed"}
    BY <1>5, <2>1, TakeType, FirstMessage DEF HandleNodeStarted, Yield
  <2>3. Lifecycle!Begin(n)
    <3>1. run = "RUNNING" \/ (stopSent /\ ~(~streaming) /\ run \in Terminal)
      BY <2>1 DEF TypeOK, Status
    <3>2. /\ ShownNodes[n] = "absent"
          /\ ShownNodes' = [ShownNodes EXCEPT ![n] = "RUNNING"]
      BY <2>1, <2>2 DEF ShownNodes, Shown, TypeOK
    <3> QED
      BY <2>2, <3>1, <3>2
      DEF Lifecycle!Begin, Lifecycle!Overtaken, Lifecycle!Final, Terminal, ShownNodes
  <2>4. Lifecycle!Answered
    BY <2>1, <2>2 DEF Lifecycle!Answered, Lifecycle!Final, Terminal, TypeOK
  <2> QED
    BY <2>1, <2>2, <2>3, <2>4 DEF Lifecycle!Next, Lifecycle!Serve
<1>6. CASE HandleNodeEnd
  <2> DEFINE n == Head(q).node
             final == EndStatus(Head(q).type)
  <2>1. n \in Nodes /\ n \in wip /\ (~streaming => run \notin Terminal)
    BY <1>6, FirstInOrder, FirstMessage DEF HandleNodeEnd
  <2>2. /\ UNCHANGED <<streaming, stopSent, run, appLogs, node>> /\ outcome = "running"
        /\ nodeExec' = [nodeExec EXCEPT ![n] = final]
        /\ ~streaming => outcome' = "running"
        /\ streaming => outcome' \in {"running", "closed"}
    BY <1>6, <2>1, TakeType, FirstMessage DEF HandleNodeEnd, Yield
  <2>3. final \notin {"absent", "RUNNING"}
    BY DEF EndStatus
  <2> HIDE DEF final
  <2>4. nodeExec[n] # "absent" /\ n \notin Lost
    BY <1>6, FirstInOrder, <2>1 DEF HandleNodeEnd, QueueOrder, NodeInOrder, Lost
  <2>5. CASE nodeExec[n] = "RUNNING"
    <3>1. /\ ShownNodes[n] = "RUNNING"
          /\ ShownNodes' = [ShownNodes EXCEPT ![n] = "ended"]
      BY <2>1, <2>2, <2>3, <2>5 DEF ShownNodes, Shown, TypeOK
    <3>2. Lifecycle!End(n)
      BY <2>2, <2>4, <3>1 DEF Lifecycle!End, ShownNodes, Lost
    <3>3. Lifecycle!Answered
      BY <2>1, <2>2 DEF Lifecycle!Answered, Lifecycle!Final, Terminal, TypeOK
    <3> QED
      BY <2>1, <2>2, <3>2, <3>3 DEF Lifecycle!Next, Lifecycle!Serve
  <2>6. CASE nodeExec[n] # "RUNNING"
    <3>1. ShownNodes' = ShownNodes
      BY <2>1, <2>2, <2>3, <2>4, <2>6 DEF ShownNodes, Shown, TypeOK
    <3>2. Lifecycle!Answered
      BY <2>1, <2>2 DEF Lifecycle!Answered, Lifecycle!Final, Terminal, TypeOK
    <3> QED
      BY <2>2, <3>1, <3>2 DEF Lifecycle!Next, Lifecycle!Serve, ShownNodes
  <2> QED
    BY <2>5, <2>6
<1>7. CASE HandleSuccess \/ HandleFailed
  <2>1. CASE run = "absent"
    <3>1. /\ UNCHANGED <<streaming, stopSent, run, nodeExec, appLogs, node>> /\ outcome = "running"
          /\ outcome' = "raised" /\ stopSent
      BY <1>7, <2>1, TakeType, FirstMessage, FirstInOrder
      DEF HandleSuccess, HandleFailed, NeedRun, Raise, dbVars
    <3> QED
      BY <2>1, <3>1, OnlyAnswers DEF Lifecycle!Answered
  <2>2. CASE run # "absent"
    <3>1. /\ UNCHANGED <<streaming, stopSent, node>> /\ outcome = "running"
          /\ ~streaming => outcome' = "returned"
          /\ streaming => outcome' \in {"running", "closed"}
          /\ run' \in Terminal /\ appLogs' = appLogs + 1
      BY <1>7, <2>2, TakeType, FirstMessage DEF HandleSuccess, HandleFailed, Yield, Terminal
    <3>2. run = "RUNNING" \/ (stopSent /\ ~(~streaming) /\ run \in Terminal)
      <4>1. PICK types \in SUBSET FinishEvents : Take(types)
        BY <1>7 DEF HandleSuccess, HandleFailed, FinishEvents
      <4>2. /\ Head(q) = q[1] /\ 1 \in 1 .. Len(q) /\ Head(q).type \in FinishEvents
            /\ ~stopSent => FinishedOnce
            /\ ~streaming => run \notin Terminal
        BY <4>1, FirstMessage
      <4>3. ~stopSent => run \notin Terminal
        BY <4>2 DEF FinishedOnce
      <4>4. run = "RUNNING" \/ run \in Terminal
        BY <2>2 DEF TypeOK, Status
      <4> QED
        BY <4>2, <4>3, <4>4
    <3>3. Lifecycle!EndsWell \/ Lifecycle!EndsBadly
      <4>1. CASE HandleSuccess
        <5>1. /\ nodeExec' = nodeExec /\ run' \in {"SUCCEEDED", "PARTIAL"}
              /\ \A n \in Nodes : nodeExec[n] = "RUNNING" => node[n] = "lost"
          BY <2>2, <4>1, FirstInOrder DEF HandleSuccess
        <5>2. \A n \in Nodes : Shown(n) = "RUNNING" => nodeExec[n] = "RUNNING"
          BY DEF Shown
        <5>3. ShownNodes' = ShownNodes
          BY <5>1 DEF ShownNodes, Shown
        <5> QED
          BY <5>1, <5>2, <5>3 DEF Lifecycle!EndsWell, ShownNodes
      <4>2. CASE HandleFailed
        <5>1. nodeExec' = FailRunning /\ run' \in {"FAILED", "STOPPED"}
          BY <2>2, <4>2 DEF HandleFailed
        <5>2. ShownNodes' = Lifecycle!Settled
          BY <5>1 DEF FailRunning, ShownNodes, Shown, Lifecycle!Settled
        <5> QED
          BY <5>1, <5>2 DEF Lifecycle!EndsBadly, ShownNodes
      <4> QED
        BY <1>7, <4>1, <4>2
    <3>4. Lifecycle!Finish
      BY <3>1, <3>2, <3>3
      DEF Lifecycle!Finish, Lifecycle!Overtaken, Lifecycle!Final, Terminal, ShownNodes
    <3>5. Lifecycle!Answered
      BY <3>1 DEF Lifecycle!Answered, Lifecycle!Final, Terminal, TypeOK
    <3> QED
      BY <3>1, <3>4, <3>5 DEF Lifecycle!Next, Lifecycle!Serve
  <2> QED
    BY <2>1, <2>2
<1>8. CASE HandleNone
  <2>1. /\ UNCHANGED <<streaming, stopSent, run, nodeExec, appLogs, node>> /\ outcome = "running"
        /\ run \in Terminal /\ outcome' = "finished" /\ streaming
    BY <1>8, TakeType, FirstMessage DEF HandleNone, Announced, dbVars
  <2> QED
    BY <2>1, OnlyAnswers DEF Lifecycle!Answered, Lifecycle!Final, Terminal
<1>9. CASE Finally
  <2>1. /\ UNCHANGED <<streaming, run, nodeExec, appLogs, outcome, node>> /\ outcome = "running"
        /\ stopSent' = TRUE \/ stopSent' = stopSent
    BY <1>9 DEF Finally, runnerVars, dbVars
  <2>2. CASE stopSent' = TRUE
    BY <2>1, <2>2 DEF Lifecycle!Next, Lifecycle!StopRun, Shown
  <2> QED
    BY <2>1, <2>2, Unseen DEF Lost
<1>10. CASE PollEmpty \/ ListenerPutNone \/ Leave
  BY <1>10, Unseen DEF PollEmpty, ListenerPutNone, Leave, runnerVars, dbVars, Lost
<1> QED
  BY <1>1, <1>2, <1>3, <1>4, <1>5, <1>6, <1>7, <1>8, <1>9, <1>10 DEF PipelineStep

\* The request and the database show nothing but the lifecycle of one run: it is
\* created once, finishes once, is settled and logged when it does, and the
\* request is answered accordingly and last.
THEOREM Refinement == Spec => ImplementsLifecycle
<1>1. Init => Lifecycle!Init
  BY DEF Init, Lifecycle!Init, Shown
<1>2. IInv /\ OrderInv /\ [Next]_vars => [Lifecycle!Next]_Lifecycle!vars
  <2> SUFFICES ASSUME IInv, OrderInv, [Next]_vars
               PROVE  Lifecycle!Next \/ UNCHANGED Lifecycle!vars
    OBVIOUS
  <2>1. CASE RunnerStep
    <3>1. UNCHANGED <<streaming, stopSent, run, nodeExec, appLogs, outcome>>
      BY <2>1
      DEF RunnerStep, PublishStarted, PublishBranch, PublishError, PublishNodeStarted,
          PublishNodeEnd, PublishGraphEnd, LoseNode, RunnerPut, RunnerPutNone, RunnerCheck,
          dbVars
    <3>2. ASSUME NEW n \in Nodes, LoseNode(n)
          PROVE  Lifecycle!Next \/ UNCHANGED Lifecycle!vars
      <4>1. Lost' = Lost \cup {n}
        BY <3>2 DEF LoseNode, Lost, IInv, TypeOK
      <4> QED
        BY <3>1, <4>1 DEF Lifecycle!Next, Lifecycle!GiveUp, Lost, Shown
    <3>3. ASSUME ~\E n \in Nodes : LoseNode(n) PROVE Lost' = Lost
      <4>1. ASSUME NEW n \in Nodes, PublishNodeStarted(n) PROVE Lost' = Lost
        BY <4>1 DEF PublishNodeStarted, Lost, IInv, TypeOK
      <4>2. ASSUME NEW n \in Nodes, NEW type \in NodeEvents, PublishNodeEnd(n, type)
            PROVE  Lost' = Lost
        BY <4>2 DEF PublishNodeEnd, Lost, IInv, TypeOK
      <4>3. ASSUME node' = node PROVE Lost' = Lost
        BY <4>3 DEF Lost
      <4> QED
        BY <2>1, <3>3, <4>1, <4>2, <4>3
        DEF RunnerStep, PublishStarted, PublishBranch, PublishError, PublishGraphEnd,
            RunnerPutNone, RunnerCheck
    <3> QED
      BY <3>1, <3>2, <3>3, Unseen
  <2>2. CASE Environment \/ UNCHANGED vars
    BY <2>2, Unseen
    DEF Environment, UserStop, StopFlagExpires, TimeOut, vars, runnerVars, dbVars, Lost
  <2> QED
    BY <2>1, <2>2, PipelineRefines DEF Next
<1> QED
  BY <1>1, <1>2, IInvAlways, OrderInvAlways, PTL DEF Spec, ImplementsLifecycle, Lifecycle!Spec
=============================================================================
