------------------------ MODULE SegmentIndex_proofs ------------------------
(***************************************************************************)
(* What the keys of SegmentIndex guarantee for every number of callers,    *)
(* segments, requests and workers.                                         *)
(***************************************************************************)
EXTENDS SegmentIndex, FiniteSetTheorems, TLAPS

\* A history of mishaps is never forgotten.
LEMMA MishapsStay == [Next]_vars => mishaps \subseteq mishaps'
BY DEF Next, vars, Requests, Read, Commit, Send, SendFails, EditCommit, EditUnindex, EditReindex,
       EditFails, Runs, TakeDocument, TakeDocumentFails, TakeSegment, Take, Add, Remove, AddFails,
       RemoveFails, Unlock, Killed, Expire

(***************************************************************************)
(* Type correctness                                                        *)
(***************************************************************************)

TypeInv == TypeOK /\ CallShape

LEMMA NodesTyped ==
  ASSUME TypeOK, NEW ss \in SUBSET Segments
  PROVE  Current(ss) \in SUBSET Nodes
BY DEF TypeOK, Current, Nodes, Contents

LEMMA ReindexedTyped ==
  ASSUME TypeOK, NEW s \in Segments
  PROVE  Reindexed(s) \in SUBSET Nodes
<1>1. Current({s}) \in SUBSET Nodes
  BY NodesTyped
<1> QED
  BY <1>1 DEF Reindexed, TypeOK

\* A call that goes on: its record, and that everyone else's is as it was.
LEMMA GoesOn ==
  ASSUME TypeOK, NEW c \in Callers, NEW from \in CallPc, NEW to \in CallPc, Go(c, from, to)
  PROVE  /\ call' \in [Callers -> CallRecord]
         /\ call[c].pc = from
         /\ \A d \in Callers \ {c} : call'[d] = call[d]
         /\ call'[c].pc = to
         /\ to # "idle" => call'[c].op = call[c].op /\ call'[c].on = call[c].on
<1>1. Idle \in CallRecord /\ Idle.pc = "idle"
  BY DEF Idle, CallRecord, CallPc, DocOps, Owners
<1>2. CASE to = "idle"
  BY <1>1, <1>2 DEF Go, TypeOK
<1>3. CASE to # "idle"
  <2>1. call' = [call EXCEPT ![c] = [call[c] EXCEPT !.pc = to]]
    BY <1>3 DEF Go
  <2>2. /\ [call[c] EXCEPT !.pc = to] \in CallRecord
        /\ [call[c] EXCEPT !.pc = to].pc = to
        /\ [call[c] EXCEPT !.pc = to].op = call[c].op
        /\ [call[c] EXCEPT !.pc = to].on = call[c].on
    BY DEF TypeOK, CallRecord
  <2> QED
    BY <2>1, <2>2 DEF Go, TypeOK
<1> QED
  BY <1>2, <1>3

LEMMA DelayTyped ==
  ASSUME TypeOK, NEW c \in Callers, Delay(c)
  PROVE  /\ task' \in [Tasks -> TaskRecord]
         /\ \E t \in Tasks :
              /\ task[t].pc = "none" /\ task'[t].pc = "queued" /\ task'[t].on = call[c].on
              /\ \A u \in Tasks \ {t} : task'[u] = task[u]
<1>1. PICK t \in Tasks :
        /\ task[t].pc = "none"
        /\ task' = [task EXCEPT ![t] =
             [pc |-> "queued", on |-> call[c].on, docs |-> {},
              op |-> IF call[c].op \in {"enable", "unarchive"} THEN "add" ELSE "remove"]]
  BY DEF Delay
<1>2. [pc |-> "queued", on |-> call[c].on, docs |-> {},
       op |-> IF call[c].op \in {"enable", "unarchive"} THEN "add" ELSE "remove"]
      \in TaskRecord
  BY DEF TypeOK, CallRecord, TaskRecord, TaskPc
<1> QED
  BY <1>1, <1>2 DEF TypeOK

\* A task's step changes its own record, and neither its subject nor, here,
\* anything but pc and the nodes it holds.
TaskStep(t, to) ==
  /\ task' \in [Tasks -> TaskRecord]
  /\ task'[t].pc = to /\ task'[t].on = task[t].on
  /\ \A u \in Tasks \ {t} : task'[u] = task[u]

LEMMA Works ==
  ASSUME TypeOK, NEW t \in Tasks, NEW docs \in SUBSET Nodes, Begin(t, docs)
  PROVE  TaskStep(t, "work")
BY DEF Begin, TaskStep, TypeOK, TaskRecord, TaskPc

LEMMA Skips ==
  ASSUME TypeOK, NEW t \in Tasks, NEW to \in TaskPc, Skip(t, to)
  PROVE  TaskStep(t, to)
BY DEF Skip, TaskStep, TypeOK, TaskRecord

LEMMA HasWorked ==
  ASSUME TypeOK, NEW t \in Tasks, Worked(t)
  PROVE  TaskStep(t, "unlock")
BY DEF Worked, TaskStep, TypeOK, TaskRecord, TaskPc

LEMMA InitTyped == Init => TypeInv
<1> SUFFICES ASSUME Init PROVE TypeInv
  OBVIOUS
<1>1. Idle \in CallRecord /\ NoTask \in TaskRecord
  BY DEF Idle, CallRecord, CallPc, DocOps, Owners, NoTask, TaskRecord, TaskPc, Nodes
<1>2. CallShape
  BY DEF Init, CallShape, Idle
<1>3. call \in [Callers -> CallRecord] /\ task \in [Tasks -> TaskRecord]
  BY <1>1 DEF Init
<1>4. content \in [Segments -> Contents] /\ index \subseteq Nodes
  BY DEF Init, Nodes, Contents
<1>5. requests \in 0..MaxRequests
  BY SegmentIndexAssumption DEF Init
<1>6. /\ enabled \subseteq Owners /\ archived \in BOOLEAN /\ failed \subseteq Segments
      /\ locked \subseteq Owners /\ mishaps \subseteq {"overlap", "edit", "undone", "expired", "lost"}
  BY DEF Init
<1>7. TypeOK
  BY <1>3, <1>4, <1>5, <1>6 DEF TypeOK
<1> QED
  BY <1>2, <1>7 DEF TypeInv

\* A call of the shape of the one before, or one that is over.
LEMMA ShapeKept ==
  ASSUME CallShape, NEW c \in Callers,
         \A d \in Callers \ {c} : call'[d] = call[d],
         \/ call'[c].pc = "idle"
         \/ /\ call[c].pc # "idle"
            /\ call'[c].op = call[c].op /\ call'[c].on = call[c].on
            /\ call'[c].op = "edit" => call'[c].pc # "send"
            /\ call'[c].pc \in {"unindex", "reindex"} => call'[c].op = "edit"
  PROVE  CallShape'
BY DEF CallShape

LEMMA RequestsTyped ==
  ASSUME TypeInv, NEW c \in Callers, Requests(c)
  PROVE  TypeInv'
<1> USE DEF TypeInv
<1>1. ASSUME NEW op \in DocOps \cup SegOps, NEW o \in Owners, Read(c, op, o),
             op \in {"archive", "unarchive"} => o = Document,
             op \in {"off", "edit"} => o \in Segments
      PROVE  TypeInv'
  <2> DEFINE r == [pc |-> "commit", op |-> op, on |-> o]
  <2>1. r \in CallRecord /\ r.pc = "commit" /\ r.op = op /\ r.on = o
    BY DEF CallRecord, CallPc
  <2>2. call' = [call EXCEPT ![c] = r]
    BY <1>1 DEF Read
  <2> HIDE DEF r
  <2>3. CallShape'
    BY <1>1, <2>1, <2>2 DEF CallShape, TypeOK
  <2>4. requests' \in 0..MaxRequests
    BY <1>1, SegmentIndexAssumption DEF Read, TypeOK
  <2>5. mishaps' \subseteq {"overlap", "edit", "undone", "expired", "lost"}
    BY <1>1 DEF Read, TypeOK
  <2> QED
    BY <1>1, <2>1, <2>2, <2>3, <2>4, <2>5 DEF TypeOK, Read, Nodes
<1>2. CASE Commit(c)
  <2>1. PICK to \in {"idle", "send"} : Go(c, "commit", to)
    BY <1>2 DEF Commit
  <2>2. to \in CallPc /\ "commit" \in CallPc /\ call[c].op # "edit" /\ call[c].on \in Owners
    BY <1>2, <2>1 DEF CallPc, Commit, TypeOK, CallRecord
  <2>3. call' \in [Callers -> CallRecord] /\ CallShape'
    BY <2>1, <2>2, GoesOn, ShapeKept
  <2>4. enabled' \subseteq Owners /\ archived' \in BOOLEAN
    BY <1>2, <2>2 DEF Commit, TypeOK
  <2> QED
    BY <1>2, <2>3, <2>4 DEF Commit, TypeOK, Nodes
<1>3. CASE Send(c)
  <2>1. call' \in [Callers -> CallRecord] /\ CallShape'
    BY <1>3, GoesOn, ShapeKept DEF Send, CallPc
  <2>2. task' \in [Tasks -> TaskRecord] /\ locked' \subseteq Owners
    BY <1>3, DelayTyped DEF Send, TypeOK, CallRecord
  <2> QED
    BY <1>3, <2>1, <2>2 DEF Send, TypeOK, Nodes
<1>8. CASE SendFails(c)
  <2>1. call' \in [Callers -> CallRecord] /\ CallShape'
    BY <1>8, GoesOn, ShapeKept DEF SendFails, CallPc
  <2>2. locked' \subseteq Owners /\ mishaps' \subseteq {"overlap", "edit", "undone", "expired", "lost"}
    BY <1>8 DEF SendFails, TypeOK, CallRecord
  <2> QED
    BY <1>8, <2>1, <2>2 DEF SendFails, TypeOK, Nodes
<1>4. CASE EditCommit(c)
  <2>1. call[c].pc = "commit" /\ call[c].op = "edit" /\ call[c].on \in Segments
    BY <1>4 DEF EditCommit, Go, CallShape
  <2>2. call' \in [Callers -> CallRecord] /\ CallShape'
    BY <1>4, <2>1, GoesOn, ShapeKept DEF EditCommit, CallPc
  <2>3. content' \in [Segments -> Contents]
    BY <1>4, <2>1 DEF EditCommit, TypeOK, Contents
  <2>4. enabled' \subseteq Owners /\ failed' \subseteq Segments
    BY <1>4, <2>1 DEF EditCommit, TypeOK, Owners
  <2> QED
    BY <1>4, <2>2, <2>3, <2>4 DEF EditCommit, TypeOK, Nodes
<1>5. CASE EditUnindex(c)
  <2>1. call[c].pc = "unindex" /\ call[c].op = "edit"
    BY <1>5 DEF EditUnindex, Go, CallShape
  <2>2. call' \in [Callers -> CallRecord] /\ CallShape'
    BY <1>5, <2>1, GoesOn, ShapeKept DEF EditUnindex, CallPc
  <2> QED
    BY <1>5, <2>2 DEF EditUnindex, TypeOK, Nodes
<1>6. CASE EditReindex(c)
  <2>1. call[c].pc = "reindex" /\ call[c].on \in Segments
    BY <1>6 DEF EditReindex, Go, CallShape
  <2>2. call' \in [Callers -> CallRecord] /\ CallShape'
    BY <1>6, <2>1, GoesOn, ShapeKept DEF EditReindex, CallPc
  <2>3. Reindexed(call[c].on) \in SUBSET Nodes
    BY <2>1, ReindexedTyped
  <2>4. index' \subseteq Nodes
    BY <1>6, <2>3 DEF EditReindex
  <2> QED
    BY <1>6, <2>2, <2>4 DEF EditReindex, TypeOK, Nodes
<1>7. CASE EditFails(c)
  <2>1. call[c].pc \in {"unindex", "reindex"} /\ call[c].on \in Segments
    BY <1>7 DEF EditFails, CallShape
  <2>2. call' \in [Callers -> CallRecord] /\ CallShape'
    BY <1>7, <2>1, GoesOn, ShapeKept DEF EditFails, CallPc
  <2>3. enabled' \subseteq Owners /\ failed' \subseteq Segments
    BY <1>7, <2>1 DEF EditFails, TypeOK
  <2>4. index' \subseteq Nodes
    <3>1. Reindexed(call[c].on) \in SUBSET Nodes
      BY <2>1, ReindexedTyped
    <3> QED
      BY <1>7, <3>1 DEF EditFails, TypeOK
  <2> QED
    BY <1>7, <2>2, <2>3, <2>4 DEF EditFails, TypeOK, Nodes
<1> QED
  BY <1>1, <1>2, <1>3, <1>4, <1>5, <1>6, <1>7, <1>8 DEF Requests, DocOps, SegOps, Owners

LEMMA RunsTyped ==
  ASSUME TypeInv, NEW t \in Tasks, Runs(t)
  PROVE  TypeInv'
<1> USE DEF TypeInv
<1>1. task[t].on \in Owners /\ task[t].docs \in SUBSET Nodes
  BY DEF TypeOK, TaskRecord
<1>2. /\ Current(Segments \cap enabled) \in SUBSET Nodes /\ {} \in SUBSET Nodes
      /\ task[t].on # Document => Current({task[t].on}) \in SUBSET Nodes
  BY <1>1, NodesTyped DEF Owners
<1>3. UNCHANGED callVars
  BY DEF Runs, TakeDocument, TakeDocumentFails, TakeSegment, Take, Add, Remove, AddFails, RemoveFails, Unlock
<1>4. CallShape'
  BY <1>3 DEF CallShape, callVars
<1>5. CASE TakeDocument(t)
  <2>1. task' \in [Tasks -> TaskRecord]
    BY <1>2, <1>5, Works DEF TakeDocument, TaskStep
  <2> QED
    BY <1>4, <1>5, <2>1 DEF TakeDocument, Take, callVars, TypeOK, Nodes
<1>9. CASE TakeDocumentFails(t)
  <2>1. task' \in [Tasks -> TaskRecord]
    BY <1>9, Skips DEF TakeDocumentFails, TaskStep, TaskPc
  <2>2. enabled' \subseteq Owners /\ mishaps' \subseteq {"overlap", "edit", "undone", "expired", "lost"}
    BY <1>9 DEF TakeDocumentFails, TypeOK, Owners
  <2> QED
    BY <1>4, <1>9, <2>1, <2>2 DEF TakeDocumentFails, callVars, TypeOK, Nodes
<1>6. CASE TakeSegment(t)
  <2>1. task' \in [Tasks -> TaskRecord]
    BY <1>2, <1>6, Works, Skips DEF TakeSegment, TaskStep, TaskPc
  <2> QED
    BY <1>4, <1>6, <2>1 DEF TakeSegment, Take, callVars, TypeOK, Nodes
<1>7. CASE Add(t) \/ Remove(t) \/ AddFails(t) \/ RemoveFails(t)
  <2>1. task' \in [Tasks -> TaskRecord]
    BY <1>7, HasWorked DEF Add, Remove, AddFails, RemoveFails, TaskStep
  <2>2. index' \subseteq Nodes
    BY <1>1, <1>7 DEF Add, Remove, AddFails, RemoveFails, TypeOK
  <2>3. enabled' \subseteq Owners /\ failed' \subseteq Segments
    BY <1>1, <1>7 DEF Add, Remove, AddFails, RemoveFails, TypeOK, Owners
  <2>4. mishaps' \subseteq {"overlap", "edit", "undone", "expired", "lost"} /\ locked' = locked
    BY <1>7 DEF Add, Remove, AddFails, RemoveFails, TypeOK
  <2> QED
    BY <1>3, <1>4, <2>1, <2>2, <2>3, <2>4 DEF callVars, TypeOK, Nodes
<1>8. CASE Unlock(t)
  <2>1. Skip(t, "done")
    BY <1>8 DEF Unlock, Skip
  <2>2. task' \in [Tasks -> TaskRecord]
    BY <2>1, Skips DEF TaskStep, TaskPc
  <2> QED
    BY <1>4, <1>8, <2>2 DEF Unlock, callVars, TypeOK, Nodes
<1> QED
  BY <1>5, <1>6, <1>7, <1>8, <1>9 DEF Runs

LEMMA TypeInvHolds == Spec => []TypeInv
<1>1. TypeInv /\ [Next]_vars => TypeInv'
  <2> SUFFICES ASSUME TypeInv, [Next]_vars PROVE TypeInv'
    OBVIOUS
  <2>1. ASSUME NEW o \in Owners, Expire(o) PROVE TypeInv'
    <3>1. mishaps' \subseteq {"overlap", "edit", "undone", "expired", "lost"}
      BY <2>1 DEF Expire, TypeInv, TypeOK
    <3>2. CallShape'
      BY <2>1 DEF Expire, callVars, TypeInv, CallShape
    <3> QED
      BY <2>1, <3>1, <3>2 DEF Expire, callVars, TypeInv, TypeOK, Nodes
  <2>2. CASE UNCHANGED vars
    <3>1. TypeOK'
      BY <2>2 DEF vars, TypeInv, TypeOK, Nodes
    <3>2. CallShape'
      BY <2>2 DEF vars, TypeInv, CallShape
    <3> QED
      BY <3>1, <3>2 DEF TypeInv
  <2>3. ASSUME NEW t \in Tasks, Killed(t) PROVE TypeInv'
    <3>0. [task[t] EXCEPT !.pc = "done", !.docs = {}] \in TaskRecord
      BY DEF TypeInv, TypeOK, TaskRecord, TaskPc
    <3>1. task' \in [Tasks -> TaskRecord]
      BY <2>3, <3>0 DEF Killed, TypeInv, TypeOK
    <3>2. mishaps' \subseteq {"overlap", "edit", "undone", "expired", "lost"}
      BY <2>3 DEF Killed, TypeInv, TypeOK
    <3>3. CallShape'
      BY <2>3 DEF Killed, callVars, TypeInv, CallShape
    <3> QED
      BY <2>3, <3>1, <3>2, <3>3 DEF Killed, callVars, TypeInv, TypeOK, Nodes
  <2> QED
    BY <2>1, <2>2, <2>3, RequestsTyped, RunsTyped DEF Next
<1> QED
  BY <1>1, InitTyped, PTL DEF Spec

\* Every reachable state is well typed, for any number of callers, segments,
\* requests and workers.
THEOREM TypeCorrect == Spec => []TypeOK
<1>1. TypeInv => TypeOK
  BY DEF TypeInv
<1> QED
  BY <1>1, TypeInvHolds, PTL

(***************************************************************************)
(* The keys, as long as requests do not overlap and no key expires early   *)
(***************************************************************************)

InHand == {"queued", "work", "unlock"}

\* Tasks and keys stay as they are, and at most the segment of the call that
\* gives up fails.
LEMMA CallStep ==
  ASSUME TypeInv, Serial, NEW c \in Callers, call[c].pc # "idle",
         task' = task, locked' = locked, mishaps' = mishaps,
         \A d \in Callers \ {c} : call'[d] = call[d],
         call'[c].pc # "idle" => call'[c].op = call[c].op /\ call'[c].on = call[c].on,
         \/ failed' \subseteq failed
         \/ call'[c].pc = "idle" /\ failed' = failed \cup {call[c].on},
         failed' \cap enabled' = {}
  PROVE  Serial'
<1>1. \A d \in Callers \ {c} : call[d].pc = "idle" /\ call'[d].pc = "idle"
  BY DEF Serial, OneCall
<1>2. OneCall'
  BY <1>1 DEF OneCall
<1>3. KeyMeansTask' /\ OnePending'
  BY DEF Serial, KeyMeansTask, OnePending, Pending
<1>4. LookIsFresh'
  BY <1>1 DEF Serial, LookIsFresh
<1>5. FailedMeansDisabled'
  <2> SUFFICES ASSUME NEW t \in Tasks, task[t].pc \in {"queued", "work"}, task[t].on \in failed'
               PROVE  FALSE
    BY DEF FailedMeansDisabled
  <2>1. task[t].on = call[c].on
    BY DEF Serial, FailedMeansDisabled
  <2>2. call[c].on \in Owners /\ t \in Pending(call[c].on)
    BY <2>1 DEF TypeInv, TypeOK, CallRecord, Pending
  <2> QED
    BY <2>2 DEF Serial, KeyMeansTask, LookIsFresh
<1> QED
  BY <1>2, <1>3, <1>4, <1>5 DEF Serial

\* A task goes on; it may fail its segment when it leaves the queue.
LEMMA TaskGoesOn ==
  ASSUME TypeInv, Serial, NEW t \in Tasks, NEW to \in {"work", "unlock"},
         task[t].pc \in InHand, TaskStep(t, to), call' = call, locked' = locked,
         mishaps \subseteq mishaps',
         failed' \subseteq failed \cup {task[t].on}, failed' \cap enabled' = {},
         to = "work" => task[t].on \notin failed'
  PROVE  Serial'
<1>1. ASSUME NEW o PROVE Pending(o)' = Pending(o)
  BY DEF Pending, TaskStep, InHand
<1>2. OneCall' /\ KeyMeansTask' /\ OnePending'
  BY <1>1 DEF Serial, OneCall, KeyMeansTask, OnePending
<1>3. task[t].on \in Owners /\ t \in Pending(task[t].on)
  BY DEF TypeInv, TypeOK, TaskRecord, Pending, InHand
<1>4. LookIsFresh'
  BY <1>3 DEF Serial, LookIsFresh, KeyMeansTask
<1>5. FailedMeansDisabled'
  <2> SUFFICES ASSUME NEW u \in Tasks, task'[u].pc \in {"queued", "work"}, task'[u].on \in failed'
               PROVE  FALSE
    BY DEF FailedMeansDisabled
  <2>1. u # t
    BY DEF TaskStep
  <2>2. task[u].pc \in {"queued", "work"} /\ task[u].on \in failed'
    BY <2>1 DEF TaskStep
  <2>3. task[u].on = task[t].on
    BY <2>2 DEF Serial, FailedMeansDisabled
  <2>4. u \in Pending(task[t].on)
    BY <2>2, <2>3 DEF Pending
  <2> QED
    BY <1>3, <2>1, <2>4 DEF Serial, OnePending
<1> QED
  BY <1>2, <1>4, <1>5 DEF Serial

LEMMA ReadIsSerial ==
  ASSUME TypeInv, Serial, NEW c \in Callers, NEW op, NEW o \in Owners, Read(c, op, o),
         Undisturbed'
  PROVE  Serial'
<1>1. \A d \in Callers : call[d].pc = "idle"
  BY DEF Read, Undisturbed
<1>2. call' = [call EXCEPT ![c] = [pc |-> "commit", op |-> op, on |-> o]]
  BY DEF Read
<1>3. /\ call'[c].pc = "commit" /\ call'[c].op = op /\ call'[c].on = o
      /\ \A d \in Callers \ {c} : call'[d].pc = "idle"
  BY <1>1, <1>2 DEF TypeInv, TypeOK
<1>4. OneCall'
  BY <1>3 DEF OneCall
<1>5. KeyMeansTask' /\ OnePending' /\ FailedMeansDisabled'
  BY DEF Read, Serial, KeyMeansTask, OnePending, FailedMeansDisabled, Pending
<1>6. o \notin locked /\ (op \in {"enable", "disable", "off"} => o \notin failed)
  BY DEF Read, Unlocked, Allowed, Serial, FailedMeansDisabled
<1>7. LookIsFresh'
  BY <1>3, <1>6 DEF LookIsFresh, Read
<1> QED
  BY <1>4, <1>5, <1>7 DEF Serial

LEMMA SendIsSerial ==
  ASSUME TypeInv, Serial, NEW c \in Callers, Send(c)
  PROVE  Serial'
<1>0. PICK o \in Owners : o = call[c].on
  BY DEF TypeInv, TypeOK, CallRecord
<1>1. /\ call[c].pc = "send" /\ call'[c].pc = "idle"
      /\ \A d \in Callers \ {c} : call'[d] = call[d]
  BY GoesOn DEF Send, TypeInv, CallPc
<1>2. \A d \in Callers : call'[d].pc = "idle"
  BY <1>1 DEF Serial, OneCall
<1>3. o \notin locked /\ o \notin failed
  <2>1. call[c].op \in DocOps \cup SegOps /\ failed \subseteq Segments
    BY DEF TypeInv, TypeOK, CallRecord
  <2>2. CASE call[c].op \in {"enable", "disable", "off"}
    BY <1>0, <1>1, <2>1, <2>2 DEF Serial, LookIsFresh
  <2>3. CASE call[c].op \in {"archive", "unarchive"}
    BY <1>0, <1>1, <2>1, <2>3, SegmentIndexAssumption DEF Serial, LookIsFresh, TypeInv, CallShape
  <2>4. CASE call[c].op = "edit"
    BY <1>1, <2>4 DEF TypeInv, CallShape
  <2> QED
    BY <2>1, <2>2, <2>3, <2>4 DEF DocOps, SegOps
<1>4. PICK t \in Tasks :
        /\ task[t].pc = "none" /\ task'[t].pc = "queued" /\ task'[t].on = o
        /\ \A u \in Tasks \ {t} : task'[u] = task[u]
  BY <1>0, DelayTyped DEF Send, TypeInv
<1>5. locked' = locked \cup {o} /\ failed' = failed /\ enabled' = enabled /\ mishaps' = mishaps
  BY <1>0 DEF Send
<1>6. Pending(o) = {} /\ Pending(o)' = {t}
  <2>1. Pending(o) = {}
    BY <1>3 DEF Serial, KeyMeansTask
  <2> QED
    BY <1>4, <2>1 DEF Pending
<1>7. ASSUME NEW p, p # o PROVE Pending(p)' = Pending(p)
  BY <1>4, <1>7 DEF Pending
<1>8. KeyMeansTask'
  BY <1>5, <1>6, <1>7 DEF Serial, KeyMeansTask
<1>9. OnePending'
  BY <1>6, <1>7 DEF Serial, OnePending
<1>10. FailedMeansDisabled'
  BY <1>3, <1>4, <1>5 DEF Serial, FailedMeansDisabled
<1>11. OneCall' /\ LookIsFresh'
  BY <1>2 DEF OneCall, LookIsFresh
<1> QED
  BY <1>8, <1>9, <1>10, <1>11 DEF Serial

\* The key, perhaps, but no task.
LEMMA SendFailsIsSerial ==
  ASSUME TypeInv, Serial, NEW c \in Callers, SendFails(c)
  PROVE  Serial'
<1>1. /\ call[c].pc = "send" /\ call'[c].pc = "idle"
      /\ \A d \in Callers \ {c} : call'[d] = call[d]
  BY GoesOn DEF SendFails, TypeInv, CallPc
<1>2. \A d \in Callers : call'[d].pc = "idle"
  BY <1>1 DEF Serial, OneCall
<1>3. /\ task' = task /\ failed' = failed /\ enabled' = enabled
      /\ locked \subseteq locked' /\ "lost" \in mishaps'
  BY DEF SendFails
<1>4. KeyMeansTask' /\ OnePending' /\ FailedMeansDisabled'
  BY <1>3 DEF Serial, KeyMeansTask, OnePending, FailedMeansDisabled, Pending
<1>5. OneCall' /\ LookIsFresh'
  BY <1>2 DEF OneCall, LookIsFresh
<1> QED
  BY <1>4, <1>5 DEF Serial

\* A task less, and its key perhaps for longer.
LEMMA KilledIsSerial ==
  ASSUME TypeInv, Serial, NEW t \in Tasks, Killed(t)
  PROVE  Serial'
<1>1. /\ \A u \in Tasks : u # t => task'[u] = task[u]
      /\ task'[t].pc = "done" /\ task'[t].on = task[t].on
  BY DEF Killed, TypeInv, TypeOK, TaskRecord
<1>2. /\ call' = call /\ failed' = failed /\ enabled' = enabled /\ locked' = locked
      /\ "lost" \in mishaps'
  BY DEF Killed, callVars
<1>3. ASSUME NEW o PROVE Pending(o)' \subseteq Pending(o)
  BY <1>1 DEF Pending
<1>4. KeyMeansTask' /\ OnePending'
  BY <1>2, <1>3 DEF Serial, KeyMeansTask, OnePending
<1>5. FailedMeansDisabled'
  BY <1>1, <1>2 DEF Serial, FailedMeansDisabled
<1>6. OneCall' /\ LookIsFresh'
  BY <1>2 DEF Serial, OneCall, LookIsFresh
<1> QED
  BY <1>4, <1>5, <1>6 DEF Serial

LEMMA UnlockIsSerial ==
  ASSUME TypeInv, Serial, NEW t \in Tasks, Unlock(t)
  PROVE  Serial'
<1>0. PICK o \in Owners : o = task[t].on
  BY DEF TypeInv, TypeOK, TaskRecord
<1>1. Skip(t, "done") /\ "done" \in TaskPc
  BY DEF Unlock, Skip, TaskPc
<1>2. TaskStep(t, "done")
  BY <1>1, Skips DEF TypeInv
<1>3. /\ task[t].pc = "unlock" /\ call' = call /\ failed' = failed /\ locked' = locked \ {o}
      /\ enabled' = enabled /\ mishaps' = mishaps
  BY <1>0 DEF Unlock, callVars
<1>4. t \in Pending(o)
  BY <1>0, <1>3 DEF Pending
<1>5. Pending(o)' = {}
  <2>1. \A u \in Pending(o) : u = t
    BY <1>4 DEF Serial, OnePending
  <2> QED
    BY <1>0, <1>2, <2>1 DEF Pending, TaskStep
<1>6. ASSUME NEW p, p # o PROVE Pending(p)' = Pending(p)
  BY <1>0, <1>2, <1>6 DEF Pending, TaskStep
<1>7. KeyMeansTask'
  BY <1>3, <1>5, <1>6 DEF Serial, KeyMeansTask
<1>8. OnePending'
  BY <1>5, <1>6 DEF Serial, OnePending
<1>9. OneCall' /\ LookIsFresh'
  BY <1>3 DEF Serial, OneCall, LookIsFresh
<1>10. FailedMeansDisabled'
  BY <1>2, <1>3 DEF Serial, FailedMeansDisabled, TaskStep
<1> QED
  BY <1>7, <1>8, <1>9, <1>10 DEF Serial

LEMMA RunsAreSerial ==
  ASSUME TypeInv, Serial, NEW t \in Tasks, Runs(t)
  PROVE  Serial'
<1>1. /\ Current(Segments \cap enabled) \in SUBSET Nodes /\ {} \in SUBSET Nodes
      /\ task[t].on # Document => Current({task[t].on}) \in SUBSET Nodes
  BY NodesTyped DEF TypeInv, TypeOK, TaskRecord, Owners
<1>2. CASE TakeDocument(t)
  <2>1. TaskStep(t, "work")
    BY <1>1, <1>2, Works DEF TakeDocument, TypeInv
  <2>2. /\ task[t].pc = "queued" /\ call' = call /\ locked' = locked
        /\ failed' = failed /\ enabled' = enabled /\ mishaps' = mishaps
    BY <1>2 DEF TakeDocument, Take, First, callVars
  <2>3. task[t].on \notin failed /\ failed \cap enabled = {}
    BY <2>2 DEF Serial, FailedMeansDisabled
  <2> QED
    BY <2>1, <2>2, <2>3, TaskGoesOn DEF InHand
<1>5. CASE TakeDocumentFails(t)
  <2>1. TaskStep(t, "unlock")
    BY <1>5, Skips DEF TakeDocumentFails, TypeInv, TaskPc
  <2>2. /\ task[t].pc = "queued" /\ call' = call /\ locked' = locked
        /\ failed' = failed /\ enabled' \subseteq enabled \cup {Document}
        /\ mishaps \subseteq mishaps'
    BY <1>5 DEF TakeDocumentFails, First, callVars
  <2>3. Document \notin failed /\ failed \cap enabled = {}
    BY <2>2, <1>5 DEF TakeDocumentFails, Serial, FailedMeansDisabled
  <2>4. failed' \cap enabled' = {}
    BY <2>2, <2>3
  <2> QED
    BY <2>1, <2>2, <2>4, TaskGoesOn DEF InHand
<1>3. CASE TakeSegment(t)
  <2>1. /\ task[t].pc = "queued" /\ call' = call /\ locked' = locked
        /\ failed' = failed /\ enabled' = enabled /\ mishaps' = mishaps
    BY <1>3 DEF TakeSegment, Take, First, callVars
  <2>2. task[t].on \notin failed /\ failed \cap enabled = {}
    BY <2>1 DEF Serial, FailedMeansDisabled
  <2>3. TaskStep(t, "unlock") \/ TaskStep(t, "work")
    BY <1>1, <1>3, <2>2, Works, Skips DEF TakeSegment, TypeInv, TaskPc
  <2> QED
    BY <2>1, <2>2, <2>3, TaskGoesOn DEF InHand
<1>4. CASE Add(t) \/ Remove(t) \/ AddFails(t) \/ RemoveFails(t)
  <2>1. /\ task[t].pc = "work" /\ call' = call /\ locked' = locked
        /\ failed' \subseteq failed \cup {task[t].on} /\ mishaps \subseteq mishaps'
    BY <1>4 DEF Add, Remove, AddFails, RemoveFails, callVars
  <2>2. TaskStep(t, "unlock")
    BY <1>4, HasWorked DEF Add, Remove, AddFails, RemoveFails, TypeInv
  <2>3. task[t].on \notin failed /\ failed \cap enabled = {}
    BY <2>1 DEF Serial, FailedMeansDisabled
  <2>4. failed' \cap enabled' = {}
    BY <1>4, <2>3 DEF Add, Remove, AddFails, RemoveFails, callVars
  <2> QED
    BY <2>1, <2>2, <2>4, TaskGoesOn DEF InHand
<1> QED
  BY <1>2, <1>3, <1>4, <1>5, UnlockIsSerial DEF Runs

LEMMA RequestsAreSerial ==
  ASSUME TypeInv, Serial, NEW c \in Callers, Requests(c), Undisturbed'
  PROVE  Serial'
<1>0. failed \cap enabled = {}
  BY DEF Serial, FailedMeansDisabled
<1>1. CASE Commit(c)
  <2>1. PICK to \in {"idle", "send"} : Go(c, "commit", to)
    BY <1>1 DEF Commit
  <2>3. call[c].op = "enable" => call[c].on \notin failed
    BY <2>1 DEF Go, Serial, LookIsFresh
  <2>4. failed' = failed /\ failed' \cap enabled' = {}
    BY <1>0, <1>1, <2>3 DEF Commit
  <2>2. /\ call[c].pc # "idle" /\ \A d \in Callers \ {c} : call'[d] = call[d]
        /\ call'[c].pc # "idle" => call'[c].op = call[c].op /\ call'[c].on = call[c].on
    BY <2>1, GoesOn DEF CallPc, TypeInv
  <2> QED
    BY <1>1, <2>2, <2>4, CallStep DEF Commit
<1>2. CASE EditCommit(c)
  <2>1. /\ call[c].pc # "idle" /\ \A d \in Callers \ {c} : call'[d] = call[d]
        /\ call'[c].pc # "idle" => call'[c].op = call[c].op /\ call'[c].on = call[c].on
    BY <1>2, GoesOn DEF EditCommit, CallPc, TypeInv
  <2>2. failed' \subseteq failed /\ failed' \cap enabled' = {}
    BY <1>0, <1>2 DEF EditCommit
  <2> QED
    BY <1>2, <2>1, <2>2, CallStep DEF EditCommit
<1>3. CASE EditUnindex(c) \/ EditReindex(c)
  <2>1. /\ call[c].pc # "idle" /\ \A d \in Callers \ {c} : call'[d] = call[d]
        /\ call'[c].pc # "idle" => call'[c].op = call[c].op /\ call'[c].on = call[c].on
    BY <1>3, GoesOn DEF EditUnindex, EditReindex, CallPc, TypeInv
  <2> QED
    BY <1>0, <1>3, <2>1, CallStep DEF EditUnindex, EditReindex
<1>4. CASE EditFails(c)
  <2>1. /\ call[c].pc # "idle" /\ \A d \in Callers \ {c} : call'[d] = call[d]
        /\ call'[c].pc = "idle"
    BY <1>4, GoesOn DEF EditFails, CallPc, TypeInv
  <2>2. failed' = failed \cup {call[c].on} /\ failed' \cap enabled' = {}
    BY <1>0, <1>4 DEF EditFails
  <2> QED
    BY <1>4, <2>1, <2>2, CallStep DEF EditFails
<1> QED
  BY <1>1, <1>2, <1>3, <1>4, ReadIsSerial, SendIsSerial, SendFailsIsSerial DEF Requests, Owners

LEMMA SerialInvHolds == Spec => [](Undisturbed => Serial)
<1>1. Init => Serial
  <2> SUFFICES ASSUME Init PROVE Serial
    OBVIOUS
  <2>1. /\ \A c \in Callers : call[c].pc = "idle"
        /\ \A t \in Tasks : task[t].pc = "none"
    BY DEF Init, Idle, NoTask
  <2>2. \A o \in Owners : Pending(o) = {} /\ o \notin locked
    BY <2>1 DEF Init, Pending
  <2>3. failed = {}
    BY DEF Init
  <2> QED
    BY <2>1, <2>2, <2>3 DEF Serial, OneCall, KeyMeansTask, OnePending, LookIsFresh, FailedMeansDisabled
<1>2. TypeInv /\ (Undisturbed => Serial) /\ [Next]_vars => (Undisturbed => Serial)'
  <2> SUFFICES ASSUME TypeInv, Undisturbed => Serial, [Next]_vars, Undisturbed'
               PROVE  Serial'
    OBVIOUS
  <2>1. mishaps \subseteq mishaps'
    BY MishapsStay
  <2>2. Serial
    BY <2>1 DEF Undisturbed
  <2>3. ASSUME NEW o \in Owners, Expire(o) PROVE Serial'
    <3>1. Pending(o) = {} /\ locked' = locked \ {o} /\ mishaps' = mishaps
      BY <2>3 DEF Expire, Undisturbed
    <3>2. call' = call /\ task' = task /\ failed' = failed /\ enabled' = enabled
      BY <2>3 DEF Expire, callVars
    <3>3. \A p : Pending(p)' = Pending(p)
      BY <3>2 DEF Pending
    <3>4. KeyMeansTask' /\ OnePending'
      BY <2>2, <3>1, <3>3 DEF Serial, KeyMeansTask, OnePending
    <3>5. OneCall' /\ LookIsFresh' /\ FailedMeansDisabled'
      BY <2>2, <3>1, <3>2 DEF Serial, OneCall, LookIsFresh, FailedMeansDisabled
    <3> QED
      BY <3>4, <3>5 DEF Serial
  <2>4. CASE UNCHANGED vars
    BY <2>2, <2>4 DEF vars, Serial, OneCall, KeyMeansTask, OnePending, LookIsFresh,
                      FailedMeansDisabled, Pending
  <2> QED
    BY <2>2, <2>3, <2>4, RequestsAreSerial, RunsAreSerial, KilledIsSerial DEF Next
<1>3. Init => (Undisturbed => Serial)
  BY <1>1
<1> QED
  BY <1>2, <1>3, TypeInvHolds, PTL DEF Spec

\* The keys let one task at a time work on a document or segment, for any
\* number of requests, segments and workers, as long as no request comes
\* between another's look at the key and its setting it, and no key expires
\* before its task has ended.
THEOREM OneTaskAtATimeAlways == Spec => []OneTaskAtATime
<1>1. (Undisturbed => Serial) => OneTaskAtATime
  <2> SUFFICES ASSUME Undisturbed, Serial, NEW o \in Owners
               PROVE  Cardinality(Pending(o)) <= 1
    BY DEF OneTaskAtATime, Undisturbed
  <2>1. CASE Pending(o) = {}
    BY <2>1, FS_EmptySet
  <2>2. CASE Pending(o) # {}
    <3>1. PICK t : Pending(o) = {t}
      BY <2>2 DEF Serial, OnePending
    <3> QED
      BY <3>1, FS_Singleton
  <2> QED
    BY <2>1, <2>2
<1> QED
  BY <1>1, SerialInvHolds, PTL

\* And no document or segment stays locked once its task has ended, whatever it
\* found and whether it failed, unless a task was lost.
THEOREM KeysReleasedAlways == Spec => []KeysReleased
<1>1. TypeInv /\ (Undisturbed => Serial) => KeysReleased
  BY DEF KeysReleased, Quiet, Undisturbed, Serial, KeyMeansTask, TypeInv, TypeOK
<1> QED
  BY <1>1, TypeInvHolds, SerialInvHolds, PTL

(***************************************************************************)
(* What retrieval finds, as long as nothing goes wrong                     *)
(***************************************************************************)

\* At most one request is under way; these are those it edits.
LEMMA OnlyCall ==
  ASSUME Serial, NEW c \in Callers, call[c].pc # "idle",
         \A d \in Callers \ {c} : call'[d] = call[d]
  PROVE  /\ \A d \in Callers : call[d].pc # "idle" \/ call'[d].pc # "idle" => d = c
         /\ \A s : \A pc \in {"unindex", "reindex"} :
              /\ BeingEdited(s, pc) <=> call[c].pc = pc /\ call[c].on = s
              /\ BeingEdited(s, pc)' <=> call'[c].pc = pc /\ call'[c].on = s
<1>1. \A d \in Callers : call[d].pc # "idle" \/ call'[d].pc # "idle" => d = c
  BY DEF Serial, OneCall
<1> QED
  BY <1>1 DEF BeingEdited

\* Nothing is in hand for what a request under way is about.
LEMMA CallIsFresh ==
  ASSUME TypeInv, Serial, NEW c \in Callers, call[c].pc # "idle",
         NEW t \in Tasks, task[t].pc \in InHand
  PROVE  task[t].on # call[c].on
<1>1. call[c].on \in Owners /\ call[c].on \notin locked
  BY DEF TypeInv, TypeOK, CallRecord, Serial, LookIsFresh
<1>2. Pending(call[c].on) = {}
  BY <1>1 DEF Serial, KeyMeansTask
<1> QED
  BY <1>2 DEF Pending, InHand

\* Nor for the document, if it edits a segment.
LEMMA EditIsAlone ==
  ASSUME EditAlone, NEW c \in Callers, call[c].pc # "idle", call[c].op = "edit",
         NEW t \in Tasks, task[t].pc \in InHand
  PROVE  task[t].on # Document
BY DEF EditAlone, Pending, InHand

LEMMA OneInHand ==
  ASSUME TypeInv, Serial, NEW t \in Tasks, NEW u \in Tasks \ {t},
         task[t].pc \in InHand, task[u].pc \in InHand
  PROVE  task[t].on # task[u].on
<1>1. task[t].on \in Owners
  BY DEF TypeInv, TypeOK, TaskRecord
<1> QED
  BY <1>1 DEF Serial, OnePending, Pending, InHand

LEMMA ReadPlaces ==
  ASSUME TypeInv, Serial, Placed, mishaps' = {},
         NEW c \in Callers, NEW op, NEW o \in Owners, Read(c, op, o)
  PROVE  Placed'
<1>1. \A d \in Callers : call[d].pc = "idle"
  BY DEF Read
<1>2. /\ call'[c].pc = "commit" /\ call'[c].op = op /\ call'[c].on = o
      /\ \A d \in Callers \ {c} : call'[d].pc = "idle"
  <2>1. call' = [call EXCEPT ![c] = [pc |-> "commit", op |-> op, on |-> o]]
    BY DEF Read
  <2> QED
    BY <1>1, <2>1 DEF TypeInv, TypeOK
<1>3. /\ task' = task /\ enabled' = enabled /\ archived' = archived /\ failed' = failed
      /\ content' = content /\ index' = index
  BY DEF Read
<1>5. EditAlone'
  <2>1. op = "edit" => Pending(Document) = {}
    BY DEF Read
  <2> QED
    BY <1>2, <1>3, <2>1 DEF EditAlone, Pending
<1>6. RemovesUnwanted'
  BY <1>2, <1>3 DEF Placed, RemovesUnwanted, Unwanted, Available
<1>7. \A s : \A pc \in {"unindex", "reindex"} : ~BeingEdited(s, pc) /\ ~BeingEdited(s, pc)'
  BY <1>1, <1>2 DEF BeingEdited
<1>8. NothingStale'
  BY <1>3, <1>7 DEF Placed, NothingStale, Current
<1>9. EnabledIsIndexed'
  <2> SUFFICES ASSUME Available', NEW s \in Segments \cap enabled'
               PROVE  <<s, content'[s]>> \in index' \/ Owed(s)'
    BY DEF EnabledIsIndexed
  <2>1. <<s, content[s]>> \in index \/ Owed(s)
    BY <1>3 DEF Placed, EnabledIsIndexed, Available
  <2>2. Owed(s) => Owed(s)'
    BY <1>1, <1>3, <1>7 DEF Owed
  <2> QED
    BY <1>3, <2>1, <2>2
<1> QED
  BY <1>5, <1>6, <1>8, <1>9 DEF Placed

LEMMA CommitPlaces ==
  ASSUME TypeInv, Serial, Placed, NEW c \in Callers, Commit(c)
  PROVE  Placed'
<1> DEFINE o == call[c].on
<1>1. PICK to \in {"idle", "send"} :
        /\ Go(c, "commit", to)
        /\ to = IF call[c].op = "archive" /\ Document \notin enabled THEN "idle" ELSE "send"
  BY DEF Commit
<1>2. /\ call[c].pc = "commit" /\ call'[c].pc = to
      /\ \A d \in Callers \ {c} : call'[d] = call[d]
      /\ to # "idle" => call'[c].op = call[c].op /\ call'[c].on = o
  BY <1>1, GoesOn DEF TypeInv, CallPc
<1>3. /\ \A d \in Callers : call[d].pc # "idle" \/ call'[d].pc # "idle" => d = c
      /\ \A s : \A pc \in {"unindex", "reindex"} : ~BeingEdited(s, pc) /\ ~BeingEdited(s, pc)'
  BY <1>2, OnlyCall
<1>4. /\ task' = task /\ failed' = failed /\ content' = content /\ index' = index
  BY DEF Commit
<1>5. /\ call[c].op \in {"enable", "disable", "off", "archive", "unarchive"} /\ o \in Owners
      /\ call[c].op \in {"archive", "unarchive"} => o = Document
  BY <1>2 DEF Commit, TypeInv, TypeOK, CallShape, CallRecord, DocOps, SegOps
<1>6. /\ enabled' = CASE call[c].op = "enable"             -> enabled \cup {o}
                      [] call[c].op \in {"disable", "off"} -> enabled \ {o}
                      [] OTHER                             -> enabled
      /\ archived' = (call[c].op = "archive" \/ (call[c].op # "unarchive" /\ archived))
  BY DEF Commit
<1>7. \A t \in Tasks : task[t].pc \in InHand => task[t].on # o
  BY <1>2, CallIsFresh
<1> HIDE DEF o
<1>9. EditAlone'
  BY <1>2, <1>3, <1>5 DEF EditAlone
<1>10. RemovesUnwanted'
  <2>1. ASSUME NEW t \in Tasks, task'[t].pc \in {"queued", "work"}, task'[t].op = "remove"
        PROVE  Unwanted(task[t].on)'
    <3>1. Unwanted(task[t].on) /\ task[t].on # o
      BY <1>4, <1>7, <2>1 DEF Placed, RemovesUnwanted, InHand
    <3>2. CASE task[t].on = Document
      BY <1>4, <1>5, <1>6, <3>1, <3>2 DEF Unwanted, Available
    <3>3. CASE task[t].on # Document
      BY <1>4, <1>5, <1>6, <3>1, <3>3 DEF Unwanted
    <3> QED
      BY <3>2, <3>3
  <2>2. call'[c].pc = "send" /\ call'[c].op \in {"disable", "off", "archive"} => Unwanted(call[c].on)'
    <3>1. CASE call[c].op \in {"disable", "off"} /\ o # Document
      BY <1>2, <1>6, <3>1 DEF Unwanted
    <3>2. CASE call[c].op \in {"disable", "off", "archive"} /\ o = Document
      BY <1>2, <1>6, <3>2 DEF Unwanted, Available
    <3> QED
      BY <1>2, <1>5, <3>1, <3>2
  <2>3. \A d \in Callers : call'[d].pc = "send" => d = c
    BY <1>3
  <2> QED
    BY <2>1, <2>2, <2>3 DEF RemovesUnwanted
<1>11. NothingStale'
  BY <1>3, <1>4 DEF Placed, NothingStale, Current
<1>12. EnabledIsIndexed'
  <2> SUFFICES ASSUME Available', NEW s \in Segments \cap enabled'
               PROVE  <<s, content'[s]>> \in index' \/ Owed(s)'
    BY DEF EnabledIsIndexed
  <2>1. CASE Available /\ s \in enabled
    <3>1. <<s, content[s]>> \in index \/ Owed(s)
      BY <2>1 DEF Placed, EnabledIsIndexed
    <3>2. Owed(s) => Owed(s)'
      BY <1>2, <1>3, <1>4 DEF Owed
    <3> QED
      BY <1>4, <3>1, <3>2
  <2>2. CASE s \notin enabled
    <3>1. call[c].op = "enable" /\ o = s
      BY <1>6, <2>2
    <3>2. to = "send"
      BY <1>1, <3>1
    <3> QED
      BY <1>2, <3>1, <3>2 DEF Owed
  <2>3. CASE ~Available
    <3>1. call[c].op \in {"enable", "unarchive"} /\ o = Document
      BY <1>5, <1>6, <2>3 DEF Available
    <3>2. to = "send"
      BY <1>1, <3>1
    <3> QED
      BY <1>2, <3>1, <3>2 DEF Owed
  <2> QED
    BY <2>1, <2>2, <2>3
<1> QED
  BY <1>9, <1>10, <1>11, <1>12 DEF Placed

LEMMA SendPlaces ==
  ASSUME TypeInv, Serial, Serial', Placed, NEW c \in Callers, Send(c)
  PROVE  Placed'
<1> DEFINE o == call[c].on
<1>1. /\ call[c].pc = "send" /\ call'[c].pc = "idle"
      /\ \A d \in Callers \ {c} : call'[d] = call[d]
  BY GoesOn DEF Send, TypeInv, CallPc
<1>2. /\ \A d \in Callers : call[d].pc # "idle" => d = c
      /\ \A d \in Callers : call'[d].pc = "idle"
      /\ \A s : \A pc \in {"unindex", "reindex"} : ~BeingEdited(s, pc) /\ ~BeingEdited(s, pc)'
  BY <1>1, OnlyCall
<1>3. /\ enabled' = enabled /\ archived' = archived /\ failed' = failed
      /\ content' = content /\ index' = index
  BY DEF Send
<1>4. PICK t \in Tasks :
        /\ task[t].pc = "none" /\ task'[t].pc = "queued" /\ task'[t].on = o
        /\ task'[t].op = IF call[c].op \in {"enable", "unarchive"} THEN "add" ELSE "remove"
        /\ \A u \in Tasks \ {t} : task'[u] = task[u]
  <2>1. PICK t \in Tasks :
          /\ task[t].pc = "none"
          /\ task' = [task EXCEPT ![t] =
               [pc |-> "queued", on |-> o, docs |-> {},
                op |-> IF call[c].op \in {"enable", "unarchive"} THEN "add" ELSE "remove"]]
    BY DEF Send, Delay
  <2> QED
    BY <2>1 DEF TypeInv, TypeOK
<1>5. call[c].op \in {"enable", "disable", "off", "archive", "unarchive"}
  BY <1>1 DEF TypeInv, TypeOK, CallShape, CallRecord, DocOps, SegOps
<1> HIDE DEF o
<1>7. EditAlone'
  BY <1>2 DEF EditAlone
<1>8. RemovesUnwanted'
  <2>1. ASSUME NEW x PROVE Unwanted(x)' = Unwanted(x)
    BY <1>3 DEF Unwanted, Available
  <2>2. task'[t].op = "remove" => Unwanted(task'[t].on)
    BY <1>1, <1>4, <1>5 DEF Placed, RemovesUnwanted, o
  <2>3. \A u \in Tasks : task'[u].pc \in {"queued", "work"} /\ task'[u].op = "remove" => Unwanted(task'[u].on)
    BY <1>4, <2>2 DEF Placed, RemovesUnwanted
  <2> QED
    BY <1>2, <2>1, <2>3 DEF RemovesUnwanted
<1>9. NothingStale'
  <2>1. \A u \in Tasks : task'[u].pc = "work" => task'[u] = task[u]
    BY <1>4
  <2> QED
    BY <1>2, <1>3, <2>1 DEF Placed, NothingStale, Current
<1>10. EnabledIsIndexed'
  <2> SUFFICES ASSUME Available', NEW s \in Segments \cap enabled'
               PROVE  <<s, content'[s]>> \in index' \/ Owed(s)'
    BY DEF EnabledIsIndexed
  <2>1. <<s, content[s]>> \in index \/ Owed(s)
    BY <1>3 DEF Placed, EnabledIsIndexed, Available
  <2>2. CASE call[c].op \in {"enable", "unarchive"} /\ o \in {s, Document}
    BY <1>4, <2>2 DEF Owed
  <2>3. CASE \E u \in Tasks : /\ task[u].op = "add"
                              /\ \/ task[u].pc = "queued" /\ task[u].on \in {s, Document}
                                 \/ task[u].pc = "work" /\ <<s, content[s]>> \in task[u].docs
    <3>1. PICK u \in Tasks : /\ task[u].op = "add"
                             /\ \/ task[u].pc = "queued" /\ task[u].on \in {s, Document}
                                \/ task[u].pc = "work" /\ <<s, content[s]>> \in task[u].docs
      BY <2>3
    <3>2. task'[u] = task[u]
      BY <1>4, <3>1
    <3> QED
      BY <1>3, <3>1, <3>2 DEF Owed
  <2> QED
    BY <1>2, <1>3, <2>1, <2>2, <2>3 DEF Owed, o
<1> QED
  BY <1>7, <1>8, <1>9, <1>10 DEF Placed

\* Editing: the text, ...
LEMMA EditCommitPlaces ==
  ASSUME TypeInv, Serial, Placed, NEW c \in Callers, EditCommit(c)
  PROVE  Placed'
<1>1. PICK s : s = call[c].on
  OBVIOUS
<1>2. /\ call[c].pc = "commit" /\ call'[c].pc = "unindex" /\ call[c].op = "edit"
      /\ \A d \in Callers \ {c} : call'[d] = call[d]
      /\ call'[c].op = "edit" /\ call'[c].on = s
  BY <1>1, GoesOn DEF EditCommit, TypeInv, CallPc
<1>3. /\ \A d \in Callers : call[d].pc # "idle" \/ call'[d].pc # "idle" => d = c
      /\ \A q : /\ ~BeingEdited(q, "unindex") /\ ~BeingEdited(q, "reindex")
                /\ BeingEdited(q, "unindex")' <=> q = s
                /\ ~BeingEdited(q, "reindex")'
  BY <1>2, OnlyCall
<1>4. s \in Segments /\ s # Document
  BY <1>1, <1>2, SegmentIndexAssumption DEF TypeInv, CallShape
<1>5. /\ \A q \in Segments : q # s => content'[q] = content[q]
      /\ enabled' = enabled \cup {s} /\ failed' = failed \ {s}
      /\ index' = index /\ task' = task /\ archived' = archived
  BY <1>1 DEF EditCommit, TypeInv, TypeOK
<1>6. \A t \in Tasks : task[t].pc \in InHand => task[t].on # s /\ task[t].on # Document
  BY <1>1, <1>2, CallIsFresh, EditIsAlone DEF Placed
<1>7. Available' = Available
  BY <1>4, <1>5 DEF Available
<1>9. EditAlone'
  BY <1>6, <1>5 DEF EditAlone, Pending, InHand
<1>10. RemovesUnwanted'
  <2>1. ASSUME NEW t \in Tasks, task'[t].pc \in {"queued", "work"}, task'[t].op = "remove"
        PROVE  Unwanted(task[t].on)'
    <3>1. Unwanted(task[t].on) /\ task[t].on # s /\ task[t].on # Document
      BY <1>5, <1>6, <2>1 DEF Placed, RemovesUnwanted, InHand
    <3> QED
      BY <1>5, <3>1 DEF Unwanted
  <2> QED
    BY <1>2, <1>3, <2>1 DEF RemovesUnwanted
<1>11. NothingStale'
  <2>1. ASSUME NEW n \in index'
        PROVE  n[2] = content'[n[1]] \/ n[1] \in failed' \/ BeingEdited(n[1], "unindex")'
    <3>1. n[1] \in Segments
      BY <1>5, <2>1 DEF TypeInv, TypeOK, Nodes
    <3> QED
      BY <1>3, <1>5, <2>1, <3>1 DEF Placed, NothingStale
  <2>2. ASSUME NEW t \in Tasks, task'[t].pc = "work"
        PROVE  task'[t].docs \subseteq (IF task'[t].op = "add" THEN Current(Subjects(task[t].on))' ELSE {})
    <3>1. task[t].on # s /\ task[t].on # Document /\ task[t].on \in Segments
      BY <1>5, <1>6, <2>2 DEF InHand, TypeInv, TypeOK, TaskRecord, Owners
    <3>2. Current(Subjects(task[t].on))' = Current(Subjects(task[t].on))
      BY <1>5, <3>1 DEF Current, Subjects
    <3> QED
      BY <1>5, <2>2, <3>2 DEF Placed, NothingStale
  <2> QED
    BY <1>3, <2>1, <2>2 DEF NothingStale
<1>12. EnabledIsIndexed'
  <2> SUFFICES ASSUME Available', NEW q \in Segments \cap enabled'
               PROVE  <<q, content'[q]>> \in index' \/ Owed(q)'
    BY DEF EnabledIsIndexed
  <2>1. CASE q = s
    BY <1>3, <2>1 DEF Owed
  <2>2. CASE q # s
    <3>1. <<q, content[q]>> \in index \/ Owed(q)
      BY <1>5, <1>7, <2>2 DEF Placed, EnabledIsIndexed
    <3>2. Owed(q) => Owed(q)'
      BY <1>2, <1>3, <1>5, <2>2 DEF Owed
    <3> QED
      BY <1>5, <2>2, <3>1, <3>2
  <2> QED
    BY <2>1, <2>2
<1> QED
  BY <1>9, <1>10, <1>11, <1>12 DEF Placed

\* ... the node of the old one, and that of the new one, or a failure.
LEMMA EditPlaces ==
  ASSUME TypeInv, Serial, Placed, NEW c \in Callers,
         EditUnindex(c) \/ EditReindex(c) \/ EditFails(c)
  PROVE  Placed'
<1>1. PICK s : s = call[c].on
  OBVIOUS
<1>2. /\ call[c].pc \in {"unindex", "reindex"} /\ call[c].op = "edit" /\ s \in Segments
      /\ s # Document
  BY <1>1, SegmentIndexAssumption DEF EditUnindex, EditReindex, EditFails, Go, TypeInv, CallShape
<1>3. /\ \A d \in Callers \ {c} : call'[d] = call[d]
      /\ call'[c].pc = IF EditUnindex(c) THEN "reindex" ELSE "idle"
      /\ EditUnindex(c) => call[c].pc = "unindex" /\ call'[c].op = "edit" /\ call'[c].on = s
      /\ EditReindex(c) => call[c].pc = "reindex"
  <2>1. CASE EditUnindex(c)
    <3>1. ~EditReindex(c)
      BY <2>1 DEF EditReindex, EditUnindex, Go
    <3> QED
      BY <1>1, <1>2, <2>1, <3>1, GoesOn DEF EditUnindex, TypeInv, CallPc
  <2>2. CASE EditReindex(c)
    <3>1. ~EditUnindex(c)
      BY <2>2 DEF EditReindex, EditUnindex, Go
    <3> QED
      BY <2>2, <3>1, GoesOn DEF EditReindex, TypeInv, CallPc
  <2>3. CASE EditFails(c)
    <3>1. Go(c, call[c].pc, "idle") /\ call[c].pc \in CallPc /\ "idle" \in CallPc
      BY <1>2, <2>3 DEF EditFails, CallPc
    <3>2. call'[c].pc = "idle" /\ \A d \in Callers \ {c} : call'[d] = call[d]
      BY <3>1, GoesOn DEF TypeInv
    <3>3. ~EditUnindex(c) \/ call'[c].pc = "reindex"
      BY <1>2, GoesOn DEF EditUnindex, TypeInv, CallPc
    <3>4. ~EditReindex(c) \/ call[c].pc = "reindex"
      BY DEF EditReindex, Go
    <3> QED
      BY <3>2, <3>3, <3>4
  <2> QED
    BY <2>1, <2>2, <2>3
<1>4. /\ \A d \in Callers : call[d].pc # "idle" \/ call'[d].pc # "idle" => d = c
      /\ \A q : /\ BeingEdited(q, "unindex") <=> call[c].pc = "unindex" /\ q = s
                /\ BeingEdited(q, "reindex") <=> call[c].pc = "reindex" /\ q = s
                /\ BeingEdited(q, "unindex")' <=> call'[c].pc = "unindex" /\ call'[c].on = q
                /\ BeingEdited(q, "reindex")' <=> call'[c].pc = "reindex" /\ call'[c].on = q
  BY <1>1, <1>2, <1>3, OnlyCall
<1>5. /\ content' = content /\ task' = task /\ archived' = archived
      /\ enabled' \subseteq enabled /\ enabled \ {s} \subseteq enabled'
      /\ failed \subseteq failed' /\ failed' \subseteq failed \cup {s}
      /\ failed' \cap enabled' \subseteq failed \cap enabled
  BY <1>1 DEF EditUnindex, EditReindex, EditFails
<1>6. \A t \in Tasks : task[t].pc \in InHand => task[t].on # s /\ task[t].on # Document
  BY <1>1, <1>2, CallIsFresh, EditIsAlone DEF Placed
<1>7. Available' = Available
  BY <1>2, <1>5 DEF Available
<1>9. EditAlone'
  BY <1>5, <1>6 DEF EditAlone, Pending, InHand
<1>10. RemovesUnwanted'
  <2>1. ASSUME NEW t \in Tasks, task'[t].pc \in {"queued", "work"}, task'[t].op = "remove"
        PROVE  Unwanted(task[t].on)'
    <3>1. Unwanted(task[t].on) /\ task[t].on # Document
      BY <1>5, <1>6, <2>1 DEF Placed, RemovesUnwanted, InHand
    <3> QED
      BY <1>5, <3>1 DEF Unwanted
  <2> QED
    BY <1>3, <1>4, <2>1 DEF RemovesUnwanted
<1>11. \A q \in Segments : q # s => (<<q, content[q]>> \in index => <<q, content[q]>> \in index')
  BY <1>1 DEF EditUnindex, EditReindex, EditFails, Reindexed, NodesOf
<1>12. NothingStale'
  <2>1. ASSUME NEW n \in index', n[1] # s
        PROVE  /\ n[2] = content'[n[1]] \/ n[1] \in failed'
               /\ ~BeingEdited(n[1], "reindex")'
    <3>1. n \in index
      BY <1>1, <2>1 DEF EditUnindex, EditReindex, EditFails, Reindexed, Current
    <3>2. ~BeingEdited(n[1], "unindex") /\ ~BeingEdited(n[1], "reindex")'
      BY <1>3, <1>4, <2>1
    <3> QED
      BY <1>5, <3>1, <3>2 DEF Placed, NothingStale
  <2>2. ASSUME NEW n \in index', n[1] = s
        PROVE  /\ n[2] = content'[n[1]] \/ n[1] \in failed'
               /\ ~BeingEdited(n[1], "reindex")'
    <3>1. CASE EditUnindex(c)
      BY <1>1, <2>2, <3>1 DEF EditUnindex, NodesOf
    <3>2. CASE EditReindex(c)
      <4>1. n \notin index
        BY <1>3, <1>4, <2>2, <3>2 DEF Placed, NothingStale
      <4>2. n \in Current({s})
        BY <1>1, <3>2, <4>1, <2>2 DEF EditReindex, Reindexed
      <4>3. call'[c].pc = "idle"
        BY <1>3, <3>2 DEF EditReindex, EditUnindex, Go
      <4> QED
        BY <1>4, <1>5, <4>2, <4>3 DEF Current
    <3>3. CASE EditFails(c)
      <4>1. s \in failed'
        BY <1>1, <3>3 DEF EditFails
      <4>2. call'[c].pc = "idle"
        BY <1>2, <3>3, GoesOn DEF EditFails, TypeInv, CallPc
      <4> QED
        BY <1>4, <2>2, <4>1, <4>2
    <3> QED
      BY <3>1, <3>2, <3>3
  <2>3. ASSUME NEW t \in Tasks, task'[t].pc = "work"
        PROVE  task'[t].docs \subseteq (IF task'[t].op = "add" THEN Current(Subjects(task[t].on))' ELSE {})
    BY <1>5, <2>3 DEF Placed, NothingStale, Current
  <2> QED
    BY <2>1, <2>2, <2>3 DEF NothingStale
<1>13. EnabledIsIndexed'
  <2> SUFFICES ASSUME Available', NEW q \in Segments \cap enabled'
               PROVE  <<q, content'[q]>> \in index' \/ Owed(q)'
    BY DEF EnabledIsIndexed
  <2>1. CASE q # s
    <3>1. <<q, content[q]>> \in index \/ Owed(q)
      BY <1>5, <1>7 DEF Placed, EnabledIsIndexed
    <3>2. Owed(q) => Owed(q)'
      BY <1>2, <1>4, <1>5, <2>1 DEF Owed
    <3> QED
      BY <1>5, <1>11, <2>1, <3>1, <3>2
  <2>2. CASE q = s
    <3>1. CASE EditUnindex(c)
      BY <1>3, <1>4, <2>2, <3>1 DEF Owed
    <3>2. CASE EditReindex(c)
      <4>1. NodesOf({s}) = {}
        BY <1>3, <1>4, <3>2 DEF Placed, NothingStale, NodesOf
      <4>2. <<s, content[s]>> \in index'
        BY <1>1, <3>2, <4>1 DEF EditReindex, Reindexed, Current
      <4> QED
        BY <1>5, <2>2, <4>2
    <3>3. CASE EditFails(c)
      BY <1>1, <2>2, <3>3 DEF EditFails
    <3> QED
      BY <3>1, <3>2, <3>3
  <2> QED
    BY <2>1, <2>2
<1> QED
  BY <1>9, <1>10, <1>12, <1>13 DEF Placed

\* A task's step, with what it works on.
LEMMA TaskSteps ==
  ASSUME TypeInv, NEW t \in Tasks, Runs(t)
  PROVE  /\ \A u \in Tasks \ {t} : task'[u] = task[u]
         /\ task'[t].on = task[t].on /\ task'[t].op = task[t].op
         /\ task[t].pc \in InHand /\ task[t].on \in Owners
         /\ task'[t].pc \in {"work", "unlock", "done"}
         /\ task'[t].pc = "work" => task[t].pc = "queued"
         /\ archived' = archived /\ content' = content /\ call' = call
<1>1. /\ task[t] \in TaskRecord /\ task \in [Tasks -> TaskRecord]
      /\ archived' = archived /\ content' = content /\ call' = call
  BY DEF TypeInv, TypeOK, Runs, TakeDocument, TakeDocumentFails, TakeSegment, Take, Add, Remove, AddFails,
         RemoveFails, Unlock, callVars
<1>2. /\ task[t].pc \in {"queued", "work", "unlock"}
      /\ \/ task[t].pc = "queued" /\ \E docs : Begin(t, docs)
         \/ \E to \in {"unlock", "done"} : Skip(t, to)
         \/ Worked(t)
  BY DEF Runs, TakeDocument, TakeDocumentFails, TakeSegment, Take, First, Add, Remove, AddFails,
         RemoveFails, Unlock, Skip
<1>3. task[t].on \in Owners
  BY <1>1 DEF TaskRecord
<1>4. ASSUME task[t].pc = "queued", NEW docs, Begin(t, docs)
      PROVE  /\ \A u \in Tasks \ {t} : task'[u] = task[u]
             /\ task'[t].on = task[t].on /\ task'[t].op = task[t].op /\ task'[t].pc = "work"
  BY <1>1, <1>4 DEF Begin, TaskRecord
<1>5. ASSUME NEW to \in {"unlock", "done"}, Skip(t, to)
      PROVE  /\ \A u \in Tasks \ {t} : task'[u] = task[u]
             /\ task'[t].on = task[t].on /\ task'[t].op = task[t].op /\ task'[t].pc = to
  BY <1>1, <1>5 DEF Skip, TaskRecord
<1>6. ASSUME Worked(t)
      PROVE  /\ \A u \in Tasks \ {t} : task'[u] = task[u]
             /\ task'[t].on = task[t].on /\ task'[t].op = task[t].op /\ task'[t].pc = "unlock"
  BY <1>1, <1>6 DEF Worked, TaskRecord
<1> QED
  BY <1>1, <1>2, <1>3, <1>4, <1>5, <1>6 DEF InHand

\* What a task's step leaves of the invariant: it puts no segment back in
\* use but its own, and works on what is still so.
LEMMA TaskPlaces ==
  ASSUME TypeInv, Serial, Serial', Placed, NEW t \in Tasks, Runs(t),
         enabled' \subseteq enabled \cup {task[t].on}, failed \subseteq failed',
         task'[t].pc = "work" => enabled' = enabled /\ failed' = failed,
         task'[t].pc = "work" =>
           task'[t].docs \subseteq (IF task[t].op = "add" THEN Current(Subjects(task[t].on)) ELSE {}),
         index' \subseteq index \cup (IF task[t].pc = "work" THEN task[t].docs ELSE {}),
         EnabledIsIndexed'
  PROVE  Placed'
<1> DEFINE o == task[t].on
<1>1. /\ \A u \in Tasks \ {t} : task'[u] = task[u]
      /\ task'[t].on = o /\ task'[t].op = task[t].op
      /\ task[t].pc \in InHand /\ o \in Owners
      /\ task'[t].pc \in {"work", "unlock", "done"}
      /\ task'[t].pc = "work" => task[t].pc = "queued"
      /\ archived' = archived /\ content' = content /\ call' = call
  BY TaskSteps
<1>2. \A u \in Tasks \ {t} : task[u].pc \in InHand => task[u].on # o
  BY <1>1, OneInHand
<1>3. \A c \in Callers : call[c].pc # "idle" =>
        /\ call[c].on # o
        /\ call[c].op = "edit" => o # Document
  BY <1>1, CallIsFresh, EditIsAlone DEF Placed
<1>4. Available' /\ o # Document => Available
  BY <1>1 DEF Available
<1> HIDE DEF o
<1>6. EditAlone'
  <2>1. ASSUME NEW u \in Tasks, task'[u].on = Document, task'[u].pc \in InHand
        PROVE  task[u].on = Document /\ task[u].pc \in InHand
    BY <1>1, <2>1 DEF o
  <2> QED
    BY <1>1, <2>1 DEF Placed, EditAlone, Pending, InHand
<1>7. RemovesUnwanted'
  <2>1. ASSUME NEW x, Unwanted(x), x # o PROVE Unwanted(x)'
    BY <1>4, <2>1 DEF Unwanted, o
  <2>2. ASSUME NEW u \in Tasks, task'[u].pc \in {"queued", "work"}, task'[u].op = "remove"
        PROVE  Unwanted(task'[u].on)
    <3>1. CASE u = t
      BY <1>1, <2>2, <3>1 DEF Placed, RemovesUnwanted, o
    <3>2. CASE u # t
      BY <1>1, <2>2, <3>2 DEF Placed, RemovesUnwanted
    <3> QED
      BY <3>1, <3>2
  <2>3. ASSUME NEW u \in Tasks, task'[u].pc \in {"queued", "work"}, task'[u].op = "remove"
        PROVE  Unwanted(task[u].on)'
    <3>1. CASE u = t
      <4>1. task'[t].pc = "work" /\ enabled' = enabled
        BY <1>1, <2>3, <3>1
      <4> QED
        BY <1>1, <2>2, <2>3, <3>1, <4>1 DEF Unwanted, Available, o
    <3>2. CASE u # t
      <4>1. task'[u] = task[u] /\ task[u].on # o
        BY <1>1, <1>2, <2>3, <3>2 DEF InHand
      <4> QED
        BY <2>1, <2>2, <2>3, <4>1
    <3> QED
      BY <3>1, <3>2
  <2>4. ASSUME NEW c \in Callers, call'[c].pc = "send", call'[c].op \in {"disable", "off", "archive"}
        PROVE  Unwanted(call[c].on)'
    <3>1. Unwanted(call[c].on) /\ call[c].on # o
      BY <1>1, <1>3, <2>4 DEF Placed, RemovesUnwanted
    <3> QED
      BY <1>1, <2>1, <3>1
  <2> QED
    BY <2>3, <2>4 DEF RemovesUnwanted
<1>8. NothingStale'
  <2>1. \A s, pc : BeingEdited(s, pc)' = BeingEdited(s, pc)
    BY <1>1 DEF BeingEdited
  <2>2. ASSUME NEW n \in index', n \notin index
        PROVE  n[2] = content[n[1]] /\ ~BeingEdited(n[1], "reindex")
    <3>1. n \in task[t].docs /\ task[t].pc = "work"
      BY <2>2
    <3>2. n \in Current(Subjects(o))
      BY <3>1 DEF Placed, NothingStale, o
    <3>3. n[2] = content[n[1]] /\ n[1] \in Subjects(o)
      BY <3>2 DEF Current
    <3>4. ASSUME NEW c \in Callers, call[c].pc = "reindex", call[c].on = n[1] PROVE FALSE
      <4>1. call[c].op = "edit"
        BY <3>4 DEF TypeInv, CallShape
      <4> QED
        BY <1>3, <3>3, <3>4, <4>1 DEF Subjects
    <3> QED
      BY <3>3, <3>4 DEF BeingEdited
  <2>3. ASSUME NEW u \in Tasks, task'[u].pc = "work"
        PROVE  task'[u].docs \subseteq (IF task'[u].op = "add" THEN Current(Subjects(task'[u].on)) ELSE {})
    <3>1. CASE u = t
      BY <1>1, <2>3, <3>1 DEF o
    <3>2. CASE u # t
      BY <1>1, <2>3, <3>2 DEF Placed, NothingStale
    <3> QED
      BY <3>1, <3>2
  <2>4. \A ss : Current(ss)' = Current(ss)
    BY <1>1 DEF Current
  <2>5. ASSUME NEW n \in index'
        PROVE  /\ n[2] = content'[n[1]] \/ n[1] \in failed' \/ BeingEdited(n[1], "unindex")'
               /\ ~BeingEdited(n[1], "reindex")'
    BY <1>1, <2>1, <2>2 DEF Placed, NothingStale
  <2> QED
    BY <2>3, <2>4, <2>5 DEF NothingStale, Subjects
<1> QED
  BY <1>6, <1>7, <1>8 DEF Placed

\* Who owes a segment its node still does, unless it was this task.
LEMMA StillOwed ==
  ASSUME TypeInv, NEW t \in Tasks, Runs(t), NEW s \in Segments, Owed(s),
         \/ task[t].op # "add"
         \/ task[t].pc = "queued" /\ task[t].on \notin {s, Document}
         \/ task[t].pc = "work" /\ <<s, content[s]>> \notin task[t].docs
         \/ task[t].pc = "unlock"
         \/ task'[t].pc = "work" /\ <<s, content[s]>> \in task'[t].docs
  PROVE  Owed(s)'
<1>1. /\ \A u \in Tasks \ {t} : task'[u] = task[u]
      /\ task'[t].op = task[t].op
      /\ content' = content /\ call' = call
  BY TaskSteps
<1> QED
  BY <1>1 DEF Owed, BeingEdited

\* A node of a segment that is neither failed nor being edited is the current one.
LEMMA NodeIsCurrent ==
  ASSUME TypeInv, Placed, NEW s \in Segments, s \notin failed, ~BeingEdited(s, "unindex"),
         \E n \in index : n[1] = s
  PROVE  <<s, content[s]>> \in index
<1>1. PICK n \in index : n[1] = s
  OBVIOUS
<1>2. n[2] = content[s]
  BY <1>1 DEF Placed, NothingStale
<1>3. n = <<s, content[s]>>
  BY <1>1, <1>2 DEF TypeInv, TypeOK, Nodes
<1> QED
  BY <1>3

\* A document that is enabled again because its removal failed.
LEMMA TakeFailsPlaces ==
  ASSUME TypeInv, Serial, Serial', Placed, mishaps' = {}, NEW t \in Tasks, TakeDocumentFails(t)
  PROVE  Placed'
<1>1. /\ Runs(t) /\ task[t].pc = "queued" /\ task[t].on = Document
      /\ enabled' \subseteq enabled \cup {Document}
      /\ failed' = failed /\ index' = index /\ archived' = archived /\ content' = content
  BY DEF Runs, TakeDocumentFails, First, callVars
<1>2. task'[t].pc = "unlock"
  BY DEF TakeDocumentFails, Skip, TypeInv, TypeOK, TaskRecord
<1>3. ~archived => \A s \in Segments \cap enabled : \E n \in index : n[1] = s
  BY DEF TakeDocumentFails, NodesOf
<1>4. \A c \in Callers : call[c].pc # "idle" => call[c].op # "edit"
  BY <1>1, EditIsAlone DEF Placed, InHand
<1>5. EnabledIsIndexed'
  <2> SUFFICES ASSUME Available', NEW s \in Segments \cap enabled'
               PROVE  <<s, content'[s]>> \in index'
    BY DEF EnabledIsIndexed
  <2>1. ~archived /\ s \in enabled
    BY <1>1, SegmentIndexAssumption DEF Available
  <2>2. s \notin failed
    BY <2>1 DEF Serial, FailedMeansDisabled
  <2>3. ~BeingEdited(s, "unindex")
    BY <1>4 DEF BeingEdited, TypeInv, CallShape
  <2> QED
    BY <1>1, <1>3, <2>1, <2>2, <2>3, NodeIsCurrent
<1> QED
  BY <1>1, <1>2, <1>5, TaskPlaces

LEMMA TakePlaces ==
  ASSUME TypeInv, Serial, Serial', Placed, NEW t \in Tasks, TakeDocument(t) \/ TakeSegment(t)
  PROVE  Placed'
<1>1. /\ Runs(t) /\ task[t].pc = "queued"
      /\ enabled' = enabled /\ failed' = failed /\ index' = index
      /\ archived' = archived /\ content' = content
  BY DEF Runs, TakeDocument, TakeSegment, Take, First, callVars
<1>2. task[t].on \notin failed /\ failed \cap enabled = {}
  BY <1>1 DEF Serial, FailedMeansDisabled
<1>3. ASSUME NEW docs, Begin(t, docs)
      PROVE  task'[t].docs = docs /\ task'[t].pc = "work"
  BY <1>3 DEF Begin, TypeInv, TypeOK, TaskRecord
<1>4. ASSUME Available' PROVE Available
  BY <1>1, <1>4 DEF Available
<1>5. CASE TakeDocument(t)
  <2> DEFINE docs == IF task[t].op = "add" THEN Current(Segments \cap enabled) ELSE {}
  <2>1. task[t].on = Document /\ task'[t].docs = docs /\ task'[t].pc = "work"
    BY <1>3, <1>5 DEF TakeDocument
  <2>2. docs \subseteq (IF task[t].op = "add" THEN Current(Subjects(task[t].on)) ELSE {})
    BY <2>1 DEF Current, Subjects
  <2>3. EnabledIsIndexed'
    <3> SUFFICES ASSUME Available', NEW s \in Segments \cap enabled'
                 PROVE  <<s, content'[s]>> \in index' \/ Owed(s)'
      BY DEF EnabledIsIndexed
    <3>1. <<s, content[s]>> \in index \/ Owed(s)
      BY <1>1, <1>4 DEF Placed, EnabledIsIndexed
    <3>2. task[t].op = "add" => <<s, content[s]>> \in task'[t].docs
      BY <1>1, <2>1 DEF Current
    <3> QED
      BY <1>1, <2>1, <3>1, <3>2, StillOwed
  <2> QED
    BY <1>1, <1>2, <2>1, <2>2, <2>3, TaskPlaces
<1>6. CASE TakeSegment(t)
  <2> DEFINE docs == IF task[t].op = "add" THEN Current({task[t].on}) ELSE {}
  <2>1. task[t].on # Document
    BY <1>6 DEF TakeSegment
  <2>2. CASE ~Available
    <3>1. Skip(t, "unlock")
      BY <1>2, <1>6, <2>2 DEF TakeSegment
    <3>2. task'[t].pc = "unlock"
      BY <3>1 DEF Skip, TypeInv, TypeOK, TaskRecord
    <3>3. EnabledIsIndexed'
      BY <1>4, <2>2 DEF EnabledIsIndexed
    <3> QED
      BY <1>1, <1>2, <3>2, <3>3, TaskPlaces
  <2>3. CASE Available
    <3>1. task'[t].docs = docs /\ task'[t].pc = "work"
      BY <1>2, <1>3, <1>6, <2>3 DEF TakeSegment
    <3>2. docs \subseteq (IF task[t].op = "add" THEN Current(Subjects(task[t].on)) ELSE {})
      BY <2>1 DEF Current, Subjects
    <3>3. EnabledIsIndexed'
      <4> SUFFICES ASSUME NEW s \in Segments \cap enabled'
                   PROVE  <<s, content'[s]>> \in index' \/ Owed(s)'
        BY DEF EnabledIsIndexed
      <4>1. <<s, content[s]>> \in index \/ Owed(s)
        BY <1>1, <2>3 DEF Placed, EnabledIsIndexed
      <4>2. task[t].op = "add" /\ task[t].on = s => <<s, content[s]>> \in task'[t].docs
        BY <3>1 DEF Current
      <4> QED
        BY <1>1, <2>1, <3>1, <4>1, <4>2, StillOwed
    <3> QED
      BY <1>1, <1>2, <3>1, <3>2, <3>3, TaskPlaces
  <2> QED
    BY <2>2, <2>3
<1> QED
  BY <1>5, <1>6

LEMMA WorkPlaces ==
  ASSUME TypeInv, Serial, Serial', Placed, mishaps' = {}, NEW t \in Tasks,
         Add(t) \/ Remove(t) \/ AddFails(t) \/ RemoveFails(t)
  PROVE  Placed'
<1> DEFINE o == task[t].on
<1>1. /\ Runs(t) /\ task[t].pc = "work" /\ task'[t].pc = "unlock"
      /\ o \in Owners /\ archived' = archived /\ content' = content
  <2>1. Runs(t) /\ task[t].pc = "work" /\ Worked(t)
    BY DEF Runs, Add, Remove, AddFails, RemoveFails
  <2>2. task'[t].pc = "unlock"
    BY <2>1 DEF Worked, TypeInv, TypeOK, TaskRecord
  <2> QED
    BY <2>1, <2>2, TaskSteps
<1>2. o \notin failed /\ failed \cap enabled = {} /\ failed \subseteq Segments
  BY <1>1 DEF Serial, FailedMeansDisabled, TypeInv, TypeOK
<1>3. task[t].docs \subseteq (IF task[t].op = "add" THEN Current(Subjects(o)) ELSE {})
  BY <1>1 DEF Placed, NothingStale
<1>4. CASE Add(t)
  <2>1. enabled' = enabled /\ failed' = failed /\ index' = index \cup task[t].docs
    BY <1>4 DEF Add
  <2>2. EnabledIsIndexed'
    <3> SUFFICES ASSUME Available', NEW s \in Segments \cap enabled'
                 PROVE  <<s, content'[s]>> \in index' \/ Owed(s)'
      BY DEF EnabledIsIndexed
    <3>1. <<s, content[s]>> \in index \/ Owed(s)
      BY <1>1, <2>1 DEF Placed, EnabledIsIndexed, Available
    <3> QED
      BY <1>1, <2>1, <3>1, StillOwed
  <2> QED
    BY <1>1, <1>2, <2>1, <2>2, TaskPlaces
<1>5. CASE Remove(t)
  <2>1. /\ enabled' = enabled /\ failed' = failed /\ task[t].op = "remove"
        /\ index' = index \ NodesOf(Subjects(o))
    BY <1>5 DEF Remove
  <2>2. Unwanted(o)
    BY <1>1, <2>1 DEF Placed, RemovesUnwanted
  <2>3. EnabledIsIndexed'
    <3> SUFFICES ASSUME Available', NEW s \in Segments \cap enabled'
                 PROVE  <<s, content'[s]>> \in index' \/ Owed(s)'
      BY DEF EnabledIsIndexed
    <3>1. Available /\ s \in enabled
      BY <1>1, <2>1 DEF Available
    <3>2. o # Document /\ o # s
      BY <2>2, <3>1 DEF Unwanted
    <3>3. <<s, content[s]>> \in index \/ Owed(s)
      BY <3>1 DEF Placed, EnabledIsIndexed
    <3>4. <<s, content[s]>> \in index => <<s, content[s]>> \in index'
      BY <2>1, <3>2 DEF NodesOf, Subjects
    <3> QED
      BY <1>1, <2>1, <3>3, <3>4, StillOwed
  <2> QED
    BY <1>1, <1>2, <2>1, <2>3, TaskPlaces
<1>6. CASE AddFails(t)
  <2>1. /\ enabled' = enabled \ {o} /\ failed' = failed \cup ({o} \ {Document})
        /\ index \subseteq index' /\ index' \subseteq index \cup task[t].docs
    BY <1>6 DEF AddFails
  <2>2. EnabledIsIndexed'
    <3> SUFFICES ASSUME Available', NEW s \in Segments \cap enabled'
                 PROVE  <<s, content'[s]>> \in index' \/ Owed(s)'
      BY DEF EnabledIsIndexed
    <3>1. Available /\ s \in enabled /\ o # s /\ o # Document
      BY <1>1, <2>1 DEF Available
    <3>2. <<s, content[s]>> \in index \/ Owed(s)
      BY <3>1 DEF Placed, EnabledIsIndexed
    <3>3. <<s, content[s]>> \notin task[t].docs
      BY <1>3, <3>1 DEF Current, Subjects
    <3> QED
      BY <1>1, <2>1, <3>2, <3>3, StillOwed
  <2> QED
    BY <1>1, <1>2, <2>1, <2>2, TaskPlaces
<1>7. CASE RemoveFails(t)
  <2>1. /\ enabled' = enabled \cup ({o} \ {Document}) /\ failed' = failed
        /\ index' \in {index, index \ NodesOf(Subjects(o))} /\ task[t].op = "remove"
        /\ o = Document \/ \E n \in index' : n[1] = o
    BY <1>7 DEF RemoveFails, callVars
  <2>2. CASE o = Document
    <3>1. ~Available
      BY <1>1, <2>1, <2>2 DEF Placed, RemovesUnwanted, Unwanted
    <3>2. EnabledIsIndexed'
      BY <1>1, <2>1, <2>2, <3>1 DEF EnabledIsIndexed, Available
    <3> QED
      BY <1>1, <1>2, <2>1, <2>2, <3>2, TaskPlaces
  <2>3. CASE o # Document
    <3>1. index' = index /\ \E n \in index : n[1] = o
      BY <2>1, <2>3 DEF NodesOf, Subjects
    <3>2. EnabledIsIndexed'
      <4> SUFFICES ASSUME Available', NEW s \in Segments \cap enabled'
                   PROVE  <<s, content'[s]>> \in index' \/ Owed(s)'
        BY DEF EnabledIsIndexed
      <4>1. CASE s \in enabled
        <5>1. Available
          BY <1>1, <2>1 DEF Available
        <5>2. <<s, content[s]>> \in index \/ Owed(s)
          BY <4>1, <5>1 DEF Placed, EnabledIsIndexed
        <5> QED
          BY <1>1, <2>1, <3>1, <5>2, StillOwed
      <4>2. CASE s \notin enabled
        <5>1. s = o
          BY <2>1, <4>2
        <5>2. \A c \in Callers : call[c].pc # "idle" => call[c].on # o
          BY <1>1, CallIsFresh DEF InHand
        <5>3. ~BeingEdited(s, "unindex") /\ s \notin failed
          BY <1>2, <5>1, <5>2 DEF BeingEdited
        <5> QED
          BY <1>1, <3>1, <5>1, <5>3, NodeIsCurrent
      <4> QED
        BY <4>1, <4>2
    <3> QED
      BY <1>1, <1>2, <2>1, <3>1, <3>2, TaskPlaces
  <2> QED
    BY <2>2, <2>3
<1> QED
  BY <1>4, <1>5, <1>6, <1>7

LEMMA UnlockPlaces ==
  ASSUME TypeInv, Serial, Serial', Placed, NEW t \in Tasks, Unlock(t)
  PROVE  Placed'
<1>1. /\ Runs(t) /\ task[t].pc = "unlock" /\ task'[t].pc = "done"
      /\ enabled' = enabled /\ failed' = failed /\ index' = index
      /\ archived' = archived /\ content' = content
  <2>1. Skip(t, "done")
    BY DEF Unlock, Skip
  <2>2. task'[t].pc = "done"
    BY <2>1 DEF Skip, TypeInv, TypeOK, TaskRecord
  <2> QED
    BY <2>2 DEF Runs, Unlock, callVars
<1>2. EnabledIsIndexed'
  <2> SUFFICES ASSUME Available', NEW s \in Segments \cap enabled'
               PROVE  <<s, content'[s]>> \in index' \/ Owed(s)'
    BY DEF EnabledIsIndexed
  <2>1. <<s, content[s]>> \in index \/ Owed(s)
    BY <1>1 DEF Placed, EnabledIsIndexed, Available
  <2> QED
    BY <1>1, <2>1, StillOwed
<1>3. failed \cap enabled = {}
  BY DEF Serial, FailedMeansDisabled
<1> QED
  BY <1>1, <1>2, <1>3, TaskPlaces

\* Every step keeps the invariant, as long as nothing has gone wrong.
LEMMA PlacedInvHolds == Spec => [](mishaps = {} => Placed)
<1>1. Init => Placed
  <2> SUFFICES ASSUME Init PROVE Placed
    OBVIOUS
  <2>1. /\ \A c \in Callers : call[c].pc = "idle"
        /\ \A t \in Tasks : task[t].pc = "none"
    BY DEF Init, Idle, NoTask
  <2>2. EditAlone /\ RemovesUnwanted
    BY <2>1 DEF Init, EditAlone, RemovesUnwanted
  <2>3. NothingStale /\ EnabledIsIndexed
    BY <2>1 DEF Init, NothingStale, BeingEdited, EnabledIsIndexed
  <2> QED
    BY <2>2, <2>3 DEF Placed
<1>2. /\ TypeInv /\ (Undisturbed => Serial) /\ (Undisturbed => Serial)'
      /\ (mishaps = {} => Placed) /\ [Next]_vars
      => (mishaps = {} => Placed)'
  <2> SUFFICES ASSUME TypeInv, Undisturbed => Serial, Undisturbed' => Serial',
                      mishaps = {} => Placed, [Next]_vars, mishaps' = {}
               PROVE  Placed'
    OBVIOUS
  <2>1. mishaps \subseteq mishaps'
    BY MishapsStay
  <2>2. Serial /\ Serial' /\ Placed /\ mishaps = {}
    BY <2>1 DEF Undisturbed
  <2>3. ASSUME NEW c \in Callers, Requests(c) PROVE Placed'
    BY <2>2, <2>3, ReadPlaces, CommitPlaces, SendPlaces, EditCommitPlaces, EditPlaces
       DEF Requests, Owners, SendFails
  <2>4. ASSUME NEW t \in Tasks, Runs(t) PROVE Placed'
    BY <2>2, <2>4, TakePlaces, TakeFailsPlaces, WorkPlaces, UnlockPlaces DEF Runs
  <2>5. ASSUME NEW o \in Owners, Expire(o) PROVE FALSE
    BY <2>2, <2>5 DEF Expire, Serial, KeyMeansTask
  <2>6. CASE UNCHANGED vars
    BY <2>2, <2>6 DEF vars, Placed, EditAlone, Pending, RemovesUnwanted, Unwanted,
                      Available, NothingStale, BeingEdited, Current, Subjects, EnabledIsIndexed, Owed
  <2>7. ASSUME NEW t \in Tasks, Killed(t) PROVE FALSE
    BY <2>7 DEF Killed
  <2> QED
    BY <2>3, <2>4, <2>5, <2>6, <2>7 DEF Next
<1> QED
  BY <1>1, <1>2, TypeInvHolds, SerialInvHolds, PTL DEF Spec

\* At rest, the index holds for each enabled segment of an available document its
\* present text and no other, for any number of segments, requests and workers,
\* whichever additions, removals and edits failed or stopped half way and in
\* whatever order tasks ran, under the provisos that the property names.
THEOREM RetrievableAlways == Spec => []Retrievable
<1>1. TypeInv /\ (Undisturbed => Serial) /\ (mishaps = {} => Placed) => Retrievable
  <2> SUFFICES ASSUME TypeInv, Serial, Placed, Quiet, Available, NEW s \in Segments \cap enabled
               PROVE  NodesOf({s}) = Current({s})
    BY DEF Retrievable, Undisturbed
  <2>1. \A c \in Callers : call[c].pc = "idle"
    BY DEF Quiet
  <2>2. \A t \in Tasks : task[t].pc \notin {"queued", "work"}
    BY DEF Quiet, Pending, TypeInv, TypeOK, TaskRecord
  <2>3. ~Owed(s) /\ ~BeingEdited(s, "unindex")
    BY <2>1, <2>2 DEF Owed, BeingEdited
  <2>4. <<s, content[s]>> \in index
    BY <2>3 DEF Placed, EnabledIsIndexed
  <2>5. s \notin failed
    BY DEF Serial, FailedMeansDisabled
  <2>6. \A n \in index : n[1] = s => n = <<s, content[s]>>
    BY <2>3, <2>5 DEF Placed, NothingStale, TypeInv, TypeOK, Nodes
  <2> QED
    BY <2>4, <2>6 DEF NodesOf, Current
<1> QED
  BY <1>1, TypeInvHolds, SerialInvHolds, PlacedInvHolds, PTL

(***************************************************************************)
(* What is found goes on being found                                       *)
(***************************************************************************)

LEMMA NoneAheadHolds == Spec => []NoneAhead
<1>1. Init => NoneAhead
  BY DEF Init, NoneAhead, NoTask
<1>2. TypeInv /\ NoneAhead /\ [Next]_vars => NoneAhead'
  <2> SUFFICES ASSUME TypeInv, NoneAhead, [Next]_vars PROVE NoneAhead'
    OBVIOUS
  <2>1. \A ss \in SUBSET Segments : \A n \in Current(ss) : n[2] <= content[n[1]]
    BY DEF Current, TypeInv, TypeOK, Contents
  <2>2. ASSUME content' = content,
               \A n \in index' \ index : n[2] <= content[n[1]],
               \A u \in Tasks : \A n \in task'[u].docs \ task[u].docs : n[2] <= content[n[1]]
        PROVE  NoneAhead'
    BY <2>2 DEF NoneAhead
  <2>3. ASSUME NEW c \in Callers, Send(c) PROVE NoneAhead'
    <3>1. PICK t \in Tasks : \E r \in [pc : TaskPc, op : {"add", "remove"}, on : Owners, docs : {{}}] :
                               task' = [task EXCEPT ![t] = r]
      BY <2>3 DEF Send, Delay, TypeInv, TypeOK, CallRecord, TaskPc
    <3>2. \A u \in Tasks : task'[u].docs \in {task[u].docs, {}}
      BY <3>1 DEF TypeInv, TypeOK
    <3> QED
      BY <2>2, <2>3, <3>2 DEF Send
  <2>4. ASSUME NEW c \in Callers, EditCommit(c) PROVE NoneAhead'
    <3>1. \A s \in Segments : content[s] \in Nat /\ content'[s] >= content[s]
      BY <2>4 DEF EditCommit, TypeInv, TypeOK, Contents
    <3>2. /\ index' = index /\ task' = task
          /\ \A n \in index : n[1] \in Segments /\ n[2] \in Nat
          /\ \A t \in Tasks : \A n \in task[t].docs : n[1] \in Segments /\ n[2] \in Nat
      BY <2>4 DEF EditCommit, TypeInv, TypeOK, TaskRecord, Nodes, Contents
    <3>3. ASSUME NEW k \in Nat, NEW s \in Segments, k <= content[s]
          PROVE  k <= content'[s]
      <4>1. content[s] \in Nat /\ content'[s] \in Nat /\ content'[s] >= content[s]
        BY <2>4, <3>1 DEF EditCommit, TypeInv, TypeOK, Contents
      <4> QED
        BY <3>3, <4>1
    <3>4. \A n \in index' : n[2] <= content'[n[1]]
      BY <3>2, <3>3 DEF NoneAhead
    <3>5. \A t \in Tasks : \A n \in task'[t].docs : n[2] <= content'[n[1]]
      BY <3>2, <3>3 DEF NoneAhead
    <3> QED
      BY <3>4, <3>5 DEF NoneAhead
  <2>5. ASSUME NEW c \in Callers, EditUnindex(c) \/ EditReindex(c) \/ EditFails(c) PROVE NoneAhead'
    <3>1. content' = content /\ task' = task
      BY <2>5 DEF EditUnindex, EditReindex, EditFails
    <3>2. \/ index' \subseteq index
          \/ call[c].pc = "reindex" /\ index' \subseteq index \cup Current({call[c].on})
      BY <2>5 DEF EditUnindex, EditReindex, EditFails, Go, Reindexed
    <3>3. call[c].pc = "reindex" => {call[c].on} \in SUBSET Segments
      BY DEF TypeInv, CallShape
    <3>4. \A n \in index' \ index : n[2] <= content[n[1]]
      BY <2>1, <3>2, <3>3
    <3> QED
      BY <2>2, <3>1, <3>4
  <2>6. ASSUME NEW t \in Tasks, Runs(t) PROVE NoneAhead'
    <3>1. content' = content /\ task' \in [Tasks -> TaskRecord]
      <4>1. TypeInv'
        BY <2>6, RunsTyped
      <4> QED
        BY <2>6, <4>1 DEF TypeInv, TypeOK, Runs, TakeDocument, TakeDocumentFails, TakeSegment, Take, Add, Remove,
                          AddFails, RemoveFails, Unlock, callVars
    <3>2. \A u \in Tasks \ {t} : task'[u] = task[u]
      BY <2>6, TaskSteps
    <3>3. index' \subseteq index \cup task[t].docs
      BY <2>6 DEF Runs, TakeDocument, TakeDocumentFails, TakeSegment, Take, Add, Remove, AddFails, RemoveFails,
                  Unlock
    <3>4. \E ss \in SUBSET Segments : task'[t].docs \subseteq task[t].docs \cup Current(ss)
      <4>1. CASE TakeDocument(t)
        <5>1. task'[t].docs \subseteq Current(Segments \cap enabled)
          BY <4>1 DEF TakeDocument, Begin, TypeInv, TypeOK, TaskRecord
        <5> QED
          BY <5>1
      <4>2. CASE TakeSegment(t)
        <5>1. {task[t].on} \in SUBSET Segments
          BY <4>2 DEF TakeSegment, TypeInv, TypeOK, TaskRecord, Owners
        <5>2. \/ \E to \in TaskPc : Skip(t, to)
              \/ Begin(t, Current({task[t].on})) \/ Begin(t, {})
          <6>1. CASE task[t].on \in failed
            BY <4>2, <6>1 DEF TakeSegment, TaskPc
          <6>2. CASE task[t].on \notin failed /\ ~Available
            BY <4>2, <6>2 DEF TakeSegment, TaskPc
          <6>3. CASE task[t].on \notin failed /\ Available
            <7>1. Begin(t, IF task[t].op = "add" THEN Current({task[t].on}) ELSE {})
              BY <4>2, <6>3 DEF TakeSegment
            <7> QED
              BY <7>1
          <6> QED
            BY <6>1, <6>2, <6>3
        <5>3. task'[t].docs \subseteq task[t].docs \cup Current({task[t].on})
          BY <5>2 DEF Begin, Skip, TypeInv, TypeOK, TaskRecord
        <5> QED
          BY <5>1, <5>3
      <4>4. CASE TakeDocumentFails(t)
        <5>1. task'[t].docs \subseteq task[t].docs
          BY <4>4 DEF TakeDocumentFails, Skip, TypeInv, TypeOK, TaskRecord
        <5> QED
          BY <5>1
      <4>3. CASE Add(t) \/ Remove(t) \/ AddFails(t) \/ RemoveFails(t) \/ Unlock(t)
        <5>1. task'[t].docs \subseteq task[t].docs
          BY <4>3 DEF Add, Remove, AddFails, RemoveFails, Unlock, Worked, TypeInv, TypeOK,
                      TaskRecord
        <5> QED
          BY <5>1
      <4> QED
        BY <2>6, <4>1, <4>2, <4>3, <4>4 DEF Runs
    <3> QED
      BY <2>1, <2>2, <3>1, <3>2, <3>3, <3>4 DEF NoneAhead
  <2>7. ASSUME UNCHANGED <<content, index, task>> PROVE NoneAhead'
    BY <2>7 DEF NoneAhead
  <2>8. ASSUME NEW t \in Tasks, Killed(t) PROVE NoneAhead'
    <3>1. \A u \in Tasks : task'[u].docs \subseteq task[u].docs
      BY <2>8 DEF Killed, TypeInv, TypeOK, TaskRecord
    <3> QED
      BY <2>2, <2>8, <3>1 DEF Killed, callVars
  <2> QED
    BY <2>3, <2>4, <2>5, <2>6, <2>7, <2>8
       DEF Next, Requests, Read, Commit, SendFails, Expire, callVars, vars
<1> QED
  BY <1>1, <1>2, TypeInvHolds, PTL DEF Spec

LEMMA EditedAnewStep ==
  ASSUME TypeInv, Serial, Placed, NoneAhead, EditedAnew, mishaps' = {}, [Next]_vars
  PROVE  EditedAnew'
<1> SUFFICES ASSUME NEW s \in Segments, BeingEdited(s, "unindex")'
             PROVE  <<s, content'[s]>> \notin index'
  BY DEF EditedAnew
<1>1. ASSUME NEW c \in Callers, EditCommit(c)
      PROVE  <<s, content'[s]>> \notin index'
  <2>1. /\ call[c].pc = "commit" /\ \A d \in Callers \ {c} : call'[d] = call[d]
        /\ call'[c].on = call[c].on
    BY <1>1, GoesOn DEF EditCommit, TypeInv, CallPc
  <2>2. call[c].on = s
    BY <2>1, OnlyCall
  <2>3. content'[s] = content[s] + 1 /\ content[s] \in Nat /\ index' = index
    BY <1>1, <2>2 DEF EditCommit, TypeInv, TypeOK, Contents
  <2>4. \A n \in index : n[1] = s => n[2] <= content[s] /\ n[2] \in Nat
    BY DEF NoneAhead, TypeInv, TypeOK, Nodes, Contents
  <2>5. ASSUME <<s, content'[s]>> \in index PROVE FALSE
    <3> DEFINE n == <<s, content'[s]>>
    <3>1. n \in index /\ n[1] = s /\ n[2] = content'[s]
      BY <2>5
    <3> QED
      BY <2>3, <2>4, <3>1
  <2> QED
    BY <2>3, <2>5
<1>2. ASSUME NEW c \in Callers, EditUnindex(c) \/ EditReindex(c) \/ EditFails(c)
      PROVE  FALSE
  <2>1. PICK to \in {"reindex", "idle"} : Go(c, call[c].pc, to) /\ call[c].pc # "idle"
    BY <1>2 DEF EditUnindex, EditReindex, EditFails, Go
  <2>2. /\ \A d \in Callers \ {c} : call'[d] = call[d]
        /\ call'[c].pc = to /\ call[c].pc \in CallPc
    BY <2>1, GoesOn DEF TypeInv, TypeOK, CallRecord, CallPc
  <2> QED
    BY <2>1, <2>2, OnlyCall
<1>3. ASSUME NEW c \in Callers, BeingEdited(s, "unindex"), content' = content, index' = index
      PROVE  <<s, content'[s]>> \notin index'
  BY <1>3 DEF EditedAnew
<1>4. ASSUME NEW c \in Callers, Commit(c) \/ Send(c)
      PROVE  FALSE
  <2>1. PICK to \in {"send", "idle"} : Go(c, call[c].pc, to) /\ call[c].pc # "idle"
    BY <1>4 DEF Commit, Send, Go
  <2>2. /\ \A d \in Callers \ {c} : call'[d] = call[d]
        /\ call'[c].pc = to /\ call[c].pc \in CallPc
    BY <2>1, GoesOn DEF TypeInv, TypeOK, CallRecord, CallPc
  <2> QED
    BY <2>1, <2>2, OnlyCall
<1>5. ASSUME NEW c \in Callers, NEW op, NEW o \in Owners, Read(c, op, o)
      PROVE  FALSE
  <2>1. \A d \in Callers : call'[d].pc \in {"idle", "commit"}
    BY <1>5 DEF Read, TypeInv, TypeOK
  <2> QED
    BY <2>1 DEF BeingEdited
<1>6. ASSUME UNCHANGED <<call, content>>,
             index' = index \/ \E t \in Tasks : Runs(t)
      PROVE  <<s, content'[s]>> \notin index'
  <2>1. PICK c \in Callers : call[c].pc = "unindex" /\ call[c].on = s
    BY <1>6 DEF BeingEdited
  <2>2. <<s, content[s]>> \notin index
    BY <2>1 DEF BeingEdited, EditedAnew
  <2>3. call[c].op = "edit"
    BY <2>1 DEF TypeInv, CallShape
  <2>4. ASSUME NEW t \in Tasks, Runs(t), <<s, content[s]>> \in index'
        PROVE  FALSE
    <3>1. (Add(t) \/ AddFails(t)) /\ <<s, content[s]>> \in task[t].docs
      BY <2>2, <2>4 DEF Runs, TakeDocument, TakeDocumentFails, TakeSegment, Take, Add, Remove,
                        AddFails, RemoveFails, Unlock
    <3>2. task[t].pc = "work" /\ task[t].op = "add" /\ task[t].pc \in InHand
      BY <3>1 DEF Add, AddFails, InHand
    <3>3. task[t].on # s
      BY <2>1, <3>2, CallIsFresh
    <3>4. task[t].on # Document
      BY <2>1, <2>3, <3>2, EditIsAlone DEF Placed
    <3>5. <<s, content[s]>> \in Current({task[t].on})
      BY <3>1, <3>2, <3>4 DEF Placed, NothingStale, Subjects
    <3> QED
      BY <3>3, <3>5 DEF Current
  <2> QED
    BY <1>6, <2>2, <2>4
<1> QED
  <2>1. ASSUME NEW c \in Callers, Requests(c) PROVE <<s, content'[s]>> \notin index'
    BY <2>1, <1>1, <1>2, <1>4, <1>5 DEF Requests, Owners, SendFails
  <2>2. ASSUME NEW t \in Tasks, Runs(t) PROVE UNCHANGED <<call, content>>
    BY <2>2 DEF Runs, TakeDocument, TakeDocumentFails, TakeSegment, Take, Add, Remove, AddFails,
                RemoveFails, Unlock, callVars
  <2>3. (\E o \in Owners : Expire(o)) \/ UNCHANGED vars
          => UNCHANGED <<call, content, index>>
    BY DEF Expire, callVars, vars
  <2> QED
    BY <2>1, <2>2, <2>3, <1>6 DEF Next, Killed

LEMMA EditedAnewHolds == Spec => [](mishaps = {} => EditedAnew)
<1>1. Init => EditedAnew
  BY DEF Init, EditedAnew, BeingEdited, Idle
<1>2. /\ TypeInv /\ (Undisturbed => Serial) /\ (mishaps = {} => Placed) /\ NoneAhead
      /\ (mishaps = {} => EditedAnew) /\ [Next]_vars
      => (mishaps = {} => EditedAnew)'
  <2> SUFFICES ASSUME TypeInv, Undisturbed => Serial, mishaps = {} => Placed, NoneAhead,
                      mishaps = {} => EditedAnew, [Next]_vars, mishaps' = {}
               PROVE  EditedAnew'
    OBVIOUS
  <2>1. mishaps = {}
    BY MishapsStay
  <2> QED
    BY <2>1, EditedAnewStep DEF Undisturbed
<1> QED
  BY <1>1, <1>2, TypeInvHolds, SerialInvHolds, PlacedInvHolds, NoneAheadHolds, PTL DEF Spec

\* What retrieval finds it goes on finding, whatever requests and tasks are under
\* way: no task that comes late and no edit takes a segment's present text out of
\* the index while it is to be retrieved (remove_document_from_index_task,
\* disable_segment_from_index_task, VectorService.update_segment_vector).
THEOREM StaysRetrievableAlways == Spec => StaysRetrievable
<1>1. ASSUME TypeInv, Undisturbed => Serial, mishaps = {} => Placed,
             mishaps = {} => EditedAnew, [Next]_vars
      PROVE  \A s \in Segments :
               /\ mishaps' = {} /\ Available /\ Available' /\ s \in enabled \cap enabled'
               /\ <<s, content[s]>> \in index
               => <<s, content[s]>> \in index'
  <2> SUFFICES ASSUME NEW s \in Segments, mishaps' = {}, Available, s \in enabled,
                      <<s, content[s]>> \in index, <<s, content[s]>> \notin index'
               PROVE  FALSE
    OBVIOUS
  <2>1. Placed /\ EditedAnew
    BY <1>1, MishapsStay
  <2>2. \/ \E c \in Callers : EditUnindex(c)
        \/ \E t \in Tasks : Remove(t) \/ RemoveFails(t)
    BY <1>1 DEF Next, vars, Requests, Read, Commit, Send, SendFails, EditCommit, EditReindex,
                EditFails, Reindexed, Runs, TakeDocument, TakeDocumentFails, TakeSegment, Take,
                Add, AddFails, Unlock, Killed, Expire
  <2>3. ASSUME NEW c \in Callers, EditUnindex(c) PROVE FALSE
    <3>1. call[c].pc = "unindex" /\ index' = index \ NodesOf({call[c].on})
      BY <2>3 DEF EditUnindex, Go
    <3>2. call[c].on = s
      BY <3>1 DEF NodesOf
    <3> QED
      BY <2>1, <3>1, <3>2 DEF EditedAnew, BeingEdited
  <2>4. ASSUME NEW t \in Tasks, Remove(t) \/ RemoveFails(t) PROVE FALSE
    <3>1. /\ task[t].pc = "work" /\ task[t].op = "remove"
          /\ index' \in {index, index \ NodesOf(Subjects(task[t].on))}
      BY <2>4 DEF Remove, RemoveFails
    <3>2. Unwanted(task[t].on)
      BY <2>1, <3>1 DEF Placed, RemovesUnwanted
    <3>3. s \in Subjects(task[t].on)
      BY <3>1 DEF NodesOf
    <3> QED
      BY <3>2, <3>3 DEF Unwanted, Subjects
  <2> QED
    BY <2>2, <2>3, <2>4
<1> QED
  BY <1>1, TypeInvHolds, SerialInvHolds, PlacedInvHolds, EditedAnewHolds, PTL
     DEF Spec, StaysRetrievable
=============================================================================
