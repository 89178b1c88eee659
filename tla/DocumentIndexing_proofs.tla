---------------------- MODULE DocumentIndexing_proofs ----------------------
(***************************************************************************)
(* What DocumentIndexing guarantees for every number of requests, tasks,   *)
(* workers and parts: the types, that no document is left in progress with *)
(* nobody at work on it, that a completed one is in the index, each part   *)
(* once, and that nothing is left of a deleted one.                        *)
(***************************************************************************)
EXTENDS DocumentIndexing, FiniteSetTheorems, TLAPS

Mishaps == {"overlap", "crash", "keyword", "clean", "late delete", "orphans"}

TypeInv == TypeOK /\ \A t \in Tasks : Shape(t)

(***************************************************************************)
(* What a step of one task leaves behind                                   *)
(***************************************************************************)

\* It changes its own record only, and keeps its shape.
StepOf(t) ==
  /\ task' \in [Tasks -> TaskRecord]
  /\ \A u \in Tasks \ {t} : task'[u] = task[u]
  /\ Shape(t)'

\* It does not leave a document in progress that was its own to care for.
Keeps(t) ==
  \/ Responsible(t)'
  \/ status' = status /\ ~Responsible(t)
  \/ status' \notin InProgress \/ paused \/ flag
  \/ mishaps' \cap {"crash", "clean"} # {}

Good(t) ==
  /\ StepOf(t) /\ Keeps(t)
  /\ UNCHANGED taskVars
  /\ status' \in Status /\ retried' \in BOOLEAN
  /\ segs' \in [Segs -> SegStatus] /\ index' \subseteq Segs
  /\ mishaps \subseteq mishaps' /\ mishaps' \subseteq Mishaps

LEMMA GoodStep ==
  ASSUME TypeInv, InProgressIsCared, NEW t \in Tasks, Good(t)
  PROVE  TypeInv' /\ InProgressIsCared'
<1>1. TypeOK'
  BY DEF TypeInv, TypeOK, Good, StepOf, taskVars, Mishaps, Segs, Tasks, Parts
<1>2. ASSUME NEW u \in Tasks \ {t} PROVE Shape(u)'
  BY DEF TypeInv, Shape, Good, StepOf
<1>3. TypeInv'
  BY <1>1, <1>2 DEF TypeInv, Good, StepOf, Tasks
<1>4. InProgressIsCared'
  <2> SUFFICES ASSUME mishaps' \cap {"crash", "clean"} = {}, status' \in InProgress, ~paused', ~flag',
                      \A c \in Callers :
                        call'[c] \notin {"recoverTask", "retryTask", "updateTask", "duplicateTask"}
               PROVE  \E u \in Tasks : Responsible(u)'
    BY DEF InProgressIsCared, Tasks
  <2>1. ~paused /\ ~flag /\ call' = call /\ mishaps \cap {"crash", "clean"} = {}
    BY DEF Good, taskVars
  <2>2. CASE Responsible(t)'
    BY <2>2
  <2>3. CASE status' = status /\ ~Responsible(t)
    <3>1. PICK u \in Tasks : Responsible(u)
      BY <2>1, <2>3 DEF InProgressIsCared
    <3>2. u # t
      BY <2>3, <3>1
    <3> QED
      BY <3>1, <3>2 DEF Good, StepOf, Responsible
  <2> QED
    BY <2>1, <2>2, <2>3 DEF Good, Keeps
<1> QED
  BY <1>3, <1>4

LEMMA RecordsTyped ==
  /\ NoTask \in TaskRecord
  /\ \A kind \in Kinds : Queued(kind) \in TaskRecord
BY DEF NoTask, Queued, TaskRecord, TaskPc, Kinds

LEMMA EndedIs ==
  ASSUME TypeInv, NEW t \in Tasks
  PROVE  /\ Ended(t) \in TaskRecord /\ Ended(t).pc = "done" /\ Ended(t).kind = task[t].kind
         /\ Ended(t).docs = {} /\ Ended(t).todo = {} /\ Ended(t).checked = {}
         /\ Ended(t).loaded = {} /\ Ended(t).raised = {} /\ Ended(t).kw = "off"
BY DEF Ended, NoTask, TypeInv, TypeOK, TaskRecord, TaskPc, Kinds

LEMMA EndedStep ==
  ASSUME TypeInv, NEW t \in Tasks, task' = [task EXCEPT ![t] = Ended(t)]
  PROVE  StepOf(t) /\ task'[t].pc = "done"
BY EndedIs DEF StepOf, Shape, TypeInv, TypeOK

LEMMA EndStep ==
  ASSUME TypeInv, NEW t \in Tasks, End(t)
  PROVE  StepOf(t) /\ task'[t].pc \in {"done", "unkey"}
<1>1. CASE task[t].kind = "retry"
  <2> DEFINE r == [Ended(t) EXCEPT !.pc = "unkey"]
  <2>1. /\ r \in TaskRecord /\ r.pc = "unkey" /\ r.kind = "retry"
        /\ r.todo = {} /\ r.checked = {} /\ r.loaded = {} /\ r.raised = {} /\ r.kw = "off"
    BY <1>1, EndedIs DEF TaskRecord, TaskPc
  <2>2. task' = [task EXCEPT ![t] = r]
    BY <1>1 DEF End, TypeInv, TypeOK
  <2> HIDE DEF r
  <2> QED
    BY <2>1, <2>2 DEF StepOf, Shape, TypeInv, TypeOK
<1>2. CASE task[t].kind # "retry"
  <2>1. task' = [task EXCEPT ![t] = Ended(t)]
    BY <1>2 DEF End, TypeInv, TypeOK
  <2> QED
    BY <2>1, EndedStep
<1> QED
  BY <1>1, <1>2

LEMMA FailStep ==
  ASSUME TypeInv, NEW t \in Tasks, Fail(t)
  PROVE  StepOf(t) /\ status' \in {"error", "deleted"}
BY EndStep, EndedStep DEF Fail, SetStatus

LEMMA StopStep ==
  ASSUME TypeInv, NEW t \in Tasks, StopPaused(t)
  PROVE  /\ StepOf(t)
         /\ \/ status' \in {"error", "deleted"}
            \/ status' = status /\ task[t].kind # "retry"
BY FailStep, EndStep DEF StopPaused

\* A step to another point, with everything else of the record as it was.
LEMMA PcStep ==
  ASSUME TypeInv, NEW t \in Tasks, NEW from, NEW to \in TaskPc, Step(t, from, to)
  PROVE  /\ task' \in [Tasks -> TaskRecord] /\ task[t].pc = from
         /\ \A u \in Tasks \ {t} : task'[u] = task[u]
         /\ task'[t].pc = to /\ task'[t].kind = task[t].kind /\ task'[t].docs = task[t].docs
         /\ task'[t].todo = task[t].todo /\ task'[t].checked = task[t].checked
         /\ task'[t].loaded = task[t].loaded /\ task'[t].raised = task[t].raised
         /\ task'[t].kw = task[t].kw
BY DEF Step, TypeInv, TypeOK, TaskRecord

(***************************************************************************)
(* The tasks' actions, one by one                                          *)
(***************************************************************************)

\* Taking a task.
LEMMA TakeIsGood ==
  ASSUME TypeInv, NEW t \in Tasks,
         \/ TakeIndex(t) \/ TakeRecover(t) \/ TakeRetry(t) \/ TakeUpdate(t) \/ TakeClean(t)
         \/ Refuse(t)
  PROVE  Good(t)
<1>1. /\ task[t].pc = "queued" /\ UNCHANGED taskVars
      /\ UNCHANGED <<retried, segs, index>>
      /\ mishaps \subseteq mishaps' /\ mishaps' \subseteq Mishaps
  BY DEF TakeIndex, TakeRecover, TakeRetry, TakeUpdate, TakeClean, Refuse, Take, TypeInv, TypeOK, Mishaps
<1>2. /\ task[t].docs = {} /\ task[t].todo = {} /\ task[t].checked = {}
      /\ task[t].loaded = {} /\ task[t].raised = {} /\ task[t].kw \notin {"run", "created"}
  BY <1>1 DEF TypeInv, Shape
<1>3. retried' \in BOOLEAN /\ segs' \in [Segs -> SegStatus] /\ index' \subseteq Segs
  BY <1>1 DEF TypeInv, TypeOK
<1>4. ASSUME NEW pc \in {"extract", "wipe", "reload", "clean"},
             task' = [task EXCEPT ![t] = [task[t] EXCEPT !.pc = pc]],
             task[t].kind = "clean" => pc = "clean"
      PROVE  StepOf(t) /\ (task[t].kind # "clean" => Responsible(t)')
  <2>1. /\ task' \in [Tasks -> TaskRecord] /\ task'[t].pc = pc /\ task'[t].kind = task[t].kind
        /\ \A u \in Tasks \ {t} : task'[u] = task[u]
        /\ task'[t].docs = {} /\ task'[t].todo = {} /\ task'[t].checked = {}
        /\ task'[t].loaded = {} /\ task'[t].raised = {} /\ task'[t].kw = task[t].kw
    <3> DEFINE r == [task[t] EXCEPT !.pc = pc]
    <3>1. task \in [Tasks -> TaskRecord] /\ task[t] \in TaskRecord /\ pc \in TaskPc
      BY DEF TypeInv, TypeOK, TaskPc
    <3>2. /\ r \in TaskRecord /\ r.pc = pc /\ r.kind = task[t].kind /\ r.docs = task[t].docs
          /\ r.todo = task[t].todo /\ r.checked = task[t].checked
          /\ r.loaded = task[t].loaded /\ r.raised = task[t].raised /\ r.kw = task[t].kw
      BY <3>1 DEF TaskRecord
    <3> HIDE DEF r
    <3>3. task' = [task EXCEPT ![t] = r]
      BY <1>4 DEF r
    <3> QED
      BY <1>2, <3>1, <3>2, <3>3
  <2>2. Shape(t)'
    BY <1>2, <1>4, <2>1 DEF Shape
  <2>3. StepOf(t)
    BY <2>1, <2>2 DEF StepOf
  <2>4. task[t].kind # "clean" => Responsible(t)'
    BY <1>4, <2>1 DEF Responsible
  <2> QED
    BY <2>3, <2>4
<1>5. CASE TakeIndex(t) \/ TakeUpdate(t)
  <2>1. status' = (IF Exists THEN "parsing" ELSE "deleted")
    BY <1>5 DEF TakeIndex, TakeUpdate, SetStatus
  <2>2. CASE Exists
    <3>1. PICK pc \in {"extract", "clean"} : task' = [task EXCEPT ![t] = [task[t] EXCEPT !.pc = pc]]
      BY <1>5, <2>2 DEF TakeIndex, TakeUpdate, TypeInv, TypeOK
    <3>2. task[t].kind # "clean"
      BY <1>5 DEF TakeIndex, TakeUpdate
    <3> QED
      BY <1>1, <1>3, <1>4, <2>1, <2>2, <3>1, <3>2 DEF Good, Keeps, Status, InProgress
  <2>3. CASE ~Exists
    <3>1. task' = [task EXCEPT ![t] = Ended(t)]
      BY <1>5, <2>3 DEF TakeIndex, TakeUpdate, TypeInv, TypeOK
    <3> QED
      BY <1>1, <1>3, <2>1, <2>3, <3>1, EndedStep DEF Good, Keeps, Status, InProgress
  <2> QED
    BY <2>2, <2>3
<1>6. CASE TakeRecover(t)
  <2>1. status' = status /\ status \in Status /\ task[t].kind # "clean"
    BY <1>6 DEF TakeRecover, TypeInv, TypeOK
  <2>2. CASE status \in InProgress
    <3>1. PICK pc \in {"extract", "wipe", "reload"} :
            task' = [task EXCEPT ![t] = [task[t] EXCEPT !.pc = pc]]
      BY <1>6, <2>2 DEF TakeRecover, InProgress, TypeInv, TypeOK
    <3> QED
      BY <1>1, <1>3, <1>4, <2>1, <3>1 DEF Good, Keeps
  <2>3. CASE status \notin InProgress
    <3>1. task' = [task EXCEPT ![t] = Ended(t)]
      BY <1>6, <2>3 DEF TakeRecover, InProgress, TypeInv, TypeOK
    <3> QED
      BY <1>1, <1>3, <2>1, <2>3, <3>1, EndedStep DEF Good, Keeps
  <2> QED
    BY <2>2, <2>3
<1>7. CASE TakeRetry(t)
  <2>1. status' = status /\ status \in Status /\ task[t].kind # "clean"
    BY <1>7 DEF TakeRetry, TypeInv, TypeOK
  <2>2. CASE Exists
    <3>1. task' = [task EXCEPT ![t] = [task[t] EXCEPT !.pc = "clean"]]
      BY <1>7, <2>2 DEF TakeRetry, TypeInv, TypeOK
    <3> QED
      BY <1>1, <1>3, <1>4, <2>1, <3>1 DEF Good, Keeps
  <2>3. CASE ~Exists
    <3>1. task' = [task EXCEPT ![t] = Ended(t)]
      BY <1>7, <2>3 DEF TakeRetry, TypeInv, TypeOK
    <3> QED
      BY <1>1, <1>3, <2>1, <2>3, <3>1, EndedStep DEF Good, Keeps, Exists, InProgress
  <2> QED
    BY <2>2, <2>3
<1>8. CASE TakeClean(t)
  <2>1. task' = [task EXCEPT ![t] = [task[t] EXCEPT !.pc = "clean"]] /\ task[t].kind = "clean"
    BY <1>8 DEF TakeClean, TypeInv, TypeOK
  <2>2. status' = status /\ status \in Status
    BY <1>8 DEF TakeClean, TypeInv, TypeOK
  <2> QED
    BY <1>1, <1>3, <1>4, <2>1, <2>2 DEF Good, Keeps, Responsible
<1>9. CASE Refuse(t)
  <2>1. status' \in {"error", "deleted"} /\ StepOf(t)
    BY <1>9, EndStep DEF Refuse, SetStatus
  <2> QED
    BY <1>1, <1>3, <2>1 DEF Good, Keeps, Status, InProgress
<1> QED
  BY <1>5, <1>6, <1>7, <1>8, <1>9

\* Cleaning up after the segments of before.
LEMMA CleanIsGood ==
  ASSUME TypeInv, NEW t \in Tasks, Clean(t) \/ Drop(t) \/ CleanFails(t)
  PROVE  Good(t)
<1>1. /\ UNCHANGED <<taskVars, retried>> /\ mishaps \subseteq mishaps' /\ mishaps' \subseteq Mishaps
  BY DEF Clean, Drop, CleanFails, TypeInv, TypeOK, Mishaps
<1>2. retried' \in BOOLEAN /\ segs' \in [Segs -> SegStatus] /\ index' \subseteq Segs
  BY DEF Clean, Drop, CleanFails, TypeInv, TypeOK, SegStatus
<1>3. task[t].pc \in {"clean", "drop"} /\ task[t].raised = {}
      /\ task[t].kw \notin {"run", "created"}
      /\ task[t].todo = {} /\ task[t].checked = {} /\ task[t].loaded = {}
  BY DEF Clean, Drop, CleanFails, TypeInv, Shape
<1>4. CASE Clean(t)
  <2>1. /\ task' \in [Tasks -> TaskRecord]
        /\ \A u \in Tasks \ {t} : task'[u] = task[u]
        /\ task'[t].pc = "drop" /\ task'[t].kind = task[t].kind /\ task'[t].raised = {}
        /\ task'[t].kw = task[t].kw
        /\ task'[t].todo = {} /\ task'[t].checked = {} /\ task'[t].loaded = {}
    <3>1. Stored \in SUBSET Segs /\ task' = [task EXCEPT ![t].pc = "drop", ![t].docs = Stored]
      BY <1>4 DEF Clean, Stored
    <3>2. task[t] \in TaskRecord
      BY DEF TypeInv, TypeOK
    <3>3. [task[t] EXCEPT !.pc = "drop", !.docs = Stored] \in TaskRecord
      BY <3>1, <3>2 DEF TaskRecord, TaskPc
    <3>4. task' = [task EXCEPT ![t] = [task[t] EXCEPT !.pc = "drop", !.docs = Stored]]
      BY <3>1 DEF TypeInv, TypeOK
    <3> QED
      BY <1>3, <3>2, <3>3, <3>4 DEF TypeInv, TypeOK, TaskRecord
  <2>2. status' = status /\ status \in Status
    BY <1>4 DEF Clean, TypeInv, TypeOK
  <2> QED
    BY <1>1, <1>2, <1>3, <2>1, <2>2 DEF Good, Keeps, Responsible, StepOf, Shape
<1>5. CASE Drop(t)
  <2>1. status' = status /\ status \in Status
    BY <1>5 DEF Drop, TypeInv, TypeOK
  <2>2. CASE task[t].kind = "clean"
    <3>1. task' = [task EXCEPT ![t] = Ended(t)]
      BY <1>5, <2>2 DEF Drop, TypeInv, TypeOK
    <3> QED
      BY <1>1, <1>2, <2>1, <2>2, <3>1, EndedStep DEF Good, Keeps, Responsible
  <2>3. CASE task[t].kind # "clean"
    <3>1. PICK pc \in {"extract", "parse"} :
            task' = [task EXCEPT ![t] = [task[t] EXCEPT !.pc = pc, !.docs = {}]]
      BY <1>5, <2>3 DEF Drop, TypeInv, TypeOK
    <3>2. /\ task' \in [Tasks -> TaskRecord]
          /\ \A u \in Tasks \ {t} : task'[u] = task[u]
          /\ task'[t].pc = pc /\ task'[t].kind = task[t].kind /\ task'[t].raised = {}
          /\ task'[t].docs = {} /\ task'[t].kw = task[t].kw
          /\ task'[t].todo = {} /\ task'[t].checked = {} /\ task'[t].loaded = {}
      <4>1. task[t] \in TaskRecord
        BY DEF TypeInv, TypeOK
      <4>2. [task[t] EXCEPT !.pc = pc, !.docs = {}] \in TaskRecord
        BY <4>1 DEF TaskRecord, TaskPc
      <4> QED
        BY <1>3, <3>1, <4>1, <4>2 DEF TypeInv, TypeOK, TaskRecord
    <3> QED
      BY <1>1, <1>2, <1>3, <2>1, <2>3, <3>2 DEF Good, Keeps, Responsible, StepOf, Shape
  <2> QED
    BY <2>2, <2>3
<1>6. CASE CleanFails(t)
  <2>1. "clean" \in mishaps'
    BY <1>6 DEF CleanFails
  <2>2. CASE task[t].kind = "retry"
    <3>1. StepOf(t) /\ status' \in {"error", "deleted"}
      BY <1>6, <2>2, FailStep DEF CleanFails
    <3> QED
      BY <1>1, <1>2, <2>1, <3>1 DEF Good, Keeps, Status
  <2>3. CASE task[t].kind = "update"
    <3>1. Step(t, "clean", "extract") /\ status' = status /\ status \in Status
      BY <1>6, <2>3 DEF CleanFails, Step, TypeInv, TypeOK
    <3>2. StepOf(t)
      BY <1>3, <2>3, <3>1, PcStep DEF StepOf, Shape, TypeInv, TaskPc
    <3> QED
      BY <1>1, <1>2, <2>1, <3>1, <3>2 DEF Good, Keeps
  <2>4. CASE task[t].kind \notin {"retry", "update"}
    <3>1. task' = [task EXCEPT ![t] = Ended(t)] /\ status' = status /\ status \in Status
      BY <1>6, <2>4 DEF CleanFails, TypeInv, TypeOK
    <3> QED
      BY <1>1, <1>2, <2>1, <3>1, EndedStep DEF Good, Keeps
  <2> QED
    BY <2>2, <2>3, <2>4
<1> QED
  BY <1>4, <1>5, <1>6

\* From one point of the runner to another.
LEMMA MovesOn ==
  ASSUME TypeInv, NEW t \in Tasks,
         NEW from \in {"parse", "wipe", "extract", "split", "mark", "marked", "markSegs"},
         NEW to \in {"extract", "split", "add", "marked", "markSegs", "load"},
         to \in {"extract", "split", "add"} => from \in {"parse", "wipe", "extract", "split"},
         Step(t, from, to)
  PROVE  StepOf(t) /\ Responsible(t)'
<1>1. /\ task' \in [Tasks -> TaskRecord] /\ task[t].pc = from
      /\ \A u \in Tasks \ {t} : task'[u] = task[u]
      /\ task'[t].pc = to /\ task'[t].kind = task[t].kind /\ task'[t].docs = task[t].docs
      /\ task'[t].todo = task[t].todo /\ task'[t].checked = task[t].checked
      /\ task'[t].loaded = task[t].loaded /\ task'[t].raised = task[t].raised
      /\ task'[t].kw = task[t].kw
  <2>1. to \in TaskPc
    BY DEF TaskPc
  <2> QED
    BY <2>1, PcStep
<1>2. task[t].kind # "clean" /\ task[t].todo = {} /\ task[t].checked = {} /\ task[t].loaded = {}
      /\ task[t].raised = {} /\ task[t].kw \notin {"run", "created"}
  BY <1>1 DEF TypeInv, Shape
<1>3. to \in {"extract", "split", "add"} => task[t].docs = {}
  BY <1>1 DEF TypeInv, Shape
<1>4. to = "add" => \E k \in 0..(NParts - 1) : task'[t].docs = {t} \X (1..k)
  <2>1. 0 \in 0..(NParts - 1) /\ {t} \X (1..0) = {}
    BY DocumentIndexingAssumption
  <2> QED
    BY <1>1, <1>3, <2>1
<1> QED
  BY <1>1, <1>2, <1>3, <1>4 DEF StepOf, Shape, Responsible

\* Splitting the document and marking its segments.
LEMMA SplitIsGood ==
  ASSUME TypeInv, NEW t \in Tasks,
         \/ Parse(t) \/ Wipe(t) \/ Extract(t) \/ SetSplitting(t) \/ Mark(t) \/ SetIndexing(t)
         \/ MarkSegments(t)
  PROVE  Good(t)
<1>1. /\ UNCHANGED <<taskVars, retried, index>>
      /\ mishaps \subseteq mishaps' /\ mishaps' \subseteq Mishaps
  BY DEF Parse, Wipe, Extract, SetSplitting, Mark, SetIndexing, MarkSegments, CheckRow, UpdateRow,
         TypeInv, TypeOK, Mishaps
<1>2. /\ retried' \in BOOLEAN /\ segs' \in [Segs -> SegStatus] /\ index' \subseteq Segs
      /\ mishaps \subseteq mishaps' /\ mishaps' \subseteq Mishaps
  <2>1. segs' \in [Segs -> SegStatus]
    BY DEF Parse, Wipe, Extract, SetSplitting, Mark, SetIndexing, MarkSegments, CheckRow,
           UpdateRow, TypeInv, TypeOK, SegStatus
  <2> QED
    BY <1>1, <2>1 DEF TypeInv, TypeOK
<1>3. ASSUME NEW from, NEW to, Step(t, from, to), status' \in Status,
             <<from, to>> \in {<<"parse", "extract">>, <<"wipe", "extract">>, <<"extract", "split">>,
                               <<"split", "add">>, <<"mark", "marked">>, <<"marked", "markSegs">>,
                               <<"markSegs", "load">>}
      PROVE  Good(t)
  <2>1. StepOf(t) /\ Responsible(t)'
    BY <1>3, MovesOn
  <2> QED
    BY <1>1, <1>2, <1>3, <2>1 DEF Good, Keeps
<1>4. CASE Parse(t)
  BY <1>3, <1>4 DEF Parse, SetStatus, Status, InProgress
<1>5. CASE Wipe(t)
  BY <1>3, <1>5 DEF Wipe, TypeInv, TypeOK
<1>6. CASE SetSplitting(t) \/ SetIndexing(t) \/ MarkSegments(t)
  <2>1. CASE Fail(t)
    <3>1. StepOf(t) /\ status' \in {"error", "deleted"}
      BY <2>1, FailStep
    <3> QED
      BY <1>1, <1>2, <3>1 DEF Good, Keeps, Status, InProgress
  <2>2. CASE ~Fail(t)
    BY <1>3, <1>6, <2>2
       DEF SetSplitting, SetIndexing, UpdateRow, MarkSegments, Status, InProgress, TypeInv, TypeOK
  <2> QED
    BY <2>1, <2>2
<1>7. CASE Extract(t) \/ Mark(t)
  <2>1. CASE paused
    <3>0. StopPaused(t)
      BY <1>7, <2>1 DEF Extract, Mark, CheckRow
    <3>1. StepOf(t) /\ status' \in Status
      BY <3>0, StopStep DEF TypeInv, TypeOK, Status
    <3> QED
      BY <1>1, <1>2, <2>1, <3>1 DEF Good, Keeps
  <2>2. CASE ~paused /\ ~Exists
    <3>1. StepOf(t) /\ status' \in {"error", "deleted"}
      BY <1>7, <2>2, FailStep DEF Extract, Mark, CheckRow
    <3> QED
      BY <1>1, <1>2, <3>1 DEF Good, Keeps, Status, InProgress
  <2>3. CASE ~paused /\ Exists
    BY <1>3, <1>7, <2>3 DEF Extract, Mark, CheckRow, TypeInv, TypeOK
  <2> QED
    BY <2>1, <2>2, <2>3
<1> QED
  BY <1>4, <1>5, <1>6, <1>7

\* The first k segments of a splitting.
LEMMA FirstParts ==
  ASSUME NEW t, NEW k \in Nat
  PROVE  Cardinality({t} \X (1..k)) = k
<1> DEFINE S == {t}
           T == 1..k
<1>1. IsFiniteSet(S) /\ Cardinality(S) = 1
  BY FS_Singleton
<1>2. IsFiniteSet(T) /\ Cardinality(T) = k
  BY FS_Interval
<1> HIDE DEF S, T
<1>3. Cardinality(S \X T) = Cardinality(S) * Cardinality(T)
  BY <1>1, <1>2, FS_Product
<1>4. Cardinality(S \X T) = k
  BY <1>1, <1>2, <1>3
<1> QED
  BY <1>4 DEF S, T

\* The segments of one splitting are added one by one.
LEMMA AddIsGood ==
  ASSUME TypeInv, NEW t \in Tasks, AddSegment(t)
  PROVE  Good(t)
<1>1. PICK k \in 0..(NParts - 1) : task[t].docs = {t} \X (1..k)
  BY DEF AddSegment, TypeInv, Shape
<1>2. Cardinality(task[t].docs) = k
  <2>1. k \in Nat
    BY <1>1
  <2>2. Cardinality({t} \X (1..k)) = k
    BY <2>1, FirstParts
  <2> QED
    BY <1>1, <2>2
<1> DEFINE pc == IF k + 1 = NParts THEN "mark" ELSE "add"
           docs == task[t].docs \cup {<<t, k + 1>>}
<1>3. /\ segs' = [segs EXCEPT ![<<t, k + 1>>] = "waiting"]
      /\ task' = [task EXCEPT ![t].docs = docs, ![t].pc = pc]
      /\ task[t].pc = "add" /\ status' = status
      /\ UNCHANGED <<taskVars, retried, index, mishaps>>
  BY <1>2 DEF AddSegment, TypeInv, TypeOK
<1>4. docs = {t} \X (1..(k + 1)) /\ docs \subseteq Segs
  <2>1. 1..(k + 1) = (1..k) \cup {k + 1} /\ 1..(k + 1) \subseteq Parts
    BY DocumentIndexingAssumption DEF Parts
  <2> QED
    BY <1>1, <2>1 DEF Segs
<1>5. pc \in {"mark", "add"} /\ (pc = "add" => k + 1 \in 0..(NParts - 1))
  BY DocumentIndexingAssumption
<1> HIDE DEF pc, docs
<1>6. /\ task[t].kind # "clean" /\ task[t].todo = {} /\ task[t].checked = {}
      /\ task[t].loaded = {} /\ task[t].raised = {} /\ task[t].kw \notin {"run", "created"}
  BY <1>3 DEF TypeInv, Shape
<1>7. [task[t] EXCEPT !.docs = docs, !.pc = pc] \in TaskRecord /\ task[t] \in TaskRecord
  <2>1. task[t] \in TaskRecord
    BY DEF TypeInv, TypeOK
  <2>2. pc \in TaskPc /\ docs \in SUBSET Segs
    BY <1>4, <1>5 DEF TaskPc
  <2> QED
    BY <2>1, <2>2 DEF TaskRecord
<1>8. task' = [task EXCEPT ![t] = [task[t] EXCEPT !.docs = docs, !.pc = pc]]
  BY <1>3 DEF TypeInv, TypeOK
<1>9. /\ task' \in [Tasks -> TaskRecord] /\ \A u \in Tasks \ {t} : task'[u] = task[u]
      /\ task'[t].pc = pc /\ task'[t].docs = docs /\ task'[t].kind = task[t].kind
      /\ task'[t].todo = {} /\ task'[t].checked = {} /\ task'[t].loaded = {} /\ task'[t].raised = {}
      /\ task'[t].kw = task[t].kw
  BY <1>6, <1>7, <1>8 DEF TypeInv, TypeOK, TaskRecord
<1>10. StepOf(t) /\ Responsible(t)'
  BY <1>4, <1>5, <1>6, <1>9 DEF StepOf, Shape, Responsible
<1>11. segs' \in [Segs -> SegStatus]
  BY <1>3 DEF TypeInv, TypeOK, SegStatus
<1> QED
  BY <1>3, <1>10, <1>11 DEF Good, Keeps, TypeInv, TypeOK, Mishaps

\* A step of the loading: the record changes in these fields only.
Loads(t, r) ==
  /\ task' = [task EXCEPT ![t] = r]
  /\ r \in TaskRecord /\ r.kind = task[t].kind /\ r.docs = task[t].docs

LEMMA LoadsStep ==
  ASSUME TypeInv, NEW t \in Tasks, NEW r, Loads(t, r),
         task[t].pc \in {"load", "loading"}, r.pc = "loading"
  PROVE  /\ StepOf(t)
         /\ r.raised \subseteq task[t].raised \cup {"failed"}
              => Responsible(t)' \/ ~Responsible(t)
<1>1. /\ task' \in [Tasks -> TaskRecord] /\ \A u \in Tasks \ {t} : task'[u] = task[u]
      /\ task'[t] = r
  BY DEF Loads, TypeInv, TypeOK
<1>2. task[t].kind # "clean"
  BY DEF TypeInv, Shape
<1>3. StepOf(t)
  BY <1>1, <1>2 DEF Loads, StepOf, Shape
<1>4. r.raised \subseteq task[t].raised \cup {"failed"} => Responsible(t)' \/ ~Responsible(t)
  BY <1>1, <1>2 DEF Loads, Responsible
<1> QED
  BY <1>3, <1>4

\* Chunk and keyword threads run while the task is loading.
LEMMA ThreadsLoading ==
  ASSUME TypeInv, NEW t \in Tasks,
         \/ task[t].todo # {} \/ task[t].checked # {} \/ task[t].loaded # {}
         \/ task[t].kw \in {"run", "created"}
  PROVE  task[t].pc = "loading"
BY DEF TypeInv, Shape

LEMMA LoadIsGood ==
  ASSUME TypeInv, NEW t \in Tasks,
         \/ Load(t)
         \/ \E s \in Segs : \/ ChunkChecks(t, s) \/ ChunkIndexes(t, s)
                            \/ ChunkFails(t, s) \/ ChunkCompletes(t, s)
  PROVE  Good(t)
<1>1. UNCHANGED <<taskVars, status, retried, mishaps>>
  BY DEF Load, ChunkChecks, ChunkIndexes, ChunkFails, ChunkCompletes
<1>2. task[t] \in TaskRecord
  BY DEF TypeInv, TypeOK
<1>3. segs' \in [Segs -> SegStatus] /\ index' \subseteq Segs
  BY DEF Load, ChunkChecks, ChunkIndexes, ChunkFails, ChunkCompletes, CompleteRows,
         TypeInv, TypeOK, SegStatus
<1>4. ASSUME NEW r, Loads(t, r), task[t].pc \in {"load", "loading"}, r.pc = "loading",
             r.raised \subseteq task[t].raised \cup {"failed"} \/ flag
      PROVE  Good(t)
  <2>1. StepOf(t) /\ Keeps(t)
    BY <1>1, <1>4, LoadsStep DEF Keeps
  <2> QED
    BY <1>1, <1>3, <2>1 DEF Good, TypeInv, TypeOK, Mishaps
<1>5. CASE Load(t)
  <2> DEFINE todo == IF technique = "high_quality" THEN task[t].docs ELSE {}
             r == [task[t] EXCEPT !.pc = "loading", !.kw = "run", !.todo = todo]
  <2>1. todo \in SUBSET Segs
    BY <1>2 DEF TaskRecord
  <2>2. task[t].pc = "load" /\ task' = [task EXCEPT ![t] = r]
    BY <1>5 DEF Load, TypeInv, TypeOK
  <2> HIDE DEF todo
  <2>3. /\ r \in TaskRecord /\ r.kind = task[t].kind /\ r.docs = task[t].docs /\ r.pc = "loading"
        /\ r.raised = task[t].raised
    BY <1>2, <2>1 DEF TaskRecord, TaskPc
  <2> QED
    BY <1>4, <2>2, <2>3 DEF Loads
<1>6. ASSUME NEW s \in Segs, ChunkChecks(t, s) PROVE Good(t)
  <2>1. task[t].pc = "loading"
    BY <1>6, ThreadsLoading DEF ChunkChecks
  <2>2. CASE flag
    <3> DEFINE r == [task[t] EXCEPT !.todo = @ \ {s}, !.raised = @ \cup {"paused"}]
    <3>1. task' = [task EXCEPT ![t] = r]
      BY <1>6, <2>2 DEF ChunkChecks, TypeInv, TypeOK
    <3>2. r \in TaskRecord /\ r.kind = task[t].kind /\ r.docs = task[t].docs /\ r.pc = "loading"
      BY <1>2, <2>1 DEF TaskRecord
    <3> HIDE DEF r
    <3> QED
      BY <1>4, <2>1, <2>2, <3>1, <3>2 DEF Loads
  <2>3. CASE ~flag
    <3> DEFINE r == [task[t] EXCEPT !.todo = @ \ {s}, !.checked = @ \cup {s}]
    <3>1. task' = [task EXCEPT ![t] = r]
      BY <1>6, <2>3 DEF ChunkChecks, TypeInv, TypeOK
    <3>2. /\ r \in TaskRecord /\ r.kind = task[t].kind /\ r.docs = task[t].docs
          /\ r.pc = "loading" /\ r.raised = task[t].raised
      BY <1>2, <2>1 DEF TaskRecord
    <3> HIDE DEF r
    <3> QED
      BY <1>4, <2>1, <3>1, <3>2 DEF Loads
  <2> QED
    BY <2>2, <2>3
<1>7. ASSUME NEW s \in Segs, ChunkIndexes(t, s) PROVE Good(t)
  <2> DEFINE r == [task[t] EXCEPT !.checked = @ \ {s}, !.loaded = @ \cup {s}]
  <2>1. task[t].pc = "loading" /\ task' = [task EXCEPT ![t] = r]
    BY <1>7, ThreadsLoading DEF ChunkIndexes, TypeInv, TypeOK
  <2>2. /\ r \in TaskRecord /\ r.kind = task[t].kind /\ r.docs = task[t].docs
        /\ r.pc = "loading" /\ r.raised = task[t].raised
    BY <1>2, <2>1 DEF TaskRecord
  <2> HIDE DEF r
  <2> QED
    BY <1>4, <2>1, <2>2 DEF Loads
<1>8. ASSUME NEW s \in Segs, ChunkFails(t, s) PROVE Good(t)
  <2> DEFINE r == [task[t] EXCEPT !.checked = @ \ {s}, !.raised = @ \cup {"failed"}]
  <2>1. task[t].pc = "loading" /\ task' = [task EXCEPT ![t] = r]
    BY <1>8, ThreadsLoading DEF ChunkFails, TypeInv, TypeOK
  <2>2. /\ r \in TaskRecord /\ r.kind = task[t].kind /\ r.docs = task[t].docs
        /\ r.pc = "loading" /\ r.raised = task[t].raised \cup {"failed"}
    BY <1>2, <2>1 DEF TaskRecord
  <2> HIDE DEF r
  <2> QED
    BY <1>4, <2>1, <2>2 DEF Loads
<1>9. ASSUME NEW s \in Segs, ChunkCompletes(t, s) PROVE Good(t)
  <2> DEFINE r == [task[t] EXCEPT !.loaded = @ \ {s}]
  <2>1. task[t].pc = "loading" /\ task' = [task EXCEPT ![t] = r]
    BY <1>9, ThreadsLoading DEF ChunkCompletes, TypeInv, TypeOK
  <2>2. /\ r \in TaskRecord /\ r.kind = task[t].kind /\ r.docs = task[t].docs
        /\ r.pc = "loading" /\ r.raised = task[t].raised
    BY <1>2, <2>1 DEF TaskRecord
  <2> HIDE DEF r
  <2> QED
    BY <1>4, <2>1, <2>2 DEF Loads
<1> QED
  BY <1>5, <1>6, <1>7, <1>8, <1>9

\* The keyword thread; it changes nothing else of the record.
LEMMA KeywordIsGood ==
  ASSUME TypeInv, NEW t \in Tasks, KeywordCreates(t) \/ KeywordCompletes(t) \/ KeywordFails(t)
  PROVE  Good(t)
<1>1. UNCHANGED <<taskVars, status, retried>> /\ mishaps \subseteq mishaps' /\ mishaps' \subseteq Mishaps
  BY DEF KeywordCreates, KeywordCompletes, KeywordFails, TypeInv, TypeOK, Mishaps
<1>2. task[t] \in TaskRecord
  BY DEF TypeInv, TypeOK
<1>3. segs' \in [Segs -> SegStatus] /\ index' \subseteq Segs
  BY <1>2 DEF KeywordCreates, KeywordCompletes, KeywordFails, CompleteRows,
              TypeInv, TypeOK, SegStatus, TaskRecord
<1>4. PICK kw \in {"created", "ended"} : task' = [task EXCEPT ![t] = [task[t] EXCEPT !.kw = kw]]
  BY DEF KeywordCreates, KeywordCompletes, KeywordFails, TypeInv, TypeOK
<1>5. [task[t] EXCEPT !.kw = kw] \in TaskRecord
  BY <1>2 DEF TaskRecord
<1>6. /\ task' \in [Tasks -> TaskRecord] /\ \A u \in Tasks \ {t} : task'[u] = task[u]
      /\ task'[t].pc = task[t].pc /\ task'[t].kind = task[t].kind
      /\ task'[t].docs = task[t].docs /\ task'[t].todo = task[t].todo
      /\ task'[t].checked = task[t].checked /\ task'[t].loaded = task[t].loaded
      /\ task'[t].raised = task[t].raised
  BY <1>2, <1>4, <1>5 DEF TypeInv, TypeOK, TaskRecord
<1>7. StepOf(t)
  <2>1. task[t].pc = "loading"
    BY ThreadsLoading DEF KeywordCreates, KeywordCompletes, KeywordFails
  <2> QED
    BY <1>6, <2>1 DEF StepOf, TypeInv, Shape
<1>8. Keeps(t)
  BY <1>1, <1>6 DEF Keeps, Responsible
<1> QED
  BY <1>1, <1>3, <1>7, <1>8 DEF Good, TypeInv, TypeOK

\* The ways a task ends, or comes to its end.
LEMMA EndIsGood ==
  ASSUME TypeInv, NEW t \in Tasks,
         \/ Reload(t) \/ RunnerFails(t) \/ LoadEnds(t) \/ Finish(t) \/ SetCompleted(t)
         \/ DeleteRetryKey(t) \/ Crash(t)
  PROVE  Good(t)
<1>1. /\ UNCHANGED <<taskVars, segs, index>> /\ mishaps \subseteq mishaps' /\ mishaps' \subseteq Mishaps
      /\ retried' \in BOOLEAN
  BY DEF Reload, RunnerFails, LoadEnds, Finish, CheckRow, SetCompleted, DeleteRetryKey, Crash,
         TypeInv, TypeOK, Mishaps
<1>2. segs' \in [Segs -> SegStatus] /\ index' \subseteq Segs /\ status \in Status
  BY <1>1 DEF TypeInv, TypeOK
<1>3. ASSUME Fail(t) PROVE Good(t)
  <2>1. StepOf(t) /\ status' \in {"error", "deleted"}
    BY <1>3, FailStep
  <2> QED
    BY <1>1, <1>2, <2>1 DEF Good, Keeps, Status, InProgress
<1>4. ASSUME Step(t, "loading", "finish") \/ Step(t, "finish", "complete"), status' = status,
             task[t].raised = {}, task[t].todo = {}, task[t].checked = {}, task[t].loaded = {},
             task[t].kw \notin {"run", "created"}
      PROVE  Good(t)
  <2>1. /\ task' \in [Tasks -> TaskRecord] /\ task[t].pc \in {"loading", "finish"}
        /\ \A u \in Tasks \ {t} : task'[u] = task[u]
        /\ task'[t].pc \in {"finish", "complete"} /\ task'[t].kind = task[t].kind
        /\ task'[t].todo = {} /\ task'[t].checked = {}
        /\ task'[t].loaded = {} /\ task'[t].raised = {} /\ task'[t].kw = task[t].kw
    BY <1>4, PcStep DEF TaskPc
  <2>2. task[t].kind # "clean"
    BY <2>1 DEF TypeInv, Shape
  <2>3. StepOf(t) /\ Responsible(t)'
    BY <1>4, <2>1, <2>2 DEF StepOf, Shape, Responsible
  <2> QED
    BY <1>1, <1>2, <1>4, <2>3 DEF Good, Keeps
<1>5. CASE Reload(t)
  <2> DEFINE docs == {s \in Stored : segs[s] # "completed"}
             r == [task[t] EXCEPT !.pc = "load", !.docs = docs]
  <2>1. task[t] \in TaskRecord /\ docs \in SUBSET Segs /\ task' = [task EXCEPT ![t] = r]
    BY <1>5 DEF Reload, TypeInv, TypeOK, Stored
  <2> HIDE DEF docs
  <2>2. /\ r \in TaskRecord /\ r.pc = "load" /\ r.kind = task[t].kind /\ r.todo = task[t].todo
        /\ r.checked = task[t].checked /\ r.loaded = task[t].loaded /\ r.raised = task[t].raised
        /\ r.kw = task[t].kw
    BY <2>1 DEF TaskRecord, TaskPc
  <2> HIDE DEF r
  <2>3. /\ task[t].pc = "reload" /\ task[t].kind # "clean" /\ task[t].todo = {}
        /\ task[t].checked = {} /\ task[t].loaded = {} /\ task[t].raised = {}
        /\ task[t].kw \notin {"run", "created"}
    BY <1>5 DEF Reload, TypeInv, Shape
  <2>4. task' \in [Tasks -> TaskRecord] /\ task'[t] = r /\ \A u \in Tasks \ {t} : task'[u] = task[u]
    BY <2>1, <2>2 DEF TypeInv, TypeOK
  <2>5. StepOf(t) /\ Responsible(t)'
    BY <2>2, <2>3, <2>4 DEF StepOf, Shape, Responsible
  <2>6. status' = status
    BY <1>5 DEF Reload
  <2> QED
    BY <1>1, <1>2, <2>5, <2>6 DEF Good, Keeps
<1>6. CASE RunnerFails(t)
  BY <1>3, <1>6 DEF RunnerFails
<1>7. CASE LoadEnds(t)
  <2>1. CASE "paused" \in task[t].raised /\ StopPaused(t)
    <3>1. /\ StepOf(t)
          /\ status' \in {"error", "deleted"} \/ (status' = status /\ task[t].kind # "retry")
      BY <2>1, StopStep
    <3> QED
      BY <1>1, <1>2, <2>1, <3>1 DEF Good, Keeps, Responsible, Status, InProgress
  <2>2. CASE Fail(t)
    BY <1>3, <2>2
  <2>3. CASE task[t].raised = {} /\ Step(t, "loading", "finish") /\ status' = status
    <3>1. task[t].kw = "ended"
      BY <1>7, <2>3 DEF LoadEnds
    <3> QED
      BY <1>4, <1>7, <2>3, <3>1 DEF LoadEnds, ChunksEnded
  <2> QED
    BY <1>7, <2>1, <2>2, <2>3 DEF LoadEnds
<1>8. CASE Finish(t)
  <2>1. CASE paused
    <3>1. StopPaused(t)
      BY <1>8, <2>1 DEF Finish, CheckRow
    <3>2. StepOf(t) /\ status' \in Status
      BY <1>2, <3>1, StopStep DEF Status
    <3> QED
      BY <1>1, <1>2, <2>1, <3>2 DEF Good, Keeps
  <2>2. CASE ~paused /\ ~Exists
    BY <1>3, <1>8, <2>2 DEF Finish, CheckRow
  <2>3. CASE ~paused /\ Exists
    <3>1. task[t].pc = "finish" /\ Step(t, "finish", "complete") /\ status' = status
      BY <1>8, <2>3 DEF Finish, CheckRow
    <3>2. /\ task[t].raised = {} /\ task[t].todo = {} /\ task[t].checked = {} /\ task[t].loaded = {}
          /\ task[t].kw \notin {"run", "created"}
      BY <3>1 DEF TypeInv, Shape
    <3> QED
      BY <1>4, <3>1, <3>2
  <2> QED
    BY <2>1, <2>2, <2>3
<1>9. CASE SetCompleted(t)
  <2>1. StepOf(t) /\ status' \in {"completed", "deleted"}
    BY <1>9, EndStep DEF SetCompleted, SetStatus
  <2> QED
    BY <1>1, <1>2, <2>1 DEF Good, Keeps, Status, InProgress
<1>10. CASE DeleteRetryKey(t)
  <2>1. StepOf(t) /\ status' = status /\ ~Responsible(t)
    BY <1>10, EndedStep DEF DeleteRetryKey, Responsible
  <2> QED
    BY <1>1, <1>2, <2>1 DEF Good, Keeps
<1>11. CASE Crash(t)
  <2>1. StepOf(t) /\ status' = status /\ "crash" \in mishaps'
    BY <1>11, EndedStep DEF Crash
  <2> QED
    BY <1>1, <1>2, <2>1 DEF Good, Keeps
<1> QED
  BY <1>5, <1>6, <1>7, <1>8, <1>9, <1>10, <1>11

LEMMA RunsAreGood ==
  ASSUME TypeInv, NEW t \in Tasks, Runs(t) \/ Crash(t)
  PROVE  Good(t)
BY TakeIsGood, CleanIsGood, SplitIsGood, AddIsGood, LoadIsGood, KeywordIsGood, EndIsGood DEF Runs

(***************************************************************************)
(* The requests                                                            *)
(***************************************************************************)

\* A task is queued; the others, and who is responsible, are as before.
LEMMA DelayStep ==
  ASSUME TypeInv, NEW kind \in Kinds, Delay(kind)
  PROVE  /\ task' \in [Tasks -> TaskRecord] /\ \A u \in Tasks : Shape(u)'
         /\ \A u \in Tasks : Responsible(u) => Responsible(u)'
         /\ kind # "clean" => \E t \in Tasks : Responsible(t)'
<1>1. PICK t \in Tasks : task[t] = NoTask /\ task' = [task EXCEPT ![t] = Queued(kind)]
  BY DEF Delay
<1>2. /\ Queued(kind) \in TaskRecord /\ Queued(kind).pc = "queued" /\ Queued(kind).kind = kind
      /\ Queued(kind).docs = {} /\ Queued(kind).todo = {} /\ Queued(kind).checked = {}
      /\ Queued(kind).loaded = {} /\ Queued(kind).raised = {} /\ Queued(kind).kw = "off"
  BY RecordsTyped DEF Queued, NoTask
<1>3. NoTask.pc = "done"
  BY DEF NoTask
<1>4. /\ task' \in [Tasks -> TaskRecord] /\ task'[t] = Queued(kind)
      /\ \A u \in Tasks \ {t} : task'[u] = task[u]
  BY <1>1, <1>2 DEF TypeInv, TypeOK
<1>5. ASSUME NEW u \in Tasks PROVE Shape(u)'
  BY <1>2, <1>4 DEF TypeInv, Shape
<1>6. ASSUME NEW u \in Tasks, Responsible(u) PROVE Responsible(u)'
  BY <1>1, <1>3, <1>4, <1>6 DEF Responsible
<1>7. kind # "clean" => Responsible(t)'
  BY <1>2, <1>4 DEF Responsible
<1> QED
  BY <1>4, <1>5, <1>6, <1>7

LEMMA RequestsTyped ==
  ASSUME TypeInv, Requests
  PROVE  TypeInv'
<1> USE DEF TypeInv
<1>1. /\ technique' = technique /\ index' = index
      /\ flag' \in BOOLEAN /\ retried' \in BOOLEAN
  BY DEF Requests, RetryKeyExpires, PauseRead, PauseSet, PauseFlag, RecoverRead, RecoverSet,
         RecoverTask, RetryRead, RetrySet, RetryTask, UpdateRead, UpdateSet, UpdateTask,
         DuplicateSet, DuplicateTask, DeleteSend, DeleteRow, reqVars, TypeOK
<1>6. paused' \in BOOLEAN
  BY DEF Requests, RetryKeyExpires, PauseRead, PauseSet, PauseFlag, RecoverRead, RecoverSet,
         RecoverTask, RetryRead, RetrySet, RetryTask, UpdateRead, UpdateSet, UpdateTask,
         DuplicateSet, DuplicateTask, DeleteSend, DeleteRow, CommitOrFail, TypeOK
<1>7. status' \in Status
  BY DEF Requests, RetryKeyExpires, PauseRead, PauseSet, PauseFlag, RecoverRead, RecoverSet,
         RecoverTask, RetryRead, RetrySet, RetryTask, UpdateRead, UpdateSet, UpdateTask,
         DuplicateSet, DuplicateTask, DeleteSend, DeleteRow, CommitOrFail, TypeOK, Status, InProgress
<1>8. requests' \in 0..MaxRequests
  <2> DEFINE Kept == requests' = requests
             Raised == requests < MaxRequests /\ requests' = requests + 1
  <2>1. ASSUME NEW c \in Callers, PauseRead(c) \/ RecoverRead(c) \/ RetryRead(c) \/ UpdateRead(c)
        PROVE  Raised
    BY <2>1 DEF PauseRead, RecoverRead, RetryRead, UpdateRead, Request
  <2>2. ASSUME NEW c \in Callers, DuplicateSet(c) \/ DeleteSend(c)
        PROVE  Raised
    BY <2>2 DEF DuplicateSet, DeleteSend, Request
  <2>3. ASSUME NEW c \in Callers, PauseSet(c) \/ RecoverSet(c) \/ RetrySet(c) \/ UpdateSet(c)
        PROVE  Kept
    BY <2>3 DEF PauseSet, RecoverSet, RetrySet, UpdateSet, CommitOrFail, Go
  <2>4. ASSUME NEW c \in Callers, \/ PauseFlag(c) \/ RecoverTask(c) \/ RetryTask(c)
                                 \/ UpdateTask(c) \/ DuplicateTask(c) \/ DeleteRow(c)
        PROVE  Kept
    BY <2>4 DEF PauseFlag, RecoverTask, RetryTask, UpdateTask, DuplicateTask, DeleteRow, Go
  <2>5. ASSUME RetryKeyExpires PROVE Kept
    BY <2>5 DEF RetryKeyExpires
  <2>6. Kept \/ Raised
    BY <2>1, <2>2, <2>3, <2>4, <2>5 DEF Requests
  <2>7. requests \in 0..MaxRequests
    BY DEF TypeOK
  <2>8. requests \in Nat /\ MaxRequests \in Nat
    BY <2>7, DocumentIndexingAssumption
  <2> HIDE DEF TypeInv
  <2> QED
    BY <2>6, <2>7, <2>8
<1>9. mishaps' \subseteq {"overlap", "crash", "keyword", "clean", "late delete", "orphans"}
  BY DEF Requests, RetryKeyExpires, PauseRead, PauseSet, PauseFlag, RecoverRead, RecoverSet,
         RecoverTask, RetryRead, RetrySet, RetryTask, UpdateRead, UpdateSet, UpdateTask,
         DuplicateSet, DuplicateTask, DeleteSend, DeleteRow, reqVars, TypeOK
<1>2. segs' \in [Segs -> SegStatus]
  BY DEF Requests, RetryKeyExpires, PauseRead, PauseSet, PauseFlag, RecoverRead, RecoverSet,
         RecoverTask, RetryRead, RetrySet, RetryTask, UpdateRead, UpdateSet, UpdateTask,
         DuplicateSet, DuplicateTask, DeleteSend, DeleteRow, TypeOK, SegStatus
<1>3. call' \in [Callers -> CallPc]
  BY DEF Requests, RetryKeyExpires, PauseRead, PauseSet, PauseFlag, RecoverRead, RecoverSet,
         RecoverTask, RetryRead, RetrySet, RetryTask, UpdateRead, UpdateSet, UpdateTask,
         DuplicateSet, DuplicateTask, DeleteSend, DeleteRow, Request, Go, CommitOrFail,
         TypeOK, CallPc
<1>4. task' = task \/ \E kind \in Kinds : Delay(kind)
  BY DEF Requests, RetryKeyExpires, PauseRead, PauseSet, PauseFlag, RecoverRead, RecoverSet,
         RecoverTask, RetryRead, RetrySet, RetryTask, UpdateRead, UpdateSet, UpdateTask,
         DuplicateSet, DuplicateTask, DeleteSend, DeleteRow, Kinds
<1>5. task' \in [Tasks -> TaskRecord] /\ \A u \in Tasks : Shape(u)'
  BY <1>4, DelayStep DEF TypeOK, Shape
<1> QED
  BY <1>1, <1>2, <1>3, <1>5, <1>6, <1>7, <1>8, <1>9 DEF TypeOK

LEMMA RequestsCare ==
  ASSUME TypeInv, InProgressIsCared, Requests
  PROVE  InProgressIsCared'
<1> DEFINE Late == {"recoverTask", "retryTask", "updateTask", "duplicateTask"}
<1> SUFFICES ASSUME mishaps' \cap {"crash", "clean"} = {}, status' \in InProgress, ~paused', ~flag'
             PROVE  \/ \E t \in Tasks : Responsible(t)'
                    \/ \E c \in Callers : call'[c] \in Late
  BY DEF InProgressIsCared, Tasks
<1>1. status' # "deleted" /\ call \in [Callers -> CallPc]
  BY DEF InProgress, TypeInv, TypeOK
<1>2. ASSUME mishaps' = mishaps, status' = status, paused' = paused, flag' = flag,
             \A c \in Callers : call[c] \in Late => call'[c] \in Late,
             \A t \in Tasks : Responsible(t) => Responsible(t)'
      PROVE  \/ \E t \in Tasks : Responsible(t)'
             \/ \E c \in Callers : call'[c] \in Late
  BY <1>2 DEF InProgressIsCared
<1>3. ASSUME task' = task PROVE \A t \in Tasks : Responsible(t) => Responsible(t)'
  BY <1>3 DEF Responsible
<1>4. CASE RetryKeyExpires
  BY <1>2, <1>3, <1>4 DEF RetryKeyExpires
<1>5. ASSUME NEW c \in Callers, PauseRead(c) \/ RecoverRead(c) \/ RetryRead(c) \/ UpdateRead(c)
      PROVE  \/ \E t \in Tasks : Responsible(t)'
             \/ \E d \in Callers : call'[d] \in Late
  <2>1. /\ task' = task /\ mishaps' = mishaps /\ status' = status /\ paused' = paused /\ flag' = flag
        /\ call[c] = "idle" /\ \A d \in Callers \ {c} : call'[d] = call[d]
    BY <1>1, <1>5 DEF PauseRead, RecoverRead, RetryRead, UpdateRead, Request, reqVars
  <2> QED
    BY <1>2, <1>3, <2>1
<1>6. ASSUME NEW c \in Callers,
             PauseSet(c) \/ RecoverSet(c) \/ RetrySet(c) \/ UpdateSet(c) \/ DuplicateSet(c)
      PROVE  call'[c] \in Late
  BY <1>1, <1>6 DEF PauseSet, RecoverSet, RetrySet, UpdateSet, DuplicateSet, CommitOrFail, Go,
                    Request, Exists
<1>7. ASSUME NEW c \in Callers, PauseFlag(c) \/ DeleteRow(c) PROVE FALSE
  BY <1>1, <1>7 DEF PauseFlag, DeleteRow
<1>8. ASSUME NEW c \in Callers, RecoverTask(c) \/ RetryTask(c) \/ UpdateTask(c) \/ DuplicateTask(c)
      PROVE  \E t \in Tasks : Responsible(t)'
  <2>1. PICK kind \in Kinds : kind # "clean" /\ Delay(kind)
    BY <1>8 DEF RecoverTask, RetryTask, UpdateTask, DuplicateTask, Kinds
  <2> QED
    BY <2>1, DelayStep
<1>9. ASSUME NEW c \in Callers, DeleteSend(c)
      PROVE  \/ \E t \in Tasks : Responsible(t)'
             \/ \E d \in Callers : call'[d] \in Late
  <2>1. \A t \in Tasks : Responsible(t) => Responsible(t)'
    BY <1>9, DelayStep DEF DeleteSend, Kinds
  <2>2. /\ mishaps' = mishaps /\ status' = status /\ paused' = paused /\ flag' = flag
        /\ call[c] = "idle" /\ \A d \in Callers \ {c} : call'[d] = call[d]
    BY <1>1, <1>9 DEF DeleteSend, Request, reqVars
  <2> QED
    BY <1>2, <2>1, <2>2
<1> QED
  BY <1>4, <1>5, <1>6, <1>7, <1>8, <1>9 DEF Requests

(***************************************************************************)
(* While nothing goes wrong: what is in the table and in the index          *)
(***************************************************************************)

\* The step of a task that is running, the only one: it ends or runs on.
Works(t) ==
  /\ t \in Running /\ StepOf(t) /\ UNCHANGED call
  /\ task'[t].kind = task[t].kind /\ task'[t].pc # "queued"
  /\ Exists' <=> Exists

\* What such a step keeps, whatever it does to the segments.
LEMMA WorkKeeps ==
  ASSUME TypeInv, Orderly, NEW t \in Tasks, Works(t)
  PROVE  /\ Running = {t} /\ Running' = IF task'[t].pc = "done" THEN {} ELSE {t}
         /\ InQueue' = InQueue
         /\ OneRuns' /\ IndexIsFirst' /\ CleanMeansDeleted'
         /\ Redone => Redone'
         /\ task[t].kind # "clean" /\ task[t].pc # "unkey" => DeletedIsCleaned'
<1>1. Running = {t}
  BY DEF Works, Orderly, OneRuns
<1>2. \A u \in Tasks \ {t} : task'[u] = task[u] /\ task[u].pc \in {"queued", "done"}
  BY <1>1 DEF Works, StepOf, Running
<1>3. Running' = IF task'[t].pc = "done" THEN {} ELSE {t}
  BY <1>2 DEF Works, Running, Tasks
<1>4. InQueue' = InQueue
  BY <1>1, <1>2 DEF Works, InQueue, Running, Tasks
<1>5. \A u \in Tasks : task'[u].kind = task[u].kind
  BY <1>2 DEF Works
<1>6. OneRuns'
  BY <1>3 DEF OneRuns
<1>7. IndexIsFirst'
  <2>1. 1 \in Tasks
    BY DocumentIndexingAssumption DEF Tasks
  <2>2. task'[1].pc # "queued"
    BY <1>1, <1>2, <2>1 DEF Works, Orderly, IndexIsFirst
  <2> QED
    BY <1>5, <2>1, <2>2 DEF Orderly, IndexIsFirst, Tasks
<1>8. CleanMeansDeleted'
  BY <1>5 DEF Works, Orderly, CleanMeansDeleted, Tasks
<1>9. Redone => Redone'
  <2>1. CASE \E u \in InQueue : task[u].kind \in {"retry", "update", "duplicate"}
    <3>1. PICK u \in InQueue : task[u].kind \in {"retry", "update", "duplicate"}
      BY <2>1
    <3> QED
      BY <1>4, <1>5, <3>1 DEF Redone, InQueue
  <2>2. CASE ~Exists \/ \E c \in Callers :
               call[c] \in {"retryTask", "updateTask", "duplicateTask", "deleteRow"}
    BY <2>2 DEF Works, Redone
  <2> QED
    BY <2>1, <2>2 DEF Redone
<1>10. ASSUME task[t].kind # "clean", task[t].pc # "unkey" PROVE DeletedIsCleaned'
  <2> SUFFICES ASSUME ~Exists' PROVE \E u \in InQueue' : task'[u].kind = "clean"
    BY DEF DeletedIsCleaned
  <2>1. PICK u \in InQueue : task[u].kind = "clean"
    BY <1>1, <1>10 DEF Works, Orderly, DeletedIsCleaned
  <2> QED
    BY <1>4, <1>5, <2>1 DEF InQueue
<1> QED
  BY <1>1, <1>3, <1>4, <1>6, <1>7, <1>8, <1>9, <1>10

\* The segments that the running task works on, after its step.
RowsOf(t) ==
  LET r == task[t] IN
  /\ r.docs \subseteq Stored
  /\ r.todo \cup r.checked \cup r.loaded \subseteq r.docs
  /\ r.loaded \subseteq index
  /\ r.pc = "drop" => r.docs = Stored /\ index = {}

\* What is left to show of a step.
LEMMA WorkIsOrderly ==
  ASSUME TypeInv, Orderly, NEW t \in Tasks, Works(t),
         index' \subseteq Stored',
         task'[t].pc # "done" => RowsOf(t)',
         task[t].kind = "clean" \/ task[t].pc = "unkey" => DeletedIsCleaned',
         ~Redone => IF task'[t].pc = "done" THEN Resumable' ELSE Progress(t)'
  PROVE  Orderly'
<1>1. /\ Running' = IF task'[t].pc = "done" THEN {} ELSE {t}
      /\ OneRuns' /\ IndexIsFirst' /\ CleanMeansDeleted' /\ DeletedIsCleaned'
      /\ Redone => Redone'
  BY WorkKeeps
<1>2. NodesHaveRows'
  <2>1. CASE task'[t].pc = "done"
    BY <1>1, <2>1 DEF NodesHaveRows
  <2>2. CASE task'[t].pc # "done"
    <3>1. \A u \in Running' : u = t
      BY <1>1
    <3> QED
      BY <2>2, <3>1 DEF NodesHaveRows, RowsOf
  <2> QED
    BY <2>1, <2>2
<1>3. Accounted'
  <2>1. CASE Redone
    BY <1>1, <2>1 DEF Accounted
  <2>2. CASE ~Redone /\ task'[t].pc = "done"
    BY <1>1, <2>2 DEF Accounted
  <2>3. CASE ~Redone /\ task'[t].pc # "done"
    <3>1. \A u \in Running' : u = t
      BY <1>1
    <3> QED
      BY <1>1, <2>3, <3>1 DEF Accounted
  <2> QED
    BY <2>1, <2>2, <2>3
<1> QED
  BY <1>1, <1>2, <1>3 DEF Orderly

\* Of a document that will not be done anew: it exists, no task cleans up after
\* its deletion, and the running task has come as far as it should.
LEMMA NotRedone ==
  ASSUME TypeInv, Orderly, NEW t \in Tasks, t \in Running, ~Redone
  PROVE  Exists /\ Progress(t) /\ task[t].kind # "clean"
BY DEF Orderly, Accounted, Redone, CleanMeansDeleted

LEMMA RowsBefore ==
  ASSUME Orderly, NEW t \in Tasks, t \in Running
  PROVE  RowsOf(t) /\ index \subseteq Stored
BY DEF Orderly, NodesHaveRows, RowsOf

(***************************************************************************)
(* A task that comes to its end                                            *)
(***************************************************************************)

\* It ends, or has its key left to delete, and keeps nothing in hand.
LEMMA EndsOrderly ==
  ASSUME TypeInv, Orderly, NEW t \in Tasks, t \in Running,
         task[t].kind # "clean", task[t].pc # "unkey",
         End(t) \/ task' = [task EXCEPT ![t] = Ended(t)],
         Stored' = Stored, UNCHANGED <<index, call>>, Exists' <=> Exists,
         ~Redone => Resumable'
  PROVE  Orderly'
<1>1. /\ StepOf(t) /\ task'[t].pc \in {"done", "unkey"} /\ task'[t].kind = task[t].kind
      /\ task'[t].docs = {} /\ task'[t].todo = {} /\ task'[t].checked = {} /\ task'[t].loaded = {}
  <2>1. CASE task' = [task EXCEPT ![t] = Ended(t)]
    BY <2>1, EndedIs, EndedStep DEF TypeInv, TypeOK
  <2>2. CASE End(t) /\ task[t].kind # "retry"
    <3>1. task' = [task EXCEPT ![t] = Ended(t)]
      BY <2>2 DEF End, TypeInv, TypeOK
    <3> QED
      BY <2>1, <3>1
  <2>3. CASE End(t) /\ task[t].kind = "retry"
    <3> DEFINE r == [Ended(t) EXCEPT !.pc = "unkey"]
    <3>1. /\ r \in TaskRecord /\ r.pc = "unkey" /\ r.kind = task[t].kind /\ r.docs = {}
          /\ r.todo = {} /\ r.checked = {} /\ r.loaded = {}
      BY EndedIs DEF TaskRecord, TaskPc
    <3>2. task' = [task EXCEPT ![t] = r]
      BY <2>3 DEF End, TypeInv, TypeOK
    <3> HIDE DEF r
    <3> QED
      BY <2>3, <3>1, <3>2, EndStep DEF TypeInv, TypeOK
  <2> QED
    BY <2>1, <2>2, <2>3
<1>2. Works(t)
  BY <1>1 DEF Works
<1>3. index' \subseteq Stored' /\ RowsOf(t)'
  BY <1>1, RowsBefore DEF RowsOf
<1>4. ~Redone => IF task'[t].pc = "done" THEN Resumable' ELSE Progress(t)'
  BY <1>1 DEF Progress, StatusFits
<1> QED
  BY <1>2, <1>3, <1>4, WorkIsOrderly

LEMMA FailsOrderly ==
  ASSUME TypeInv, Orderly, NEW t \in Tasks, t \in Running,
         task[t].kind # "clean", task[t].pc # "unkey", Fail(t), UNCHANGED <<segs, index, call>>
  PROVE  Orderly'
<1>1. (Exists' <=> Exists) /\ (Exists => status' = "error")
  BY DEF Fail, SetStatus, Exists
<1>2. (~Redone => Resumable') /\ Stored' = Stored
  BY <1>1 DEF Redone, Resumable, Stored
<1>3. End(t) \/ task' = [task EXCEPT ![t] = Ended(t)]
  BY DEF Fail
<1> QED
  BY <1>1, <1>2, <1>3, EndsOrderly

\* A paused document is left as it can be resumed.
LEMMA StopsOrderly ==
  ASSUME TypeInv, Orderly, NEW t \in Tasks,
         task[t].pc \in {"extract", "mark", "loading", "finish"},
         StopPaused(t), UNCHANGED <<segs, index, call>>
  PROVE  Orderly'
<1>1. t \in Running /\ task[t].kind # "clean" /\ task[t].pc # "unkey"
  BY DEF Running, TypeInv, Shape
<1>2. CASE Fail(t)
  BY <1>1, <1>2, FailsOrderly
<1>3. CASE UNCHANGED status /\ End(t)
  <2>1. ASSUME ~Redone PROVE Resumable
    <3>1. Progress(t)
      BY <1>1, <2>1, NotRedone
    <3>2. CASE task[t].pc = "extract"
      BY <3>1, <3>2 DEF Progress, StatusFits, Resumable, Nothing
    <3>3. CASE task[t].pc = "mark"
      BY <3>1, <3>3 DEF Progress, StatusFits, Resumable
    <3>4. CASE task[t].pc = "loading"
      BY <3>1, <3>4 DEF Progress, StatusFits, Resumable
    <3>5. CASE task[t].pc = "finish"
      BY <3>1, <3>5 DEF Progress, StatusFits, Resumable, Whole, OneSplitting
    <3> QED
      BY <3>2, <3>3, <3>4, <3>5
  <2>2. Resumable <=> Resumable'
    BY <1>3 DEF Resumable, Nothing, OneSplitting, Whole, Stored
  <2>3. (Exists' <=> Exists) /\ Stored' = Stored
    BY <1>3 DEF Exists, Stored
  <2> QED
    BY <1>1, <1>3, <2>1, <2>2, <2>3, EndsOrderly
<1> QED
  BY <1>2, <1>3 DEF StopPaused

(***************************************************************************)
(* The steps of the running task                                           *)
(***************************************************************************)

\* It moves on to another point with nothing in hand but its segments.
LEMMA MovesOrderly ==
  ASSUME TypeInv, Orderly, NEW t \in Tasks, NEW from, NEW to \in TaskPc \ {"queued", "done"},
         Step(t, from, to), from \notin {"queued", "done", "unkey", "loading"}, to # "drop",
         StepOf(t), task[t].kind # "clean", UNCHANGED call, Exists' <=> Exists,
         index' \subseteq Stored', task[t].docs \subseteq Stored',
         ~Redone => Progress(t)'
  PROVE  Orderly'
<1>1. /\ task[t].pc = from /\ task'[t].pc = to /\ task'[t].kind = task[t].kind
      /\ task'[t].docs = task[t].docs
      /\ task'[t].todo = {} /\ task'[t].checked = {} /\ task'[t].loaded = {}
  <2>1. task[t].pc = from /\ to \in TaskPc
    BY DEF Step
  <2>2. task[t].todo = {} /\ task[t].checked = {} /\ task[t].loaded = {}
    BY <2>1 DEF TypeInv, Shape
  <2> QED
    BY <2>1, <2>2, PcStep
<1>2. t \in Running
  BY <1>1 DEF Running
<1>3. Works(t)
  BY <1>1, <1>2 DEF Works
<1>4. RowsOf(t)'
  BY <1>1 DEF RowsOf
<1> QED
  BY <1>1, <1>3, <1>4, WorkIsOrderly

LEMMA CleanOrderly ==
  ASSUME TypeInv, Orderly, NEW t \in Tasks, Clean(t)
  PROVE  Orderly'
<1>1. /\ task[t].pc = "clean" /\ task' = [task EXCEPT ![t].pc = "drop", ![t].docs = Stored]
      /\ index' = index \ Stored /\ UNCHANGED <<taskVars, status, segs>>
  BY DEF Clean
<1>2. task[t] \in TaskRecord /\ Stored' = Stored
  BY <1>1 DEF TypeInv, TypeOK, Stored
<1>3. /\ task'[t].pc = "drop" /\ task'[t].docs = Stored /\ task'[t].kind = task[t].kind
      /\ task'[t].todo = {} /\ task'[t].checked = {} /\ task'[t].loaded = {}
  <2>1. task[t].todo = {} /\ task[t].checked = {} /\ task[t].loaded = {}
    BY <1>1 DEF TypeInv, Shape
  <2>2. task'[t] = [task[t] EXCEPT !.pc = "drop", !.docs = Stored]
    BY <1>1 DEF TypeInv, TypeOK
  <2> QED
    BY <1>2, <2>1, <2>2 DEF TaskRecord
<1>4. Works(t)
  <2>1. StepOf(t)
    BY CleanIsGood DEF Good
  <2> QED
    BY <1>1, <1>3, <2>1 DEF Works, Running, Exists, taskVars
<1>5. index' = {}
  BY <1>1 DEF Orderly, NodesHaveRows
<1>6. RowsOf(t)'
  BY <1>2, <1>3, <1>5 DEF RowsOf
<1>7. task[t].kind = "clean" => DeletedIsCleaned'
  <2>1. t \in Running'
    BY <1>3 DEF Running, Tasks
  <2> QED
    BY <1>3, <2>1 DEF DeletedIsCleaned
<1>8. ~Redone => Progress(t)'
  <2>1. ~Redone => Progress(t)
    BY <1>4, NotRedone DEF Works
  <2> QED
    BY <1>1, <1>3, <2>1 DEF Progress, StatusFits
<1> QED
  BY <1>1, <1>3, <1>4, <1>5, <1>6, <1>7, <1>8, WorkIsOrderly

LEMMA DropOrderly ==
  ASSUME TypeInv, Orderly, NEW t \in Tasks, Drop(t)
  PROVE  Orderly'
<1>1. /\ task[t].pc = "drop" /\ UNCHANGED <<taskVars, status, index>>
      /\ segs' = [s \in Segs |-> IF s \in task[t].docs THEN "none" ELSE segs[s]]
  BY DEF Drop
<1>2. t \in Running
  BY <1>1 DEF Running
<1>3. task[t].docs = Stored /\ index = {} /\ task[t].todo = {} /\ task[t].checked = {}
      /\ task[t].loaded = {}
  BY <1>1, <1>2 DEF Orderly, NodesHaveRows, TypeInv, Shape
<1>4. Stored' = {} /\ index' = {}
  BY <1>1, <1>3 DEF Stored
<1>5. StepOf(t)
  BY CleanIsGood DEF Good
<1>6. CASE task[t].kind = "clean"
  <2>1. task' = [task EXCEPT ![t] = Ended(t)]
    BY <1>6 DEF Drop, TypeInv, TypeOK
  <2>2. task'[t].pc = "done" /\ task'[t].kind = task[t].kind
    BY <2>1, EndedIs DEF TypeInv, TypeOK
  <2>3. Works(t)
    BY <1>1, <1>2, <1>5, <2>2 DEF Works, Exists, taskVars
  <2>4. DeletedIsCleaned'
    BY <1>4, <2>2, <2>3, WorkKeeps DEF DeletedIsCleaned
  <2>5. Redone
    BY <1>2, <1>6, NotRedone
  <2> QED
    BY <1>4, <2>2, <2>3, <2>4, <2>5, WorkIsOrderly
<1>7. CASE task[t].kind # "clean"
  <2>1. PICK pc \in {"extract", "parse"} :
          /\ task' = [task EXCEPT ![t] = [task[t] EXCEPT !.pc = pc, !.docs = {}]]
          /\ pc = "extract" => task[t].kind = "update"
    BY <1>7 DEF Drop, TypeInv, TypeOK
  <2>2. task[t] \in TaskRecord
    BY DEF TypeInv, TypeOK
  <2>3. /\ task'[t].pc = pc /\ task'[t].docs = {} /\ task'[t].kind = task[t].kind
        /\ task'[t].todo = {} /\ task'[t].checked = {} /\ task'[t].loaded = {}
    BY <1>3, <2>1, <2>2 DEF TypeInv, TypeOK, TaskRecord
  <2>4. Works(t)
    BY <1>1, <1>2, <1>5, <2>3 DEF Works, Exists, taskVars
  <2>5. RowsOf(t)'
    BY <2>3 DEF RowsOf
  <2>6. ~Redone => Progress(t)'
    <3>1. ~Redone => Progress(t)
      BY <1>2, NotRedone
    <3> QED
      BY <1>1, <1>4, <2>1, <2>3, <3>1 DEF Progress, StatusFits, Nothing
  <2> QED
    BY <1>1, <1>4, <1>7, <2>3, <2>4, <2>5, <2>6, WorkIsOrderly
<1> QED
  BY <1>6, <1>7

\* Up to the segments' being added.
LEMMA SplitOrderly ==
  ASSUME TypeInv, Orderly, mishaps' = {}, NEW t \in Tasks,
         \/ Parse(t) \/ Wipe(t) \/ Extract(t) \/ SetSplitting(t) \/ Mark(t) \/ SetIndexing(t)
         \/ MarkSegments(t)
  PROVE  Orderly'
<1>1. /\ StepOf(t) /\ UNCHANGED <<taskVars, index>>
      /\ task[t].pc \in {"parse", "wipe", "extract", "split", "mark", "marked", "markSegs"}
  <2>1. StepOf(t) /\ UNCHANGED taskVars
    BY SplitIsGood DEF Good
  <2> QED
    BY <2>1 DEF Parse, Wipe, Extract, SetSplitting, Mark, SetIndexing, MarkSegments,
                CheckRow, UpdateRow, Step
<1>2. /\ t \in Running /\ task[t].kind # "clean" /\ task[t].pc # "unkey"
      /\ call' = call /\ technique' = technique
  BY <1>1 DEF Running, TypeInv, Shape, taskVars
<1>3. RowsOf(t) /\ index \subseteq Stored
  BY <1>2, RowsBefore
<1>4. ~Redone => Exists /\ Progress(t)
  BY <1>2, NotRedone
<1>5. ASSUME NEW from, NEW to \in TaskPc, Step(t, from, to)
      PROVE  task[t].pc = from /\ task'[t].pc = to /\ task'[t].docs = task[t].docs
             /\ task'[t].kind = task[t].kind
  BY <1>5, PcStep
<1>6. CASE Parse(t)
  <2>1. /\ Step(t, "parse", "extract") /\ status' = (IF Exists THEN "parsing" ELSE "deleted")
        /\ segs' = segs
    BY <1>6 DEF Parse, SetStatus
  <2>2. Stored' = Stored /\ (Exists' <=> Exists)
    BY <2>1 DEF Stored, Exists
  <2>3. ~Redone => Progress(t)'
    BY <1>1, <1>4, <1>5, <2>1, <2>2 DEF Progress, StatusFits, Nothing, TaskPc
  <2> QED
    BY <1>1, <1>2, <1>3, <2>1, <2>2, <2>3, MovesOrderly DEF RowsOf, TaskPc
<1>7. CASE Wipe(t)
  <2>1. /\ Step(t, "wipe", "extract") /\ status' = status /\ index = {}
        /\ segs' = [s \in Segs |-> "none"]
    BY <1>7 DEF Wipe
  <2>2. Stored' = {} /\ (Exists' <=> Exists) /\ task[t].docs = {}
    BY <2>1 DEF Stored, Exists, Step, TypeInv, Shape
  <2>3. ~Redone => Progress(t)'
    BY <1>1, <1>4, <1>5, <2>1, <2>2 DEF Progress, StatusFits, Nothing, TaskPc
  <2> QED
    BY <1>1, <1>2, <1>3, <2>1, <2>2, <2>3, MovesOrderly DEF TaskPc
<1>8. CASE SetSplitting(t) /\ Exists
  <2>1. Step(t, "split", "add") /\ Exists /\ status' = "splitting" /\ segs' = segs
    BY <1>8 DEF SetSplitting, UpdateRow
  <2>2. Stored' = Stored /\ (Exists' <=> Exists) /\ task[t].docs = {}
    BY <2>1 DEF Stored, Exists, Step, TypeInv, Shape
  <2>3. ~Redone => Progress(t)'
    BY <1>1, <1>4, <1>5, <2>1, <2>2 DEF Progress, StatusFits, Nothing, TaskPc
  <2> QED
    BY <1>1, <1>2, <1>3, <2>1, <2>2, <2>3, MovesOrderly DEF RowsOf, TaskPc
<1>9. CASE SetIndexing(t) /\ Exists
  <2>1. Step(t, "marked", "markSegs") /\ Exists /\ status' = "indexing" /\ segs' = segs
    BY <1>9 DEF SetIndexing, UpdateRow
  <2>2. Stored' = Stored /\ (Exists' <=> Exists)
    BY <2>1 DEF Stored, Exists
  <2>3. ~Redone => Progress(t)'
    BY <1>1, <1>4, <1>5, <2>1, <2>2 DEF Progress, StatusFits, TaskPc
  <2> QED
    BY <1>1, <1>2, <1>3, <2>1, <2>2, <2>3, MovesOrderly DEF RowsOf, TaskPc
<1>10. CASE MarkSegments(t) /\ Exists
  <2>1. /\ Step(t, "markSegs", "load") /\ status' = status
        /\ segs' = [s \in Segs |-> IF s \in Stored THEN "indexing" ELSE "none"]
    BY <1>10 DEF MarkSegments
  <2>2. Stored' = Stored /\ (Exists' <=> Exists) /\ \A s \in Stored : segs'[s] = "indexing"
    BY <2>1 DEF Stored, Exists
  <2>3. ~Redone => Progress(t)'
    <3> SUFFICES ASSUME ~Redone PROVE Progress(t)'
      OBVIOUS
    <3>1. /\ task[t].pc = "markSegs" /\ task'[t].pc = "load" /\ task'[t].docs = task[t].docs
          /\ task'[t].kind = task[t].kind
      BY <1>5, <2>1 DEF TaskPc
    <3>2. Stored = task[t].docs /\ Stored = {t} \X Parts /\ index = {} /\ status = "indexing"
      BY <1>4, <3>1 DEF Progress, StatusFits
    <3>3. OneSplitting'
      BY <2>2, <3>2 DEF OneSplitting
    <3>4. Unfinished' \subseteq task'[t].docs
      BY <2>2, <3>1, <3>2 DEF Unfinished
    <3> QED
      BY <2>1, <3>1, <3>2, <3>3, <3>4 DEF Progress, StatusFits
  <2> QED
    BY <1>1, <1>2, <1>3, <2>1, <2>2, <2>3, MovesOrderly DEF RowsOf, TaskPc
<1>11. CASE Extract(t) \/ Mark(t)
  <2>1. PICK from \in {"extract", "mark"}, to \in {"split", "marked"} :
          CheckRow(t, from, to) /\ (from = "extract" <=> to = "split")
    BY <1>11 DEF Extract, Mark
  <2>2. segs' = segs
    BY <2>1 DEF CheckRow
  <2>3. CASE paused
    BY <1>1, <1>2, <2>1, <2>2, <2>3, StopsOrderly DEF CheckRow
  <2>4. CASE ~paused /\ ~Exists
    BY <1>1, <1>2, <2>1, <2>2, <2>4, FailsOrderly DEF CheckRow
  <2>5. CASE ~paused /\ Exists
    <3>1. Step(t, from, to) /\ status' = status
      BY <2>1, <2>5 DEF CheckRow
    <3>2. Stored' = Stored /\ (Exists' <=> Exists)
      BY <2>2, <3>1 DEF Stored, Exists
    <3>3. ~Redone => Progress(t)'
      BY <1>1, <1>4, <1>5, <2>1, <3>1, <3>2 DEF Progress, StatusFits, Nothing, TaskPc
    <3> QED
      BY <1>1, <1>2, <1>3, <3>1, <3>2, <3>3, MovesOrderly DEF RowsOf, TaskPc
  <2> QED
    BY <2>3, <2>4, <2>5
\* The row is gone.
<1>12. CASE (SetSplitting(t) \/ SetIndexing(t)) /\ ~Exists
  <2>1. Fail(t) /\ UNCHANGED <<segs, index, call>>
    BY <1>1, <1>2, <1>12 DEF SetSplitting, SetIndexing, UpdateRow
  <2> QED
    BY <1>2, <2>1, FailsOrderly
<1>13. CASE MarkSegments(t) /\ ~Exists
  <2>1. Fail(t) /\ Stored' = Stored
    BY <1>13 DEF MarkSegments, Stored
  <2>2. ~Exists' /\ Redone
    BY <1>13, <2>1 DEF Fail, SetStatus, Exists, Redone
  <2>3. End(t) \/ task' = [task EXCEPT ![t] = Ended(t)]
    BY <2>1 DEF Fail
  <2> QED
    BY <1>1, <1>2, <1>13, <2>1, <2>2, <2>3, EndsOrderly
<1> QED
  BY <1>6, <1>7, <1>8, <1>9, <1>10, <1>11, <1>12, <1>13

LEMMA AddOrderly ==
  ASSUME TypeInv, Orderly, NEW t \in Tasks, AddSegment(t)
  PROVE  Orderly'
<1>1. PICK k \in 0..(NParts - 1) : task[t].docs = {t} \X (1..k)
  BY DEF AddSegment, TypeInv, Shape
<1>2. Cardinality(task[t].docs) = k
  <2>1. k \in Nat
    BY <1>1
  <2>2. Cardinality({t} \X (1..k)) = k
    BY <2>1, FirstParts
  <2> QED
    BY <1>1, <2>2
<1> DEFINE s == <<t, k + 1>>
           pc == IF k + 1 = NParts THEN "mark" ELSE "add"
           docs == task[t].docs \cup {s}
<1>3. /\ segs' = [segs EXCEPT ![s] = "waiting"]
      /\ task' = [task EXCEPT ![t] = [task[t] EXCEPT !.docs = docs, !.pc = pc]]
      /\ task[t].pc = "add" /\ UNCHANGED <<taskVars, status, index>>
  BY <1>2 DEF AddSegment, TypeInv, TypeOK
<1>4. /\ s \in Segs /\ docs = {t} \X (1..(k + 1)) /\ pc \in {"mark", "add"}
      /\ pc = "mark" => k + 1 = NParts
  <2>1. 1..(k + 1) = (1..k) \cup {k + 1} /\ 1..(k + 1) \subseteq Parts
    BY DocumentIndexingAssumption DEF Parts
  <2> QED
    BY <1>1, <2>1 DEF Segs
<1> HIDE DEF s, pc, docs
<1>5. /\ task[t] \in TaskRecord /\ task[t].kind # "clean"
      /\ task[t].todo = {} /\ task[t].checked = {} /\ task[t].loaded = {}
  BY <1>3 DEF TypeInv, TypeOK, Shape
<1>6. /\ task'[t].pc = pc /\ task'[t].docs = docs /\ task'[t].kind = task[t].kind
      /\ task'[t].todo = {} /\ task'[t].checked = {} /\ task'[t].loaded = {}
  BY <1>3, <1>5 DEF TypeInv, TypeOK, TaskRecord
<1>7. Stored' = Stored \cup {s}
  BY <1>3, <1>4 DEF Stored, TypeInv, TypeOK
<1>8. t \in Running /\ StepOf(t)
  BY <1>3, AddIsGood DEF Running, Good
<1>9. Works(t)
  BY <1>3, <1>4, <1>6, <1>8 DEF Works, Exists, taskVars
<1>10. index' \subseteq Stored' /\ RowsOf(t)'
  <2>1. RowsOf(t) /\ index \subseteq Stored
    BY <1>8, RowsBefore
  <2>2. docs \subseteq Stored'
    BY <1>7, <2>1 DEF docs, RowsOf
  <2> QED
    BY <1>3, <1>4, <1>6, <1>7, <2>1, <2>2 DEF RowsOf
<1>11. ~Redone => Progress(t)'
  <2> SUFFICES ASSUME ~Redone PROVE Progress(t)'
    OBVIOUS
  <2>1. status = "splitting" /\ index = {} /\ Stored = task[t].docs
    BY <1>3, <1>8, NotRedone DEF Progress, StatusFits
  <2>2. Stored' = docs /\ (pc = "mark" => Stored' = {t} \X Parts)
    BY <1>4, <1>7, <2>1 DEF docs, Parts
  <2> QED
    BY <1>3, <1>4, <1>6, <2>1, <2>2 DEF Progress, StatusFits
<1> QED
  BY <1>3, <1>4, <1>5, <1>6, <1>9, <1>10, <1>11, WorkIsOrderly

LEMMA ReloadOrderly ==
  ASSUME TypeInv, Orderly, NEW t \in Tasks, Reload(t)
  PROVE  Orderly'
<1>1. /\ task[t].pc = "reload" /\ UNCHANGED <<taskVars, status, segs, index>>
      /\ task' = [task EXCEPT ![t] = [task[t] EXCEPT !.pc = "load", !.docs = Unfinished]]
  BY DEF Reload, Unfinished, TypeInv, TypeOK
<1>2. task[t] \in TaskRecord /\ task[t].kind # "clean"
      /\ task[t].todo = {} /\ task[t].checked = {} /\ task[t].loaded = {}
  BY <1>1 DEF TypeInv, TypeOK, Shape
<1>3. /\ task'[t].pc = "load" /\ task'[t].docs = Unfinished /\ task'[t].kind = task[t].kind
      /\ task'[t].todo = {} /\ task'[t].checked = {} /\ task'[t].loaded = {}
  BY <1>1, <1>2 DEF TypeInv, TypeOK, TaskRecord
<1>4. t \in Running /\ StepOf(t)
  BY <1>1, EndIsGood DEF Running, Good
<1>5. Works(t)
  BY <1>1, <1>3, <1>4 DEF Works, Exists, taskVars
<1>6. Stored' = Stored /\ Unfinished' = Unfinished /\ Unfinished \subseteq Stored
  BY <1>1 DEF Stored, Unfinished
<1>7. index' \subseteq Stored' /\ RowsOf(t)'
  <2>1. index \subseteq Stored
    BY <1>4, RowsBefore
  <2> QED
    BY <1>1, <1>3, <1>6, <2>1 DEF RowsOf
<1>8. ~Redone => Progress(t)'
  <2> SUFFICES ASSUME ~Redone PROVE Progress(t)'
    OBVIOUS
  <2>1. status = "indexing" /\ OneSplitting
    BY <1>1, <1>4, NotRedone DEF Progress, StatusFits
  <2>2. OneSplitting'
    BY <1>1, <1>6, <2>1 DEF OneSplitting
  <2> QED
    BY <1>1, <1>3, <1>6, <2>1, <2>2 DEF Progress, StatusFits
<1> QED
  BY <1>1, <1>2, <1>3, <1>5, <1>7, <1>8, WorkIsOrderly

(***************************************************************************)
(* The loading                                                             *)
(***************************************************************************)

\* A step of the load, of a chunk's thread or of the keyword thread.
LEMMA LoadsOrderly ==
  ASSUME TypeInv, Orderly, NEW t \in Tasks, NEW r, Loads(t, r), StepOf(t),
         task[t].pc \in {"load", "loading"}, r.pc = "loading",
         UNCHANGED <<call, status>>, Stored' = Stored,
         index \subseteq index', index' \subseteq Stored,
         r.todo \cup r.checked \cup r.loaded \subseteq r.docs, r.loaded \subseteq index',
         ~Redone => OneSplitting' /\ InHand(t)'
  PROVE  Orderly'
<1>1. task'[t] = r /\ t \in Running /\ task[t].kind # "clean" /\ task[t].pc # "unkey"
  BY DEF Loads, Running, TypeInv, TypeOK, Shape
<1>2. Works(t)
  BY <1>1 DEF Works, Loads, Exists
<1>3. index' \subseteq Stored' /\ RowsOf(t)'
  <2>1. r.docs \subseteq Stored
    BY <1>1, RowsBefore DEF RowsOf, Loads
  <2> QED
    BY <1>1, <2>1 DEF RowsOf
<1>4. ~Redone => Progress(t)'
  <2> SUFFICES ASSUME ~Redone PROVE Progress(t)'
    OBVIOUS
  <2>1. status = "indexing"
    BY <1>1, NotRedone DEF Progress, StatusFits
  <2> QED
    BY <1>1, <2>1 DEF Progress, StatusFits
<1> QED
  BY <1>1, <1>2, <1>3, <1>4, WorkIsOrderly

\* What is known of a task that is loading.
LEMMA LoadingKnown ==
  ASSUME TypeInv, Orderly, NEW t \in Tasks, task[t].pc \in {"load", "loading"}
  PROVE  /\ RowsOf(t) /\ index \subseteq Stored
         /\ ~Redone => OneSplitting
         /\ ~Redone /\ task[t].pc = "load" => Unfinished \subseteq task[t].docs
         /\ ~Redone /\ task[t].pc = "loading" => InHand(t)
<1>1. t \in Running
  BY DEF Running
<1> QED
  BY <1>1, NotRedone, RowsBefore DEF Progress

LEMMA LoadOrderly ==
  ASSUME TypeInv, Orderly, NEW t \in Tasks, Load(t)
  PROVE  Orderly'
<1> DEFINE todo == IF technique = "high_quality" THEN task[t].docs ELSE {}
           r == [task[t] EXCEPT !.pc = "loading", !.kw = "run", !.todo = todo]
<1>1. task[t] \in TaskRecord /\ todo \in SUBSET Segs
  BY DEF TypeInv, TypeOK, TaskRecord
<1>2. /\ task[t].pc = "load" /\ task' = [task EXCEPT ![t] = r]
      /\ UNCHANGED <<taskVars, status, segs, index>>
  BY DEF Load, TypeInv, TypeOK
<1>3. /\ task[t].checked = {} /\ task[t].loaded = {} /\ task[t].raised = {}
      /\ todo \subseteq task[t].docs
  BY <1>2 DEF TypeInv, Shape
<1>4. technique = "high_quality" => todo = task[t].docs
  OBVIOUS
<1>5. technique # "high_quality" => todo = {}
  OBVIOUS
<1> HIDE DEF todo
<1>6. /\ r \in TaskRecord /\ r.kind = task[t].kind /\ r.docs = task[t].docs /\ r.pc = "loading"
      /\ r.todo = todo /\ r.checked = {} /\ r.loaded = {} /\ r.raised = {} /\ r.kw = "run"
  BY <1>1, <1>3 DEF TaskRecord, TaskPc
<1> HIDE DEF r
<1>7. Loads(t, r) /\ StepOf(t) /\ task'[t] = r
  BY <1>2, <1>6, LoadIsGood DEF Loads, Good, TypeInv, TypeOK
<1>8. Stored' = Stored /\ Unfinished' = Unfinished
  BY <1>2 DEF Stored, Unfinished
<1>9. ~Redone => OneSplitting' /\ InHand(t)'
  <2> SUFFICES ASSUME ~Redone PROVE OneSplitting' /\ InHand(t)'
    OBVIOUS
  <2>1. OneSplitting /\ Unfinished \subseteq task[t].docs
    BY <1>2, LoadingKnown
  <2>2. OneSplitting'
    BY <1>2, <1>8, <2>1 DEF OneSplitting
  <2>3. InHand(t)'
    BY <1>2, <1>4, <1>5, <1>6, <1>7, <1>8, <2>1 DEF InHand, taskVars
  <2> QED
    BY <2>2, <2>3
<1>10. index \subseteq Stored
  BY <1>2, LoadingKnown
<1> QED
  BY <1>2, <1>3, <1>6, <1>7, <1>8, <1>9, <1>10, LoadsOrderly DEF taskVars

\* A chunk's thread.
LEMMA ChunkOrderly ==
  ASSUME TypeInv, Orderly, NEW t \in Tasks, NEW s \in Segs,
         ChunkChecks(t, s) \/ ChunkIndexes(t, s) \/ ChunkFails(t, s) \/ ChunkCompletes(t, s)
  PROVE  Orderly'
<1>1. task[t].pc = "loading" /\ task[t] \in TaskRecord
  BY ThreadsLoading DEF ChunkChecks, ChunkIndexes, ChunkFails, ChunkCompletes, TypeInv, TypeOK
<1>2. /\ RowsOf(t) /\ index \subseteq Stored
      /\ ~Redone => OneSplitting /\ InHand(t)
  BY <1>1, LoadingKnown
<1>3. StepOf(t) /\ UNCHANGED taskVars /\ status' = status
  <2>1. Good(t)
    BY LoadIsGood
  <2> QED
    BY <2>1 DEF Good, ChunkChecks, ChunkIndexes, ChunkFails, ChunkCompletes
<1>4. CASE ChunkChecks(t, s) \/ ChunkFails(t, s)
  <2>1. PICK r \in {[task[t] EXCEPT !.todo = @ \ {s}, !.raised = @ \cup {"paused"}],
                    [task[t] EXCEPT !.todo = @ \ {s}, !.checked = @ \cup {s}],
                    [task[t] EXCEPT !.checked = @ \ {s}, !.raised = @ \cup {"failed"}]} :
          /\ task' = [task EXCEPT ![t] = r]
          /\ s \in task[t].todo \cup task[t].checked
          /\ r.checked \subseteq task[t].todo \cup task[t].checked
          /\ s \in r.checked \/ r.raised # {}
    BY <1>1, <1>4 DEF ChunkChecks, ChunkFails, TypeInv, TypeOK, TaskRecord
  <2>2. /\ r \in TaskRecord /\ r.kind = task[t].kind /\ r.docs = task[t].docs /\ r.pc = "loading"
        /\ r.loaded = task[t].loaded /\ r.kw = task[t].kw
        /\ r.todo \subseteq task[t].todo
        /\ r.raised # {} \/ (r.raised = task[t].raised /\
             task[t].todo \cup task[t].checked \subseteq r.todo \cup r.checked)
    <3>1. s \in Segs /\ task[t] \in TaskRecord /\ task[t].pc = "loading"
      BY <1>1
    <3>2. CASE r = [task[t] EXCEPT !.todo = @ \ {s}, !.raised = @ \cup {"paused"}]
      <4>1. r.raised = task[t].raised \cup {"paused"} /\ r.todo = task[t].todo \ {s}
        BY <3>1, <3>2 DEF TaskRecord
      <4> QED
        BY <3>1, <3>2, <4>1 DEF TaskRecord
    <3>3. CASE r = [task[t] EXCEPT !.todo = @ \ {s}, !.checked = @ \cup {s}]
      <4>1. /\ r.raised = task[t].raised /\ r.todo = task[t].todo \ {s}
            /\ r.checked = task[t].checked \cup {s}
        BY <3>1, <3>3 DEF TaskRecord
      <4>2. task[t].todo \cup task[t].checked \subseteq r.todo \cup r.checked
        BY <4>1
      <4>3. /\ r \in TaskRecord /\ r.kind = task[t].kind /\ r.docs = task[t].docs
            /\ r.pc = "loading" /\ r.loaded = task[t].loaded /\ r.kw = task[t].kw
        BY <3>1, <3>3 DEF TaskRecord
      <4> QED
        BY <4>1, <4>2, <4>3
    <3>4. CASE r = [task[t] EXCEPT !.checked = @ \ {s}, !.raised = @ \cup {"failed"}]
      <4>1. r.raised = task[t].raised \cup {"failed"} /\ r.todo = task[t].todo
        BY <3>1, <3>4 DEF TaskRecord
      <4> QED
        BY <3>1, <3>4, <4>1 DEF TaskRecord
    <3> QED
      BY <2>1, <3>2, <3>3, <3>4
  <2>3. /\ UNCHANGED <<segs, index>> /\ Stored' = Stored /\ Unfinished' = Unfinished
        /\ task'[t] = r
    BY <1>4, <2>1 DEF ChunkChecks, ChunkFails, Stored, Unfinished, TypeInv, TypeOK
  <2>4. ~Redone => OneSplitting' /\ InHand(t)'
    <3> SUFFICES ASSUME ~Redone PROVE OneSplitting' /\ InHand(t)'
      OBVIOUS
    <3>1. OneSplitting'
      BY <1>2, <2>3 DEF OneSplitting
    <3>2. technique = "high_quality"
      BY <1>2, <2>1 DEF InHand
    <3> QED
      BY <1>2, <1>3, <2>2, <2>3, <3>1, <3>2 DEF InHand, taskVars
  <2> QED
    BY <1>1, <1>2, <1>3, <2>1, <2>2, <2>3, <2>4, LoadsOrderly DEF Loads, RowsOf, taskVars
<1>5. CASE ChunkIndexes(t, s)
  <2> DEFINE r == [task[t] EXCEPT !.checked = @ \ {s}, !.loaded = @ \cup {s}]
  <2>1. /\ s \in task[t].checked /\ index' = index \cup {s} /\ segs' = segs
        /\ task' = [task EXCEPT ![t] = r]
    BY <1>5 DEF ChunkIndexes, TypeInv, TypeOK
  <2>2. /\ r \in TaskRecord /\ r.kind = task[t].kind /\ r.docs = task[t].docs /\ r.pc = "loading"
        /\ r.checked = task[t].checked \ {s} /\ r.loaded = task[t].loaded \cup {s}
        /\ r.todo = task[t].todo /\ r.raised = task[t].raised /\ r.kw = task[t].kw
    BY <1>1 DEF TaskRecord
  <2> HIDE DEF r
  <2>3. Stored' = Stored /\ Unfinished' = Unfinished /\ task'[t] = r
    BY <2>1 DEF Stored, Unfinished, TypeInv, TypeOK
  <2>4. ~Redone => OneSplitting' /\ InHand(t)'
    <3> SUFFICES ASSUME ~Redone PROVE OneSplitting' /\ InHand(t)'
      OBVIOUS
    <3>1. OneSplitting'
      BY <1>2, <2>1, <2>3 DEF OneSplitting
    <3>2. technique = "high_quality"
      BY <1>2, <2>1 DEF InHand
    <3> QED
      BY <1>2, <1>3, <2>1, <2>2, <2>3, <3>1, <3>2 DEF InHand, taskVars
  <2> QED
    BY <1>1, <1>2, <1>3, <2>1, <2>2, <2>3, <2>4, LoadsOrderly DEF Loads, RowsOf, taskVars
<1>6. CASE ChunkCompletes(t, s)
  <2> DEFINE r == [task[t] EXCEPT !.loaded = @ \ {s}]
  <2>1. /\ s \in task[t].loaded /\ index' = index /\ task' = [task EXCEPT ![t] = r]
        /\ segs' = [u \in Segs |-> IF u = s /\ segs[u] = "indexing" THEN "completed" ELSE segs[u]]
    BY <1>6 DEF ChunkCompletes, CompleteRows, TypeInv, TypeOK
  <2>2. /\ r \in TaskRecord /\ r.kind = task[t].kind /\ r.docs = task[t].docs /\ r.pc = "loading"
        /\ r.checked = task[t].checked /\ r.loaded = task[t].loaded \ {s}
        /\ r.todo = task[t].todo /\ r.raised = task[t].raised /\ r.kw = task[t].kw
    BY <1>1 DEF TaskRecord
  <2> HIDE DEF r
  <2>3. Stored' = Stored /\ task'[t] = r
    BY <2>1 DEF Stored, TypeInv, TypeOK
  <2>4. ~Redone => OneSplitting' /\ InHand(t)'
    <3> SUFFICES ASSUME ~Redone PROVE OneSplitting' /\ InHand(t)'
      OBVIOUS
    <3>1. technique = "high_quality" /\ s \in index /\ s \in Stored /\ OneSplitting
      BY <1>2, <2>1 DEF InHand, RowsOf
    <3>2. segs'[s] = "completed" /\ \A u \in Segs \ {s} : segs'[u] = segs[u]
      BY <2>1, <3>1 DEF OneSplitting
    <3>3. OneSplitting'
      BY <2>1, <2>3, <3>1, <3>2 DEF OneSplitting, Stored
    <3>4. Unfinished' \subseteq Unfinished \ {s}
      BY <2>3, <3>2 DEF Unfinished, Stored
    <3>5. InHand(t)'
      BY <1>2, <1>3, <2>2, <2>3, <3>1, <3>4 DEF InHand, taskVars
    <3> QED
      BY <3>3, <3>5
  <2> QED
    BY <1>1, <1>2, <1>3, <2>1, <2>2, <2>3, <2>4, LoadsOrderly DEF Loads, RowsOf, taskVars
<1> QED
  BY <1>4, <1>5, <1>6

\* The keyword thread.
LEMMA KeywordOrderly ==
  ASSUME TypeInv, Orderly, NEW t \in Tasks, KeywordCreates(t) \/ KeywordCompletes(t)
  PROVE  Orderly'
<1>1. task[t].pc = "loading" /\ task[t] \in TaskRecord
  BY ThreadsLoading DEF KeywordCreates, KeywordCompletes, TypeInv, TypeOK
<1>2. /\ RowsOf(t) /\ index \subseteq Stored
      /\ ~Redone => OneSplitting /\ InHand(t)
  BY <1>1, LoadingKnown
<1>3. StepOf(t) /\ UNCHANGED taskVars /\ status' = status
  <2>1. Good(t)
    BY KeywordIsGood
  <2> QED
    BY <2>1 DEF Good, KeywordCreates, KeywordCompletes
<1>4. ASSUME NEW kw \in {"created", "ended"}
      PROVE  LET r == [task[t] EXCEPT !.kw = kw] IN
             /\ r \in TaskRecord /\ r.kind = task[t].kind /\ r.docs = task[t].docs
             /\ r.pc = "loading" /\ r.checked = task[t].checked /\ r.loaded = task[t].loaded
             /\ r.todo = task[t].todo /\ r.raised = task[t].raised /\ r.kw = kw
  BY <1>1 DEF TaskRecord
<1>5. CASE KeywordCreates(t)
  <2> DEFINE kw == IF technique = "economy" THEN "created" ELSE "ended"
             r == [task[t] EXCEPT !.kw = kw]
  <2>1. /\ segs' = segs /\ task' = [task EXCEPT ![t] = r]
        /\ index' = (IF technique = "economy" THEN index \cup task[t].docs ELSE index)
    BY <1>5 DEF KeywordCreates, TypeInv, TypeOK
  <2>2. technique \in {"high_quality", "economy"} /\ kw \in {"created", "ended"}
    BY DEF TypeInv, TypeOK
  <2>3. /\ technique = "economy" => kw = "created"
        /\ technique = "high_quality" => kw = "ended"
    OBVIOUS
  <2>4. task[t].kw = "run"
    BY <1>5 DEF KeywordCreates
  <2> HIDE DEF kw
  <2>5. /\ r \in TaskRecord /\ r.kind = task[t].kind /\ r.docs = task[t].docs
        /\ r.pc = "loading" /\ r.checked = task[t].checked /\ r.loaded = task[t].loaded
        /\ r.todo = task[t].todo /\ r.raised = task[t].raised /\ r.kw = kw
    BY <1>4, <2>2
  <2> HIDE DEF r
  <2>6. /\ Stored' = Stored /\ Unfinished' = Unfinished /\ task'[t] = r
        /\ index \subseteq index' /\ index' \subseteq Stored
    BY <1>2, <2>1 DEF Stored, Unfinished, RowsOf, TypeInv, TypeOK
  <2>7. ~Redone => OneSplitting' /\ InHand(t)'
    <3> SUFFICES ASSUME ~Redone PROVE OneSplitting' /\ InHand(t)'
      OBVIOUS
    <3>1. OneSplitting'
      BY <1>2, <2>1, <2>6 DEF OneSplitting
    <3>2. CASE technique = "high_quality"
      BY <1>2, <1>3, <2>3, <2>5, <2>6, <3>1, <3>2 DEF InHand, taskVars
    <3>3. CASE technique = "economy"
      BY <1>2, <1>3, <2>1, <2>3, <2>5, <2>6, <3>1, <3>3 DEF InHand, taskVars
    <3> QED
      BY <2>2, <3>1, <3>2, <3>3
  <2> QED
    BY <1>1, <1>2, <1>3, <2>1, <2>5, <2>6, <2>7, LoadsOrderly DEF Loads, RowsOf, taskVars
<1>6. CASE KeywordCompletes(t)
  <2> DEFINE r == [task[t] EXCEPT !.kw = "ended"]
  <2>1. /\ task[t].kw = "created" /\ index' = index /\ task' = [task EXCEPT ![t] = r]
        /\ segs' = [s \in Segs |-> IF s \in task[t].docs /\ segs[s] = "indexing"
                                   THEN "completed" ELSE segs[s]]
    BY <1>6 DEF KeywordCompletes, CompleteRows, TypeInv, TypeOK
  <2>2. /\ r \in TaskRecord /\ r.kind = task[t].kind /\ r.docs = task[t].docs
        /\ r.pc = "loading" /\ r.checked = task[t].checked /\ r.loaded = task[t].loaded
        /\ r.todo = task[t].todo /\ r.raised = task[t].raised /\ r.kw = "ended"
    BY <1>4
  <2> HIDE DEF r
  <2>3. Stored' = Stored /\ task'[t] = r
    BY <2>1 DEF Stored, TypeInv, TypeOK
  <2>4. ~Redone => OneSplitting' /\ InHand(t)'
    <3> SUFFICES ASSUME ~Redone PROVE OneSplitting' /\ InHand(t)'
      OBVIOUS
    <3>1. technique # "high_quality" /\ OneSplitting /\ task[t].docs \subseteq index
          /\ Unfinished \subseteq task[t].docs
      BY <1>2, <2>1 DEF InHand
    <3>2. OneSplitting'
      BY <2>1, <2>3, <3>1 DEF OneSplitting, Stored
    <3>3. Unfinished' = {}
      BY <2>1, <2>3, <3>1 DEF OneSplitting, Unfinished, Stored
    <3>4. InHand(t)'
      BY <1>2, <1>3, <2>1, <2>2, <2>3, <3>1, <3>3 DEF InHand, taskVars
    <3> QED
      BY <3>2, <3>4
  <2> QED
    BY <1>1, <1>2, <1>3, <2>1, <2>2, <2>3, <2>4, LoadsOrderly DEF Loads, RowsOf, taskVars
<1> QED
  BY <1>5, <1>6

LEMMA LoadEndsOrderly ==
  ASSUME TypeInv, Orderly, NEW t \in Tasks, LoadEnds(t)
  PROVE  Orderly'
<1>1. /\ task[t].pc = "loading" /\ UNCHANGED <<taskVars, segs, index>>
      /\ task[t].todo = {} /\ task[t].checked = {} /\ task[t].loaded = {}
  BY DEF LoadEnds, ChunksEnded
<1>2. t \in Running /\ task[t].kind # "clean" /\ task[t].pc # "unkey"
  BY <1>1 DEF Running, TypeInv, Shape
<1>3. CASE StopPaused(t)
  BY <1>1, <1>3, StopsOrderly DEF taskVars
<1>4. CASE Fail(t)
  BY <1>1, <1>2, <1>4, FailsOrderly DEF taskVars
<1>5. CASE task[t].raised = {} /\ task[t].kw = "ended" /\ Step(t, "loading", "finish")
           /\ UNCHANGED status
  <2>1. /\ task'[t].pc = "finish" /\ task'[t].kind = task[t].kind /\ task'[t].docs = task[t].docs
        /\ task'[t].todo = {} /\ task'[t].checked = {} /\ task'[t].loaded = {}
    BY <1>1, <1>5, PcStep DEF TaskPc
  <2>2. StepOf(t)
    BY EndIsGood DEF Good
  <2>3. Works(t)
    BY <1>1, <1>2, <1>5, <2>1, <2>2 DEF Works, Exists, taskVars
  <2>4. RowsOf(t) /\ index \subseteq Stored /\ Stored' = Stored
    BY <1>1, LoadingKnown DEF Stored
  <2>5. RowsOf(t)'
    BY <1>1, <2>1, <2>4 DEF RowsOf
  <2>6. ~Redone => Progress(t)'
    <3> SUFFICES ASSUME ~Redone PROVE Progress(t)'
      OBVIOUS
    <3>1. OneSplitting /\ InHand(t)
      BY <1>1, LoadingKnown
    <3>2. Unfinished = {}
      BY <1>1, <1>5, <3>1 DEF InHand
    <3>3. Whole
      BY <2>4, <3>1, <3>2 DEF OneSplitting, Unfinished, Whole
    <3>4. Whole'
      BY <1>1, <2>4, <3>3 DEF Whole
    <3>5. status = "indexing"
      BY <1>1, <1>2, NotRedone DEF Progress, StatusFits
    <3> QED
      BY <1>5, <2>1, <3>4, <3>5 DEF Progress, StatusFits
  <2> QED
    BY <1>1, <1>2, <2>1, <2>3, <2>4, <2>5, <2>6, WorkIsOrderly
<1> QED
  BY <1>3, <1>4, <1>5 DEF LoadEnds

\* The rest of the ways in which a task ends.
LEMMA EndOrderly ==
  ASSUME TypeInv, Orderly, NEW t \in Tasks,
         RunnerFails(t) \/ Finish(t) \/ SetCompleted(t) \/ DeleteRetryKey(t)
  PROVE  Orderly'
<1>1. /\ UNCHANGED <<taskVars, segs, index>> /\ Stored' = Stored
      /\ task[t].pc \in {"extract", "add", "load", "finish", "complete", "unkey"}
  BY DEF RunnerFails, Finish, CheckRow, SetCompleted, DeleteRetryKey, StopPaused, Step, Stored
<1>2. t \in Running /\ task[t].kind # "clean" /\ call' = call
  BY <1>1 DEF Running, TypeInv, Shape, taskVars
<1>3. RowsOf(t) /\ index \subseteq Stored
  BY <1>2, RowsBefore
<1>4. ~Redone => Exists /\ Progress(t)
  BY <1>2, NotRedone
<1>5. CASE RunnerFails(t)
  BY <1>1, <1>2, <1>5, FailsOrderly DEF RunnerFails
<1>6. CASE Finish(t)
  <2>1. CheckRow(t, "finish", "complete") /\ task[t].pc = "finish"
    BY <1>6 DEF Finish, CheckRow
  <2>2. CASE paused
    BY <1>1, <1>2, <2>1, <2>2, StopsOrderly DEF CheckRow
  <2>3. CASE ~paused /\ ~Exists
    BY <1>1, <1>2, <2>1, <2>3, FailsOrderly DEF CheckRow
  <2>4. CASE ~paused /\ Exists
    <3>1. Step(t, "finish", "complete") /\ status' = status
      BY <2>1, <2>4 DEF CheckRow
    <3>2. task'[t].pc = "complete" /\ task'[t].kind = task[t].kind
      BY <3>1, PcStep DEF TaskPc
    <3>3. Exists' <=> Exists
      BY <3>1 DEF Exists
    <3>4. ~Redone => Progress(t)'
      BY <1>1, <1>4, <2>1, <3>1, <3>2 DEF Progress, StatusFits, Whole
    <3>5. StepOf(t)
      BY <1>6, EndIsGood DEF Good
    <3> QED
      BY <1>1, <1>2, <1>3, <3>1, <3>3, <3>4, <3>5, MovesOrderly DEF RowsOf, TaskPc
  <2> QED
    BY <2>2, <2>3, <2>4
<1>7. CASE SetCompleted(t)
  <2>1. /\ End(t) /\ status' = (IF Exists THEN "completed" ELSE "deleted")
        /\ task[t].pc = "complete"
    BY <1>7 DEF SetCompleted, SetStatus
  <2>2. Exists' <=> Exists
    BY <2>1 DEF Exists
  <2>3. ~Redone => Resumable'
    BY <1>1, <1>4, <2>1 DEF Progress, Whole, Resumable
  <2> QED
    BY <1>1, <1>2, <2>1, <2>2, <2>3, EndsOrderly
<1>8. CASE DeleteRetryKey(t)
  <2>1. task' = [task EXCEPT ![t] = Ended(t)] /\ status' = status /\ task[t].pc = "unkey"
    BY <1>8 DEF DeleteRetryKey
  <2>2. task'[t].pc = "done" /\ task'[t].kind = task[t].kind /\ StepOf(t)
    BY <2>1, EndedIs, EndedStep DEF TypeInv, TypeOK
  <2>3. Works(t)
    BY <1>2, <2>1, <2>2 DEF Works, Exists
  <2>4. Running = {t} /\ Running' = {} /\ InQueue' = InQueue
    BY <2>2, <2>3, WorkKeeps
  <2>5. DeletedIsCleaned'
    <3> SUFFICES ASSUME ~Exists'
                 PROVE  (\E u \in InQueue' : task'[u].kind = "clean") \/ (Stored' = {} /\ index' = {})
      BY <2>4 DEF DeletedIsCleaned
    <3>1. CASE \E u \in InQueue : task[u].kind = "clean"
      BY <2>2, <2>4, <3>1 DEF StepOf, InQueue
    <3>2. CASE Stored = {} /\ index = {}
      BY <1>1, <3>2
    <3> QED
      BY <1>2, <2>1, <2>4, <3>1, <3>2 DEF Orderly, DeletedIsCleaned, Exists
  <2>6. ~Redone => Resumable'
    <3> SUFFICES ASSUME ~Redone PROVE Resumable'
      OBVIOUS
    <3>1. Resumable
      BY <1>4, <2>1 DEF Progress
    <3> QED
      BY <1>1, <2>1, <3>1 DEF Resumable, Nothing, OneSplitting, Whole
  <2> QED
    BY <1>1, <1>3, <2>2, <2>3, <2>5, <2>6, WorkIsOrderly
<1> QED
  BY <1>5, <1>6, <1>7, <1>8

(***************************************************************************)
(* Taking a task                                                           *)
(***************************************************************************)

\* The head of the queue is taken when no task runs.
LEMMA TakeKeeps ==
  ASSUME TypeInv, Orderly, mishaps' = {}, NEW t \in Tasks, Take(t), StepOf(t),
         task'[t].kind = task[t].kind, task'[t].pc # "queued", Exists' <=> Exists
  PROVE  /\ Running = {} /\ Running' = IF task'[t].pc = "done" THEN {} ELSE {t}
         /\ OneRuns' /\ IndexIsFirst' /\ CleanMeansDeleted'
         /\ InQueue' = InQueue \ {t} /\ t \in InQueue
         /\ \A u \in Tasks : task'[u].kind = task[u].kind
<1>1. Running = {} /\ t \in InQueue /\ \A u \in InQueue : t <= u
  BY DEF Take, InQueue
<1>2. \A u \in Tasks \ {t} : task'[u] = task[u] /\ task[u].pc \in {"queued", "done"}
  BY <1>1 DEF StepOf, Running
<1>3. Running' = IF task'[t].pc = "done" THEN {} ELSE {t}
  BY <1>2 DEF Running, Tasks
<1>4. InQueue' = InQueue \ {t}
  BY <1>2 DEF InQueue, Tasks
<1>5. \A u \in Tasks : task'[u].kind = task[u].kind
  BY <1>2
<1>6. OneRuns'
  BY <1>3 DEF OneRuns
<1>7. IndexIsFirst'
  <2>1. 1 \in Tasks /\ t \in Nat \ {0}
    BY DocumentIndexingAssumption DEF Tasks
  <2>2. task'[1].pc # "queued"
    <3> SUFFICES ASSUME task'[1].pc = "queued" PROVE FALSE
      OBVIOUS
    <3>1. t # 1 /\ 1 \in InQueue
      BY <1>4, <2>1 DEF InQueue
    <3> QED
      BY <1>1, <2>1, <3>1
  <2> QED
    BY <1>5, <2>1, <2>2 DEF Orderly, IndexIsFirst, Tasks
<1>8. CleanMeansDeleted'
  BY <1>5 DEF Take, taskVars, Orderly, CleanMeansDeleted, Tasks
<1> QED
  BY <1>1, <1>3, <1>4, <1>5, <1>6, <1>7, <1>8

\* What is left to show of taking a task.
LEMMA TakeIsOrderly ==
  ASSUME TypeInv, Orderly, mishaps' = {}, NEW t \in Tasks, Take(t), StepOf(t),
         task'[t].kind = task[t].kind,
         task'[t].pc \in {"extract", "wipe", "reload", "clean", "done", "unkey"},
         task'[t].docs = {}, Exists' <=> Exists,
         ~Exists => task'[t].pc \in {"done", "unkey"} \/ task[t].kind = "clean",
         task[t].kind = "clean" => task'[t].pc = "clean",
         task[t].kind \in {"retry", "update", "duplicate"} \/ ~Redone =>
           Redone' \/ IF task'[t].pc = "done" THEN Resumable' ELSE Progress(t)'
  PROVE  Orderly'
<1>1. /\ Running = {} /\ Running' = IF task'[t].pc = "done" THEN {} ELSE {t}
      /\ OneRuns' /\ IndexIsFirst' /\ CleanMeansDeleted'
      /\ InQueue' = InQueue \ {t} /\ t \in InQueue
      /\ \A u \in Tasks : task'[u].kind = task[u].kind
  BY TakeKeeps
<1>2. UNCHANGED <<segs, index, call>> /\ Stored' = Stored
  BY DEF Take, taskVars, Stored
<1>3. task'[t].todo = {} /\ task'[t].checked = {} /\ task'[t].loaded = {}
  BY DEF StepOf, Shape
<1>4. NodesHaveRows'
  <2>1. \A u \in Running' : u = t
    BY <1>1
  <2> QED
    BY <1>2, <1>3, <2>1 DEF Orderly, NodesHaveRows
<1>5. DeletedIsCleaned'
  <2> SUFFICES ASSUME ~Exists'
               PROVE  \/ \E u \in InQueue' : task'[u].kind = "clean"
                      \/ \E u \in Running' : task'[u].kind = "clean"
                      \/ Stored' = {} /\ index' = {} /\ \A u \in Running' : task'[u].pc = "unkey"
    BY DEF DeletedIsCleaned
  <2>1. CASE \E u \in InQueue \ {t} : task[u].kind = "clean"
    BY <1>1, <2>1 DEF InQueue
  <2>2. CASE task[t].kind = "clean"
    BY <1>1, <2>2
  <2>3. CASE Stored = {} /\ index = {} /\ task[t].kind # "clean"
    <3>1. \A u \in Running' : u = t /\ task'[t].pc # "done"
      BY <1>1
    <3> QED
      BY <1>2, <2>3, <3>1
  <2> QED
    BY <1>1, <2>1, <2>2, <2>3 DEF Orderly, DeletedIsCleaned
<1>6. Accounted'
  <2>1. CASE Redone /\ task[t].kind \notin {"retry", "update", "duplicate"}
    <3>1. CASE \E u \in InQueue : task[u].kind \in {"retry", "update", "duplicate"}
      <4>1. PICK u \in InQueue : task[u].kind \in {"retry", "update", "duplicate"}
        BY <3>1
      <4>2. u \in InQueue' /\ task'[u].kind = task[u].kind
        BY <1>1, <2>1, <4>1 DEF InQueue
      <4> QED
        BY <4>1, <4>2 DEF Accounted, Redone
    <3>2. CASE ~Exists \/ \E c \in Callers :
                 call[c] \in {"retryTask", "updateTask", "duplicateTask", "deleteRow"}
      BY <1>2, <3>2 DEF Accounted, Redone
    <3> QED
      BY <2>1, <3>1, <3>2 DEF Redone
  <2>2. CASE Redone'
    BY <2>2 DEF Accounted
  <2>3. CASE task'[t].pc = "done" /\ Resumable'
    BY <1>1, <2>3 DEF Accounted
  <2>4. CASE task'[t].pc # "done" /\ Progress(t)'
    <3>1. Running' = {t}
      BY <1>1, <2>4
    <3> QED
      BY <2>4, <3>1 DEF Accounted
  <2> QED
    BY <2>1, <2>2, <2>3, <2>4
<1> QED
  BY <1>1, <1>4, <1>5, <1>6 DEF Orderly

\* The record of the task that is taken.
LEMMA TakenIs ==
  ASSUME TypeInv, NEW t \in Tasks, task[t].pc = "queued",
         \/ task' = [task EXCEPT ![t] = Ended(t)]
         \/ \E pc \in TaskPc : task' = [task EXCEPT ![t] = [task[t] EXCEPT !.pc = pc]]
         \/ End(t)
  PROVE  task'[t].kind = task[t].kind /\ task'[t].docs = {}
<1>1. task[t] \in TaskRecord /\ task[t].docs = {}
  BY DEF TypeInv, TypeOK, Shape
<1>2. CASE task' = [task EXCEPT ![t] = Ended(t)]
  BY <1>2, EndedIs DEF TypeInv, TypeOK
<1>3. CASE \E pc \in TaskPc : task' = [task EXCEPT ![t] = [task[t] EXCEPT !.pc = pc]]
  <2>1. PICK pc \in TaskPc : task' = [task EXCEPT ![t] = [task[t] EXCEPT !.pc = pc]]
    BY <1>3
  <2>2. task'[t] = [task[t] EXCEPT !.pc = pc]
    BY <2>1 DEF TypeInv, TypeOK
  <2> QED
    BY <1>1, <2>2 DEF TaskRecord
<1>4. CASE End(t)
  <2>1. CASE task[t].kind = "retry"
    <3> DEFINE r == [Ended(t) EXCEPT !.pc = "unkey"]
    <3>1. r.kind = task[t].kind /\ r.docs = {}
      BY EndedIs DEF TaskRecord
    <3>2. task' = [task EXCEPT ![t] = r]
      BY <1>4, <2>1 DEF End, TypeInv, TypeOK
    <3> HIDE DEF r
    <3> QED
      BY <3>1, <3>2 DEF TypeInv, TypeOK
  <2>2. CASE task[t].kind # "retry"
    BY <1>2, <1>4, <2>2 DEF End, TypeInv, TypeOK
  <2> QED
    BY <2>1, <2>2
<1> QED
  BY <1>2, <1>3, <1>4

LEMMA TakeOrderly ==
  ASSUME TypeInv, Orderly, mishaps' = {}, NEW t \in Tasks,
         \/ TakeIndex(t) \/ TakeRecover(t) \/ TakeRetry(t) \/ TakeUpdate(t) \/ TakeClean(t)
         \/ Refuse(t)
  PROVE  Orderly'
<1>1. /\ Take(t) /\ StepOf(t) /\ task[t].pc = "queued"
      /\ UNCHANGED <<segs, index, call, technique>> /\ Stored' = Stored
  <2>1. Take(t) /\ StepOf(t)
    BY TakeIsGood DEF Good, TakeIndex, TakeRecover, TakeRetry, TakeUpdate, TakeClean, Refuse
  <2> QED
    BY <2>1 DEF Take, taskVars, Stored
<1>2. task[t] \in TaskRecord /\ Running = {}
  BY <1>1 DEF Take, TypeInv, TypeOK
<1>3. ASSUME ~Redone PROVE Resumable /\ Exists /\ task[t].kind # "clean"
  <2>1. Exists /\ ~\E c \in Callers : call[c] = "deleteRow"
    BY <1>3 DEF Redone
  <2> QED
    BY <1>2, <1>3, <2>1 DEF Orderly, Accounted, CleanMeansDeleted
<1>4. ASSUME NEW pc \in {"extract", "wipe", "reload", "clean"},
             task' = [task EXCEPT ![t] = [task[t] EXCEPT !.pc = pc]]
      PROVE  task'[t].pc = pc /\ task'[t].kind = task[t].kind /\ task'[t].docs = {}
  <2>1. pc \in TaskPc
    BY DEF TaskPc
  <2>2. task'[t].pc = pc
    BY <1>2, <1>4 DEF TypeInv, TypeOK, TaskRecord
  <2> QED
    BY <1>1, <1>4, <2>1, <2>2, TakenIs
<1>5. ASSUME task' = [task EXCEPT ![t] = Ended(t)]
      PROVE  task'[t].pc = "done" /\ task'[t].kind = task[t].kind /\ task'[t].docs = {}
  BY <1>5, EndedIs DEF TypeInv, TypeOK
<1>6. CASE TakeIndex(t)
  <2>1. task[t].kind = "index" /\ status' = (IF Exists THEN "parsing" ELSE "deleted")
    BY <1>6 DEF TakeIndex, SetStatus
  <2>2. Exists' <=> Exists
    BY <2>1 DEF Exists
  <2>3. CASE Exists
    <3>1. task' = [task EXCEPT ![t] = [task[t] EXCEPT !.pc = "extract"]]
      BY <1>6, <2>3 DEF TakeIndex, TypeInv, TypeOK
    <3>2. Stored = {} /\ index = {}
      BY <1>1, <2>1 DEF Orderly, IndexIsFirst
    <3>3. Progress(t)'
      BY <1>1, <1>4, <2>1, <2>3, <3>1, <3>2 DEF Progress, StatusFits, Nothing
    <3> QED
      BY <1>1, <1>4, <2>1, <2>2, <2>3, <3>1, <3>3, TakeIsOrderly
  <2>4. CASE ~Exists
    <3>1. task' = [task EXCEPT ![t] = Ended(t)] /\ Redone'
      BY <1>6, <2>2, <2>4 DEF TakeIndex, TypeInv, TypeOK, Redone
    <3> QED
      BY <1>1, <1>5, <2>1, <2>2, <2>4, <3>1, TakeIsOrderly
  <2> QED
    BY <2>3, <2>4
<1>7. CASE TakeRecover(t)
  <2>1. task[t].kind = "recover" /\ status' = status
    BY <1>7 DEF TakeRecover
  <2>2. (Exists' <=> Exists) /\ (Resumable => Resumable')
    BY <1>1, <2>1 DEF Exists, Resumable, Nothing, OneSplitting, Whole
  <2>3. CASE status \in {"waiting", "parsing", "splitting", "indexing"}
    <3>1. PICK pc \in {"extract", "wipe", "reload"} :
            /\ task' = [task EXCEPT ![t] = [task[t] EXCEPT !.pc = pc]]
            /\ pc = "extract" => status \in {"waiting", "parsing"}
            /\ pc = "wipe" => status = "splitting"
            /\ pc = "reload" => status = "indexing"
      BY <1>7, <2>3 DEF TakeRecover, TypeInv, TypeOK
    <3>2. ~Redone => Progress(t)'
      <4> SUFFICES ASSUME ~Redone PROVE Progress(t)'
        OBVIOUS
      <4>1. Resumable'
        BY <1>3, <2>2
      <4>2. task'[t].pc = pc /\ task'[t].kind = "recover"
        BY <1>4, <2>1, <3>1
      <4> QED
        BY <2>1, <3>1, <4>1, <4>2 DEF Progress, StatusFits, Resumable
    <3>3. Exists
      BY <2>3 DEF Exists
    <3> QED
      BY <1>1, <1>4, <2>1, <2>2, <3>1, <3>2, <3>3, TakeIsOrderly
  <2>4. CASE status \notin {"waiting", "parsing", "splitting", "indexing"}
    <3>1. task' = [task EXCEPT ![t] = Ended(t)]
      BY <1>7, <2>4 DEF TakeRecover, TypeInv, TypeOK
    <3> QED
      BY <1>1, <1>3, <1>5, <2>1, <2>2, <3>1, TakeIsOrderly
  <2> QED
    BY <2>3, <2>4
<1>8. CASE TakeRetry(t)
  <2>1. task[t].kind \in {"retry", "duplicate"} /\ status' = status
    BY <1>8 DEF TakeRetry
  <2>2. Exists' <=> Exists
    BY <2>1 DEF Exists
  <2>3. CASE Exists
    <3>1. task' = [task EXCEPT ![t] = [task[t] EXCEPT !.pc = "clean"]]
      BY <1>8, <2>3 DEF TakeRetry, TypeInv, TypeOK
    <3>2. Progress(t)'
      BY <1>4, <2>1, <3>1 DEF Progress, StatusFits
    <3> QED
      BY <1>1, <1>4, <2>1, <2>2, <2>3, <3>1, <3>2, TakeIsOrderly
  <2>4. CASE ~Exists
    <3>1. task' = [task EXCEPT ![t] = Ended(t)] /\ Redone'
      BY <1>8, <2>2, <2>4 DEF TakeRetry, TypeInv, TypeOK, Redone
    <3> QED
      BY <1>1, <1>5, <2>1, <2>2, <2>4, <3>1, TakeIsOrderly
  <2> QED
    BY <2>3, <2>4
<1>9. CASE TakeUpdate(t)
  <2>1. task[t].kind = "update" /\ status' = (IF Exists THEN "parsing" ELSE "deleted")
    BY <1>9 DEF TakeUpdate, SetStatus
  <2>2. Exists' <=> Exists
    BY <2>1 DEF Exists
  <2>3. CASE Exists
    <3>1. task' = [task EXCEPT ![t] = [task[t] EXCEPT !.pc = "clean"]]
      BY <1>9, <2>3 DEF TakeUpdate, TypeInv, TypeOK
    <3>2. Progress(t)'
      BY <1>4, <2>1, <2>3, <3>1 DEF Progress, StatusFits
    <3> QED
      BY <1>1, <1>4, <2>1, <2>2, <2>3, <3>1, <3>2, TakeIsOrderly
  <2>4. CASE ~Exists
    <3>1. task' = [task EXCEPT ![t] = Ended(t)] /\ Redone'
      BY <1>9, <2>2, <2>4 DEF TakeUpdate, TypeInv, TypeOK, Redone
    <3> QED
      BY <1>1, <1>5, <2>1, <2>2, <2>4, <3>1, TakeIsOrderly
  <2> QED
    BY <2>3, <2>4
<1>10. CASE TakeClean(t)
  <2>1. task[t].kind = "clean" /\ status' = status
        /\ task' = [task EXCEPT ![t] = [task[t] EXCEPT !.pc = "clean"]]
    BY <1>10 DEF TakeClean, TypeInv, TypeOK
  <2>2. (Exists' <=> Exists) /\ Redone
    BY <1>3, <2>1 DEF Exists
  <2> QED
    BY <1>1, <1>4, <2>1, <2>2, TakeIsOrderly
<1>11. CASE Refuse(t)
  <2>1. /\ task[t].kind \in {"index", "retry", "duplicate"} /\ End(t)
        /\ status' = (IF Exists THEN "error" ELSE "deleted")
    BY <1>11 DEF Refuse, SetStatus
  <2>2. /\ Exists' <=> Exists
        /\ task'[t].pc \in {"done", "unkey"} /\ task'[t].kind = task[t].kind /\ task'[t].docs = {}
    BY <1>1, <2>1, EndStep, TakenIs DEF Exists
  <2>3. Resumable'
    BY <2>1 DEF Resumable
  <2>4. task'[t].pc = "unkey" => Progress(t)'
    BY <2>3 DEF Progress, StatusFits
  <2> QED
    BY <1>1, <2>1, <2>2, <2>3, <2>4, TakeIsOrderly
<1> QED
  BY <1>6, <1>7, <1>8, <1>9, <1>10, <1>11

LEMMA RunsOrderly ==
  ASSUME TypeInv, Orderly, mishaps' = {}, NEW t \in Tasks, Runs(t) \/ Crash(t)
  PROVE  Orderly'
<1>1. ~(CleanFails(t) \/ KeywordFails(t) \/ Crash(t))
  BY DEF CleanFails, KeywordFails, Crash
<1> QED
  BY <1>1, TakeOrderly, CleanOrderly, DropOrderly, SplitOrderly, AddOrderly, ReloadOrderly,
     LoadOrderly, ChunkOrderly, KeywordOrderly, LoadEndsOrderly, EndOrderly DEF Runs

(***************************************************************************)
(* The requests                                                            *)
(***************************************************************************)

\* A task joins the queue; what runs goes on as it did.
LEMMA DelayKeeps ==
  ASSUME TypeInv, Orderly, NEW kind \in Kinds \ {"none", "index"}, Delay(kind)
  PROVE  /\ Running' = Running /\ \A u \in Running : task'[u] = task[u]
         /\ InQueue \subseteq InQueue' /\ \A u \in InQueue : task'[u] = task[u]
         /\ \E t \in InQueue' : task'[t].kind = kind
         /\ \A u \in Tasks : task'[u].kind # task[u].kind => task'[u].kind = kind
         /\ task'[1] = task[1]
<1>1. PICK t \in Tasks : task[t] = NoTask /\ task' = [task EXCEPT ![t] = Queued(kind)]
  BY DEF Delay
<1>2. /\ NoTask.pc = "done" /\ NoTask.kind = "none"
      /\ Queued(kind).pc = "queued" /\ Queued(kind).kind = kind
  BY DEF NoTask, Queued
<1>3. task'[t] = Queued(kind) /\ \A u \in Tasks \ {t} : task'[u] = task[u]
  BY <1>1 DEF TypeInv, TypeOK
<1>4. t # 1 /\ 1 \in Tasks
  BY <1>1, <1>2, DocumentIndexingAssumption DEF Orderly, IndexIsFirst, Tasks
<1>5. Running' = Running
  BY <1>1, <1>2, <1>3 DEF Running, Tasks
<1>6. InQueue' = InQueue \cup {t} /\ t \notin InQueue /\ t \notin Running
  BY <1>1, <1>2, <1>3 DEF InQueue, Running, Tasks
<1> QED
  BY <1>2, <1>3, <1>4, <1>5, <1>6 DEF InQueue, Running

\* What every request keeps: the rows that there are, the index, and the tasks,
\* of which it may queue one.
Asks ==
  /\ Running' = Running /\ \A u \in Running : task'[u] = task[u]
  /\ InQueue \subseteq InQueue' /\ \A u \in InQueue : task'[u] = task[u]
  /\ task'[1] = task[1]
  /\ \A u \in Tasks : task'[u].kind # task[u].kind => task'[u].kind # "index"
  /\ (\E u \in Tasks : task'[u].kind # task[u].kind /\ task'[u].kind = "clean")
       => \E c \in Callers : call'[c] = "deleteRow"
  /\ UNCHANGED <<technique, index>> /\ Stored' = Stored
  /\ Exists' => Exists

LEMMA RequestsAsk ==
  ASSUME TypeInv, Orderly, Requests
  PROVE  Asks
<1>1. /\ UNCHANGED <<technique, index>> /\ Stored' = Stored
  <2>1. segs' = segs \/ segs' = [s \in Segs |-> IF s \in Stored THEN "re_segment" ELSE "none"]
    BY DEF Requests, RetryKeyExpires, PauseRead, PauseSet, PauseFlag, RecoverRead, RecoverSet,
           RecoverTask, RetryRead, RetrySet, RetryTask, UpdateRead, UpdateSet, UpdateTask,
           DuplicateSet, DuplicateTask, DeleteSend, DeleteRow
  <2>2. UNCHANGED <<technique, index>>
    BY DEF Requests, RetryKeyExpires, PauseRead, PauseSet, PauseFlag, RecoverRead, RecoverSet,
           RecoverTask, RetryRead, RetrySet, RetryTask, UpdateRead, UpdateSet, UpdateTask,
           DuplicateSet, DuplicateTask, DeleteSend, DeleteRow, reqVars
  <2> QED
    BY <2>1, <2>2 DEF Stored
<1>2. Exists' => Exists
  BY DEF Requests, RetryKeyExpires, PauseRead, PauseSet, PauseFlag, RecoverRead, RecoverSet,
         RecoverTask, RetryRead, RetrySet, RetryTask, UpdateRead, UpdateSet, UpdateTask,
         DuplicateSet, DuplicateTask, DeleteSend, DeleteRow, CommitOrFail, Exists
<1>3. \/ task' = task
      \/ \E kind \in {"recover", "retry", "update", "duplicate"} : Delay(kind)
      \/ \E c \in Callers : DeleteSend(c)
  BY DEF Requests, RetryKeyExpires, PauseRead, PauseSet, PauseFlag, RecoverRead, RecoverSet,
         RecoverTask, RetryRead, RetrySet, RetryTask, UpdateRead, UpdateSet, UpdateTask,
         DuplicateSet, DuplicateTask, DeleteRow
<1>4. CASE task' = task
  <2>1. Running' = Running /\ InQueue' = InQueue
    BY <1>4 DEF Running, InQueue
  <2> QED
    BY <1>1, <1>2, <1>4, <2>1 DEF Asks
<1>5. CASE \E kind \in {"recover", "retry", "update", "duplicate"} : Delay(kind)
  <2>1. PICK kind \in {"recover", "retry", "update", "duplicate"} : Delay(kind)
    BY <1>5
  <2>2. kind \in Kinds \ {"none", "index"}
    BY DEF Kinds
  <2> QED
    BY <1>1, <1>2, <2>1, <2>2, DelayKeeps DEF Asks
<1>6. CASE \E c \in Callers : DeleteSend(c)
  <2>1. PICK c \in Callers : DeleteSend(c)
    BY <1>6
  <2>2. Delay("clean") /\ call'[c] = "deleteRow" /\ "clean" \in Kinds \ {"none", "index"}
    BY <2>1 DEF DeleteSend, Request, TypeInv, TypeOK, Kinds
  <2> QED
    BY <1>1, <1>2, <2>2, DelayKeeps DEF Asks
<1> QED
  BY <1>3, <1>4, <1>5, <1>6

\* A document that was to be done anew still is: a request that will queue the
\* task for it queues it, and one that deletes the document deletes it.
LEMMA RedoneStays ==
  ASSUME TypeInv, Orderly, Requests, Redone
  PROVE  Redone'
<1>1. Asks
  BY RequestsAsk
<1>2. CASE ~Exists
  BY <1>1, <1>2 DEF Asks, Redone
<1>3. CASE \E u \in InQueue : task[u].kind \in {"retry", "update", "duplicate"}
  BY <1>1, <1>3 DEF Asks, Redone
<1>4. CASE \E d \in Callers : call[d] \in {"retryTask", "updateTask", "duplicateTask", "deleteRow"}
  <2>1. PICK d \in Callers : call[d] \in {"retryTask", "updateTask", "duplicateTask", "deleteRow"}
    BY <1>4
  <2>2. CASE call'[d] = call[d]
    BY <2>1, <2>2 DEF Redone
  <2>3. CASE RetryTask(d) \/ UpdateTask(d) \/ DuplicateTask(d)
    <3>1. PICK kind \in {"retry", "update", "duplicate"} : Delay(kind)
      BY <2>3 DEF RetryTask, UpdateTask, DuplicateTask
    <3>2. kind \in Kinds \ {"none", "index"}
      BY DEF Kinds
    <3> QED
      BY <3>1, <3>2, DelayKeeps DEF Redone
  <2>4. CASE DeleteRow(d)
    BY <2>4 DEF DeleteRow, Redone, Exists
  <2>5. \/ call'[d] = call[d] \/ RetryTask(d) \/ UpdateTask(d) \/ DuplicateTask(d) \/ DeleteRow(d)
    <3>1. CASE RetryKeyExpires
      BY <3>1 DEF RetryKeyExpires
    <3>2. ASSUME NEW c \in Callers, c # d,
                 \/ \E op, to : Request(c, op, to)
                 \/ \E from, to : Go(c, from, to)
          PROVE  call'[d] = call[d]
      BY <3>2 DEF Request, Go, TypeInv, TypeOK
    <3>3. ASSUME NEW c \in Callers,
                 PauseRead(c) \/ RecoverRead(c) \/ RetryRead(c) \/ UpdateRead(c)
                   \/ DuplicateSet(c) \/ DeleteSend(c)
          PROVE  c # d /\ \E op, to : Request(c, op, to)
      BY <2>1, <3>3 DEF PauseRead, RecoverRead, RetryRead, UpdateRead, DuplicateSet, DeleteSend,
                        Request
    <3>4. ASSUME NEW c \in Callers,
                 PauseSet(c) \/ PauseFlag(c) \/ RecoverSet(c) \/ RecoverTask(c) \/ RetrySet(c)
                   \/ UpdateSet(c)
          PROVE  c # d /\ \E from, to : Go(c, from, to)
      BY <2>1, <3>4 DEF PauseSet, PauseFlag, RecoverSet, RecoverTask, RetrySet, UpdateSet,
                        CommitOrFail, Go
    <3>5. ASSUME NEW c \in Callers,
                 RetryTask(c) \/ UpdateTask(c) \/ DuplicateTask(c) \/ DeleteRow(c)
          PROVE  \E from, to : Go(c, from, to)
      BY <3>5 DEF RetryTask, UpdateTask, DuplicateTask, DeleteRow
    <3> QED
      BY <3>1, <3>2, <3>3, <3>4, <3>5 DEF Requests
  <2> QED
    BY <2>2, <2>3, <2>4, <2>5
<1> QED
  BY <1>2, <1>3, <1>4 DEF Redone

\* A request changes the status or the segments of a document that exists only
\* where it will have it done anew.
LEMMA ChangesAreRedone ==
  ASSUME TypeInv, Requests, ~Redone'
  PROVE  UNCHANGED <<status, segs>>
<1>1. status' # "deleted" /\ call \in [Callers -> CallPc]
  BY DEF Redone, Exists, TypeInv, TypeOK
<1>2. CASE RetryKeyExpires
  BY <1>2 DEF RetryKeyExpires
<1>3. ASSUME NEW c \in Callers,
             \/ PauseRead(c) \/ PauseSet(c) \/ PauseFlag(c) \/ RecoverRead(c) \/ RecoverSet(c)
             \/ RecoverTask(c) \/ RetryRead(c) \/ RetryTask(c) \/ UpdateRead(c)
             \/ DuplicateTask(c) \/ DeleteSend(c)
      PROVE  UNCHANGED <<status, segs>>
  BY <1>3 DEF PauseRead, PauseSet, PauseFlag, RecoverRead, RecoverSet, RecoverTask, RetryRead,
              RetryTask, UpdateRead, DuplicateTask, DeleteSend, CommitOrFail
<1>4. ASSUME NEW c \in Callers, RetrySet(c) \/ UpdateSet(c) \/ DuplicateSet(c)
      PROVE  FALSE
  <2>1. \/ ~Exists /\ UNCHANGED status
        \/ call'[c] \in {"retryTask", "updateTask", "duplicateTask"}
    BY <1>1, <1>4 DEF RetrySet, UpdateSet, DuplicateSet, CommitOrFail, Go, Request
  <2> QED
    BY <1>1, <2>1 DEF Redone, Exists
<1>5. ASSUME NEW c \in Callers, UpdateTask(c) PROVE FALSE
  <2>1. PICK t \in Tasks : task[t] = NoTask /\ task' = [task EXCEPT ![t] = Queued("update")]
    BY <1>5 DEF UpdateTask, Delay
  <2>2. task'[t].pc = "queued" /\ task'[t].kind = "update"
    BY <2>1 DEF Queued, NoTask, TypeInv, TypeOK
  <2> QED
    BY <2>2 DEF Redone, InQueue, Tasks
<1>6. ASSUME NEW c \in Callers, DeleteRow(c) PROVE FALSE
  BY <1>1, <1>6 DEF DeleteRow
<1> QED
  BY <1>2, <1>3, <1>4, <1>5, <1>6 DEF Requests

\* The document is only deleted while its cleaning task waits.
LEMMA DeletesOrderly ==
  ASSUME TypeInv, Orderly, mishaps' = {}, Requests
  PROVE  CleanMeansDeleted' /\ DeletedIsCleaned'
<1>1. Asks
  BY RequestsAsk
<1>2. \A c \in Callers : DeleteRow(c) => ~Exists' /\ \E t \in InQueue : task[t].kind = "clean"
  BY DEF DeleteRow, Exists
<1>3. \/ \E c \in Callers : DeleteRow(c)
      \/ Exists' = Exists
  BY DEF Requests, RetryKeyExpires, PauseRead, PauseSet, PauseFlag, RecoverRead, RecoverSet,
         RecoverTask, RetryRead, RetrySet, RetryTask, UpdateRead, UpdateSet, UpdateTask,
         DuplicateSet, DuplicateTask, DeleteSend, CommitOrFail, Exists
<1>4. CleanMeansDeleted'
  <2> SUFFICES ASSUME NEW u \in Tasks, task'[u].kind = "clean", Exists'
               PROVE  \E c \in Callers : call'[c] = "deleteRow"
    BY DEF CleanMeansDeleted, Tasks
  <2>1. CASE task'[u].kind # task[u].kind
    BY <1>1, <2>1 DEF Asks
  <2>2. CASE task'[u].kind = task[u].kind
    <3>1. PICK d \in Callers : call[d] = "deleteRow"
      BY <1>1, <2>2 DEF Asks, Orderly, CleanMeansDeleted
    <3>2. call'[d] = "deleteRow"
      <4>1. ASSUME NEW c \in Callers,
                   \/ \E op, to : Request(c, op, to)
                   \/ \E from, to : from # "deleteRow" /\ Go(c, from, to)
            PROVE  call'[d] = call[d]
        BY <3>1, <4>1 DEF Request, Go, TypeInv, TypeOK
      <4>2. ASSUME NEW c \in Callers,
                   PauseRead(c) \/ RecoverRead(c) \/ RetryRead(c) \/ UpdateRead(c)
                     \/ DuplicateSet(c) \/ DeleteSend(c)
            PROVE  \E op, to : Request(c, op, to)
        BY <4>2 DEF PauseRead, RecoverRead, RetryRead, UpdateRead, DuplicateSet, DeleteSend
      <4>3. ASSUME NEW c \in Callers,
                   PauseSet(c) \/ PauseFlag(c) \/ RecoverSet(c) \/ RecoverTask(c) \/ RetrySet(c)
                     \/ RetryTask(c) \/ UpdateSet(c) \/ UpdateTask(c) \/ DuplicateTask(c)
            PROVE  \E from, to : from # "deleteRow" /\ Go(c, from, to)
        BY <4>3 DEF PauseSet, PauseFlag, RecoverSet, RecoverTask, RetrySet, RetryTask, UpdateSet,
                    UpdateTask, DuplicateTask, CommitOrFail
      <4>4. CASE RetryKeyExpires
        BY <3>1, <4>4 DEF RetryKeyExpires
      <4> QED
        BY <1>2, <3>1, <4>1, <4>2, <4>3, <4>4 DEF Requests
    <3> QED
      BY <3>2
  <2> QED
    BY <2>1, <2>2
<1>5. DeletedIsCleaned'
  <2> SUFFICES ASSUME ~Exists' PROVE
        \/ \E u \in InQueue' : task'[u].kind = "clean"
        \/ \E u \in Running' : task'[u].kind = "clean"
        \/ Stored' = {} /\ index' = {} /\ \A u \in Running' : task'[u].pc = "unkey"
    BY DEF DeletedIsCleaned
  <2>1. CASE \E u \in InQueue : task[u].kind = "clean"
    BY <1>1, <2>1 DEF Asks
  <2>2. CASE \E u \in Running : task[u].kind = "clean"
    BY <1>1, <2>2 DEF Asks
  <2>3. CASE Stored = {} /\ index = {} /\ \A u \in Running : task[u].pc = "unkey"
    BY <1>1, <2>3 DEF Asks
  <2> QED
    BY <1>2, <1>3, <2>1, <2>2, <2>3 DEF Orderly, DeletedIsCleaned
<1> QED
  BY <1>4, <1>5

LEMMA RequestsOrderly ==
  ASSUME TypeInv, Orderly, mishaps' = {}, Requests
  PROVE  Orderly'
<1>1. Asks
  BY RequestsAsk
<1>2. OneRuns'
  BY <1>1 DEF Asks, Orderly, OneRuns
<1>3. IndexIsFirst'
  <2>1. \A u \in Tasks : task'[u].kind = "index" => u = 1
    BY <1>1 DEF Asks, Orderly, IndexIsFirst
  <2> QED
    BY <1>1, <2>1 DEF Asks, Orderly, IndexIsFirst, Tasks
<1>4. NodesHaveRows'
  BY <1>1 DEF Asks, Orderly, NodesHaveRows
<1>5. Accounted'
  <2>1. CASE Redone'
    BY <2>1 DEF Accounted
  <2>2. CASE ~Redone'
    <3>1. ~Redone /\ UNCHANGED <<status, segs>>
      BY <2>2, RedoneStays, ChangesAreRedone
    <3>2. Unfinished' = Unfinished /\ Stored' = Stored
      BY <1>1, <3>1 DEF Asks, Unfinished
    <3>3. OneSplitting' = OneSplitting /\ Whole' = Whole /\ Nothing' = Nothing
      BY <1>1, <3>1, <3>2 DEF Asks, OneSplitting, Whole, Nothing
    <3>4. Resumable => Resumable'
      BY <1>1, <3>1, <3>3 DEF Asks, Resumable
    <3>5. ASSUME NEW t \in Running, Progress(t) PROVE Progress(t)'
      <4>1. task'[t] = task[t] /\ technique' = technique /\ index' = index
        BY <1>1 DEF Asks
      <4>2. InHand(t) => InHand(t)'
        BY <3>2, <4>1 DEF InHand
      <4>3. StatusFits(t) => StatusFits(t)'
        BY <3>1, <4>1 DEF StatusFits
      <4> QED
        BY <3>2, <3>3, <3>4, <3>5, <4>1, <4>2, <4>3 DEF Progress
    <3> QED
      BY <1>1, <3>1, <3>4, <3>5 DEF Asks, Orderly, Accounted
  <2> QED
    BY <2>1, <2>2
<1> QED
  BY <1>2, <1>3, <1>4, <1>5, DeletesOrderly DEF Orderly

(***************************************************************************)
(* The theorems                                                            *)
(***************************************************************************)

LEMMA Invariant == Spec => [](TypeInv /\ InProgressIsCared)
<1>1. Init => TypeInv /\ InProgressIsCared
  <2> SUFFICES ASSUME Init PROVE TypeInv /\ InProgressIsCared
    OBVIOUS
  <2>1. 1 \in Tasks
    BY DocumentIndexingAssumption DEF Tasks
  <2>2. /\ NoTask.pc = "done" /\ NoTask.docs = {} /\ NoTask.todo = {} /\ NoTask.checked = {}
        /\ NoTask.loaded = {} /\ NoTask.raised = {} /\ NoTask.kind = "none"
        /\ Queued("index").pc = "queued" /\ Queued("index").kind = "index"
        /\ Queued("index").docs = {} /\ Queued("index").todo = {}
        /\ Queued("index").checked = {} /\ Queued("index").loaded = {}
        /\ Queued("index").raised = {} /\ Queued("index").kw = "off" /\ NoTask.kw = "off"
    BY DEF NoTask, Queued
  <2>3. NoTask \in TaskRecord /\ Queued("index") \in TaskRecord
    BY RecordsTyped DEF Kinds
  <2>4. task \in [Tasks -> TaskRecord] /\ \A t \in Tasks : task[t] \in {NoTask, Queued("index")}
    BY <2>3 DEF Init
  <2>5. \A t \in Tasks : Shape(t)
    BY <2>2, <2>4 DEF Shape
  <2>6. Responsible(1)
    BY <2>1, <2>2 DEF Init, Responsible
  <2>7. /\ technique \in {"high_quality", "economy"} /\ status \in Status
        /\ paused \in BOOLEAN /\ flag \in BOOLEAN /\ retried \in BOOLEAN
        /\ index \subseteq Segs /\ segs \in [Segs -> SegStatus]
        /\ mishaps \subseteq {"overlap", "crash", "keyword", "clean", "late delete", "orphans"}
    BY DEF Init, Status, InProgress, SegStatus
  <2>8. call \in [Callers -> CallPc] /\ requests \in 0..MaxRequests
    BY DocumentIndexingAssumption DEF Init, CallPc
  <2>9. TypeOK
    BY <2>4, <2>7, <2>8 DEF TypeOK
  <2> QED
    BY <2>1, <2>5, <2>6, <2>9 DEF TypeInv, InProgressIsCared
<1>2. TypeInv /\ InProgressIsCared /\ [Next]_vars => (TypeInv /\ InProgressIsCared)'
  <2> SUFFICES ASSUME TypeInv, InProgressIsCared, [Next]_vars
               PROVE  TypeInv' /\ InProgressIsCared'
    OBVIOUS
  <2>1. CASE Requests
    BY <2>1, RequestsTyped, RequestsCare
  <2>2. ASSUME NEW t \in Tasks, Runs(t) \/ Crash(t) PROVE TypeInv' /\ InProgressIsCared'
    BY <2>2, RunsAreGood, GoodStep
  <2>3. CASE UNCHANGED vars
    BY <2>3 DEF vars, TypeInv, TypeOK, Shape, InProgressIsCared, Responsible
  <2> QED
    BY <2>1, <2>2, <2>3 DEF Next
<1> QED
  BY <1>1, <1>2, PTL DEF Spec

\* Every reachable state is well typed, for any number of requests, callers,
\* workers and parts: a task's segments are always those of its own splitting.
THEOREM TypeCorrect == Spec => []TypeOK
<1>1. TypeInv => TypeOK
  BY DEF TypeInv
<1> QED
  BY <1>1, Invariant, PTL

\* No document is left in progress with nobody at work on it, unless the user
\* paused it, a task was lost to a crash or a failed clean, or the Redis key of
\* a pause stayed behind.
THEOREM AtRestMeansSettledAlways == Spec => []AtRestMeansSettled
<1>1. TypeInv /\ InProgressIsCared => AtRestMeansSettled
  <2> SUFFICES ASSUME TypeInv, InProgressIsCared, Quiet, mishaps \cap {"crash", "clean"} = {},
                      flag => paused \/ ~Exists, status \notin {"completed", "error", "deleted"},
                      ~paused
               PROVE  FALSE
    BY DEF AtRestMeansSettled
  <2>1. status \in InProgress
    BY DEF TypeInv, TypeOK, Status
  <2>2. ~flag
    BY <2>1 DEF Exists, InProgress
  <2>3. \A t \in Tasks : task[t].pc = "done"
    BY DEF Quiet, Running, InQueue
  <2>4. \A c \in Callers : call[c] = "idle"
    BY DEF Quiet
  <2> QED
    BY <2>1, <2>2, <2>3, <2>4 DEF InProgressIsCared, Responsible
<1> QED
  BY <1>1, Invariant, PTL

\* As long as nothing has gone wrong, each task finds the document as the last
\* one left it.
LEMMA OrderlyHolds == Spec => [](TypeInv /\ (mishaps = {} => Orderly))
<1>1. Init => Orderly
  <2> SUFFICES ASSUME Init PROVE Orderly
    OBVIOUS
  <2>1. 1 \in Tasks
    BY DocumentIndexingAssumption DEF Tasks
  <2>2. /\ NoTask.pc = "done" /\ NoTask.kind = "none"
        /\ Queued("index").pc = "queued" /\ Queued("index").kind = "index"
    BY DEF NoTask, Queued
  <2>3. \A t \in Tasks : task[t] = IF t = 1 THEN Queued("index") ELSE NoTask
    BY DEF Init
  <2>4. Running = {} /\ Stored = {} /\ index = {} /\ status = "waiting"
    BY <2>2, <2>3 DEF Init, Running, Stored
  <2>5. OneRuns /\ NodesHaveRows
    BY <2>4 DEF OneRuns, NodesHaveRows
  <2>6. IndexIsFirst /\ CleanMeansDeleted /\ DeletedIsCleaned
    BY <2>1, <2>2, <2>3, <2>4 DEF IndexIsFirst, CleanMeansDeleted, DeletedIsCleaned, Exists
  <2>7. Accounted
    BY <2>4 DEF Accounted, Resumable, Nothing
  <2> QED
    BY <2>5, <2>6, <2>7 DEF Orderly
<1>2. TypeInv /\ (mishaps = {} => Orderly) /\ [Next]_vars => (mishaps = {} => Orderly)'
  <2> SUFFICES ASSUME TypeInv, mishaps = {} => Orderly, [Next]_vars, mishaps' = {}
               PROVE  Orderly'
    OBVIOUS
  <2>1. CASE Requests
    <3>1. mishaps = {}
      BY <2>1 DEF Requests, RetryKeyExpires, PauseRead, PauseSet, PauseFlag, RecoverRead,
                  RecoverSet, RecoverTask, RetryRead, RetrySet, RetryTask, UpdateRead, UpdateSet,
                  UpdateTask, DuplicateSet, DuplicateTask, DeleteSend, DeleteRow, reqVars
    <3> QED
      BY <2>1, <3>1, RequestsOrderly
  <2>2. ASSUME NEW t \in Tasks, Runs(t) \/ Crash(t) PROVE Orderly'
    <3>1. mishaps = {}
      BY <2>2, RunsAreGood DEF Good
    <3> QED
      BY <2>2, <3>1, RunsOrderly
  <2>3. CASE UNCHANGED vars
    <3>1. mishaps = {} /\ Orderly
      BY <2>3 DEF vars
    <3>2. /\ Running' = Running /\ InQueue' = InQueue /\ Stored' = Stored
          /\ Unfinished' = Unfinished
      BY <2>3 DEF vars, Running, InQueue, Stored, Unfinished
    <3>3. Redone' = Redone /\ Resumable' = Resumable
      BY <2>3, <3>2 DEF vars, Redone, Exists, Resumable, Nothing, OneSplitting, Whole
    <3>4. \A t \in Tasks : Progress(t)' = Progress(t)
      BY <2>3, <3>2, <3>3 DEF vars, Progress, StatusFits, InHand, Nothing, OneSplitting, Whole
    <3>5. Accounted'
      BY <3>1, <3>2, <3>3, <3>4 DEF Orderly, Accounted, Running
    <3> QED
      BY <2>3, <3>1, <3>2, <3>5
      DEF vars, Orderly, OneRuns, IndexIsFirst, NodesHaveRows, CleanMeansDeleted,
          DeletedIsCleaned, Exists
  <2> QED
    BY <2>1, <2>2, <2>3 DEF Next
<1> QED
  BY <1>1, <1>2, Invariant, PTL DEF Spec

\* However a document was paused, resumed, retried, updated and replaced, when
\* it is shown as completed and everything has come to rest, each of its parts
\* is in the table and in the index once, and nothing else - for any number of
\* requests, callers and parts, while nothing has gone wrong.
THEOREM CompletedMeansIndexedAlways == Spec => []CompletedMeansIndexed
<1>1. TypeInv /\ (mishaps = {} => Orderly) => CompletedMeansIndexed
  <2> SUFFICES ASSUME Orderly, Quiet, status = "completed" PROVE Whole
    BY DEF CompletedMeansIndexed
  <2>1. ~Redone
    BY DEF Quiet, Redone, Exists
  <2> QED
    BY <2>1 DEF Orderly, Quiet, Accounted, Resumable
<1> QED
  BY <1>1, OrderlyHolds, PTL

\* Nothing of a deleted document is left in the table or in the index when
\* everything has come to rest, under the same proviso.
THEOREM NothingLeftOfDeletedAlways == Spec => []NothingLeftOfDeleted
<1>1. TypeInv /\ (mishaps = {} => Orderly) => NothingLeftOfDeleted
  BY DEF NothingLeftOfDeleted, Orderly, Quiet, DeletedIsCleaned
<1> QED
  BY <1>1, OrderlyHolds, PTL

\* A history of mishaps is never forgotten.
LEMMA MishapsStay ==
  ASSUME TypeInv, [Next]_vars, mishaps' = {}
  PROVE  mishaps = {}
<1>1. CASE Requests
  BY <1>1 DEF Requests, RetryKeyExpires, PauseRead, PauseSet, PauseFlag, RecoverRead,
              RecoverSet, RecoverTask, RetryRead, RetrySet, RetryTask, UpdateRead, UpdateSet,
              UpdateTask, DuplicateSet, DuplicateTask, DeleteSend, DeleteRow, reqVars
<1>2. ASSUME NEW t \in Tasks, Runs(t) \/ Crash(t) PROVE mishaps = {}
  BY <1>2, RunsAreGood DEF Good
<1> QED
  BY <1>1, <1>2 DEF Next, vars

\* What a task can do to the status of a completed document.
LEMMA TaskLeavesCompleted ==
  ASSUME TypeInv, Orderly, mishaps' = {}, status = "completed", ~Redoing,
         NEW t \in Tasks, Runs(t)
  PROVE  status' = status
<1>1. /\ ~Redone /\ Exists /\ \A u \in Running : task[u].pc \notin {"clean", "drop", "parse"}
      /\ Running = {} => Whole
      /\ \A u \in Running : StatusFits(u)
  BY DEF Redoing, Redone, Orderly, Accounted, Resumable, Progress
<1>2. CASE task[t].pc = "queued"
  <2>1. t \in InQueue /\ task[t].kind \notin {"retry", "update", "duplicate"}
    BY <1>1, <1>2 DEF InQueue, Redone
  <2>2. ASSUME Take(t), task[t].kind = "index" PROVE FALSE
    <3>1. Running = {} /\ Whole
      BY <1>1, <2>2 DEF Take
    <3>2. t = 1 /\ Stored = {}
      BY <1>2, <2>2 DEF Orderly, IndexIsFirst
    <3>3. 1 \in Parts
      BY DocumentIndexingAssumption DEF Parts
    <3>4. PICK u \in Tasks : Stored = {u} \X Parts
      BY <3>1 DEF Whole
    <3>5. <<u, 1>> \in {u} \X Parts
      BY <3>3
    <3> QED
      BY <3>2, <3>4, <3>5
  <2>3. CASE TakeIndex(t) \/ Refuse(t)
    BY <2>1, <2>2, <2>3 DEF TakeIndex, Refuse
  <2>4. CASE TakeRecover(t) \/ TakeRetry(t) \/ TakeUpdate(t) \/ TakeClean(t)
    BY <2>1, <2>4 DEF TakeRecover, TakeRetry, TakeUpdate, TakeClean
  <2>5. /\ task[t].kw \notin {"run", "created"}
        /\ task[t].todo = {} /\ task[t].checked = {} /\ task[t].loaded = {}
    <3>1. Shape(t)
      BY DEF TypeInv
    <3> QED
      BY <1>2, <3>1 DEF Shape
  <2> QED
    BY <1>2, <2>3, <2>4, <2>5
       DEF Runs, Clean, Drop, CleanFails, Parse, Wipe, Reload, Extract, SetSplitting, Mark,
           SetIndexing, Finish, CheckRow, UpdateRow, Step, AddSegment, MarkSegments,
           RunnerFails, Load, LoadEnds, ChunksEnded, ChunkChecks, ChunkIndexes, ChunkFails,
           ChunkCompletes, KeywordCreates, KeywordCompletes, KeywordFails, SetCompleted,
           DeleteRetryKey
<1>3. CASE task[t].pc # "queued" /\ status' # status
  <2>1. \/ Extract(t) \/ Mark(t) \/ Finish(t) \/ SetSplitting(t) \/ SetIndexing(t)
        \/ MarkSegments(t) \/ RunnerFails(t) \/ LoadEnds(t)
    <3>1. CASE CleanFails(t) \/ Parse(t)
      <4>1. t \in Running /\ task[t].pc \in {"clean", "parse"}
        BY <3>1 DEF CleanFails, Parse, Step, Running
      <4> QED
        BY <1>1, <4>1
    <3>2. ~SetCompleted(t)
      BY <1>1, <1>3 DEF SetCompleted, SetStatus
    <3> QED
      BY <1>3, <3>1, <3>2
         DEF Runs, TakeIndex, TakeRecover, TakeRetry, TakeUpdate, TakeClean, Refuse, Take,
             Clean, Drop, Wipe, Reload, AddSegment, Load, ChunkChecks,
             ChunkIndexes, ChunkFails, ChunkCompletes, KeywordCreates, KeywordCompletes,
             KeywordFails, DeleteRetryKey
  <2>2. task[t].pc \in {"extract", "mark", "finish", "split", "marked", "markSegs", "add",
                        "load", "loading"}
    BY <2>1 DEF Extract, Mark, Finish, CheckRow, SetSplitting, SetIndexing, UpdateRow, Step,
                MarkSegments, RunnerFails, LoadEnds, ChunksEnded
  <2>3. t \in Running
    BY <2>2 DEF Running
  <2> QED
    BY <1>1, <2>2, <2>3 DEF StatusFits
<1> QED
  BY <1>2, <1>3

\* A document shown as completed stays so until it is to be done anew or deleted,
\* for any number of requests and tasks, while nothing has gone wrong: the second
\* of two resumes finds nothing to do (recover_document, 630;
\* recover_document_indexing_task, 31-40).
THEOREM CompletedStaysAlways == Spec => CompletedStays
<1>1. ASSUME TypeInv, mishaps = {} => Orderly, [Next]_vars
      PROVE  status = "completed" /\ status' # "completed" /\ mishaps' = {}
               => Redoing \/ Redone'
  <2> SUFFICES ASSUME status = "completed", status' # "completed", mishaps' = {},
                      ~Redoing, ~Redone'
               PROVE  FALSE
    OBVIOUS
  <2>1. Orderly /\ mishaps = {}
    BY <1>1, MishapsStay
  <2>2. CASE Requests
    <3>1. PICK c \in Callers :
            \/ status' = "deleted"
            \/ Go(c, "retrySet", "retryTask") \/ Go(c, "updateSet", "updateTask")
            \/ Request(c, "duplicate", "duplicateTask")
      BY <2>2 DEF Requests, RetryKeyExpires, PauseRead, PauseSet, PauseFlag, RecoverRead,
                  RecoverSet, RecoverTask, RetryRead, RetrySet, RetryTask, UpdateRead,
                  UpdateSet, UpdateTask, DuplicateSet, DuplicateTask, DeleteSend, DeleteRow,
                  CommitOrFail
    <3>2. status' = "deleted" \/ call'[c] \in {"retryTask", "updateTask", "duplicateTask"}
      BY <1>1, <3>1 DEF Go, Request, TypeInv, TypeOK
    <3> QED
      BY <3>2 DEF Redone, Exists
  <2>3. ASSUME NEW t \in Tasks, Runs(t) PROVE FALSE
    BY <1>1, <2>1, <2>3, TaskLeavesCompleted
  <2>4. ASSUME NEW t \in Tasks, Crash(t) PROVE FALSE
    BY <2>4 DEF Crash
  <2> QED
    BY <1>1, <2>2, <2>3, <2>4 DEF Next, vars
<1> QED
  BY <1>1, OrderlyHolds, PTL DEF Spec, CompletedStays
=============================================================================
