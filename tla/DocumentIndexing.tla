-------------------------- MODULE DocumentIndexing --------------------------
(***************************************************************************)
(* The indexing of one document of a dataset: the Celery tasks that split   *)
(* it into segments and load them in the dataset's index (IndexingRunner    *)
(* under document_indexing_task, recover_, retry_, update_, duplicate_ and  *)
(* clean_document_task), and the requests that pause, resume, retry,        *)
(* update, replace and delete the document meanwhile (DocumentService).     *)
(*                                                                         *)
(* They share the document's row and its segments' rows (database), two     *)
(* Redis keys and the index.  Every commit, Redis call and write to the     *)
(* index is a step of its own: any other task, chunk thread or request may  *)
(* come between two of them, and a worker may be killed there.              *)
(*                                                                         *)
(* A part of the document stands for one chunk of up to ten segments.       *)
(***************************************************************************)
EXTENDS Naturals, FiniteSets

CONSTANTS
  Callers,      \* web requests under way at once
  Ops,          \* the requests they may make
  Workers,      \* Celery worker slots (CELERY_WORKER_AMOUNT)
  NParts,       \* chunks a splitting of the document yields
  MaxRequests,  \* bound on the requests (checking only)
  Crashes       \* whether a worker may be killed; it is at most once

ASSUME DocumentIndexingAssumption ==
  /\ Workers \in Nat \ {0} /\ NParts \in Nat \ {0}
  /\ MaxRequests \in Nat /\ Crashes \in BOOLEAN
  /\ Ops \subseteq {"pause", "recover", "retry", "update", "duplicate", "delete"}

Tasks == 1..(MaxRequests + 1)      \* in the order they are queued
Parts == 1..NParts
Segs  == Tasks \X Parts            \* index_node_id: a fresh uuid per splitting

InProgress == {"waiting", "parsing", "splitting", "indexing"}  \* of pause_document
Status     == InProgress \cup {"completed", "error", "deleted"}
SegStatus  == {"none", "waiting", "indexing", "completed", "re_segment"}
Kinds      == {"none", "index", "recover", "retry", "update", "duplicate", "clean"}
TaskPc     == {"queued", "clean", "drop", "parse", "wipe", "reload", "extract",
               "split", "add", "mark", "marked", "markSegs", "load", "loading",
               "finish", "complete", "unkey", "done"}
CallPc     == {"idle", "pauseSet", "pauseFlag", "recoverSet", "recoverTask",
               "retrySet", "retryTask", "updateSet", "updateTask",
               "duplicateTask", "deleteRow"}

VARIABLES
  technique,  \* the dataset's indexing_technique
  status,     \* the document's indexing_status; "deleted" when it has no row
  paused,     \* its is_paused
  flag,       \* the Redis key document_{id}_is_paused
  retried,    \* the Redis key document_{id}_is_retried
  segs,       \* the status of the DocumentSegment rows; "none": no row
  index,      \* the segments in the vector store (the keyword table, when
              \*   the technique is economy)
  task,       \* the Celery tasks
  call,       \* what each request is about to do
  requests,   \* the number of requests made (checking only)
  mishaps     \* history: what has gone wrong outside the document's own data

vars == <<technique, status, paused, flag, retried, segs, index, task, call, requests, mishaps>>

\* docs: the segments the task works on.  todo, checked, loaded: where their
\* chunk threads are; raised: what these raised; kw: the keyword thread.
NoTask == [kind |-> "none", pc |-> "done", docs |-> {}, todo |-> {}, checked |-> {},
           loaded |-> {}, raised |-> {}, kw |-> "off"]
TaskRecord == [kind : Kinds, pc : TaskPc, docs : SUBSET Segs, todo : SUBSET Segs,
               checked : SUBSET Segs, loaded : SUBSET Segs,
               raised : SUBSET {"paused", "failed"}, kw : {"off", "run", "created", "ended"}]

Queued(kind) == [NoTask EXCEPT !.kind = kind, !.pc = "queued"]
Ended(t)     == [NoTask EXCEPT !.kind = task[t].kind]

Init ==
  /\ technique \in {"high_quality", "economy"}
  /\ status = "waiting" /\ paused = FALSE /\ flag = FALSE /\ retried = FALSE
  /\ segs = [s \in Segs |-> "none"] /\ index = {}
  /\ task = [t \in Tasks |-> IF t = 1 THEN Queued("index") ELSE NoTask]
  /\ call = [c \in Callers |-> "idle"]
  /\ requests = 0 /\ mishaps = {}

Exists    == status # "deleted"
Stored    == {s \in Segs : segs[s] # "none"}
Running   == {t \in Tasks : task[t].pc \notin {"queued", "done"}}
InQueue   == {t \in Tasks : task[t].pc = "queued"}
Quiet     == Running = {} /\ InQueue = {} /\ \A c \in Callers : call[c] = "idle"

(***************************************************************************)
(* The requests                                                            *)
(***************************************************************************)

reqVars == <<technique, index, mishaps>>

Request(c, op, pc) ==
  /\ op \in Ops
  /\ call[c] = "idle" /\ requests < MaxRequests
  /\ requests' = requests + 1
  /\ call' = [call EXCEPT ![c] = pc]

Go(c, from, to) ==
  /\ call[c] = from
  /\ call' = [call EXCEPT ![c] = to]
  /\ UNCHANGED requests

\* .delay(): the queue is a Redis list, first in first out.
Delay(kind) ==
  \E t \in Tasks :
    /\ task[t] = NoTask /\ \A u \in 1..(t - 1) : task[u].kind # "none"
    /\ task' = [task EXCEPT ![t] = Queued(kind)]

\* A request that finds the row deleted fails at its commit.
CommitOrFail(c, from, to, Effect) ==
  \/ Exists /\ Go(c, from, to) /\ Effect
  \/ ~Exists /\ Go(c, from, "idle") /\ UNCHANGED <<status, paused>>

PauseRead(c) ==
  /\ status \in InProgress
  /\ Request(c, "pause", "pauseSet")
  /\ UNCHANGED <<reqVars, status, paused, flag, retried, segs, task>>

PauseSet(c) ==
  /\ CommitOrFail(c, "pauseSet", "pauseFlag", paused' = TRUE /\ UNCHANGED status)
  /\ UNCHANGED <<reqVars, flag, retried, segs, task>>

PauseFlag(c) ==
  /\ Go(c, "pauseFlag", "idle")
  /\ flag' = TRUE
  /\ UNCHANGED <<reqVars, status, paused, retried, segs, task>>

RecoverRead(c) ==
  /\ Exists /\ paused
  /\ Request(c, "recover", "recoverSet")
  /\ UNCHANGED <<reqVars, status, paused, flag, retried, segs, task>>

RecoverSet(c) ==
  /\ CommitOrFail(c, "recoverSet", "recoverTask", paused' = FALSE /\ UNCHANGED status)
  /\ UNCHANGED <<reqVars, flag, retried, segs, task>>

RecoverTask(c) ==
  /\ Go(c, "recoverTask", "idle")
  /\ flag' = FALSE
  /\ Delay("recover")
  /\ UNCHANGED <<reqVars, status, paused, retried, segs>>

\* The controller skips a completed document, the service one being retried.
RetryRead(c) ==
  /\ Exists /\ status # "completed" /\ ~retried
  /\ Request(c, "retry", "retrySet")
  /\ UNCHANGED <<reqVars, status, paused, flag, retried, segs, task>>

RetrySet(c) ==
  /\ CommitOrFail(c, "retrySet", "retryTask", status' = "waiting" /\ UNCHANGED paused)
  /\ UNCHANGED <<reqVars, flag, retried, segs, task>>

RetryTask(c) ==
  /\ Go(c, "retryTask", "idle")
  /\ retried' = TRUE
  /\ Delay("retry")
  /\ UNCHANGED <<reqVars, status, paused, flag, segs>>

\* The key expires after 600 seconds, whatever became of the task.
RetryKeyExpires ==
  /\ retried
  /\ retried' = FALSE
  /\ UNCHANGED <<technique, status, paused, flag, segs, index, task, call, requests, mishaps>>

UpdateRead(c) ==
  /\ status = "completed"          \* display_status is "available"
  /\ Request(c, "update", "updateSet")
  /\ UNCHANGED <<reqVars, status, paused, flag, retried, segs, task>>

UpdateSet(c) ==
  /\ CommitOrFail(c, "updateSet", "updateTask", status' = "waiting" /\ UNCHANGED paused)
  /\ UNCHANGED <<reqVars, flag, retried, segs, task>>

UpdateTask(c) ==
  /\ Go(c, "updateTask", "idle")
  /\ segs' = [s \in Segs |-> IF s \in Stored THEN "re_segment" ELSE "none"]
  /\ Delay("update")
  /\ UNCHANGED <<reqVars, status, paused, flag, retried>>

\* An upload of the same name with the duplicate option replaces the document.
DuplicateSet(c) ==
  /\ Exists
  /\ Request(c, "duplicate", "duplicateTask")
  /\ status' = "waiting"
  /\ UNCHANGED <<reqVars, paused, flag, retried, segs, task>>

DuplicateTask(c) ==
  /\ Go(c, "duplicateTask", "idle")
  /\ Delay("duplicate")
  /\ UNCHANGED <<reqVars, status, paused, flag, retried, segs>>

\* The signal queues the cleaning task before the row is deleted.
DeleteSend(c) ==
  /\ Exists
  /\ Request(c, "delete", "deleteRow")
  /\ Delay("clean")
  /\ UNCHANGED <<reqVars, status, paused, flag, retried, segs>>

DeleteRow(c) ==
  /\ Go(c, "deleteRow", "idle")
  /\ status' = "deleted" /\ paused' = FALSE
  /\ mishaps' = IF \E t \in InQueue : task[t].kind = "clean"
                THEN mishaps ELSE mishaps \cup {"late delete"}
  /\ UNCHANGED <<technique, index, flag, retried, segs, task>>

Requests ==
  \/ RetryKeyExpires
  \/ \E c \in Callers :
       \/ PauseRead(c) \/ PauseSet(c) \/ PauseFlag(c)
       \/ RecoverRead(c) \/ RecoverSet(c) \/ RecoverTask(c)
       \/ RetryRead(c) \/ RetrySet(c) \/ RetryTask(c)
       \/ UpdateRead(c) \/ UpdateSet(c) \/ UpdateTask(c)
       \/ DuplicateSet(c) \/ DuplicateTask(c)
       \/ DeleteSend(c) \/ DeleteRow(c)

(***************************************************************************)
(* The tasks                                                               *)
(***************************************************************************)

taskVars == <<technique, paused, flag, call, requests>>

Step(t, from, to) ==
  /\ task[t].pc = from
  /\ task' = [task EXCEPT ![t].pc = to]

SetStatus(to) == status' = IF Exists THEN to ELSE "deleted"

\* What the task does when the runner has returned: retry deletes its key.
End(t) ==
  task' = [task EXCEPT ![t] =
             IF @.kind = "retry" THEN [Ended(t) EXCEPT !.pc = "unkey"] ELSE Ended(t)]

\* The runner records the error; on a deleted row this fails and ends the task.
Fail(t) ==
  /\ SetStatus("error")
  /\ IF Exists THEN End(t) ELSE task' = [task EXCEPT ![t] = Ended(t)]

\* DocumentIsPausedError leaves the runner: retry takes it for a failure.
StopPaused(t) ==
  IF task[t].kind = "retry" THEN Fail(t) ELSE UNCHANGED status /\ End(t)

Take(t) ==
  /\ task[t].pc = "queued"
  /\ \A u \in InQueue : t <= u
  /\ Cardinality(Running) < Workers
  /\ mishaps' = IF Running = {} THEN mishaps ELSE mishaps \cup {"overlap"}
  /\ UNCHANGED <<taskVars, retried, segs, index>>

TakeIndex(t) ==
  /\ task[t].kind = "index" /\ Take(t)
  /\ SetStatus("parsing")
  /\ task' = [task EXCEPT ![t] = IF Exists THEN [@ EXCEPT !.pc = "extract"] ELSE Ended(t)]

\* Mutant: the statuses before splitting are {"waiting", "cleaning"}.
TakeRecoverSkips(t) ==
  /\ task[t].kind = "recover" /\ Take(t)
  /\ task' = [task EXCEPT ![t] =
       CASE status = "waiting"   -> [@ EXCEPT !.pc = "extract"]
         [] status = "splitting" -> [@ EXCEPT !.pc = "wipe"]
         [] status = "indexing"  -> [@ EXCEPT !.pc = "reload"]
         [] OTHER                -> Ended(t)]
  /\ UNCHANGED status

\* Mutant: any later status is resumed in the loading.
TakeRecoverAnyway(t) ==
  /\ task[t].kind = "recover" /\ Take(t)
  /\ task' = [task EXCEPT ![t] =
       CASE status \in {"waiting", "parsing"} -> [@ EXCEPT !.pc = "extract"]
         [] status = "splitting"              -> [@ EXCEPT !.pc = "wipe"]
         [] status = "deleted"                -> Ended(t)
         [] OTHER                             -> [@ EXCEPT !.pc = "reload"]]
  /\ UNCHANGED status

\* run, run_in_splitting_status or run_in_indexing_status, by the status read.
TakeRecover(t) ==
  /\ task[t].kind = "recover" /\ Take(t)
  /\ task' = [task EXCEPT ![t] =
       CASE status \in {"waiting", "parsing"} -> [@ EXCEPT !.pc = "extract"]
         [] status = "splitting"              -> [@ EXCEPT !.pc = "wipe"]
         [] status = "indexing"               -> [@ EXCEPT !.pc = "reload"]
         [] OTHER                             -> Ended(t)]
  /\ UNCHANGED status

TakeRetry(t) ==
  /\ task[t].kind \in {"retry", "duplicate"} /\ Take(t)
  /\ task' = [task EXCEPT ![t] = IF Exists THEN [@ EXCEPT !.pc = "clean"] ELSE Ended(t)]
  /\ UNCHANGED status

TakeUpdate(t) ==
  /\ task[t].kind = "update" /\ Take(t)
  /\ SetStatus("parsing")
  /\ task' = [task EXCEPT ![t] = IF Exists THEN [@ EXCEPT !.pc = "clean"] ELSE Ended(t)]

TakeClean(t) ==
  /\ task[t].kind = "clean" /\ Take(t)
  /\ task' = [task EXCEPT ![t].pc = "clean"]
  /\ UNCHANGED status

\* The tenant's vector space is exhausted.
Refuse(t) ==
  /\ task[t].kind \in {"index", "retry", "duplicate"} /\ Take(t)
  /\ SetStatus("error")
  /\ End(t)

\* Mutant: only the nodes of completed segments are removed and dropped.
CleanCompleted(t) ==
  LET docs == {s \in Stored : segs[s] = "completed"} IN
  /\ task[t].pc = "clean"
  /\ task' = [task EXCEPT ![t].pc = "drop", ![t].docs = docs]
  /\ index' = index \ docs
  /\ UNCHANGED <<taskVars, status, retried, segs, mishaps>>

\* The segments are read and their nodes removed from the index ...
Clean(t) ==
  /\ task[t].pc = "clean"
  /\ task' = [task EXCEPT ![t].pc = "drop", ![t].docs = Stored]
  /\ index' = index \ Stored
  /\ UNCHANGED <<taskVars, status, retried, segs, mishaps>>

\* ... then their rows are deleted.
Drop(t) ==
  /\ task[t].pc = "drop"
  /\ segs' = [s \in Segs |-> IF s \in task[t].docs THEN "none" ELSE segs[s]]
  /\ task' = [task EXCEPT ![t] =
       CASE @.kind = "clean"  -> Ended(t)
         [] @.kind = "update" -> [@ EXCEPT !.pc = "extract", !.docs = {}]
         [] OTHER             -> [@ EXCEPT !.pc = "parse", !.docs = {}]]
  /\ UNCHANGED <<taskVars, status, retried, index, mishaps>>

\* The index does not answer: each task does something else about it.
CleanFails(t) ==
  /\ task[t].pc = "clean" /\ Stored # {}
  /\ CASE task[t].kind = "retry"  -> Fail(t)
       [] task[t].kind = "update" -> task' = [task EXCEPT ![t].pc = "extract"] /\ UNCHANGED status
       [] OTHER                   -> task' = [task EXCEPT ![t] = Ended(t)] /\ UNCHANGED status
  /\ mishaps' = mishaps \cup {"clean"}
  /\ UNCHANGED <<taskVars, retried, segs, index>>

Parse(t) ==
  /\ Step(t, "parse", "extract")
  /\ SetStatus("parsing")
  /\ UNCHANGED <<taskVars, retried, segs, index, mishaps>>

\* Mutant: run_in_splitting_status keeps the segments it finds.
WipeNothing(t) ==
  /\ Step(t, "wipe", "extract")
  /\ UNCHANGED <<taskVars, status, retried, segs, index, mishaps>>

\* The rows are deleted, and the nodes that the index may have of them are not.
Wipe(t) ==
  /\ Step(t, "wipe", "extract")
  /\ segs' = [s \in Segs |-> "none"]
  /\ mishaps' = IF index = {} THEN mishaps ELSE mishaps \cup {"orphans"}
  /\ UNCHANGED <<taskVars, status, retried, index>>

Reload(t) ==
  /\ task[t].pc = "reload"
  /\ task' = [task EXCEPT ![t].pc = "load",
                          ![t].docs = {s \in Stored : segs[s] # "completed"}]
  /\ UNCHANGED <<taskVars, status, retried, segs, index, mishaps>>

\* _update_document_index_status looks at the row ...
CheckRow(t, from, to) ==
  /\ task[t].pc = from
  /\ CASE paused             -> StopPaused(t)
       [] ~paused /\ ~Exists -> Fail(t)
       [] ~paused /\ Exists  -> Step(t, from, to) /\ UNCHANGED status
  /\ UNCHANGED <<taskVars, retried, segs, index, mishaps>>

\* ... and then updates it.  The commit expires the runner's copy of the row: its
\* next look at it (382, 864) fails and ends the task if the row is gone.
UpdateRow(t, from, to, new) ==
  /\ task[t].pc = from
  /\ \/ Exists /\ Step(t, from, to) /\ status' = new
     \/ ~Exists /\ Fail(t)
  /\ UNCHANGED <<taskVars, retried, segs, index, mishaps>>

Extract(t)       == CheckRow(t, "extract", "split")
SetSplitting(t)  == UpdateRow(t, "split", "add", "splitting")
Mark(t)          == CheckRow(t, "mark", "marked")
SetIndexing(t)   == UpdateRow(t, "marked", "markSegs", "indexing")
Finish(t)        == CheckRow(t, "finish", "complete")

SetCompleted(t) ==
  /\ task[t].pc = "complete"
  /\ SetStatus("completed")
  /\ End(t)
  /\ UNCHANGED <<taskVars, retried, segs, index, mishaps>>

\* Mutant: one segment more than the splitting has.
AddSegmentTooMany(t) ==
  LET s == <<t, Cardinality(task[t].docs) + 1>> IN
  /\ task[t].pc = "add"
  /\ segs' = [segs EXCEPT ![s] = "waiting"]
  /\ task' = [task EXCEPT ![t].docs = @ \cup {s},
                          ![t].pc = IF s[2] > NParts THEN "mark" ELSE "add"]
  /\ UNCHANGED <<taskVars, status, retried, index, mishaps>>

\* add_documents commits the segments one by one, by the id of the document: it
\* does not look at the row again.
AddSegment(t) ==
  LET s == <<t, Cardinality(task[t].docs) + 1>> IN
  /\ task[t].pc = "add"
  /\ segs' = [segs EXCEPT ![s] = "waiting"]
  /\ task' = [task EXCEPT ![t].docs = @ \cup {s},
                          ![t].pc = IF s[2] = NParts THEN "mark" ELSE "add"]
  /\ UNCHANGED <<taskVars, status, retried, index, mishaps>>

\* _update_segments_by_document: all of them, whoever added them.  Then _load
\* looks at the row that this commit expired (651).
MarkSegments(t) ==
  /\ task[t].pc = "markSegs"
  /\ \/ Exists /\ Step(t, "markSegs", "load") /\ UNCHANGED status
     \/ ~Exists /\ Fail(t)
  /\ segs' = [s \in Segs |-> IF s \in Stored THEN "indexing" ELSE "none"]
  /\ UNCHANGED <<taskVars, retried, index, mishaps>>

\* The extractor, the splitter or the model provider raises.
RunnerFails(t) ==
  /\ task[t].pc \in {"extract", "add", "load"}
  /\ Fail(t)
  /\ UNCHANGED <<taskVars, retried, segs, index, mishaps>>

Load(t) ==
  /\ task[t].pc = "load"
  /\ task' = [task EXCEPT ![t].pc = "loading", ![t].kw = "run",
                          ![t].todo = IF technique = "high_quality" THEN task[t].docs ELSE {}]
  /\ UNCHANGED <<taskVars, status, retried, segs, index, mishaps>>

\* The chunk threads.  Each first looks at the Redis flag ...
ChunkChecks(t, s) ==
  /\ s \in task[t].todo
  /\ task' = IF flag
             THEN [task EXCEPT ![t].todo = @ \ {s}, ![t].raised = @ \cup {"paused"}]
             ELSE [task EXCEPT ![t].todo = @ \ {s}, ![t].checked = @ \cup {s}]
  /\ UNCHANGED <<taskVars, status, retried, segs, index, mishaps>>

\* ... embeds its segments and writes them to the index ...
ChunkIndexes(t, s) ==
  /\ s \in task[t].checked
  /\ task' = [task EXCEPT ![t].checked = @ \ {s}, ![t].loaded = @ \cup {s}]
  /\ index' = index \cup {s}
  /\ UNCHANGED <<taskVars, status, retried, segs, mishaps>>

ChunkFails(t, s) ==
  /\ s \in task[t].checked
  /\ task' = [task EXCEPT ![t].checked = @ \ {s}, ![t].raised = @ \cup {"failed"}]
  /\ UNCHANGED <<taskVars, status, retried, segs, index, mishaps>>

\* The rows of docs that are still "indexing" become "completed".
CompleteRows(docs) ==
  segs' = [s \in Segs |-> IF s \in docs /\ segs[s] = "indexing" THEN "completed" ELSE segs[s]]

\* ... and completes the rows of these segments.
ChunkCompletes(t, s) ==
  /\ s \in task[t].loaded
  /\ task' = [task EXCEPT ![t].loaded = @ \ {s}]
  /\ CompleteRows({s})
  /\ UNCHANGED <<taskVars, status, retried, index, mishaps>>

\* The keyword thread: the only index of an economy dataset.
KeywordCreates(t) ==
  /\ task[t].kw = "run"
  /\ task' = [task EXCEPT ![t].kw = IF technique = "economy" THEN "created" ELSE "ended"]
  /\ index' = IF technique = "economy" THEN index \cup task[t].docs ELSE index
  /\ UNCHANGED <<taskVars, status, retried, segs, mishaps>>

KeywordCompletes(t) ==
  /\ task[t].kw = "created"
  /\ task' = [task EXCEPT ![t].kw = "ended"]
  /\ CompleteRows(task[t].docs)
  /\ UNCHANGED <<taskVars, status, retried, index, mishaps>>

\* Its exceptions end the thread; nobody is told.
KeywordFails(t) ==
  /\ task[t].kw = "run"
  /\ task' = [task EXCEPT ![t].kw = "ended"]
  /\ mishaps' = mishaps \cup {"keyword"}
  /\ UNCHANGED <<taskVars, status, retried, segs, index>>

ChunksEnded(t) ==
  task[t].pc = "loading" /\ task[t].todo = {} /\ task[t].checked = {} /\ task[t].loaded = {}

\* future.result() raises what the first failed chunk raised; otherwise the
\* keyword thread is joined.
LoadEnds(t) ==
  /\ ChunksEnded(t)
  /\ \/ "paused" \in task[t].raised /\ StopPaused(t)
     \/ "failed" \in task[t].raised /\ Fail(t)
     \/ /\ task[t].raised = {} /\ task[t].kw = "ended"
        /\ Step(t, "loading", "finish")
        /\ UNCHANGED status
  /\ UNCHANGED <<taskVars, retried, segs, index, mishaps>>

DeleteRetryKey(t) ==
  /\ task[t].pc = "unkey"
  /\ task' = [task EXCEPT ![t] = Ended(t)]
  /\ retried' = FALSE
  /\ UNCHANGED <<taskVars, status, segs, index, mishaps>>

Runs(t) ==
  \/ TakeIndex(t) \/ TakeRecover(t) \/ TakeRetry(t) \/ TakeUpdate(t) \/ TakeClean(t)
  \/ Refuse(t)
  \/ Clean(t) \/ Drop(t) \/ CleanFails(t) \/ Parse(t) \/ Wipe(t) \/ Reload(t)
  \/ Extract(t) \/ SetSplitting(t) \/ AddSegment(t) \/ Mark(t) \/ SetIndexing(t)
  \/ MarkSegments(t) \/ RunnerFails(t) \/ Load(t) \/ LoadEnds(t)
  \/ \E s \in Segs : \/ ChunkChecks(t, s) \/ ChunkIndexes(t, s)
                     \/ ChunkFails(t, s) \/ ChunkCompletes(t, s)
  \/ KeywordCreates(t) \/ KeywordCompletes(t) \/ KeywordFails(t)
  \/ Finish(t) \/ SetCompleted(t) \/ DeleteRetryKey(t)

\* The worker is killed: its task was acknowledged when it was taken.
Crash(t) ==
  /\ t \in Running
  /\ Crashes /\ "crash" \notin mishaps
  /\ mishaps' = mishaps \cup {"crash"}
  /\ task' = [task EXCEPT ![t] = Ended(t)]
  /\ UNCHANGED <<taskVars, status, retried, segs, index>>

-----------------------------------------------------------------------------

Next ==
  \/ Requests
  \/ \E t \in Tasks : Runs(t) \/ Crash(t)

Spec == Init /\ [][Next]_vars

-----------------------------------------------------------------------------

\* The rows, keys, tasks and index hold values of their types.
TypeOK ==
  /\ technique \in {"high_quality", "economy"}
  /\ status \in Status /\ paused \in BOOLEAN /\ flag \in BOOLEAN /\ retried \in BOOLEAN
  /\ segs \in [Segs -> SegStatus] /\ index \subseteq Segs
  /\ task \in [Tasks -> TaskRecord] /\ call \in [Callers -> CallPc]
  /\ requests \in 0..MaxRequests
  /\ mishaps \subseteq {"overlap", "crash", "keyword", "clean", "late delete", "orphans"}

\* The segments are those of one splitting, all of them loaded and retrievable,
\* and the index holds nothing else of the document.
Whole ==
  /\ \E t \in Tasks : Stored = {t} \X Parts
  /\ \A s \in Stored : segs[s] = "completed"
  /\ index = Stored

\* When everything has come to rest, a document shown as completed has each of
\* its parts once, in the table and in the index (_load: "insert index and
\* update document/segment status to completed"), however it was paused,
\* resumed, retried, updated and replaced meanwhile - provided its tasks ran
\* one after the other, none was killed, no clean or keyword index failed, and
\* no task resumed in the splitting deleted rows that had nodes in the index.
CompletedMeansIndexed == Quiet /\ status = "completed" /\ mishaps = {} => Whole

\* When everything has come to rest, nothing of a deleted document is left in
\* the segments' table or in the index - under the same provisos, and when its
\* row was deleted before the task that cleans up after it was taken.
NothingLeftOfDeleted == Quiet /\ ~Exists /\ mishaps = {} => Stored = {} /\ index = {}

\* The delete request answers that a document cannot be deleted during indexing
\* (datasets_document.py, 725): deleting it leaves nothing behind, also when it
\* is being indexed by another worker than the one that cleans up, and its row
\* is deleted after the runner last looked at it before add_documents.
DeletedLeavesNothing ==
  Quiet /\ ~Exists /\ mishaps \subseteq {"overlap"} => Stored = {} /\ index = {}

\* The task that indexes a replacement begins by removing what there was of the
\* old document (duplicate_document_indexing_task.py, 65 and 72: "clean old
\* data", "delete from vector index"): completed, the document has no node of
\* an earlier splitting in the index, also when the old one had been paused and
\* resumed before.
ReplacedIsCleaned ==
  Quiet /\ status = "completed" /\ mishaps \subseteq {"orphans"} => index \subseteq Stored

\* When everything has come to rest, a document in progress is one that the
\* user has paused and can resume - unless a task was lost to a crash or to a
\* failed clean, or a late pause_document left its Redis key behind
\* recover_document, which stops the resumed task.
AtRestMeansSettled ==
  Quiet /\ mishaps \cap {"crash", "clean"} = {} /\ (flag => paused \/ ~Exists)
    => status \in {"completed", "error", "deleted"} \/ paused

\* A task that begins by removing everything is about to come, or a deletion.
Redone ==
  \/ ~Exists
  \/ \E c \in Callers : call[c] \in {"retryTask", "updateTask", "duplicateTask", "deleteRow"}
  \/ \E t \in InQueue : task[t].kind \in {"retry", "update", "duplicate"}

\* Or it is at work, and has not begun to index.
Redoing == Redone \/ \E t \in Running : task[t].pc \in {"clean", "drop", "parse"}

\* A document that is shown as completed stays so until a user asks for it to be
\* done anew or deleted: no task that was queued before, as by the second of two
\* resumes, takes it up again, lets it fail or stops it half way - under the same
\* provisos.
CompletedStays ==
  [][status = "completed" /\ status' # "completed" /\ mishaps' = {} => Redoing \/ Redone']_vars

(***************************************************************************)
(* The inductive invariant of the proofs                                   *)
(***************************************************************************)

\* Where the segments a task works on, and its chunk threads, may be.
Shape(t) ==
  LET r == task[t] IN
  /\ r.pc \in {"queued", "clean", "parse", "wipe", "reload", "extract", "split"} => r.docs = {}
  /\ r.pc = "add" => \E k \in 0..(NParts - 1) : r.docs = {t} \X (1..k)
  /\ r.pc # "loading" => r.todo = {} /\ r.checked = {} /\ r.loaded = {} /\ r.raised = {}
  /\ r.kw \in {"run", "created"} => r.pc = "loading"
  /\ r.kind = "clean" => r.pc \in {"queued", "clean", "drop", "done"}

\* The task will give the document another status, or hand it over: it has not
\* met the Redis flag, or takes a pause for a failure.
Responsible(t) ==
  /\ task[t].kind # "clean" /\ task[t].pc \notin {"done", "unkey"}
  /\ "paused" \notin task[t].raised \/ task[t].kind = "retry"

\* Someone is at work on every document in progress that is not paused, or the
\* flag of a pause waits for the request that resumes it.
InProgressIsCared ==
  mishaps \cap {"crash", "clean"} = {} /\ status \in InProgress /\ ~paused =>
    \/ flag
    \/ \E t \in Tasks : Responsible(t)
    \/ \E c \in Callers :
         call[c] \in {"recoverTask", "retryTask", "updateTask", "duplicateTask"}

OneRuns == \A t, u \in Running : t = u

\* The first task indexes, before any other, a document that has nothing yet.
IndexIsFirst ==
  /\ \A t \in Tasks : task[t].kind = "index" => t = 1
  /\ task[1].kind = "index"
  /\ task[1].pc = "queued" => Stored = {} /\ index = {} /\ Running = {}

\* Every node in the index, and every segment a task works on, has its row.
NodesHaveRows ==
  /\ index \subseteq Stored
  /\ \A t \in Running :
       /\ task[t].docs \subseteq Stored
       /\ task[t].todo \cup task[t].checked \cup task[t].loaded \subseteq task[t].docs
       /\ task[t].loaded \subseteq index
       /\ task[t].pc = "drop" => task[t].docs = Stored /\ index = {}

\* A document is cleaned up when its row is gone or about to be.
CleanMeansDeleted ==
  (\E t \in Tasks : task[t].kind = "clean") => ~Exists \/ \E c \in Callers : call[c] = "deleteRow"

\* What is left of a deleted document waits for a cleaning task.
DeletedIsCleaned ==
  ~Exists =>
    \/ \E t \in InQueue : task[t].kind = "clean"
    \/ \E t \in Running : task[t].kind = "clean"
    \/ Stored = {} /\ index = {} /\ \A t \in Running : task[t].pc = "unkey"

\* The rows are those of one splitting; those completed are in the index.
OneSplitting ==
  /\ \E t \in Tasks : Stored = {t} \X Parts
  /\ \A s \in Stored : segs[s] \in {"indexing", "completed"}
  /\ \A s \in Stored : segs[s] = "completed" => s \in index

Nothing == Stored = {} /\ index = {}

\* What a document at rest, with this status, may be resumed from.
Resumable ==
  /\ status \in {"waiting", "parsing"} => Nothing
  /\ status = "splitting" => index = {}
  /\ status = "indexing" => OneSplitting
  /\ status = "completed" => Whole

Unfinished == {s \in Stored : segs[s] # "completed"}

\* What is not completed yet is in the hands of the chunk threads, one of which
\* may have raised, or of the keyword thread.
InHand(t) ==
  LET r == task[t] IN
  IF technique = "high_quality"
  THEN /\ r.kw # "created"
       /\ Unfinished \subseteq r.todo \cup r.checked \cup r.loaded \/ r.raised # {}
  ELSE /\ r.todo = {} /\ r.checked = {} /\ r.loaded = {} /\ r.raised = {}
       /\ Unfinished \subseteq r.docs
       /\ r.kw = "created" => r.docs \subseteq index
       /\ r.kw = "ended" => Unfinished = {}

\* The status that the document keeps if the task is stopped at this point.
StatusFits(t) ==
  LET r == task[t] IN
  /\ r.kind = "update" /\ r.pc \in {"clean", "drop"} => status = "parsing"
  /\ r.pc \in {"extract", "split"} => status \in {"waiting", "parsing", "splitting"}
  /\ r.pc \in {"wipe", "add", "mark", "marked"} => status = "splitting"
  /\ r.pc \in {"reload", "markSegs", "load", "loading", "finish", "complete"} => status = "indexing"

\* How far the task has come.
Progress(t) ==
  LET r == task[t] IN
  /\ StatusFits(t)
  /\ r.pc \in {"parse", "extract", "split"} => Nothing
  /\ r.pc \in {"wipe", "add", "mark", "marked", "markSegs"} => index = {}
  /\ r.pc = "add" => Stored = r.docs
  /\ r.pc \in {"mark", "marked", "markSegs"} => Stored = r.docs /\ Stored = {t} \X Parts
  /\ r.pc \in {"reload", "load", "loading"} => OneSplitting
  /\ r.pc = "load" => Unfinished \subseteq r.docs
  /\ r.pc = "loading" => InHand(t)
  /\ r.pc \in {"finish", "complete"} => Whole
  /\ r.pc = "unkey" => Resumable

\* A document that will not be done anew can be resumed where it was stopped.
Accounted ==
  \/ Redone
  \/ (Running = {} => Resumable) /\ \A t \in Running : Progress(t)

\* What holds as long as nothing has gone wrong.
Orderly ==
  /\ OneRuns /\ IndexIsFirst /\ NodesHaveRows /\ CleanMeansDeleted /\ DeletedIsCleaned
  /\ Accounted
=============================================================================
