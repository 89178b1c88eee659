---------------------------- MODULE SegmentIndex ----------------------------
(***************************************************************************)
(* Enabling, disabling, archiving and editing what has been indexed: the    *)
(* requests on a completed document and on its segments, and the Celery     *)
(* tasks that put segments in the index or take them out of it              *)
(* (add_document_to_index, remove_document_from_index,                      *)
(* enable_segment_to_index, disable_segment_from_index).                    *)
(*                                                                         *)
(* A Redis key per document and per segment is meant to let one task work   *)
(* on it at a time: a request looks for it, commits its change, and sets    *)
(* the key and queues the task, which deletes it: three steps, and those of *)
(* the task.                                                                *)
(***************************************************************************)
EXTENDS Naturals, FiniteSets

CONSTANTS
  Callers,     \* web requests under way at once
  Segments,    \* the document's segments
  Document,    \* the document, as the owner of a key
  Workers,     \* Celery worker slots
  MaxRequests  \* bound on the requests (checking only)

ASSUME SegmentIndexAssumption ==
  /\ Workers \in Nat \ {0} /\ MaxRequests \in Nat
  /\ Document \notin Segments

Tasks    == 1..MaxRequests               \* in the order they are queued
Contents == Nat                          \* a segment's text: how often it was edited
Nodes    == Segments \X Contents
Owners   == Segments \cup {Document}
DocOps   == {"enable", "disable", "archive", "unarchive"}
SegOps   == {"enable", "disable", "off", "edit"}

VARIABLES
  enabled,   \* the document's enabled and the segments'
  archived,  \* the document's
  failed,    \* the segments whose status is "error"; the others' is "completed"
  content,   \* the segments' text
  locked,    \* the document and segments whose Redis key ..._indexing exists
  index,     \* what the vector store (or keyword table) holds
  call,      \* the requests
  task,      \* the Celery tasks
  requests,  \* the number of requests made (checking only)
  mishaps    \* history: the races the keys do not exclude that have happened

vars == <<enabled, archived, failed, content, locked, index, call, task, requests, mishaps>>

CallPc == {"idle", "commit", "send", "unindex", "reindex"}
TaskPc == {"none", "queued", "work", "unlock", "done"}
CallRecord == [pc : CallPc, op : DocOps \cup SegOps, on : Owners]
TaskRecord == [pc : TaskPc, op : {"add", "remove"}, on : Owners, docs : SUBSET Nodes]

Idle   == [pc |-> "idle", op |-> "enable", on |-> Document]
NoTask == [pc |-> "none", op |-> "add", on |-> Document, docs |-> {}]

Init ==
  /\ enabled = Owners /\ archived = FALSE /\ failed = {} /\ locked = {}
  /\ content = [s \in Segments |-> 0]
  /\ index = Segments \X {0}
  /\ call = [c \in Callers |-> Idle] /\ task = [t \in Tasks |-> NoTask]
  /\ requests = 0 /\ mishaps = {}

Pending(o) == {t \in Tasks : task[t].on = o /\ task[t].pc \in {"queued", "work", "unlock"}}
Busy       == {t \in Tasks : task[t].pc \in {"work", "unlock"}}
Quiet      == (\A o \in Owners : Pending(o) = {}) /\ \A c \in Callers : call[c].pc = "idle"

\* The nodes of these segments in the index; those of their text as it is now.
NodesOf(ss) == {n \in index : n[1] \in ss}
Current(ss) == {<<s, content[s]>> : s \in ss}

Available == Document \in enabled /\ ~archived  \* the document's display_status

(***************************************************************************)
(* The requests                                                            *)
(***************************************************************************)

\* Mutant: an edit does not look at the segment's key.
UnlockedEdit(op, o) ==
  op = "edit" \/ (o \notin locked /\ (op \in {"enable", "disable"} => Document \notin locked))

\* DocumentStatusApi looks at the document's key, update_segment (an edit, or
\* enabled = False: "off") at the segment's, and the segments' API at both.
Unlocked(op, o) == o \notin locked /\ (op \in {"enable", "disable"} => Document \notin locked)

Allowed(op, o) ==
  CASE op = "enable"    -> o \notin enabled /\ o \notin failed
    [] op = "disable"   -> o \in enabled /\ o \notin failed
    [] op = "off"       -> o \in enabled
    [] op = "archive"   -> ~archived
    [] op = "unarchive" -> archived
    [] op = "edit"      -> TRUE      \* a disabled segment too, with enabled = True

Read(c, op, o) ==
  /\ call[c].pc = "idle" /\ requests < MaxRequests
  /\ Unlocked(op, o) /\ Allowed(op, o)
  /\ call' = [call EXCEPT ![c] = [pc |-> "commit", op |-> op, on |-> o]]
  /\ requests' = requests + 1
  /\ mishaps' = mishaps
       \cup (IF \E d \in Callers : call[d].pc # "idle" THEN {"overlap"} ELSE {})
       \cup (IF op = "edit" /\ Pending(Document) # {} THEN {"edit"} ELSE {})
  /\ UNCHANGED <<enabled, archived, failed, content, locked, index, task>>

Go(c, from, to) ==
  /\ call[c].pc = from
  /\ call' = [call EXCEPT ![c] = IF to = "idle" THEN Idle ELSE [@ EXCEPT !.pc = to]]

\* archive queues nothing when the document is disabled.
Commit(c) ==
  LET op == call[c].op
      o  == call[c].on
  IN  /\ op # "edit"
      /\ Go(c, "commit", IF op = "archive" /\ Document \notin enabled THEN "idle" ELSE "send")
      /\ enabled' = CASE op = "enable"             -> enabled \cup {o}
                      [] op \in {"disable", "off"} -> enabled \ {o}
                      [] OTHER                     -> enabled
      /\ archived' = (op = "archive" \/ (op # "unarchive" /\ archived))
      /\ UNCHANGED <<failed, content, locked, index, task, requests, mishaps>>

Delay(c) ==
  \E t \in Tasks :
    /\ task[t].pc = "none" /\ \A u \in 1..(t - 1) : task[u].pc # "none"
    /\ task' = [task EXCEPT ![t] =
         [pc |-> "queued", on |-> call[c].on, docs |-> {},
          op |-> IF call[c].op \in {"enable", "unarchive"} THEN "add" ELSE "remove"]]

\* Mutant: archive does not set the key.
SendArchiveUnlocked(c) ==
  /\ Go(c, "send", "idle") /\ Delay(c)
  /\ locked' = IF call[c].op = "archive" THEN locked ELSE locked \cup {call[c].on}
  /\ UNCHANGED <<enabled, archived, failed, content, index, requests, mishaps>>

\* setex(key, 600, 1) and delay().
Send(c) ==
  /\ Go(c, "send", "idle") /\ Delay(c)
  /\ locked' = locked \cup {call[c].on}
  /\ UNCHANGED <<enabled, archived, failed, content, index, requests, mishaps>>

\* One of the two fails: what was committed stays, and the key if it was set.
SendFails(c) ==
  /\ Go(c, "send", "idle")
  /\ locked' \in {locked, locked \cup {call[c].on}}
  /\ mishaps' = mishaps \cup {"lost"}
  /\ UNCHANGED <<enabled, archived, failed, content, index, task, requests>>

\* update_segment commits the new text and enables the segment, without a key ...
EditCommit(c) ==
  LET s == call[c].on IN
  /\ call[c].op = "edit"
  /\ Go(c, "commit", "unindex")
  /\ content' = [content EXCEPT ![s] = @ + 1]
  /\ enabled' = enabled \cup {s} /\ failed' = failed \ {s}
  /\ UNCHANGED <<archived, locked, index, task, requests, mishaps>>

\* ... deletes the segment's node ...
EditUnindex(c) ==
  /\ Go(c, "unindex", "reindex")
  /\ index' = index \ NodesOf({call[c].on})
  /\ UNCHANGED <<enabled, archived, failed, content, locked, task, requests, mishaps>>

\* ... and adds the new one, unless there is a node of that id again.
Reindexed(s) == index \cup (IF NodesOf({s}) = {} THEN Current({s}) ELSE {})

EditReindex(c) ==
  /\ Go(c, "reindex", "idle")
  /\ index' = Reindexed(call[c].on)
  /\ UNCHANGED <<enabled, archived, failed, content, locked, task, requests, mishaps>>

\* The keyword table follows the vector store: the new node may be in already.
EditFails(c) ==
  /\ call[c].pc \in {"unindex", "reindex"}
  /\ Go(c, call[c].pc, "idle")
  /\ enabled' = enabled \ {call[c].on} /\ failed' = failed \cup {call[c].on}
  /\ index' \in {index} \cup (IF call[c].pc = "reindex" THEN {Reindexed(call[c].on)} ELSE {})
  /\ UNCHANGED <<archived, content, locked, task, requests, mishaps>>

Requests(c) ==
  \/ \E op \in DocOps : Read(c, op, Document)
  \/ \E op \in SegOps, s \in Segments : Read(c, op, s)
  \/ Commit(c) \/ Send(c) \/ SendFails(c)
  \/ EditCommit(c) \/ EditUnindex(c) \/ EditReindex(c) \/ EditFails(c)

(***************************************************************************)
(* The tasks                                                               *)
(***************************************************************************)

callVars == <<archived, content, call, requests>>

First(t) ==
  /\ task[t].pc = "queued"
  /\ \A u \in 1..(t - 1) : task[u].pc # "queued"
  /\ Cardinality(Busy) < Workers

Take(t) ==
  /\ First(t)
  /\ UNCHANGED <<callVars, enabled, failed, locked, index, mishaps>>

Begin(t, docs) == task' = [task EXCEPT ![t].pc = "work", ![t].docs = docs]
Skip(t, to)    == task' = [task EXCEPT ![t].pc = to]

\* The enabled segments are read, with their text; to remove, all of them.
TakeDocument(t) ==
  /\ task[t].on = Document /\ Take(t)
  /\ Begin(t, IF task[t].op = "add" THEN Current(Segments \cap enabled) ELSE {})

\* Its removal fails before the clean: unless archived, the document is enabled
\* again, with the segments whose own tasks have passed it over meanwhile.
TakeDocumentFails(t) ==
  /\ task[t].on = Document /\ task[t].op = "remove" /\ First(t)
  /\ Skip(t, "unlock")
  /\ enabled' = IF archived THEN enabled ELSE enabled \cup {Document}
  /\ mishaps' = mishaps \cup (IF ~archived /\ \E s \in Segments \cap enabled : NodesOf({s}) = {}
                              THEN {"undone"} ELSE {})
  /\ UNCHANGED <<callVars, failed, locked, index>>

\* Mutant: the document's state is looked at outside the try.
TakeSegmentReturns(t) ==
  LET s == task[t].on IN
  /\ s # Document /\ Take(t)
  /\ IF s \in failed \/ ~Available THEN Skip(t, "done")
     ELSE Begin(t, IF task[t].op = "add" THEN Current({s}) ELSE {})

\* A failed segment raises before the try whose finally deletes the key; that of
\* a document that is not available is passed over.
TakeSegment(t) ==
  LET s == task[t].on IN
  /\ s # Document /\ Take(t)
  /\ CASE s \in failed                -> Skip(t, "done")
       [] s \notin failed /\ ~Available -> Skip(t, "unlock")
       [] s \notin failed /\ Available  -> Begin(t, IF task[t].op = "add" THEN Current({s}) ELSE {})

Worked(t) == task' = [task EXCEPT ![t].pc = "unlock", ![t].docs = {}]

Subjects(o) == IF o = Document THEN Segments ELSE {o}

Add(t) ==
  /\ task[t].pc = "work" /\ task[t].op = "add"
  /\ Worked(t)
  /\ index' = index \cup task[t].docs
  /\ UNCHANGED <<callVars, enabled, failed, locked, mishaps>>

Remove(t) ==
  /\ task[t].pc = "work" /\ task[t].op = "remove"
  /\ Worked(t)
  /\ index' = index \ NodesOf(Subjects(task[t].on))
  /\ UNCHANGED <<callVars, enabled, failed, locked, mishaps>>

\* Mutant: the failure is logged and the document or segment left as it is.
AddFailsQuietly(t) ==
  /\ task[t].pc = "work" /\ task[t].op = "add"
  /\ Worked(t)
  /\ UNCHANGED <<callVars, enabled, failed, locked, index, mishaps>>

\* Mutant: the document, too, is marked as failed.
AddFailsBoth(t) ==
  /\ task[t].pc = "work" /\ task[t].op = "add"
  /\ Worked(t)
  /\ enabled' = enabled \ {task[t].on} /\ failed' = failed \cup {task[t].on}
  /\ UNCHANGED <<callVars, locked, index, mishaps>>

\* The document is disabled; a segment is disabled and its status is "error". The
\* load is two steps, vectors and keywords: the nodes may be in already.
AddFails(t) ==
  /\ task[t].pc = "work" /\ task[t].op = "add"
  /\ Worked(t)
  /\ enabled' = enabled \ {task[t].on}
  /\ failed' = failed \cup ({task[t].on} \ {Document})
  /\ index' \in {index, index \cup task[t].docs}
  /\ UNCHANGED <<callVars, locked, mishaps>>

\* A segment is enabled again; for the document the failure is only logged. The
\* clean, too, is two steps: the nodes may be gone already.
RemoveFails(t) ==
  LET o == task[t].on IN
  /\ task[t].pc = "work" /\ task[t].op = "remove"
  /\ Worked(t)
  /\ index' \in {index, index \ NodesOf(Subjects(o))}
  /\ enabled' = enabled \cup ({o} \ {Document})
  /\ mishaps' = mishaps \cup (IF o # Document /\ \A n \in index' : n[1] # o
                              THEN {"undone"} ELSE {})
  /\ UNCHANGED <<callVars, failed, locked>>

Unlock(t) ==
  /\ task[t].pc = "unlock"
  /\ task' = [task EXCEPT ![t].pc = "done"]
  /\ locked' = locked \ {task[t].on}
  /\ UNCHANGED <<callVars, enabled, failed, index, mishaps>>

Runs(t) ==
  \/ TakeDocument(t) \/ TakeDocumentFails(t) \/ TakeSegment(t)
  \/ Add(t) \/ Remove(t) \/ AddFails(t) \/ RemoveFails(t) \/ Unlock(t)

\* A worker is killed: its task, acknowledged when it was taken, is not run again,
\* and the key stays.
Killed(t) ==
  /\ t \in Busy
  /\ task' = [task EXCEPT ![t].pc = "done", ![t].docs = {}]
  /\ mishaps' = mishaps \cup {"lost"}
  /\ UNCHANGED <<callVars, enabled, failed, locked, index>>

\* After 600 seconds a key expires, perhaps before its task was taken.
Expire(o) ==
  /\ o \in locked
  /\ locked' = locked \ {o}
  /\ mishaps' = IF Pending(o) = {} THEN mishaps ELSE mishaps \cup {"expired"}
  /\ UNCHANGED <<callVars, enabled, failed, index, task>>

-----------------------------------------------------------------------------

Next ==
  \/ \E c \in Callers : Requests(c)
  \/ \E t \in Tasks : Runs(t) \/ Killed(t)
  \/ \E o \in Owners : Expire(o)

Spec == Init /\ [][Next]_vars

-----------------------------------------------------------------------------

\* The rows, keys, requests and tasks hold values of their types.
TypeOK ==
  /\ enabled \subseteq Owners /\ archived \in BOOLEAN /\ failed \subseteq Segments
  /\ content \in [Segments -> Contents]
  /\ locked \subseteq Owners /\ index \subseteq Nodes
  /\ call \in [Callers -> CallRecord] /\ task \in [Tasks -> TaskRecord]
  /\ requests \in 0..MaxRequests
  /\ mishaps \subseteq {"overlap", "edit", "undone", "expired", "lost"}

\* No request came between another's look at the key and its setting it, and no
\* key expired before its task ended.
Undisturbed == mishaps \cap {"overlap", "expired"} = {}

\* "Set cache to prevent indexing the same document multiple times"
\* (datasets_document.py, 814; of a segment, datasets_segments.py, 175): no two
\* tasks work on the same document or segment - as long as no other request
\* came between a request's look at the key and its setting it, and no key
\* expired before its task ended.
OneTaskAtATime ==
  Undisturbed =>
    \A o \in Owners : Cardinality(Pending(o)) <= 1

\* When everything has come to rest, the index holds for each enabled segment of
\* an available document its present text and no other (dataset_retrieval.py,
\* 177-182, takes of what the index returns the completed, enabled segments) -
\* whichever additions, removals and edits failed, half done or not, and in
\* whatever order the tasks of the document and of its segments ran, as long as
\*  - the requests did not overlap, and no key expired before its task ended;
\*  - no text was edited while a task of the document was in hand;
\*  - no failed removal enabled again a segment, or a document with an enabled
\*    segment, whose node was gone;
\*  - no task was lost with its worker or because it could not be queued.
Retrievable ==
  Quiet /\ mishaps = {} /\ Available =>
    \A s \in Segments \cap enabled : NodesOf({s}) = Current({s})

\* When everything has come to rest, no document or segment is left locked to
\* wait for the expiry of its key, however its task ended, unless requests
\* overlapped, a key expired before its task ended, or a task was lost.
KeysReleased == Quiet /\ Undisturbed /\ "lost" \notin mishaps => locked = {}

\* What retrieval finds it goes on finding: while a document is available and a
\* segment of it is enabled, no step takes the segment's present text out of
\* the index - no disable or archive task that comes late, and no edit, which
\* removes what it finds before it has added the new text - under the provisos
\* of Retrievable.
StaysRetrievable ==
  [][\A s \in Segments :
       /\ mishaps' = {} /\ Available /\ Available' /\ s \in enabled \cap enabled'
       /\ <<s, content[s]>> \in index
       => <<s, content[s]>> \in index']_vars

(***************************************************************************)
(* The inductive invariant of the proofs                                   *)
(***************************************************************************)

\* What a request that is under way is about.
CallShape ==
  \A c \in Callers : call[c].pc # "idle" =>
    /\ call[c].op \in {"archive", "unarchive"} => call[c].on = Document
    /\ call[c].op \in {"off", "edit"} => call[c].on \in Segments
    /\ call[c].op = "edit" => call[c].pc # "send"
    /\ call[c].pc \in {"unindex", "reindex"} => call[c].op = "edit"

OneCall == \A c, d \in Callers : call[c].pc # "idle" /\ call[d].pc # "idle" => c = d

\* A key exists while a task for it is in hand, and no longer unless one was lost.
KeyMeansTask ==
  \A o \in Owners :
    /\ Pending(o) # {} => o \in locked
    /\ o \in locked /\ "lost" \notin mishaps => Pending(o) # {}

OnePending == \A o \in Owners : \A t, u \in Pending(o) : t = u

\* What a request saw when it looked at the key and the row is still so.
LookIsFresh ==
  \A c \in Callers : call[c].pc # "idle" =>
    /\ call[c].on \notin locked
    /\ call[c].op \in {"enable", "disable", "off"} => call[c].on \notin failed

\* A failed segment is disabled, and no task with work to do is for one: it would
\* leave the key behind.
FailedMeansDisabled ==
  /\ failed \cap enabled = {}
  /\ \A t \in Tasks : task[t].pc \in {"queued", "work"} => task[t].on \notin failed

\* What holds as long as nothing disturbed the keys.
Serial == OneCall /\ KeyMeansTask /\ OnePending /\ LookIsFresh /\ FailedMeansDisabled

\* No task of the document is in hand while a segment is edited.
EditAlone ==
  \A c \in Callers : call[c].pc # "idle" /\ call[c].op = "edit" => Pending(Document) = {}

\* What is to be taken out of the index is not to be retrieved.
Unwanted(o) == IF o = Document THEN ~Available ELSE o \notin enabled

RemovesUnwanted ==
  /\ \A t \in Tasks : task[t].pc \in {"queued", "work"} /\ task[t].op = "remove" => Unwanted(task[t].on)
  /\ \A c \in Callers :
       call[c].pc = "send" /\ call[c].op \in {"disable", "off", "archive"} => Unwanted(call[c].on)

BeingEdited(s, pc) == \E c \in Callers : call[c].pc = pc /\ call[c].on = s

\* Neither the index nor a task holds an old text, except of a failed segment
\* and of one whose edit is about to remove it.
NothingStale ==
  /\ \A n \in index : n[2] = content[n[1]] \/ n[1] \in failed \/ BeingEdited(n[1], "unindex")
  /\ \A n \in index : ~BeingEdited(n[1], "reindex")
  /\ \A t \in Tasks : task[t].pc = "work" =>
       task[t].docs \subseteq (IF task[t].op = "add" THEN Current(Subjects(task[t].on)) ELSE {})

\* A request or a task is going to put the segment in the index.
Owed(s) ==
  \/ \E c \in Callers : /\ call[c].pc = "send" /\ call[c].op \in {"enable", "unarchive"}
                         /\ call[c].on \in {s, Document}
  \/ BeingEdited(s, "unindex") \/ BeingEdited(s, "reindex")
  \/ \E t \in Tasks : /\ task[t].op = "add"
                       /\ \/ task[t].pc = "queued" /\ task[t].on \in {s, Document}
                          \/ task[t].pc = "work" /\ <<s, content[s]>> \in task[t].docs

EnabledIsIndexed ==
  Available => \A s \in Segments \cap enabled : <<s, content[s]>> \in index \/ Owed(s)

\* What holds as long as nothing has gone wrong.
Placed ==
  /\ EditAlone /\ RemovesUnwanted /\ NothingStale /\ EnabledIsIndexed

\* No text is ahead of its segment; and none that an edit has committed is in the
\* index before the edit has removed the old one.
NoneAhead ==
  /\ \A n \in index : n[2] <= content[n[1]]
  /\ \A t \in Tasks : \A n \in task[t].docs : n[2] <= content[n[1]]

EditedAnew == \A s \in Segments : BeingEdited(s, "unindex") => <<s, content[s]>> \notin index
=============================================================================
