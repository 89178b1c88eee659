--------------------------- MODULE MCWorkflowRun ---------------------------
(***************************************************************************)
(* Small instances of WorkflowRun for TLC.  The view, and the constraints    *)
(* OneOrder and Listening, leave out no behaviour that differs in anything   *)
(* the properties speak of, liveness included; FewNotices is a bound.        *)
(***************************************************************************)
EXTENDS WorkflowRun, SequencesExt

CONSTANTS n1, n2

OneNode  == {n1}
TwoNodes == {n1, n2}

\* Node executions are interchangeable: call n1 the one that starts first.
OneOrder == node[n1] = "idle" => node[n2] = "idle"

\* A notice is published only while at most one node execution has started.
FewNotices == notices > 0 => node[n2] = "idle"

\* The listening ends at the first None: what is behind it in the queue is never
\* read, and two states that differ only there are one state to TLC.
Readable ==
  LET end == SelectInSeq(q, LAMBDA m : m = None) IN
  IF end = 0 THEN q ELSE SubSeq(q, 1, end)

View == <<streaming, flagVars, Readable, runnerVars, ppc, outcome, dbVars, notices, stopSent>>

\* When the pipeline has ended nothing writes to the database any more: what
\* the detached runner still does need not be explored.
Listening == ppc # "ended"
============================================================================
