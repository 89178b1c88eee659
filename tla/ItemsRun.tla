------------------------------ MODULE ItemsRun ------------------------------
(***************************************************************************)
(* What the outer graph may rely on when an iteration node is executed, with *)
(* no threads, no pool and no queue: each item is iterated over once at most, *)
(* in sequential mode one after the other; an output is set once, and the     *)
(* error mode decides which items may be left without one; the node ends      *)
(* once, fails only because of an iteration that did, and when it has         *)
(* succeeded every item has been dealt with and none is being.                *)
(*                                                                         *)
(* A node of which a None has overtaken a failure is promised less: it may    *)
(* succeed although an iteration failed or was lost.                          *)
(***************************************************************************)
EXTENDS Naturals

CONSTANT NItems

Items == 1..NItems
None  == 0

VARIABLES
  parallel, mode,
  item,     \* item -> "todo", "done", "broken" (it failed, and the mode does not
            \*   excuse that) or "lost" (its thread died without a word)
  outputs,  \* item -> the item of which its output is
  result,   \* how the node ended; "running" while it has not
  overtook  \* the end was decided before a failure had been reported in full

vars == <<parallel, mode, item, outputs, result, overtook>>

Init ==
  /\ parallel \in BOOLEAN
  /\ mode \in {"terminated", "continue-on-error", "remove-abnormal-output"}
  /\ item = [i \in Items |-> "todo"] /\ outputs = [i \in Items |-> None]
  /\ result = "running" /\ overtook = FALSE

Broken == \E i \in Items : item[i] = "broken"

\* The outputs an item may get: its own; none, when the mode excuses failures;
\* then, in sequential mode, also an earlier item's, if that one or one before it
\* was given up.
Possible(i) ==
  IF mode = "terminated" THEN {i}
  ELSE {i, None} \cup {k \in 1..(i - 1) : ~parallel /\ \E j \in 1..k : outputs[j] = None}

Iterate(i, how) ==
  /\ item[i] = "todo" /\ result # "succeeded"
  /\ ~parallel => result = "running" /\ how # "lost" /\ \A j \in 1..(i - 1) : item[j] = "done"
  /\ item' = [item EXCEPT ![i] = how]
  /\ \E o \in (IF how = "done" THEN Possible(i) ELSE {None}) : outputs' = [outputs EXCEPT ![i] = o]

Conclude ==
  /\ result = "running"
  /\ \/ result' = "succeeded" /\ \A i \in Items : item'[i] = "done" \/ (overtook /\ item'[i] # "todo")
     \/ result' = "failed" /\ Broken'
     \/ result' = "raised" /\ parallel
     \/ result' = "abandoned"

\* In sequential mode what is yielded after an item may end the node at once, and
\* a failure does.
Advance ==
  \E i \in Items, how \in {"done", "broken", "lost"} :
    /\ Iterate(i, how)
    /\ Conclude \/ (UNCHANGED result /\ (parallel \/ how = "done"))
    /\ UNCHANGED <<parallel, mode, overtook>>

\* Iterations may be under way when the node ends otherwise than with success.
End ==
  /\ Conclude \/ (UNCHANGED result /\ result = "running")
  /\ overtook' \in {overtook, parallel /\ Broken}
  /\ UNCHANGED <<parallel, mode, item, outputs>>

Next == Advance \/ End

Spec == Init /\ [][Next]_vars
=============================================================================
