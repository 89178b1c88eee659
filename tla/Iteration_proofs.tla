-------------------------- MODULE Iteration_proofs --------------------------
(***************************************************************************)
(* What Iteration guarantees for every number of items, threads and places *)
(* in the pool.                                                            *)
(***************************************************************************)
EXTENDS Iteration, FiniteSetTheorems, TLAPS

(***************************************************************************)
(* The invariant                                                           *)
(***************************************************************************)

\* A step of the node and of its iterations.  A branch that was left behind
\* changes nothing but what is in the node's variable pool.
NodeStep == Run \/ (\E i \in Items : Iterate(i)) \/ UNCHANGED vars

\* There is an item to be submitted, or to be iterated over.
AtItem == main \in {"submit", "single"} => next \in Items

\* What is still to be submitted has no thread.
Unsubmitted == main = "submit" => \A i \in Items : i >= next => iter[i] = "absent"

\* The two modes keep to their own steps, and only one of them has threads.
ModesApart ==
  IF parallel THEN main # "single"
  ELSE main \in {"single", "finish", "closed"} /\ \A i \in Items : iter[i] = "absent"

\* Nothing is at work once the node has waited.
Settled == main = "finish" \/ result = "succeeded" => InFlight = {}

\* A success is the last thing that happens.
Closed == result = "succeeded" => main = "closed"

\* Sequential mode: there are outputs of the items iterated over so far, and
\* what is left in the pool is of a successor of the last of them, or was written
\* by a branch that was left behind.
InSequence ==
  ~parallel =>
    /\ main = "single" => \A i \in Items : i >= next => outputs[i] = None
    /\ main = "single" /\ leftover # None =>
         \/ leftover < next /\ \A j \in leftover..(next - 1) : outputs[j] = None
         \/ leftover <= next /\ \E j \in strays : j <= leftover
    /\ main # "closed" => broken = {}
    /\ result = "succeeded" => broken = {}

\* Parallel mode: an iteration writes its own place.
OwnPlace == parallel => \A i \in Items : outputs[i] \in {None, i}

\* A thread that has not come to an end has not written its output.
Unwritten ==
  parallel => \A i \in Items : iter[i] \in {"absent", "queued", "run"} => outputs[i] = None

\* Branches are left behind only of an iteration that has no output and never will.
StraysBehind ==
  \A j \in strays :
    /\ outputs[j] = None
    /\ IF parallel THEN iter[j] \in {"emit", "done"} ELSE main = "single" => j < next

Fatal == {"NodeFailed", "Completed"}

OfFailure == {OfFailedNode, <<"NodeFailed", "Failed", "Completed">>,
              <<"Failed", "Completed">>, <<"Completed">>}

\* What an iteration has still to put is of the kind of its end.
EventsFit ==
  \A i \in Items :
    /\ iter[i] # "emit" => events[i] = <<>>
    /\ iter[i] = "emit" =>
         IF i \in broken THEN events[i] \in OfFailure ELSE events[i] = <<"Next">>
    /\ i \in broken => ~parallel \/ iter[i] \in {"emit", "done"}

\* The places of q that hold a Next, and the iterations that have put one.
NextsIn(s) == {p \in 1..Len(s) : s[p] = "Next"}
Reported   == {i \in Items : iter[i] = "done" /\ i \notin broken}

\* No Next is counted that an iteration has not put.
CountFits == counted + Cardinality(NextsIn(q)) <= Cardinality(Reported)

\* Behind a failure in queue s is something fatal, or will be; before a None
\* there is something fatal.
FollowedIn(s, awaited) ==
  \A p \in 1..Len(s) : s[p] = "Failed" =>
    awaited \/ \E r \in (p + 1)..Len(s) : s[r] \in Fatal

JustifiedIn(s) ==
  \A p \in 1..Len(s) : s[p] = "None" => \E r \in 1..(p - 1) : s[r] \in Fatal

\* An iteration that failed has not put all it has to.
Awaited == \E i \in broken : events[i] # <<>>

FailureFollowed == parallel /\ main # "closed" /\ ~overtook => FollowedIn(q, Awaited)

\* Without a Next of every iteration, only a failure brings a None.
NoneJustified ==
  parallel /\ ~overtook /\ counted # NItems =>
    /\ main # "closed" => JustifiedIn(q)
    /\ main \notin {"wait", "finish"} /\ result # "succeeded"

IInv ==
  /\ TypeOK /\ AtItem /\ Unsubmitted /\ ModesApart /\ Settled /\ Closed /\ InSequence
  /\ OwnPlace /\ Unwritten /\ StraysBehind /\ OutputsAreTheirOwn /\ EventsFit /\ CountFits /\ FailureFollowed /\ NoneJustified

(***************************************************************************)
(* Types                                                                   *)
(***************************************************************************)

LEMMA ItemsFinite ==
  /\ NItems \in Nat \ {0} /\ 1 \in Items /\ None \notin Items
  /\ IsFiniteSet(Items) /\ Cardinality(Items) = NItems
BY IterationAssumption, FS_Interval DEF Items, None

\* Sets of items, and their sizes.
LEMMA ItemSets ==
  ASSUME NEW S \in SUBSET Items, NEW T \in SUBSET Items
  PROVE  /\ IsFiniteSet(S) /\ Cardinality(S) \in Nat /\ Cardinality(T) \in Nat
         /\ S \subseteq T => Cardinality(S) <= Cardinality(T)
         /\ \A x \in Items : T \subseteq S \cup {x} => Cardinality(T) <= Cardinality(S) + 1
<1>1. IsFiniteSet(S) /\ IsFiniteSet(T)
  BY ItemsFinite, FS_Subset
<1>2. Cardinality(S) \in Nat /\ Cardinality(T) \in Nat
  BY <1>1, FS_CardinalityType
<1>3. S \subseteq T => Cardinality(S) <= Cardinality(T)
  BY <1>1, FS_Subset
<1>4. ASSUME NEW x \in Items, T \subseteq S \cup {x}
      PROVE  Cardinality(T) <= Cardinality(S) + 1
  <2>1. /\ IsFiniteSet(S \cup {x})
        /\ Cardinality(S \cup {x}) \in {Cardinality(S), Cardinality(S) + 1}
    BY <1>1, FS_AddElement
  <2>2. Cardinality(T) <= Cardinality(S \cup {x})
    BY <2>1, <1>4, FS_Subset
  <2> QED
    BY <2>1, <2>2, <1>2
<1> QED
  BY <1>1, <1>2, <1>3, <1>4

LEMMA InFlightType == InFlight \subseteq Items
BY DEF InFlight

LEMMA TypeInit == Init => TypeOK /\ AtItem
<1> SUFFICES ASSUME Init PROVE TypeOK /\ AtItem
  OBVIOUS
<1>1. InFlight = {}
  BY DEF Init, InFlight, AtWork
<1>2. Cardinality(InFlight) <= MaxSubmit
  BY <1>1, FS_EmptySet, IterationAssumption
<1>3. main \in {"submit", "single"} /\ next = 1
  BY DEF Init
<1>4. events \in [Items -> Seq(Events)] /\ q \in Seq(Events)
  BY DEF Init
<1>5. outputs \in [Items -> Items \cup {None}] /\ leftover = None /\ strays = {}
  BY DEF Init
<1>6. iter \in [Items -> {"absent", "queued", "run", "emit", "done", "lost"}]
  BY DEF Init
<1>7. next \in Items /\ next \in 1..(NItems + 1) /\ counted \in Nat
  BY <1>3, ItemsFinite DEF Init
<1> QED
  BY <1>2, <1>3, <1>4, <1>5, <1>6, <1>7 DEF Init, TypeOK, AtItem

\* The pool never has more work than it has places.
LEMMA PlacesStep ==
  ASSUME TypeOK, AtItem, NodeStep
  PROVE  Cardinality(InFlight') <= MaxSubmit
<1>1. InFlight \subseteq Items /\ InFlight' \subseteq Items
  BY DEF InFlight
<1>2. Cardinality(InFlight) <= MaxSubmit
  BY DEF TypeOK
<1>3. CASE InFlight' \subseteq InFlight
  BY <1>1, <1>2, <1>3, ItemSets, IterationAssumption
<1>4. CASE Submit /\ Cardinality(InFlight) + 1 <= MaxSubmit
  <2>1. next \in Items /\ InFlight' \subseteq InFlight \cup {next}
    BY <1>4, ItemSets, <1>1, IterationAssumption
       DEF Submit, AtItem, InFlight, AtWork, TypeOK
  <2> QED
    BY <1>1, <1>4, <2>1, ItemSets, IterationAssumption
<1>5. CASE Submit /\ ~(Cardinality(InFlight) + 1 <= MaxSubmit)
  <2>1. iter' = iter
    BY <1>1, <1>5, ItemSets, IterationAssumption DEF Submit
  <2> QED
    BY <2>1, <1>3 DEF InFlight, AtWork
<1>6. CASE UNCHANGED iter
  BY <1>6, <1>3 DEF InFlight, AtWork
<1>7. ASSUME NEW i \in Items, Iterate(i) PROVE InFlight' \subseteq InFlight
  BY <1>7 DEF Iterate, Start, Dies, Completes, NodeFails, GraphFails, Put, Ends,
              InFlight, AtWork, TypeOK
<1> QED
  BY <1>3, <1>4, <1>5, <1>6, <1>7
     DEF NodeStep, Run, CollectNext, CollectFailed, CollectFailure, CollectNone, Wait,
         SingleCompletes, SingleExcused, SingleFails, Single, Finish, vars, config,
         threadVars, seqVars

\* The next event of a thread that emits, and what remains.
LEMMA Emits ==
  ASSUME TypeOK, EventsFit, NEW i \in Items, iter[i] = "emit"
  PROVE  /\ events[i] \in Seq(Events) /\ events[i] # <<>> /\ Head(events[i]) \in Events
         /\ Tail(events[i]) \in Seq(Events) /\ Len(events[i]) \in Nat \ {0}
         /\ Len(events[i]) = 1 <=> Tail(events[i]) = <<>>
         /\ Len(events[i]) = 1 => Head(events[i]) \in {"Next", "Completed"}
         /\ i \notin broken => Head(events[i]) = "Next" /\ Len(events[i]) = 1
         /\ i \in broken => /\ Head(events[i]) \in {"Failed"} \cup Fatal
                            /\ Tail(events[i]) # <<>> => Tail(events[i]) \in OfFailure
<1> DEFINE es == events[i]
<1>1. es \in Seq(Events)
  BY DEF TypeOK
<1>2. CASE i \notin broken
  <2>1. es = <<"Next">>
    BY <1>2 DEF EventsFit
  <2>2. Head(es) = "Next" /\ Len(es) = 1 /\ Tail(es) = <<>> /\ es # <<>>
    BY <2>1
  <2> QED
    BY <1>1, <1>2, <2>2 DEF Events
<1>3. CASE i \in broken
  <2>1. es \in OfFailure
    BY <1>3 DEF EventsFit
  <2>2. CASE es = OfFailedNode
    <3>1. es = <<"Failed", "NodeFailed", "Failed", "Completed">>
      BY <2>2 DEF OfFailedNode
    <3>2. /\ Len(es) = 4 /\ Head(es) = "Failed"
          /\ Tail(es) = <<"NodeFailed", "Failed", "Completed">>
      BY <3>1
    <3>3. Tail(es) \in OfFailure
      BY <3>2 DEF OfFailure
    <3>4. Tail(es) # <<>> /\ Tail(es) \in Seq(Events)
      <4>1. es # <<>> /\ Tail(es) # <<>>
        BY <3>1, <3>2
      <4> HIDE DEF es
      <4>2. Tail(es) \in Seq(Events)
        BY <1>1, <4>1
      <4> QED
        BY <4>1, <4>2
    <3>5. /\ es # <<>> /\ Len(es) \in Nat \ {0} /\ Len(es) # 1
          /\ Head(es) \in Events /\ Head(es) \in {"Failed"} \cup Fatal
      BY <3>2 DEF Events
    <3> QED
      BY <1>1, <1>3, <3>3, <3>4, <3>5
  <2>3. CASE es = <<"NodeFailed", "Failed", "Completed">>
    <3>1. Len(es) = 3 /\ Head(es) = "NodeFailed" /\ Tail(es) = <<"Failed", "Completed">>
      BY <2>3
    <3> QED
      BY <1>1, <1>3, <3>1 DEF OfFailure, Events, Fatal
  <2>4. CASE es = <<"Failed", "Completed">>
    <3>1. Len(es) = 2 /\ Head(es) = "Failed" /\ Tail(es) = <<"Completed">>
      BY <2>4
    <3> QED
      BY <1>1, <1>3, <3>1 DEF OfFailure, Events, Fatal
  <2>5. CASE es = <<"Completed">>
    <3>1. Len(es) = 1 /\ Head(es) = "Completed" /\ Tail(es) = <<>>
      BY <2>5
    <3> QED
      BY <1>1, <1>3, <3>1 DEF Events, Fatal
  <2> QED
    BY <2>1, <2>2, <2>3, <2>4, <2>5 DEF OfFailure
<1> QED
  BY <1>2, <1>3

LEMMA TypeStep ==
  ASSUME TypeOK, AtItem, EventsFit, NodeStep
  PROVE  TypeOK' /\ AtItem'
<1>1. Cardinality(InFlight') <= MaxSubmit
  BY PlacesStep
<1>2. Cardinality(InFlight) \in Nat
  BY InFlightType, ItemSets
<1> USE ItemsFinite
<1>3. CASE Submit
  <2>1. next \in Items /\ (next + 1) \in 1..(NItems + 1)
        /\ (next # NItems => next + 1 \in Items)
    BY <1>3 DEF AtItem, Submit, Items
  <2> QED
    BY <1>1, <1>3, <2>1 DEF TypeOK, AtItem, Submit, Close, config
<1>4. CASE CollectNext
  <2>1. q' \in Seq(Events)
    BY <1>4 DEF TypeOK, CollectNext, Collect, Events
  <2> QED
    BY <1>1, <1>4, <2>1
       DEF TypeOK, AtItem, CollectNext, Collect, Yield, Close, config, seqVars, threadVars
<1>5. CASE CollectFailed
  <2>1. q' \in Seq(Events)
    BY <1>5 DEF TypeOK, CollectFailed, Collect, Events
  <2> QED
    BY <1>1, <1>5, <2>1
       DEF TypeOK, AtItem, CollectFailed, Collect, Yield, Close, config, seqVars, threadVars
<1>6. CASE CollectFailure \/ CollectNone
  <2>1. q # <<>> /\ q' = Tail(q)
    BY <1>6 DEF CollectFailure, CollectNone, Collect
  <2>2. q' \in Seq(Events)
    BY <2>1 DEF TypeOK
  <2> QED
    BY <1>1, <1>6, <2>2
       DEF TypeOK, AtItem, CollectFailure, CollectNone, Collect, Close, config, seqVars,
           threadVars
<1>7. CASE Wait \/ Finish
  BY <1>1, <1>7
     DEF TypeOK, AtItem, Wait, Finish, Close, config, seqVars, threadVars
<1>8. ASSUME NEW i \in Items, Start(i) \/ Dies(i)
      PROVE  TypeOK' /\ AtItem'
  BY <1>1, <1>8 DEF TypeOK, AtItem, Start, Dies, Thread, config, seqVars
<1>9. ASSUME NEW i \in Items, Completes(i) \/ NodeFails(i) \/ GraphFails(i)
      PROVE  TypeOK' /\ AtItem'
  <2>1. /\ <<"Next">> \in Seq(Events) /\ OfFailedNode \in Seq(Events)
        /\ <<"Failed", "Completed">> \in Seq(Events)
    BY DEF OfFailedNode, Events
  <2>2. \E es \in Seq(Events) : Ends(i, es)
    BY <1>9, <2>1 DEF Completes, NodeFails, GraphFails
  <2>3. /\ events' \in [Items -> Seq(Events)] /\ q' = q
        /\ iter' \in [Items -> {"absent", "queued", "run", "emit", "done", "lost"}]
    BY <2>2 DEF TypeOK, Ends
  <2>4. UNCHANGED <<config, main, next, leftover, counted, result, overtook>>
    BY <2>2 DEF Ends, Thread, seqVars
  <2>5. /\ broken' \subseteq Items /\ strays' \subseteq Items
        /\ outputs' \in [Items -> Items \cup {None}]
    <3>1. /\ broken \subseteq Items /\ strays \subseteq Items
          /\ outputs \in [Items -> Items \cup {None}]
      BY DEF TypeOK
    <3>2. /\ broken' \in {broken, broken \cup {i}} /\ strays' \in {strays, strays \cup {i}}
          /\ outputs' \in {outputs, [outputs EXCEPT ![i] = i]}
      BY <1>9 DEF Completes, NodeFails, GraphFails, LeavesBranches
    <3> QED
      BY <3>1, <3>2
  <2> QED
    BY <1>1, <2>3, <2>4, <2>5 DEF TypeOK, AtItem, config
<1>10. ASSUME NEW i \in Items, Put(i)
       PROVE  TypeOK' /\ AtItem'
  <2>2. Head(events[i]) \in Events /\ Tail(events[i]) \in Seq(Events)
    BY <1>10, Emits DEF Put
  <2>3. q' \in Seq(Events) /\ events' \in [Items -> Seq(Events)]
    BY <1>10, <2>2 DEF TypeOK, Put
  <2> QED
    BY <1>1, <1>10, <2>3 DEF TypeOK, AtItem, Put, Thread, config, seqVars
<1>11. ASSUME NEW ran \in BOOLEAN, SingleCompletes(ran) \/ SingleExcused(ran)
       PROVE  TypeOK' /\ AtItem'
  <2>1. main = "single" /\ next \in Items
    BY <1>11 DEF AtItem, SingleCompletes, SingleExcused, Single
  <2>2. Found(ran) \in Items \cup {None} /\ None \in Items \cup {None}
    BY <2>1 DEF Found, TypeOK
  <2>3. outputs' \in [Items -> Items \cup {None}] /\ leftover' \in Items \cup {None}
    <3>1. outputs \in [Items -> Items \cup {None}] /\ leftover \in Items \cup {None}
      BY DEF TypeOK
    <3>2. CASE SingleCompletes(ran)
      BY <2>2, <3>1, <3>2 DEF SingleCompletes
    <3>3. CASE SingleExcused(ran)
      BY <2>2, <3>1, <3>3 DEF SingleExcused
    <3> QED
      BY <1>11, <3>2, <3>3
  <2>4. /\ next' \in 1..(NItems + 1)
        /\ main' = "single" => next' \in Items
        /\ main' \in {"finish", "single", "closed"} /\ result' \in {result, "abandoned"}
    BY <1>11, <2>1 DEF SingleCompletes, SingleExcused, Advance, Yield, Close, Items
  <2>5. /\ UNCHANGED <<config, threadVars, q, counted, overtook, broken>>
        /\ strays \subseteq Items /\ strays' \in {strays, strays \cup {next}}
    BY <1>11 DEF SingleCompletes, SingleExcused, Single, LeavesBranches, TypeOK
  <2> QED
    BY <1>1, <2>1, <2>3, <2>4, <2>5 DEF TypeOK, AtItem, config, threadVars
<1>12. CASE SingleFails
  BY <1>1, <1>12
     DEF TypeOK, AtItem, SingleFails, Single, Close, LeavesBranches, config, threadVars, seqVars
<1>13. CASE UNCHANGED vars
  BY <1>1, <1>13 DEF TypeOK, AtItem, vars
<1> QED
  BY <1>3, <1>4, <1>5, <1>6, <1>7, <1>8, <1>9, <1>10, <1>11, <1>12, <1>13
     DEF NodeStep, Run, Iterate

(***************************************************************************)
(* What is at work, and what the outputs are                               *)
(***************************************************************************)

\* An iteration takes a step only while it is at work, and stays in its pool.
LEMMA IterateInFlight ==
  ASSUME TypeOK, ModesApart, NEW i \in Items, Iterate(i)
  PROVE  /\ parallel /\ i \in InFlight /\ InFlight' \subseteq InFlight
         /\ UNCHANGED <<config, main, next, leftover, counted, result, overtook>>
<1>1. /\ i \in InFlight /\ InFlight' \subseteq InFlight
      /\ UNCHANGED <<config, main, next, leftover, counted, result, overtook>>
  BY DEF Iterate, Start, Dies, Completes, NodeFails, GraphFails, Put, Ends, Thread, seqVars,
         InFlight, AtWork, TypeOK
<1>2. iter[i] # "absent"
  BY <1>1 DEF InFlight, AtWork
<1> QED
  BY <1>1, <1>2 DEF ModesApart

LEMMA AtWorkStep ==
  ASSUME TypeOK, ModesApart, Settled, Closed, NodeStep
  PROVE  ModesApart' /\ Settled' /\ Closed'
<1>1. ASSUME NEW i \in Items, Iterate(i)
      PROVE  ModesApart' /\ Settled' /\ Closed'
  BY <1>1, IterateInFlight DEF ModesApart, Settled, Closed, config
<1>2. CASE Submit
  BY <1>2 DEF TypeOK, ModesApart, Settled, Closed, Submit, Close, config
<1>3. ASSUME UNCHANGED <<config, iter>>,
             CollectNext \/ CollectFailed \/ CollectFailure \/ CollectNone
      PROVE  ModesApart' /\ Settled' /\ Closed'
  <2>1. InFlight' = InFlight /\ UNCHANGED <<parallel, iter>>
    BY <1>3 DEF InFlight, AtWork, config
  <2>2. /\ main = "collect" /\ main' \in {"collect", "wait", "closed"}
        /\ result' \in {result, "abandoned", "failed"}
    BY <1>3 DEF CollectNext, CollectFailed, CollectFailure, CollectNone, Collect, Yield, Close
  <2> QED
    BY <2>1, <2>2 DEF ModesApart, Settled, Closed
<1>4. CASE Wait
  BY <1>4 DEF TypeOK, ModesApart, Settled, Closed, Wait, AllDone, InFlight, AtWork, config,
              threadVars
<1>5. CASE Finish
  BY <1>5 DEF ModesApart, Settled, Closed, Finish, Close, InFlight, AtWork, config, threadVars
<1>6. ASSUME NEW ran \in BOOLEAN, SingleCompletes(ran) \/ SingleExcused(ran) \/ SingleFails
      PROVE  ModesApart' /\ Settled' /\ Closed'
  <2>1. InFlight' = InFlight /\ UNCHANGED <<parallel, iter>> /\ main = "single"
    BY <1>6 DEF SingleCompletes, SingleExcused, SingleFails, Single, InFlight, AtWork, config,
                threadVars
  <2>2. /\ main' \in {"single", "finish", "closed"}
        /\ result' \in {result, "abandoned", "failed"}
    BY <1>6 DEF SingleCompletes, SingleExcused, SingleFails, Advance, Yield, Close
  <2>3. ~parallel /\ InFlight = {} /\ result # "succeeded"
    BY <2>1 DEF ModesApart, InFlight, AtWork, Closed
  <2> QED
    BY <2>1, <2>2, <2>3 DEF ModesApart, Settled, Closed
<1>7. CASE UNCHANGED vars
  BY <1>7 DEF ModesApart, Settled, Closed, InFlight, AtWork, vars
<1> QED
  BY <1>1, <1>2, <1>3, <1>4, <1>5, <1>6, <1>7
     DEF NodeStep, Run, CollectNext, CollectFailed, CollectFailure, CollectNone, threadVars

\* The outputs of both modes.
Outputs == InSequence /\ OwnPlace /\ OutputsAreTheirOwn

LEMMA OutputsStep ==
  ASSUME TypeOK, AtItem, ModesApart, Closed, StraysBehind, Outputs, NodeStep
  PROVE  Outputs'
<1> USE DEF Outputs
<1>1. ASSUME NEW i \in Items, Iterate(i)
      PROVE  Outputs'
  <2>1. parallel /\ parallel'
    BY <1>1, IterateInFlight DEF ModesApart, config
  <2>2. outputs' = outputs \/ outputs' = [outputs EXCEPT ![i] = i]
    BY <1>1 DEF Iterate, Start, Dies, Completes, NodeFails, GraphFails, Put
  <2>3. OwnPlace'
    BY <2>1, <2>2 DEF OwnPlace, TypeOK
  <2> QED
    BY <2>1, <2>3 DEF InSequence, OwnPlace, OutputsAreTheirOwn
<1>2. ASSUME UNCHANGED <<config, outputs, strays, broken>>,
             \/ main \in {"submit", "collect", "wait", "finish"}
                /\ (main = "finish" \/ main' # "finish" \/ parallel)
                /\ (result' = "succeeded" => main = "finish" \/ parallel)
                /\ main' # "single"
             \/ UNCHANGED vars
      PROVE  Outputs'
  BY <1>2 DEF ModesApart, InSequence, OwnPlace, OutputsAreTheirOwn, config, vars
<1>3. ASSUME NEW ran \in BOOLEAN, SingleCompletes(ran) \/ SingleExcused(ran)
      PROVE  Outputs'
  <2>0. /\ main = "single" /\ next \in Items /\ ~parallel /\ ~parallel'
        /\ next' = next + 1 /\ result' \in {result, "abandoned"} /\ broken' = broken
    BY <1>3 DEF SingleCompletes, SingleExcused, Single, Advance, Yield, Close, AtItem, config,
                ModesApart
  <2> NItems \in Nat /\ Items \subseteq Nat \ {0} /\ None = 0
    BY ItemsFinite DEF Items, None
  <2>a. next \in Nat \ {0} /\ next >= next
    BY <2>0
  <2>b. broken = {} /\ outputs[next] = None
    BY <2>0, <2>a DEF InSequence
  <2>1. /\ main = "single" /\ next \in Items /\ ~parallel /\ ~parallel'
        /\ next' = next + 1 /\ result' \in {result, "abandoned"}
        /\ outputs[next] = None /\ result # "succeeded" /\ broken = {} /\ broken' = {}
    BY <2>0, <2>b DEF Closed
  <2>2. leftover # None =>
          /\ leftover \in Items
          /\ \/ leftover < next /\ \A j \in leftover..(next - 1) : outputs[j] = None
             \/ leftover <= next /\ \E j \in strays : j <= leftover
    BY <2>1 DEF InSequence, TypeOK
  <2>s. /\ strays \subseteq strays'
        /\ \A j \in strays : /\ j \in Items /\ j \in Nat /\ j # next /\ outputs[j] = None
    <3>1. \A j \in strays : j \in Items /\ j < next /\ outputs[j] = None
      BY <2>1 DEF StraysBehind, TypeOK
    <3>2. strays \subseteq strays'
      BY <1>3 DEF SingleCompletes, SingleExcused, LeavesBranches
    <3>3. ASSUME NEW j \in strays PROVE j \in Nat /\ j # next
      <4>1. j \in Items /\ j < next /\ next \in Nat
        BY <2>a, <3>1
      <4>2. j \in Nat
        BY <4>1 DEF Items
      <4> QED
        BY <4>1, <4>2
    <3> QED
      BY <3>1, <3>2, <3>3
  <2>3. \A i \in Items : i >= next => outputs[i] = None
    BY <2>1 DEF InSequence
  <2>4. CASE SingleCompletes(ran)
    <3>1. /\ outputs' = [outputs EXCEPT ![next] = Found(ran)] /\ leftover' = None
          /\ Found(ran) # None /\ Found(ran) \in {next, leftover}
      BY <2>4 DEF SingleCompletes, Found
    <3>2. \A i \in Items : outputs'[i] = IF i = next THEN Found(ran) ELSE outputs[i]
      BY <3>1 DEF TypeOK
    <3>3. \A i \in Items : i >= next' => outputs'[i] = None
      BY <2>1, <2>3, <3>2
    <3>4. InSequence'
      BY <2>1, <3>1, <3>3 DEF InSequence
    <3>5. ASSUME NEW i \in Items, outputs'[i] # None
          PROVE  \/ outputs'[i] = i
                 \/ /\ outputs'[i] < i
                    /\ \/ \A j \in outputs'[i]..(i - 1) : outputs'[j] = None
                       \/ \E j \in strays' : j <= outputs'[i] /\ outputs'[j] = None
      <4>1. CASE i = next
        <5>1. CASE Found(ran) = next
          BY <3>2, <4>1, <5>1
        <5>2. CASE Found(ran) = leftover /\ leftover # next
                   /\ \E j \in strays : j <= leftover
          <6>0. leftover # None /\ leftover \in Items /\ leftover \in Nat
            BY <2>2, <3>1, <5>2
          <6>1. leftover \in Items /\ leftover < next
            BY <2>a, <2>2, <5>2, <6>0
          <6>2. PICK j \in strays : j <= leftover
            BY <5>2
          <6>3. j \in strays' /\ outputs'[j] = None
            BY <2>s, <3>2, <6>2
          <6> QED
            BY <3>2, <4>1, <5>2, <6>1, <6>2, <6>3
        <5>3. CASE Found(ran) = leftover /\ leftover # next
                   /\ ~\E j \in strays : j <= leftover
          <6>1. leftover < next /\ \A j \in leftover..(next - 1) : outputs[j] = None
            BY <2>2, <3>1, <5>3
          <6>2. \A j \in leftover..(next - 1) : j \in Items /\ j # next
            BY <2>1, <2>2, <3>1, <5>3 DEF Items
          <6> QED
            BY <3>2, <4>1, <5>3, <6>1, <6>2
        <5> QED
          BY <3>1, <5>1, <5>2, <5>3
      <4>2. CASE i # next
        <5>1. outputs'[i] = outputs[i] /\ i < next
          BY <2>1, <2>3, <3>2, <3>5, <4>2
        <5>2. outputs[i] \in Items
          BY <3>5, <5>1 DEF TypeOK
        <5>3. \/ outputs[i] = i
              \/ /\ outputs[i] < i
                 /\ \/ \A j \in outputs[i]..(i - 1) : outputs[j] = None
                    \/ \E j \in strays : j <= outputs[i] /\ outputs[j] = None
          BY <3>5, <5>1 DEF OutputsAreTheirOwn
        <5>4. \A j \in outputs[i]..(i - 1) : j \in Items /\ j # next
          BY <5>1, <5>2 DEF Items
        <5>5. \A j \in strays : j \in strays' /\ outputs'[j] = outputs[j]
          BY <2>s, <3>2
        <5> QED
          BY <3>2, <5>1, <5>3, <5>4, <5>5
      <4> QED
        BY <4>1, <4>2
    <3>6. OutputsAreTheirOwn'
      BY <2>1, <3>5 DEF OutputsAreTheirOwn
    <3> QED
      BY <2>1, <3>4, <3>6 DEF OwnPlace
  <2>5. CASE SingleExcused(ran)
    <3>1. outputs' = outputs /\ leftover' \in {next, leftover}
      BY <2>5 DEF SingleExcused, Found
    <3>2. leftover' # None =>
            \/ leftover' < next' /\ \A j \in leftover'..(next' - 1) : outputs'[j] = None
            \/ leftover' <= next' /\ \E j \in strays' : j <= leftover'
      <4>1. CASE leftover' = next
        <5>1. \A j \in next..(next + 1 - 1) : j = next
          BY <2>1
        <5> QED
          BY <2>1, <3>1, <4>1, <5>1
      <4>2. CASE leftover' = leftover /\ \E j \in strays : j <= leftover
        <5>0. leftover # None => leftover \in Nat /\ (leftover < next \/ leftover <= next)
          BY <2>2
        <5>1. leftover # None => leftover <= next + 1
          BY <2>a, <5>0
        <5> QED
          BY <2>1, <2>s, <4>2, <5>1
      <4>3. CASE leftover' = leftover /\ ~\E j \in strays : j <= leftover
        <5> SUFFICES ASSUME leftover # None
                     PROVE  leftover < next + 1
                            /\ \A j \in leftover..next : outputs[j] = None
          BY <2>1, <3>1, <4>3
        <5>1. leftover \in Nat /\ next \in Nat /\ leftover < next
          BY <2>a, <2>2, <4>3
        <5>2. \A j \in leftover..next : j \in leftover..(next - 1) \/ j = next
          BY <5>1
        <5> QED
          BY <2>1, <2>2, <4>3, <5>1, <5>2
      <4> QED
        BY <3>1, <4>1, <4>2, <4>3
    <3>3. \A i \in Items : i >= next' => outputs'[i] = None
      BY <2>1, <2>3, <3>1
    <3>4. InSequence'
      BY <2>1, <3>2, <3>3 DEF InSequence
    <3>5. OutputsAreTheirOwn'
      BY <2>1, <2>s, <3>1 DEF OutputsAreTheirOwn
    <3> QED
      BY <2>1, <3>4, <3>5 DEF OwnPlace
  <2> QED
    BY <1>3, <2>4, <2>5
<1>4. CASE SingleFails
  BY <1>4 DEF SingleFails, Single, Close, LeavesBranches, InSequence, OwnPlace,
              OutputsAreTheirOwn, ModesApart, config
<1>5. CASE Submit \/ Wait \/ CollectNext \/ CollectFailed \/ CollectFailure \/ CollectNone
  <2>1. /\ main \in {"submit", "collect", "wait"} /\ parallel /\ main' # "single"
        /\ UNCHANGED <<config, outputs, strays, broken>>
    BY <1>5 DEF Submit, Wait, CollectNext, CollectFailed, CollectFailure, CollectNone,
                Collect, Yield, Close, ModesApart
  <2> QED
    BY <1>2, <2>1
<1>6. CASE Finish
  BY <1>2, <1>6 DEF Finish, Close
<1>7. CASE UNCHANGED vars
  BY <1>2, <1>7 DEF vars, config
<1> QED
  BY <1>1, <1>3, <1>4, <1>5, <1>6, <1>7 DEF NodeStep, Run

(***************************************************************************)
(* What is in the queue                                                    *)
(***************************************************************************)

\* The steps of the node itself, in parallel mode, leave the threads alone;
\* those of sequential mode leave the queue alone as well.
LEMMA RunStep ==
  ASSUME TypeOK, ModesApart, Run
  PROVE  /\ UNCHANGED <<config, events>>
         /\ parallel => broken' = broken
         /\ ~Submit => iter' = iter
         /\ ~parallel \/ ~(CollectNext \/ CollectFailed \/ CollectFailure \/ CollectNone)
              => UNCHANGED <<q, counted, overtook>>
BY DEF Run, Submit, CollectNext, CollectFailed, CollectFailure, CollectNone, Wait, Finish,
       SingleCompletes, SingleExcused, SingleFails, Single, ModesApart, Collect,
       config, threadVars

\* A submission gives a thread to an item that had none.
LEMMA SubmitStep ==
  ASSUME TypeOK, AtItem, Unsubmitted, ModesApart, EventsFit, Submit
  PROVE  /\ parallel /\ next \in Items /\ iter[next] = "absent" /\ next \notin broken
         /\ iter' = iter \/ iter' = [iter EXCEPT ![next] = "queued"]
         /\ UNCHANGED <<config, events, q, counted, outputs, leftover, strays, broken, overtook>>
         /\ main = "submit" /\ main' \in {"submit", "collect", "closed"}
         /\ result' \in {result, "raised"}
<1>1. next \in Items /\ next >= next
  BY ItemsFinite DEF AtItem, Submit, Items
<1>2. parallel /\ iter[next] = "absent"
  BY <1>1 DEF Submit, Unsubmitted, ModesApart
<1>3. next \notin broken
  BY <1>1, <1>2 DEF EventsFit
<1> QED
  BY <1>1, <1>2, <1>3 DEF Submit, Close

LEMMA UnsubmittedStep ==
  ASSUME TypeOK, AtItem, Unsubmitted, ModesApart, EventsFit, NodeStep
  PROVE  Unsubmitted'
<1>1. CASE Submit
  <2>1. CASE main' = "submit"
    <3>1. next' = next + 1 /\ iter' = [iter EXCEPT ![next] = "queued"] /\ main = "submit"
      BY <1>1, <2>1 DEF Submit, Close
    <3>2. next \in Nat /\ \A i \in Items : i \in Nat
      BY <1>1, SubmitStep DEF Items
    <3>3. \A i \in Items : i >= next + 1 => i # next /\ i >= next
      BY <3>2
    <3> QED
      BY <3>1, <3>3 DEF Unsubmitted, TypeOK
  <2> QED
    BY <2>1 DEF Unsubmitted
<1>2. ASSUME NEW i \in Items, Iterate(i)
      PROVE  Unsubmitted'
  <2>1. UNCHANGED <<main, next>> /\ iter[i] # "absent"
    BY <1>2, IterateInFlight DEF InFlight, AtWork
  <2>2. \A j \in Items : j # i => iter'[j] = iter[j]
    BY <1>2 DEF Iterate, Start, Dies, Completes, NodeFails, GraphFails, Put, Ends, TypeOK
  <2> QED
    BY <2>1, <2>2 DEF Unsubmitted
<1>3. CASE Run /\ ~Submit
  <2>1. main' # "submit"
    BY <1>3 DEF Run, CollectNext, CollectFailed, CollectFailure, CollectNone, Collect, Wait,
       Finish, SingleCompletes, SingleExcused, SingleFails, Advance, Yield, Close
  <2> QED
    BY <2>1 DEF Unsubmitted
<1>4. CASE UNCHANGED vars
  BY <1>4 DEF Unsubmitted, vars
<1> QED
  BY <1>1, <1>2, <1>3, <1>4 DEF NodeStep

LEMMA EventsStep ==
  ASSUME TypeOK, AtItem, Unsubmitted, ModesApart, EventsFit, NodeStep
  PROVE  EventsFit'
<1>1. CASE Run /\ ~Submit
  <2>1. /\ UNCHANGED <<config, events, iter>>
        /\ parallel => broken' = broken
    BY <1>1, RunStep
  <2>2. ~parallel => \A i \in Items : iter[i] # "emit"
    BY DEF ModesApart, InFlight, AtWork
  <2>3. CASE parallel
    BY <2>1, <2>3 DEF EventsFit, config
  <2>4. CASE ~parallel
    <3>1. ~parallel' /\ \A i \in Items : iter'[i] # "emit" /\ events'[i] = <<>>
      BY <2>1, <2>2, <2>4 DEF EventsFit, config
    <3> QED
      BY <3>1 DEF EventsFit
  <2> QED
    BY <2>3, <2>4
<1>2. CASE Submit
  <2>1. \A i \in Items : i = next \/ iter'[i] = iter[i]
    BY <1>2, SubmitStep DEF TypeOK
  <2>2. iter'[next] \in {"absent", "queued"} /\ events'[next] = <<>> /\ next \notin broken'
    BY <1>2, SubmitStep DEF TypeOK, EventsFit
  <2>3. /\ next \in Items /\ parallel' = parallel
        /\ \A i \in Items : events'[i] = events[i] /\ (i \in broken' <=> i \in broken)
    BY <1>2, SubmitStep DEF config
  <2>4. ASSUME NEW i \in Items, i # next
        PROVE  /\ iter'[i] # "emit" => events'[i] = <<>>
               /\ iter'[i] = "emit" =>
                    IF i \in broken' THEN events'[i] \in OfFailure
                    ELSE events'[i] = <<"Next">>
               /\ i \in broken' => ~parallel' \/ iter'[i] \in {"emit", "done"}
    BY <2>1, <2>3, <2>4 DEF EventsFit
  <2> QED
    BY <2>2, <2>4 DEF EventsFit
<1>3. ASSUME NEW i \in Items, Iterate(i)
      PROVE  EventsFit'
  <2>1. parallel' = parallel
    BY <1>3, IterateInFlight DEF config
  <2>2. CASE Start(i) \/ Dies(i)
    <3>1. iter[i] \in {"queued", "run"} /\ UNCHANGED <<events, broken>>
      BY <2>2 DEF Start, Dies
    <3>2. /\ iter'[i] \in {"run", "lost"} /\ \A j \in Items \ {i} : iter'[j] = iter[j]
      BY <2>2 DEF TypeOK, Start, Dies
    <3>3. parallel
      BY <1>3, IterateInFlight DEF ModesApart
    <3> QED
      BY <2>1, <3>1, <3>2, <3>3 DEF EventsFit
  <2>3. CASE Completes(i) \/ NodeFails(i) \/ GraphFails(i)
    <3>1. PICK es \in {<<"Next">>, OfFailedNode, <<"Failed", "Completed">>} :
            /\ Ends(i, es)
            /\ broken' = IF es = <<"Next">> THEN broken ELSE broken \cup {i}
      <4>1. <<"Next">> # OfFailedNode /\ <<"Next">> # <<"Failed", "Completed">>
        BY DEF OfFailedNode
      <4> QED
        BY <2>3, <4>1 DEF Completes, NodeFails, GraphFails
    <3>2. /\ iter[i] = "run" /\ iter'[i] = "emit" /\ events'[i] = es
          /\ \A j \in Items \ {i} : iter'[j] = iter[j] /\ events'[j] = events[j]
      BY <3>1 DEF Ends, TypeOK
    <3>3. parallel
      BY <1>3, IterateInFlight DEF ModesApart
    <3>4. i \notin broken
      BY <3>2, <3>3 DEF EventsFit
    <3>5. IF i \in broken' THEN events'[i] \in OfFailure ELSE events'[i] = <<"Next">>
      BY <3>1, <3>2, <3>4 DEF OfFailure
    <3>6. \A j \in Items \ {i} : j \in broken' <=> j \in broken
      BY <3>1
    <3> QED
      BY <2>1, <3>2, <3>5, <3>6 DEF EventsFit
  <2>4. CASE Put(i)
    <3>1. /\ iter[i] = "emit" /\ broken' = broken /\ events'[i] = Tail(events[i])
          /\ iter'[i] = IF Len(events[i]) = 1 THEN "done" ELSE "emit"
          /\ \A j \in Items \ {i} : iter'[j] = iter[j] /\ events'[j] = events[j]
      BY <2>4 DEF Put, TypeOK
    <3>2. Len(events[i]) = 1 <=> Tail(events[i]) = <<>>
      BY <3>1, Emits
    <3>3. i \notin broken => Len(events[i]) = 1
      BY <3>1, Emits
    <3>4. i \in broken /\ Len(events[i]) # 1 => Tail(events[i]) \in OfFailure
      BY <3>1, <3>2, Emits
    <3>5. /\ iter'[i] # "emit" => events'[i] = <<>>
          /\ iter'[i] = "emit" => i \in broken' /\ events'[i] \in OfFailure
          /\ iter'[i] \in {"emit", "done"}
      BY <3>1, <3>2, <3>3, <3>4
    <3> QED
      BY <2>1, <3>1, <3>5 DEF EventsFit
  <2> QED
    BY <1>3, <2>2, <2>3, <2>4 DEF Iterate
<1>4. CASE UNCHANGED vars
  BY <1>4 DEF EventsFit, vars
<1> QED
  BY <1>1, <1>2, <1>3, <1>4 DEF NodeStep

\* How the number of Next in a queue changes.
LEMMA NextsFinite ==
  ASSUME NEW s \in Seq(Events)
  PROVE  IsFiniteSet(NextsIn(s)) /\ Cardinality(NextsIn(s)) \in Nat
<1>1. IsFiniteSet(1..Len(s)) /\ NextsIn(s) \subseteq 1..Len(s)
  BY FS_Interval DEF NextsIn
<1> QED
  BY <1>1, FS_Subset, FS_CardinalityType

LEMMA NextsAppend ==
  ASSUME NEW s \in Seq(Events), NEW e \in Events
  PROVE  /\ Cardinality(NextsIn(Append(s, e))) <= Cardinality(NextsIn(s)) + 1
         /\ e # "Next" => Cardinality(NextsIn(Append(s, e))) = Cardinality(NextsIn(s))
<1> DEFINE t == Append(s, e)
           n == Len(s) + 1
<1>1. /\ Len(t) = n /\ t[n] = e /\ n \notin 1..Len(s) /\ 1..Len(t) = (1..Len(s)) \cup {n}
      /\ \A p \in 1..Len(s) : t[p] = s[p]
  OBVIOUS
<1> HIDE DEF t, n
<1>2. CASE e = "Next"
  <2>1. NextsIn(t) = NextsIn(s) \cup {n}
    BY <1>1, <1>2 DEF NextsIn
  <2>2. IsFiniteSet(NextsIn(s)) /\ Cardinality(NextsIn(s)) \in Nat
    BY NextsFinite
  <2> DEFINE S == NextsIn(s)
  <2> HIDE DEF S
  <2>3. Cardinality(S \cup {n}) = IF n \in S THEN Cardinality(S) ELSE Cardinality(S) + 1
    BY <2>2, FS_AddElement DEF S
  <2>4. Cardinality(S) \in Nat
    BY <2>2 DEF S
  <2>5. Cardinality(S \cup {n}) <= Cardinality(S) + 1
    BY <2>3, <2>4
  <2> QED
    BY <1>2, <2>1, <2>5 DEF S, t
<1>3. CASE e # "Next"
  <2>1. NextsIn(t) = NextsIn(s)
    BY <1>1, <1>3 DEF NextsIn
  <2> QED
    BY <1>3, <2>1, NextsFinite DEF t
<1> QED
  BY <1>2, <1>3 DEF t

LEMMA NextsTail ==
  ASSUME NEW s \in Seq(Events), s # <<>>
  PROVE  /\ Cardinality(NextsIn(Tail(s))) <= Cardinality(NextsIn(s))
         /\ Head(s) = "Next" => Cardinality(NextsIn(Tail(s))) + 1 <= Cardinality(NextsIn(s))
<1> DEFINE t == Tail(s)
           rest == NextsIn(s) \ {1}
           f == [p \in NextsIn(t) |-> p + 1]
<1>1. /\ t \in Seq(Events) /\ Len(t) = Len(s) - 1 /\ Len(s) \in Nat \ {0}
      /\ \A p \in 1..Len(t) : t[p] = s[p + 1]
  OBVIOUS
<1>2. \A p \in NextsIn(t) : p \in Nat \ {0} /\ p + 1 \in rest
  BY <1>1 DEF NextsIn
<1>3. f \in Injection(NextsIn(t), rest)
  BY <1>2 DEF Injection, IsInjective
<1>4. /\ IsFiniteSet(rest) /\ Cardinality(rest) \in Nat
      /\ Cardinality(rest) = IF 1 \in NextsIn(s) THEN Cardinality(NextsIn(s)) - 1
                             ELSE Cardinality(NextsIn(s))
  BY NextsFinite, FS_RemoveElement, FS_CardinalityType
<1>5. Cardinality(NextsIn(t)) <= Cardinality(rest)
  BY <1>3, <1>4, FS_Injection
<1>6. Head(s) = "Next" => 1 \in NextsIn(s)
  BY <1>1 DEF NextsIn
<1>7. Cardinality(NextsIn(t)) \in Nat /\ Cardinality(NextsIn(s)) \in Nat
  BY <1>1, NextsFinite
<1> QED
  BY <1>4, <1>5, <1>6, <1>7

LEMMA ReportedStep ==
  ASSUME TypeOK, AtItem, Unsubmitted, ModesApart, EventsFit, NodeStep
  PROVE  Reported \subseteq Reported'
<1>1. CASE Submit
  <2>1. \A i \in Items : i = next \/ iter'[i] = iter[i]
    BY <1>1, SubmitStep DEF TypeOK
  <2>2. iter[next] = "absent" /\ broken' = broken
    BY <1>1, SubmitStep
  <2> QED
    BY <2>1, <2>2 DEF Reported
<1>2. CASE Run /\ ~Submit
  <2>1. iter' = iter
    BY <1>2, RunStep
  <2>2. parallel => broken' = broken
    BY <1>2, RunStep
  <2>3. ~parallel => Reported = {}
    BY DEF ModesApart, Reported
  <2> QED
    BY <2>1, <2>2, <2>3 DEF Reported
<1>3. ASSUME NEW i \in Items, Iterate(i)
      PROVE  Reported \subseteq Reported'
  <2>1. iter[i] # "done" /\ \A j \in Items \ {i} : iter'[j] = iter[j]
    BY <1>3 DEF Iterate, Start, Dies, Completes, NodeFails, GraphFails, Put, Ends, TypeOK
  <2>2. broken' \subseteq broken \cup {i}
    BY <1>3 DEF Iterate, Start, Dies, Completes, NodeFails, GraphFails, Put
  <2> QED
    BY <2>1, <2>2 DEF Reported
<1>4. CASE UNCHANGED vars
  BY <1>4 DEF Reported, vars
<1> QED
  BY <1>1, <1>2, <1>3, <1>4 DEF NodeStep

LEMMA CountStep ==
  ASSUME TypeOK, AtItem, Unsubmitted, ModesApart, EventsFit, CountFits, NodeStep
  PROVE  CountFits'
<1> DEFINE nexts == Cardinality(NextsIn(q))
<1>1. /\ q \in Seq(Events) /\ nexts \in Nat /\ counted \in Nat
      /\ counted + nexts <= Cardinality(Reported)
  BY NextsFinite DEF TypeOK, CountFits
<1>2. /\ Reported \subseteq Reported' /\ Reported' \subseteq Items /\ Reported \subseteq Items
  BY ReportedStep DEF Reported
<1>3. /\ Cardinality(Reported) \in Nat /\ Cardinality(Reported') \in Nat
      /\ Cardinality(Reported) <= Cardinality(Reported')
  BY <1>2, ItemSets
<1> SUFFICES counted' + Cardinality(NextsIn(q')) <= Cardinality(Reported')
  BY DEF CountFits, NextsIn
<1> HIDE DEF nexts
<1>4. CASE UNCHANGED <<q, counted>>
  BY <1>1, <1>3, <1>4 DEF nexts
<1>5. ASSUME q # <<>>, q' \in {Tail(q), Append(Tail(q), "None")},
             counted' = IF Head(q) = "Next" THEN counted + 1 ELSE counted
      PROVE  counted' + Cardinality(NextsIn(q')) <= Cardinality(Reported')
  <2>a. Tail(q) \in Seq(Events)
    BY <1>1, <1>5
  <2>1. Tail(q) \in Seq(Events) /\ Cardinality(NextsIn(Tail(q))) \in Nat
    BY <2>a, NextsFinite
  <2>2. Cardinality(NextsIn(q')) = Cardinality(NextsIn(Tail(q)))
    <3>1. "None" \in Events
      BY DEF Events
    <3> QED
      BY <1>5, <2>1, <3>1, NextsAppend
  <2>3. /\ Cardinality(NextsIn(Tail(q))) <= nexts
        /\ Head(q) = "Next" => Cardinality(NextsIn(Tail(q))) + 1 <= nexts
    BY <1>1, <1>5, NextsTail DEF nexts
  <2> QED
    BY <1>1, <1>3, <1>5, <2>1, <2>2, <2>3
<1>6. CASE CollectNext \/ CollectFailed \/ CollectFailure \/ CollectNone
  <2>1. /\ q # <<>> /\ q' \in {Tail(q), Append(Tail(q), "None")}
        /\ counted' = IF Head(q) = "Next" THEN counted + 1 ELSE counted
    BY <1>6 DEF CollectNext, CollectFailed, CollectFailure, CollectNone, Collect
  <2> QED
    BY <1>5, <2>1
<1>7. ASSUME NEW i \in Items, Put(i)
      PROVE  counted' + Cardinality(NextsIn(q')) <= Cardinality(Reported')
  <2>1. /\ iter[i] = "emit" /\ q' = Append(q, Head(events[i])) /\ counted' = counted
        /\ broken' = broken
    BY <1>7 DEF Put, Thread
  <2>2. Head(events[i]) \in Events
    BY <2>1, Emits
  <2>3. CASE i \in broken
    <3>1. Head(events[i]) # "Next"
      BY <2>1, <2>3, Emits DEF Fatal
    <3> QED
      BY <1>1, <1>3, <2>1, <2>2, <3>1, NextsAppend DEF nexts
  <2>4. CASE i \notin broken
    <3>1. iter' = [iter EXCEPT ![i] = "done"]
      BY <1>7, <2>1, <2>4, Emits DEF Put
    <3>2. i \in Reported' /\ i \notin Reported
      BY <2>1, <2>4, <3>1 DEF Reported, TypeOK
    <3>3. /\ IsFiniteSet(Reported) /\ Reported \cup {i} \subseteq Reported'
          /\ Reported \cup {i} \subseteq Items
      BY <1>2, <3>2, ItemSets
    <3>4. Cardinality(Reported \cup {i}) = Cardinality(Reported) + 1
      BY <3>2, <3>3, FS_AddElement
    <3>5. Cardinality(Reported) + 1 <= Cardinality(Reported')
      BY <1>2, <3>3, <3>4, ItemSets
    <3>6. Cardinality(NextsIn(q')) <= nexts + 1 /\ Cardinality(NextsIn(q')) \in Nat
      <4>1. Append(q, Head(events[i])) \in Seq(Events)
        BY <1>1, <2>2
      <4> QED
        BY <1>1, <2>1, <2>2, <4>1, NextsAppend, NextsFinite DEF nexts
    <3> QED
      BY <1>1, <1>3, <2>1, <3>5, <3>6
  <2> QED
    BY <2>3, <2>4
<1>8. ASSUME NEW i \in Items, Iterate(i), ~Put(i)
      PROVE  UNCHANGED <<q, counted>>
  BY <1>8 DEF Iterate, Start, Dies, Completes, NodeFails, GraphFails, Ends, Thread
<1>9. CASE UNCHANGED vars
  BY <1>4, <1>9 DEF vars
<1> QED
  BY <1>4, <1>6, <1>7, <1>8, <1>9, RunStep DEF NodeStep

\* How taking from a queue and putting into it keep its order.
LEMMA FollowedTail ==
  ASSUME NEW s \in Seq(Events), s # <<>>, NEW a, FollowedIn(s, a)
  PROVE  FollowedIn(Tail(s), a)
<1> DEFINE t == Tail(s)
<1>1. /\ Len(t) = Len(s) - 1 /\ Len(s) \in Nat \ {0}
      /\ \A p \in 1..Len(t) : t[p] = s[p + 1]
  OBVIOUS
<1> HIDE DEF t
<1>2. ASSUME NEW p \in 1..Len(t), t[p] = "Failed", ~a
      PROVE  \E r \in (p + 1)..Len(t) : t[r] \in Fatal
  <2>1. p + 1 \in 1..Len(s) /\ s[p + 1] = "Failed"
    BY <1>1, <1>2
  <2>2. PICK r \in (p + 2)..Len(s) : s[r] \in Fatal
    BY <1>2, <2>1 DEF FollowedIn
  <2>3. r - 1 \in (p + 1)..Len(t) /\ r - 1 \in 1..Len(t) /\ (r - 1) + 1 = r
    BY <1>1, <2>2
  <2>4. t[r - 1] \in Fatal
    BY <1>1, <2>2, <2>3
  <2> QED
    BY <2>3, <2>4
<1> QED
  BY <1>2 DEF FollowedIn, t

LEMMA FollowedAppend ==
  ASSUME NEW s \in Seq(Events), NEW e \in Events, NEW a, NEW b,
         FollowedIn(s, a),
         e \in Fatal \/ (e # "Failed" /\ (a => b))
  PROVE  FollowedIn(Append(s, e), b)
<1> DEFINE t == Append(s, e)
<1>1. /\ Len(t) = Len(s) + 1 /\ Len(s) \in Nat /\ t[Len(s) + 1] = e
      /\ \A p \in 1..Len(s) : t[p] = s[p]
  OBVIOUS
<1> HIDE DEF t
<1>2. ASSUME NEW p \in 1..Len(t), t[p] = "Failed", ~b
      PROVE  \E r \in (p + 1)..Len(t) : t[r] \in Fatal
  <2>1. p \in 1..Len(s) /\ s[p] = "Failed"
    BY <1>1, <1>2 DEF Fatal
  <2>2. CASE e \in Fatal
    <3>1. Len(s) + 1 \in (p + 1)..Len(t)
      BY <1>1, <2>1
    <3> QED
      BY <1>1, <2>2, <3>1
  <2>3. CASE e # "Failed" /\ (a => b)
    <3>1. PICK r \in (p + 1)..Len(s) : s[r] \in Fatal
      BY <1>2, <2>1, <2>3 DEF FollowedIn
    <3>2. r \in (p + 1)..Len(t) /\ r \in 1..Len(s)
      BY <1>1, <2>1, <3>1
    <3> QED
      BY <1>1, <3>1, <3>2
  <2> QED
    BY <2>2, <2>3
<1> QED
  BY <1>2 DEF FollowedIn, t

LEMMA JustifiedTail ==
  ASSUME NEW s \in Seq(Events), s # <<>>, Head(s) \notin Fatal, JustifiedIn(s)
  PROVE  JustifiedIn(Tail(s))
<1> DEFINE t == Tail(s)
<1>1. /\ Len(t) = Len(s) - 1 /\ Len(s) \in Nat \ {0} /\ s[1] \notin Fatal
      /\ \A p \in 1..Len(t) : t[p] = s[p + 1]
  OBVIOUS
<1> HIDE DEF t
<1>2. ASSUME NEW p \in 1..Len(t), t[p] = "None"
      PROVE  \E r \in 1..(p - 1) : t[r] \in Fatal
  <2>1. p + 1 \in 1..Len(s) /\ s[p + 1] = "None" /\ (p + 1) - 1 = p
    BY <1>1, <1>2
  <2>2. PICK r \in 1..p : s[r] \in Fatal
    BY <2>1 DEF JustifiedIn
  <2>3. r # 1
    BY <1>1, <2>2
  <2>4. r - 1 \in 1..(p - 1) /\ r - 1 \in 1..Len(t) /\ (r - 1) + 1 = r
    BY <1>1, <2>2, <2>3
  <2> QED
    BY <1>1, <2>2, <2>4
<1> QED
  BY <1>2 DEF JustifiedIn, t

LEMMA JustifiedAppend ==
  ASSUME NEW s \in Seq(Events), NEW e \in Events, JustifiedIn(s),
         e # "None" \/ \E r \in 1..Len(s) : s[r] \in Fatal
  PROVE  JustifiedIn(Append(s, e))
<1> DEFINE t == Append(s, e)
<1>1. /\ Len(t) = Len(s) + 1 /\ Len(s) \in Nat /\ t[Len(s) + 1] = e
      /\ \A p \in 1..Len(s) : t[p] = s[p]
  OBVIOUS
<1> HIDE DEF t
<1>2. ASSUME NEW p \in 1..Len(t), t[p] = "None"
      PROVE  \E r \in 1..(p - 1) : t[r] \in Fatal
  <2>1. CASE p = Len(s) + 1
    <3>1. PICK r \in 1..Len(s) : s[r] \in Fatal
      BY <1>1, <1>2, <2>1
    <3> QED
      BY <1>1, <2>1, <3>1
  <2>2. CASE p # Len(s) + 1
    <3>1. p \in 1..Len(s) /\ s[p] = "None"
      BY <1>1, <1>2, <2>2
    <3>2. PICK r \in 1..(p - 1) : s[r] \in Fatal
      BY <3>1 DEF JustifiedIn
    <3>3. r \in 1..Len(s)
      BY <1>1, <3>1, <3>2
    <3> QED
      BY <1>1, <3>2, <3>3
  <2> QED
    BY <2>1, <2>2
<1> QED
  BY <1>2 DEF JustifiedIn, t

LEMMA QueueStep ==
  ASSUME TypeOK, AtItem, Unsubmitted, ModesApart, Closed, EventsFit, CountFits, CountFits',
         FailureFollowed, NoneJustified, NodeStep
  PROVE  FailureFollowed' /\ NoneJustified'
<1>1. CASE ~parallel \/ overtook
  <2>1. ~parallel' \/ overtook'
    <3>1. CASE Run
      <4>1. parallel' = parallel
        BY <3>1, RunStep DEF config
      <4>2. overtook => overtook'
        BY <3>1 DEF Run, Submit, CollectNext, CollectFailed, CollectFailure, CollectNone, Wait,
           Finish, SingleCompletes, SingleExcused, SingleFails, Single
      <4> QED
        BY <1>1, <4>1, <4>2
    <3>2. ASSUME NEW i \in Items, Iterate(i) PROVE ~parallel' \/ overtook'
      BY <1>1, <3>2, IterateInFlight DEF config
    <3>3. CASE UNCHANGED vars
      BY <1>1, <3>3 DEF vars
    <3> QED
      BY <3>1, <3>2, <3>3 DEF NodeStep
  <2> QED
    BY <2>1 DEF FailureFollowed, NoneJustified
<1>2. CASE parallel /\ ~overtook
  <2>1. /\ main # "closed" => FollowedIn(q, Awaited)
        /\ counted # NItems /\ main # "closed" => JustifiedIn(q)
        /\ counted # NItems => main \notin {"wait", "finish"} /\ result # "succeeded"
        /\ q \in Seq(Events) /\ "None" \in Events
    BY <1>2 DEF FailureFollowed, NoneJustified, TypeOK, Events
  \* It is enough to look at the queue and at where the node is.
  <2>2. ASSUME ~overtook' =>
                 /\ main' # "closed" => FollowedIn(q', Awaited')
                 /\ counted' # NItems =>
                      /\ main' # "closed" => JustifiedIn(q')
                      /\ main' \notin {"wait", "finish"} /\ result' # "succeeded"
        PROVE  FailureFollowed' /\ NoneJustified'
    BY <2>2 DEF FailureFollowed, NoneJustified, FollowedIn, JustifiedIn
  <2>3. CASE UNCHANGED <<q, counted, overtook, broken, events>>
             /\ main' \in {main, "closed", "collect"}
             /\ (main' = "collect" => main \in {"submit", "collect"})
             /\ result' \in {result, "raised"}
    <3>1. Awaited' = Awaited
      BY <2>3 DEF Awaited
    <3> QED
      BY <2>1, <2>2, <2>3, <3>1
  <2>4. CASE Submit
    BY <2>3, <2>4, SubmitStep
  <2>5. CASE CollectNext
    <3>1. /\ main = "collect" /\ q # <<>> /\ Head(q) = "Next" /\ counted' = counted + 1
          /\ main' \in {"collect", "closed"} /\ result' \in {result, "abandoned"}
          /\ UNCHANGED <<broken, events, overtook>>
          /\ q' \in {Tail(q), Append(Tail(q), "None")}
          /\ counted' # NItems => q' = Tail(q)
      BY <2>5 DEF CollectNext, Collect, Yield, Close, LastOne, threadVars
    <3>2. counted' <= NItems /\ counted \in Nat
      <4>1. /\ Cardinality(Reported') \in Nat /\ Cardinality(Reported') <= NItems
        <5>1. Reported' \subseteq Items
          BY DEF Reported
        <5>2. Items \in SUBSET Items
          OBVIOUS
        <5> QED
          BY <5>1, <5>2, ItemSets, ItemsFinite
      <4>2. q' \in Seq(Events)
        BY <2>1, <3>1
      <4>3. Cardinality(NextsIn(q')) \in Nat
        BY <4>2, NextsFinite
      <4>4. counted' + Cardinality(NextsIn(q')) <= Cardinality(Reported')
        BY DEF CountFits, NextsIn
      <4>5. counted \in Nat /\ NItems \in Nat
        BY ItemsFinite DEF TypeOK
      <4> QED
        BY <3>1, <4>1, <4>3, <4>4, <4>5
    <3>3. counted # NItems
      BY <3>1, <3>2, ItemsFinite
    <3>4. Awaited' = Awaited /\ Tail(q) \in Seq(Events)
      BY <2>1, <3>1 DEF Awaited
    <3>5. FollowedIn(q', Awaited')
      <4>1. FollowedIn(Tail(q), Awaited)
        BY <2>1, <3>1, FollowedTail
      <4> DEFINE t == Tail(q)
      <4>2. t \in Seq(Events) /\ FollowedIn(t, Awaited)
        BY <3>4, <4>1
      <4>3. "None" # "Failed" /\ (Awaited => Awaited)
        OBVIOUS
      <4> HIDE DEF t
      <4>4. FollowedIn(Append(t, "None"), Awaited)
        BY <2>1, <4>2, <4>3, FollowedAppend
      <4> QED
        BY <3>1, <3>4, <4>1, <4>4 DEF t
    <3>6. counted' # NItems => JustifiedIn(q')
      BY <2>1, <3>1, <3>3, JustifiedTail DEF Fatal
    <3> QED
      BY <2>1, <2>2, <3>1, <3>3, <3>5, <3>6
  <2>6. CASE CollectFailed
    <3> SUFFICES ASSUME ~overtook' PROVE FailureFollowed' /\ NoneJustified'
      BY <2>2
    <3>1. /\ main = "collect" /\ q # <<>> /\ Head(q) = "Failed" /\ counted' = counted
          /\ main' \in {"collect", "closed"} /\ result' \in {result, "abandoned"}
          /\ UNCHANGED <<broken, events>> /\ q' = Append(Tail(q), "None")
          /\ ~\E i \in broken : events[i] # <<>>
      BY <2>6 DEF CollectFailed, Collect, Yield, Close, threadVars
    <3>2. ~Awaited /\ ~Awaited'
      BY <3>1 DEF Awaited
    <3> DEFINE t == Tail(q)
    <3>3. /\ t \in Seq(Events) /\ Len(t) = Len(q) - 1 /\ Len(q) \in Nat \ {0} /\ q[1] = "Failed"
          /\ \A p \in 1..Len(t) : t[p] = q[p + 1]
      BY <2>1, <3>1
    <3>4. FollowedIn(q, Awaited)
      BY <2>1, <3>1
    <3>5. FollowedIn(t, Awaited)
      BY <2>1, <3>1, <3>4, FollowedTail
    <3> HIDE DEF t
    <3>6. FollowedIn(Append(t, "None"), Awaited')
      <4>1. "None" # "Failed" /\ (Awaited => Awaited')
        BY <3>2
      <4> QED
        BY <2>1, <3>3, <3>5, <4>1, FollowedAppend
    <3>7. \E r \in 1..Len(t) : t[r] \in Fatal
      <4>1. PICK r \in 2..Len(q) : q[r] \in Fatal
        BY <3>2, <3>3, <3>4 DEF FollowedIn
      <4>2. r - 1 \in 1..Len(t) /\ (r - 1) + 1 = r
        BY <3>3, <4>1
      <4> QED
        BY <3>3, <4>1, <4>2
    <3>8. counted # NItems => JustifiedIn(t)
      BY <2>1, <3>1, JustifiedTail DEF Fatal, t
    <3>9. counted # NItems => JustifiedIn(Append(t, "None"))
      BY <2>1, <3>3, <3>7, <3>8, JustifiedAppend
    <3> QED
      BY <2>1, <2>2, <3>1, <3>6, <3>9 DEF t
  <2>7. CASE CollectFailure
    <3>1. /\ main = "collect" /\ main' = "closed" /\ result' = "failed" /\ counted' = counted
      BY <2>7 DEF CollectFailure, Collect, Close
    <3> QED
      BY <2>2, <3>1
  <2>8. CASE CollectNone
    <3>1. /\ main = "collect" /\ q # <<>> /\ Head(q) = "None" /\ q' = Tail(q)
          /\ UNCHANGED <<counted, broken, events, overtook, result>>
      BY <2>8 DEF CollectNone, Collect, threadVars
    <3>2. counted = NItems
      <4> SUFFICES ASSUME counted # NItems PROVE FALSE
        OBVIOUS
      <4>1. JustifiedIn(q) /\ 1 \in 1..Len(q) /\ q[1] = "None"
        BY <2>1, <3>1
      <4>2. \E r \in 1..(1 - 1) : q[r] \in Fatal
        BY <4>1 DEF JustifiedIn
      <4> QED
        BY <4>2
    <3>3. Awaited' = Awaited
      BY <3>1 DEF Awaited
    <3>4. FollowedIn(q', Awaited')
      BY <2>1, <3>1, <3>3, FollowedTail
    <3> QED
      BY <2>2, <3>1, <3>2, <3>4
  <2>9. CASE Wait \/ Finish
    <3>1. /\ main \in {"wait", "finish"} /\ UNCHANGED <<q, counted, overtook, broken, events>>
      BY <2>9 DEF Wait, Finish, threadVars
    <3>2. counted = NItems /\ main # "closed"
      BY <2>1, <3>1
    <3>3. Awaited' = Awaited
      BY <3>1 DEF Awaited
    <3> QED
      BY <2>1, <2>2, <3>1, <3>2, <3>3
  <2>10. ASSUME NEW i \in Items, Iterate(i), ~Put(i)
         PROVE  FailureFollowed' /\ NoneJustified'
    <3>1. UNCHANGED <<main, result, q, counted, overtook>>
      BY <2>10 DEF Iterate, Start, Dies, Completes, NodeFails, GraphFails, Ends, Thread
    <3>2. Awaited => Awaited'
      <4>1. broken \subseteq broken' /\ \A j \in Items : events[j] # <<>> => events'[j] # <<>>
        <5>1. broken \subseteq broken'
          BY <2>10 DEF Iterate, Start, Dies, Completes, NodeFails, GraphFails
        <5>2. iter[i] \in {"queued", "run"}
          BY <2>10 DEF Iterate, Start, Dies, Completes, NodeFails, GraphFails, Ends
        <5>3. events[i] = <<>>
          BY <5>2 DEF EventsFit
        <5>4. \A j \in Items \ {i} : events'[j] = events[j]
          BY <2>10 DEF Iterate, Start, Dies, Completes, NodeFails, GraphFails, Ends, TypeOK
        <5> QED
          BY <5>1, <5>3, <5>4
      <4>2. broken \subseteq Items
        BY DEF TypeOK
      <4> QED
        BY <4>1, <4>2 DEF Awaited
    <3>3. main # "closed" => FollowedIn(q, Awaited')
      BY <2>1, <3>2 DEF FollowedIn
    <3> QED
      BY <2>1, <2>2, <3>1, <3>3
  <2>11. ASSUME NEW i \in Items, Put(i)
         PROVE  FailureFollowed' /\ NoneJustified'
    <3> DEFINE e == Head(events[i])
    <3>1. /\ iter[i] = "emit" /\ q' = Append(q, e)
          /\ UNCHANGED <<main, result, counted, overtook, broken>>
          /\ events' = [events EXCEPT ![i] = Tail(events[i])]
      BY <2>11 DEF Put, Thread
    <3>2. /\ e \in Events /\ Len(events[i]) \in Nat
          /\ Len(events[i]) = 1 <=> Tail(events[i]) = <<>>
          /\ Len(events[i]) = 1 => e \in {"Next", "Completed"}
          /\ i \notin broken => e = "Next"
          /\ i \in broken => e \in {"Failed"} \cup Fatal
      BY <3>1, Emits
    <3> HIDE DEF e
    <3>3. e # "None"
      BY <3>2 DEF Fatal
    <3>4. main # "closed" => FollowedIn(q', Awaited')
      <4>1. CASE e \in Fatal
        BY <2>1, <3>1, <3>2, <4>1, FollowedAppend
      <4>2. CASE e = "Failed"
        <5>1. i \in broken /\ Len(events[i]) # 1
          BY <3>2, <4>2
        <5>2. events'[i] # <<>>
          BY <3>1, <3>2, <5>1 DEF TypeOK
        <5>3. Awaited'
          BY <3>1, <5>1, <5>2 DEF Awaited
        <5> QED
          BY <5>3 DEF FollowedIn
      <4>3. CASE e = "Next"
        <5>1. i \notin broken
          BY <3>2, <4>3 DEF Fatal
        <5>2. Awaited' = Awaited
          BY <3>1, <5>1 DEF Awaited, TypeOK
        <5>3. e # "Failed" /\ (Awaited => Awaited')
          BY <4>3, <5>2
        <5> QED
          BY <2>1, <3>1, <3>2, <5>3, FollowedAppend
      <4> QED
        BY <3>2, <4>1, <4>2, <4>3
    <3>5. counted # NItems /\ main # "closed" => JustifiedIn(q')
      BY <2>1, <3>1, <3>2, <3>3, JustifiedAppend
    <3> QED
      BY <2>1, <2>2, <3>1, <3>4, <3>5
  <2>12. CASE UNCHANGED vars
    BY <2>3, <2>12 DEF vars
  <2>13. ASSUME NEW ran \in BOOLEAN,
                SingleCompletes(ran) \/ SingleExcused(ran) \/ SingleFails
         PROVE  FALSE
    BY <1>2, <2>13 DEF SingleCompletes, SingleExcused, SingleFails, Single, ModesApart
  <2> QED
    BY <2>4, <2>5, <2>6, <2>7, <2>8, <2>9, <2>10, <2>11, <2>12, <2>13 DEF NodeStep, Run
<1> QED
  BY <1>1, <1>2 DEF TypeOK

(***************************************************************************)
(* Branches left behind                                                    *)
(***************************************************************************)

LEMMA UnwrittenStep ==
  ASSUME TypeOK, AtItem, Unsubmitted, ModesApart, EventsFit, Unwritten, NodeStep
  PROVE  Unwritten'
<1>1. CASE Submit
  <2>1. /\ UNCHANGED <<config, outputs>> /\ iter[next] = "absent"
        /\ iter' = iter \/ iter' = [iter EXCEPT ![next] = "queued"]
    BY <1>1, SubmitStep
  <2>2. \A i \in Items : iter'[i] # iter[i] => iter[i] = "absent"
    BY <2>1 DEF TypeOK
  <2> QED
    BY <2>1, <2>2 DEF Unwritten, config
<1>2. ASSUME NEW i \in Items, Iterate(i)
      PROVE  Unwritten'
  <2>1. parallel' = parallel
    BY <1>2, IterateInFlight DEF config
  <2> QED
    BY <1>2, <2>1 DEF Unwritten, Iterate, Start, Dies, Completes, NodeFails, GraphFails, Put,
                      Ends, TypeOK
<1>3. CASE CollectNext \/ CollectFailed \/ CollectFailure \/ CollectNone \/ Wait \/ Finish
  <2>1. UNCHANGED <<config, iter, outputs>>
    BY <1>3 DEF CollectNext, CollectFailed, CollectFailure, CollectNone, Wait, Finish, threadVars
  <2> QED
    BY <2>1 DEF Unwritten, config
<1>4. ASSUME NEW ran \in BOOLEAN, SingleCompletes(ran) \/ SingleExcused(ran) \/ SingleFails
      PROVE  Unwritten'
  BY <1>4 DEF SingleCompletes, SingleExcused, SingleFails, Single, ModesApart, config, Unwritten
<1>5. CASE UNCHANGED vars
  BY <1>5 DEF Unwritten, vars
<1> QED
  BY <1>1, <1>2, <1>3, <1>4, <1>5 DEF NodeStep, Run

LEMMA StraysStep ==
  ASSUME TypeOK, AtItem, Unsubmitted, ModesApart, EventsFit, InSequence, Unwritten,
         StraysBehind, NodeStep
  PROVE  StraysBehind'
<1>1. CASE Submit
  <2>1. /\ UNCHANGED <<config, outputs, strays>> /\ parallel /\ iter[next] = "absent"
        /\ iter' = iter \/ iter' = [iter EXCEPT ![next] = "queued"]
    BY <1>1, SubmitStep
  <2>2. \A j \in strays : /\ j \in Items /\ outputs[j] = None
                         /\ iter[j] \in {"emit", "done"} /\ iter'[j] = iter[j]
    BY <2>1 DEF StraysBehind, TypeOK
  <2> QED
    BY <2>1, <2>2 DEF StraysBehind, config
<1>2. ASSUME NEW i \in Items, Iterate(i)
      PROVE  StraysBehind'
  <2>1. parallel /\ parallel'
    BY <1>2, IterateInFlight DEF config
  <2>2. \A j \in strays : /\ j \in Items /\ outputs[j] = None
                         /\ iter[j] \in {"emit", "done"}
    BY <2>1 DEF StraysBehind, TypeOK
  <2>3. CASE Start(i) \/ Dies(i) \/ Completes(i)
    <3>1. iter[i] \in {"queued", "run"} /\ strays' = strays
      BY <2>3 DEF Start, Dies, Completes, Ends
    <3>2. \A j \in Items : j # i => iter'[j] = iter[j] /\ outputs'[j] = outputs[j]
      BY <2>3 DEF Start, Dies, Completes, Ends, TypeOK
    <3>3. \A j \in strays : j # i
      BY <2>2, <3>1
    <3> QED
      BY <2>1, <2>2, <3>1, <3>2, <3>3 DEF StraysBehind
  <2>4. CASE NodeFails(i) \/ GraphFails(i)
    <3>1. /\ iter[i] = "run" /\ iter' = [iter EXCEPT ![i] = "emit"] /\ outputs' = outputs
          /\ strays' \subseteq strays \cup {i}
      BY <2>4 DEF NodeFails, GraphFails, Ends, LeavesBranches
    <3>2. iter'[i] = "emit" /\ \A j \in Items : j # i => iter'[j] = iter[j]
      BY <3>1 DEF TypeOK
    <3>3. outputs[i] = None
      BY <2>1, <3>1 DEF Unwritten
    <3> QED
      BY <2>1, <2>2, <3>1, <3>2, <3>3 DEF StraysBehind
  <2>5. CASE Put(i)
    <3>1. /\ iter[i] = "emit" /\ UNCHANGED <<outputs, strays>>
          /\ \A j \in Items : iter'[j] = iter[j] \/ (j = i /\ iter'[j] = "done")
      BY <2>5 DEF Put, TypeOK
    <3> QED
      BY <2>1, <2>2, <3>1 DEF StraysBehind
  <2> QED
    BY <1>2, <2>3, <2>4, <2>5 DEF Iterate
<1>3. CASE CollectNext \/ CollectFailed \/ CollectFailure \/ CollectNone \/ Wait \/ Finish
  <2>1. UNCHANGED <<config, iter, outputs, strays>> /\ main' # "single"
    BY <1>3 DEF CollectNext, CollectFailed, CollectFailure, CollectNone, Wait, Finish, Yield,
                Close, Collect, threadVars
  <2> QED
    BY <2>1 DEF StraysBehind, config
<1>4. ASSUME NEW ran \in BOOLEAN, SingleCompletes(ran) \/ SingleExcused(ran) \/ SingleFails
      PROVE  StraysBehind'
  <2>1. /\ main = "single" /\ ~parallel /\ ~parallel' /\ next \in Items
        /\ main' = "single" => next' = next + 1
    BY <1>4 DEF SingleCompletes, SingleExcused, SingleFails, Single, Advance, Close, ModesApart,
                AtItem, config
  <2>2. next \in Nat /\ next >= next /\ Items \subseteq Nat
    BY <2>1 DEF Items
  <2>3. outputs[next] = None
    BY <2>1, <2>2 DEF InSequence
  <2>4. \A j \in strays : j \in Items /\ outputs[j] = None /\ j < next
    BY <2>1 DEF StraysBehind, TypeOK
  <2>5. /\ strays' \subseteq strays \cup {next}
        /\ \A j \in Items : j # next => outputs'[j] = outputs[j]
        /\ next \in strays' => outputs' = outputs
    BY <1>4, <2>2, <2>4
    DEF SingleCompletes, SingleExcused, SingleFails, LeavesBranches, TypeOK
  <2>6. ASSUME NEW j \in strays'
        PROVE  outputs'[j] = None /\ (main' = "single" => j < next')
    <3>1. CASE j = next
      BY <2>1, <2>2, <2>3, <2>5, <2>6, <3>1
    <3>2. CASE j # next
      <4>1. j \in strays
        BY <2>5, <2>6, <3>2
      <4>2. j \in Nat /\ j < next /\ outputs'[j] = None
        BY <2>2, <2>4, <2>5, <3>2, <4>1
      <4> QED
        BY <2>1, <2>2, <4>2
    <3> QED
      BY <3>1, <3>2
  <2> QED
    BY <2>1, <2>6 DEF StraysBehind
<1>5. CASE UNCHANGED vars
  BY <1>5 DEF StraysBehind, vars
<1> QED
  BY <1>1, <1>2, <1>3, <1>4, <1>5 DEF NodeStep, Run

\* What a branch that was left behind writes disturbs nothing but what InSequence
\* says of the pool, and is what it expects there.
LEMMA StrayWritesStep ==
  ASSUME IInv, NEW i \in Items, StrayWrites(i)
  PROVE  IInv'
<1> USE DEF IInv
<1>1. /\ main = "single" /\ i \in strays /\ leftover' \in i..next /\ ~parallel
      /\ UNCHANGED <<parallel, mode, main, next, iter, events, q, counted, outputs, strays,
                     result, broken, overtook>>
  BY DEF StrayWrites, Single, config, threadVars, ModesApart
<1>2. next \in Items /\ leftover' \in Items /\ i <= leftover' /\ leftover' <= next
  BY <1>1, ItemsFinite DEF AtItem, Items
<1>3. InSequence'
  BY <1>1, <1>2 DEF InSequence
<1>4. TypeOK'
  <2>1. InFlight' = InFlight
    BY <1>1 DEF InFlight, AtWork
  <2> QED
    BY <1>1, <1>2, <2>1 DEF TypeOK
<1>5. AtItem' /\ Unsubmitted' /\ ModesApart' /\ Settled' /\ Closed'
  BY <1>1 DEF AtItem, Unsubmitted, ModesApart, Settled, Closed, InFlight, AtWork
<1>6. OwnPlace' /\ Unwritten' /\ StraysBehind' /\ OutputsAreTheirOwn'
  BY <1>1 DEF OwnPlace, Unwritten, StraysBehind, OutputsAreTheirOwn
<1>7. EventsFit' /\ CountFits'
  BY <1>1 DEF EventsFit, CountFits, Reported
<1>8. FailureFollowed' /\ NoneJustified'
  BY <1>1 DEF FailureFollowed, NoneJustified
<1> QED
  BY <1>3, <1>4, <1>5, <1>6, <1>7, <1>8

(***************************************************************************)
(* Theorems                                                                *)
(***************************************************************************)

LEMMA Invariant == Spec => []IInv
<1>1. Init => IInv
  <2> SUFFICES ASSUME Init PROVE IInv
    OBVIOUS
  <2>1. TypeOK /\ AtItem
    BY TypeInit
  <2>2. /\ \A i \in Items : iter[i] = "absent" /\ events[i] = <<>> /\ outputs[i] = None
        /\ q = <<>> /\ Len(q) = 0 /\ counted = 0 /\ leftover = None /\ strays = {} /\ broken = {}
        /\ main = (IF parallel THEN "submit" ELSE "single") /\ result = "running"
    BY DEF Init
  <2>3. Unsubmitted /\ ModesApart /\ Settled /\ Closed
    BY <2>2 DEF Unsubmitted, ModesApart, Settled, Closed
  <2>4. InSequence /\ OwnPlace /\ Unwritten /\ StraysBehind /\ OutputsAreTheirOwn
    BY <2>2 DEF InSequence, OwnPlace, Unwritten, StraysBehind, OutputsAreTheirOwn
  <2>5. EventsFit
    BY <2>2 DEF EventsFit
  <2>6. CountFits
    <3>a. 1..Len(q) = {}
      BY <2>2
    <3>b. NextsIn(q) = {}
      BY <3>a DEF NextsIn
    <3>c. \A i \in Items : iter[i] # "done"
      BY <2>2
    <3>1. NextsIn(q) = {} /\ Reported = {}
      BY <3>b, <3>c DEF Reported
    <3>2. Cardinality({}) = 0
      BY FS_EmptySet
    <3>3. counted = 0
      BY <2>2
    <3>4. Cardinality(NextsIn(q)) = 0 /\ Cardinality(Reported) = 0
      BY <3>1, <3>2
    <3> QED
      BY <3>3, <3>4 DEF CountFits
  <2>7. FailureFollowed /\ NoneJustified
    BY <2>2 DEF FailureFollowed, NoneJustified, FollowedIn, JustifiedIn
  <2> QED
    BY <2>1, <2>3, <2>4, <2>5, <2>6, <2>7 DEF IInv
<1>2. IInv /\ [Next]_vars => IInv'
  <2>1. ASSUME IInv, NodeStep PROVE IInv'
    <3> USE <2>1 DEF IInv
    <3>1. TypeOK' /\ AtItem' /\ Unsubmitted' /\ ModesApart' /\ Settled' /\ Closed'
      BY TypeStep, UnsubmittedStep, AtWorkStep
    <3>2. InSequence' /\ OwnPlace' /\ OutputsAreTheirOwn' /\ Unwritten' /\ StraysBehind'
      BY OutputsStep, UnwrittenStep, StraysStep DEF Outputs
    <3>3. EventsFit' /\ CountFits'
      BY EventsStep, CountStep
    <3>4. FailureFollowed' /\ NoneJustified'
      BY <3>3, QueueStep
    <3> QED
      BY <3>1, <3>2, <3>3, <3>4
  <2> QED
    BY <2>1, StrayWritesStep DEF Next, NodeStep
<1> QED
  BY <1>1, <1>2, PTL DEF Spec

\* Every reachable state of an iteration node is well typed, and its pool is
\* within MAX_SUBMIT_COUNT (GraphEngineThreadPool.submit).
THEOREM TypeCorrect == Spec => []TypeOK
<1>1. IInv => TypeOK
  BY DEF IInv
<1> QED
  BY <1>1, Invariant, PTL

\* Whatever the order in which the events of the iterations meet in the queue,
\* a success means that no iteration failed that the mode does not excuse,
\* unless the None of a failure overtook the failure's own events
\* (IterationNode._run, 186-210).
THEOREM SuccessMeansNoFailureAlways == Spec => []SuccessMeansNoFailure
<1>1. IInv => SuccessMeansNoFailure
  <2> SUFFICES ASSUME IInv, result = "succeeded", ~overtook PROVE broken = {}
    BY DEF SuccessMeansNoFailure
  <2> USE DEF IInv
  <2>1. CASE ~parallel
    BY <2>1 DEF InSequence
  <2>2. CASE parallel
    <3>1. counted = NItems
      BY <2>2 DEF NoneJustified
    <3>2. q \in Seq(Events)
      BY DEF TypeOK
    <3>3. Cardinality(NextsIn(q)) \in Nat
      BY <3>2, NextsFinite
    <3>4. Reported \subseteq Items
      BY DEF Reported
    <3>5. Cardinality(Reported) \in Nat /\ Cardinality(Reported) <= Cardinality(Items)
      <4>1. Items \in SUBSET Items
        OBVIOUS
      <4> QED
        BY <3>4, <4>1, ItemSets
    <3>6. NItems <= Cardinality(Reported)
      BY <3>1, <3>3, <3>5, ItemsFinite DEF CountFits
    <3>7. Cardinality(Items) = Cardinality(Reported)
      BY <3>5, <3>6, ItemsFinite
    <3>8. Items = Reported
      BY <3>4, <3>7, ItemsFinite, FS_Subset
    <3> QED
      BY <3>8 DEF Reported, TypeOK
  <2> QED
    BY <2>1, <2>2
<1> QED
  BY <1>1, Invariant, PTL

\* When the node succeeds nothing is at work in its pool (wait(futures), 210), and
\* branches left behind are of items without an output.
THEOREM SuccessMeansAllDoneAlways == Spec => []SuccessMeansAllDone
<1>1. IInv => SuccessMeansAllDone
  BY DEF IInv, Settled, StraysBehind, SuccessMeansAllDone
<1> QED
  BY <1>1, Invariant, PTL

\* An output is its own item's, or one that excused failures, or the branches they
\* left behind, have put in the pool of sequential iterations (_run_single_iter,
\* 513-520).
THEOREM OutputsAreTheirOwnAlways == Spec => []OutputsAreTheirOwn
<1>1. IInv => OutputsAreTheirOwn
  BY DEF IInv
<1> QED
  BY <1>1, Invariant, PTL

(***************************************************************************)
(* The node implements ItemsRun                                            *)
(***************************************************************************)

\* The node has a result only when it is closed.
Ongoing == main # "closed" => result = "running"

\* What is fatal in the queue is of an iteration that failed.
Blamed == (\E p \in 1..Len(q) : q[p] \in Fatal) => broken # {}

\* The successful end comes after the last item.
AtEnd == main = "finish" => IF parallel THEN AllDone ELSE next = NItems + 1

\* Where failures are not excused, no iteration leaves anything in the pool.
Clean ==
  ~parallel /\ mode = "terminated" =>
    leftover = None /\ (main = "single" => strays = {})

RInv == Ongoing /\ Blamed /\ AtEnd /\ Clean

\* An iteration's step, and one that changes nothing of what RInv says of it.
LEMMA RefineIterate ==
  ASSUME IInv, RInv, NEW i \in Items, Iterate(i)
  PROVE  RInv'
<1> USE DEF IInv, RInv
<1>1. /\ parallel /\ i \in InFlight
      /\ UNCHANGED <<config, main, next, leftover, counted, result, overtook>>
  BY IterateInFlight
<1>2. iter[i] \in {"queued", "run", "emit"}
  BY <1>1 DEF InFlight, AtWork
<1>3. Ongoing' /\ Clean'
  BY <1>1 DEF Ongoing, Clean, config
<1>4. AtEnd'
  BY <1>1, <1>2 DEF AtEnd, AllDone, config
<1>6. broken \subseteq broken'
  BY DEF Iterate, Start, Dies, Completes, NodeFails, GraphFails, Put
<1>7. CASE q' = q
  <2>1. Blamed'
    BY <1>6, <1>7 DEF Blamed
  <2> QED
    BY <1>3, <1>4, <2>1
<1>8. CASE Put(i)
  <2> DEFINE e == Head(events[i])
  <2>1. /\ q' = Append(q, e) /\ e \in Events /\ q \in Seq(Events)
        /\ i \notin broken => e = "Next"
    BY <1>8, Emits DEF Put, TypeOK
  <2> HIDE DEF e
  <2>2. /\ Len(q') = Len(q) + 1 /\ Len(q) \in Nat /\ q'[Len(q) + 1] = e
        /\ \A p \in 1..Len(q) : q'[p] = q[p]
    BY <2>1
  <2>3. ASSUME NEW p \in 1..Len(q'), q'[p] \in Fatal
        PROVE  broken # {}
    <3>1. p \in 1..Len(q) \/ p = Len(q) + 1
      BY <2>2
    <3>2. CASE p \in 1..Len(q)
      BY <2>2, <2>3, <3>2 DEF Blamed
    <3>3. CASE p = Len(q) + 1
      BY <2>1, <2>2, <2>3, <3>3 DEF Fatal
    <3> QED
      BY <3>1, <3>2, <3>3
  <2> QED
    BY <1>3, <1>4, <1>6, <2>3 DEF Blamed
<1> QED
  BY <1>3, <1>4, <1>7, <1>8
     DEF Iterate, Start, Dies, Completes, NodeFails, GraphFails, Ends

LEMMA RefineRun ==
  ASSUME IInv, RInv, Run
  PROVE  RInv'
<1> USE DEF IInv, RInv
<1>1. UNCHANGED config
  BY RunStep
<1>2. q' = q \/ q' = Tail(q) \/ q' = Append(Tail(q), "None")
  BY DEF Run, Submit, CollectNext, CollectFailed, CollectFailure, CollectNone, Wait, Finish,
         SingleCompletes, SingleExcused, SingleFails, Single
<1>3. broken \subseteq broken'
  BY DEF Run, Submit, CollectNext, CollectFailed, CollectFailure, CollectNone, Wait, Finish,
         SingleCompletes, SingleExcused, SingleFails
<1>4. Blamed'
  <2>1. CASE q' = q
    BY <1>3, <2>1 DEF Blamed, TypeOK
  <2>2. CASE q' # q
    <3>1. q # <<>>
      BY <2>2 DEF Run, Submit, CollectNext, CollectFailed, CollectFailure, CollectNone, Wait,
                  Finish, SingleCompletes, SingleExcused, SingleFails, Single, Collect
    <3> DEFINE t == Tail(q)
    <3>2. /\ t \in Seq(Events) /\ Len(t) = Len(q) - 1 /\ Len(q) \in Nat \ {0}
          /\ \A p \in 1..Len(t) : t[p] = q[p + 1]
      BY <3>1 DEF TypeOK
    <3>3. q' = t \/ q' = Append(t, "None")
      BY <1>2, <2>2
    <3> HIDE DEF t
    <3>4. \A p \in 1..Len(q') : q'[p] \in Fatal => p \in 1..Len(t) /\ q'[p] = t[p]
      <4>1. CASE q' = t
        BY <4>1
      <4>2. CASE q' = Append(t, "None")
        <5>1. /\ Len(q') = Len(t) + 1 /\ Len(t) \in Nat /\ q'[Len(t) + 1] = "None"
              /\ \A p \in 1..Len(t) : q'[p] = t[p]
          BY <3>2, <4>2
        <5>2. "None" \notin Fatal
          BY DEF Fatal
        <5>3. \A p \in 1..Len(q') : p \in 1..Len(t) \/ p = Len(t) + 1
          BY <5>1
        <5> QED
          BY <5>1, <5>2, <5>3
      <4> QED
        BY <3>3, <4>1, <4>2
    <3>5. ASSUME NEW p \in 1..Len(q'), q'[p] \in Fatal
          PROVE  broken # {}
      <4>1. p \in 1..Len(t) /\ t[p] \in Fatal
        BY <3>4, <3>5
      <4>2. p + 1 \in 1..Len(q) /\ q[p + 1] \in Fatal
        BY <3>2, <4>1
      <4>3. broken # {}
        BY <4>2 DEF Blamed
      <4> QED
        BY <4>3
    <3> QED
      BY <1>3, <3>5 DEF Blamed
  <2> QED
    BY <2>1, <2>2
<1>5. Ongoing'
  BY DEF Ongoing, Run, Submit, CollectNext, CollectFailed, CollectFailure, CollectNone, Wait,
         Finish, SingleCompletes, SingleExcused, SingleFails, Single, Collect, Advance, Yield,
         Close
<1>6. AtEnd' /\ Clean'
  <2>1. CASE Submit
    <3>1. main = "submit" /\ main' \notin {"finish", "single"} /\ UNCHANGED <<outputs, leftover, strays>>
      BY <2>1 DEF Submit, Close
    <3> QED
      BY <1>1, <3>1 DEF AtEnd, Clean, config
  <2>2. CASE CollectNext \/ CollectFailed \/ CollectFailure \/ CollectNone
    BY <1>1, <2>2 DEF AtEnd, Clean, CollectNext, CollectFailed, CollectFailure,
       CollectNone, Collect, Yield, Close, config, threadVars, seqVars
  <2>3. CASE Wait \/ Finish
    <3>1. UNCHANGED <<iter, next, outputs, leftover>> /\ main' # "single"
      BY <2>3 DEF Wait, Finish, Close, threadVars, seqVars
    <3>2. main' = "finish" => main = "wait" /\ AllDone
      BY <2>3 DEF Wait, Finish, Close
    <3>3. AllDone' = AllDone
      BY <3>1 DEF AllDone
    <3>4. main = "wait" => parallel
      BY DEF ModesApart
    <3> QED
      BY <1>1, <3>1, <3>2, <3>3, <3>4 DEF AtEnd, Clean, config
  <2>4. ASSUME NEW ran \in BOOLEAN, SingleCompletes(ran) \/ SingleExcused(ran)
        PROVE  AtEnd' /\ Clean'
    <3>1. ~parallel /\ ~parallel' /\ mode' = mode
      BY <1>1, <2>4 DEF SingleCompletes, SingleExcused, Single, ModesApart, config
    <3>2. main' = "finish" => next' = NItems + 1
      BY <2>4, ItemsFinite DEF SingleCompletes, SingleExcused, Advance, Yield, Close
    <3>3. (leftover' = None /\ strays' = strays /\ main = "single") \/ mode # "terminated"
      BY <2>4 DEF SingleCompletes, SingleExcused, Single
    <3> QED
      BY <3>1, <3>2, <3>3 DEF AtEnd, Clean
  <2>5. CASE SingleFails
    BY <1>1, <2>5 DEF AtEnd, Clean, SingleFails, Single, ModesApart, Close, config,
                      seqVars, threadVars
  <2> QED
    BY <2>1, <2>2, <2>3, <2>4, <2>5 DEF Run
<1> QED
  BY <1>4, <1>5, <1>6

LEMMA RefineInvariant == Spec => []RInv
<1>1. Init => RInv
  <2> SUFFICES ASSUME Init PROVE RInv
    OBVIOUS
  <2>1. /\ q = <<>> /\ Len(q) = 0 /\ leftover = None /\ result = "running"
        /\ main \in {"submit", "single"} /\ \A i \in Items : outputs[i] = None
        /\ strays = {}
    BY DEF Init
  <2> QED
    BY <2>1 DEF RInv, Ongoing, Blamed, AtEnd, Clean
<1>2. IInv /\ RInv /\ [Next]_vars => RInv'
  <2> SUFFICES ASSUME IInv, RInv, [Next]_vars PROVE RInv'
    OBVIOUS
  <2>1. CASE UNCHANGED vars
    BY <2>1 DEF RInv, Ongoing, Blamed, AtEnd, AllDone, Clean, vars
  <2>2. ASSUME NEW i \in Items, StrayWrites(i) PROVE RInv'
    <3>1. /\ main = "single" /\ strays # {}
          /\ UNCHANGED <<parallel, mode, main, next, iter, q, outputs, strays, result, broken>>
      BY <2>2 DEF StrayWrites, Single, config, threadVars
    <3>2. ~parallel /\ mode # "terminated"
      BY <3>1 DEF IInv, ModesApart, RInv, Clean
    <3> QED
      BY <3>1, <3>2 DEF RInv, Ongoing, Blamed, AtEnd, AllDone, Clean
  <2> QED
    BY <2>1, <2>2, RefineRun, RefineIterate DEF Next
<1> QED
  BY <1>1, <1>2, Invariant, PTL DEF Spec

\* The state of the items in ItemsRun: what changes it, and what does not.
ItemStates == [i \in Items |-> ItemState(i)]

LEMMA SameItems ==
  ASSUME UNCHANGED broken,
         \A i \in Items : \/ iter'[i] = iter[i]
                          \/ {iter[i], iter'[i]} \subseteq {"absent", "queued", "run"}
                          \/ {iter[i], iter'[i]} \subseteq {"emit", "done"},
         parallel' = parallel, parallel \/ next' = next
  PROVE  ItemStates' = ItemStates
<1>1. ASSUME NEW i \in Items PROVE ItemState(i)' = ItemState(i)
  BY <1>1 DEF ItemState
<1> QED
  BY <1>1 DEF ItemStates

\* What Run does in parallel mode, and the end of both, are steps of End.
LEMMA EndStep ==
  ASSUME UNCHANGED <<config, outputs>>, ItemStates' = ItemStates, result = "running",
         overtook' \in {overtook, parallel /\ Loop!Broken},
         \/ result' \in {result, "abandoned"}
         \/ result' = "raised" /\ parallel
         \/ result' = "failed" /\ Loop!Broken
         \/ result' = "succeeded"
            /\ \A i \in Items : ItemState(i) = "done" \/ (overtook /\ ItemState(i) # "todo")
  PROVE  Loop!End
<1>1. Loop!Broken' <=> Loop!Broken
  BY DEF Loop!Broken, ItemStates, Loop!Items, Items
<1>2. \A i \in Items : ItemState(i)' = ItemState(i)
  BY DEF ItemStates
<1> QED
  BY <1>1, <1>2
     DEF Loop!End, Loop!Conclude, ItemStates, config, Loop!Items, Items

LEMMA BrokenItems ==
  ASSUME TypeOK
  PROVE  Loop!Broken <=> broken # {}
BY DEF TypeOK, Loop!Broken, ItemState, Loop!Items, Items

\* The end of an iteration is a step of Advance.
LEMMA AdvanceStep ==
  ASSUME UNCHANGED <<config, overtook>>, NEW i \in Items,
         NEW how \in {"done", "broken", "lost"}, NEW o \in Items \cup {None},
         ItemState(i) = "todo", ItemStates' = [ItemStates EXCEPT ![i] = how],
         outputs' = [outputs EXCEPT ![i] = o],
         IF how = "done" THEN o \in Loop!Possible(i) ELSE o = None,
         result # "succeeded",
         ~parallel => /\ result = "running" /\ how # "lost"
                      /\ \A j \in 1..(i - 1) : ItemState(j) = "done",
         \/ result' = result /\ (parallel \/ how = "done")
         \/ result = "running" /\ (result' = "abandoned" \/ (result' = "failed" /\ how = "broken"))
  PROVE  Loop!Advance
<1>1. i \in Loop!Items /\ i \in Nat /\ Loop!Items = Items /\ \A j \in 1..(i - 1) : j \in Items
  BY ItemsFinite DEF Loop!Items, Items
<1>2. /\ ItemStates[i] = "todo" /\ ItemStates'[i] = how
      /\ ~parallel => \A j \in 1..(i - 1) : ItemStates[j] = "done"
  BY <1>1 DEF ItemStates
<1>3. Loop!Iterate(i, how)
  <2>1. \E x \in (IF how = "done" THEN Loop!Possible(i) ELSE {None}) :
          outputs' = [outputs EXCEPT ![i] = x]
    OBVIOUS
  <2>2. Loop!None = None
    BY DEF Loop!None, None
  <2> QED
    BY <1>2, <2>1, <2>2 DEF Loop!Iterate, ItemStates
<1>4. Loop!Conclude \/ (UNCHANGED result /\ (parallel \/ how = "done"))
  BY <1>1, <1>2 DEF Loop!Conclude, Loop!Broken, ItemStates
<1> QED
  BY <1>1, <1>3, <1>4 DEF Loop!Advance, config

LEMMA IterateRefines ==
  ASSUME IInv, RInv, NEW i \in Items, Iterate(i)
  PROVE  Loop!Advance \/ UNCHANGED Loop!vars
<1> USE DEF IInv, RInv
<1>1. /\ parallel /\ parallel' /\ i \in InFlight /\ result # "succeeded"
      /\ UNCHANGED <<config, main, next, leftover, counted, result, overtook>>
  BY IterateInFlight DEF Settled, config, ModesApart
<1>2. CASE Start(i) \/ Put(i)
  <2>1. /\ UNCHANGED <<outputs, broken, parallel>>
        /\ \A j \in Items : \/ iter'[j] = iter[j]
                            \/ {iter[j], iter'[j]} \subseteq {"absent", "queued", "run"}
                            \/ {iter[j], iter'[j]} \subseteq {"emit", "done"}
    BY <1>1, <1>2 DEF Start, Put, TypeOK, config
  <2>2. ItemStates' = ItemStates
    BY <1>1, <2>1, SameItems
  <2> QED
    BY <1>1, <2>1, <2>2 DEF Loop!vars, ItemStates, config
<1>3. CASE iter[i] = "run" /\ ~Start(i) /\ ~Put(i)
  <2>1. i \notin broken /\ outputs[i] = None /\ ItemState(i) = "todo"
    BY <1>1, <1>3 DEF EventsFit, Unwritten, ItemState
  <2>2. outputs = [outputs EXCEPT ![i] = None]
    BY <2>1 DEF TypeOK
  \* What the iteration comes to, and what it has put out.
  <2>3. ASSUME NEW how \in {"done", "broken", "lost"}, NEW o \in Items \cup {None},
               iter' = [iter EXCEPT ![i] = IF how = "lost" THEN "lost" ELSE "emit"],
               broken' = (IF how = "broken" THEN broken \cup {i} ELSE broken),
               outputs' = [outputs EXCEPT ![i] = o],
               IF how = "done" THEN o \in Loop!Possible(i) ELSE o = None
        PROVE  Loop!Advance
    <3>1. \A j \in Items : ItemState(j)' = IF j = i THEN how ELSE ItemState(j)
      BY <1>1, <2>1, <2>3 DEF ItemState, TypeOK
    <3>2. ItemStates' = [ItemStates EXCEPT ![i] = how]
      BY <3>1 DEF ItemStates
    <3> QED
      BY <1>1, <2>1, <2>3, <3>2, AdvanceStep
  <2>4. CASE Dies(i)
    BY <2>2, <2>3, <2>4 DEF Dies
  <2>5. CASE Completes(i)
    <3>1. i \in Loop!Possible(i)
      BY DEF Loop!Possible
    <3> QED
      BY <2>3, <2>5, <3>1 DEF Completes, Ends
  <2>6. CASE NodeFails(i)
    <3>1. mode # "terminated" => None \in Loop!Possible(i)
      BY DEF Loop!Possible, Loop!None, None
    <3> QED
      BY <2>2, <2>3, <2>6, <3>1 DEF NodeFails, Ends
  <2>7. CASE GraphFails(i)
    BY <2>2, <2>3, <2>7 DEF GraphFails, Ends
  <2> QED
    BY <1>3, <2>4, <2>5, <2>6, <2>7 DEF Iterate
<1> QED
  BY <1>2, <1>3 DEF Iterate, Dies, Completes, NodeFails, GraphFails, Ends

LEMMA SingleRefines ==
  ASSUME IInv, RInv, NEW ran \in BOOLEAN,
         SingleCompletes(ran) \/ SingleExcused(ran) \/ SingleFails
  PROVE  Loop!Advance
<1> USE DEF IInv, RInv
<1>1. /\ main = "single" /\ ~parallel /\ UNCHANGED <<config, iter, overtook>> /\ next \in Items
      /\ result = "running" /\ broken = {} /\ \A i \in Items : iter[i] = "absent"
  BY DEF SingleCompletes, SingleExcused, SingleFails, Single, threadVars, AtItem, Ongoing,
         ModesApart, InSequence
<1>2. next \in Nat \ {0} /\ Items \subseteq Nat \ {0} /\ None = 0
      /\ \A j \in 1..(next - 1) : j \in Items
  BY <1>1, ItemsFinite DEF Items, None
<1>3. /\ outputs[next] = None
      /\ leftover # None => /\ leftover \in 1..next
                            /\ leftover # next => \E j \in 1..leftover : outputs[j] = None
  <2>1. next >= next
    BY <1>2
  <2>2. leftover # None => leftover \in Nat \ {0}
    BY <1>2 DEF TypeOK
  <2>3. \A j \in strays : j \in Nat \ {0} /\ outputs[j] = None
    BY <1>2 DEF StraysBehind, TypeOK
  <2>4. CASE \E j \in strays : leftover <= next /\ j <= leftover
    BY <1>1, <1>2, <2>1, <2>2, <2>3, <2>4 DEF InSequence
  <2>5. CASE ~\E j \in strays : leftover <= next /\ j <= leftover
    <3>1. leftover # None =>
            leftover < next /\ \A j \in leftover..(next - 1) : outputs[j] = None
      BY <1>1, <2>5 DEF InSequence
    <3>2. leftover # None => leftover \in leftover..(next - 1) /\ leftover \in 1..leftover
      BY <1>2, <2>2, <3>1
    <3> QED
      BY <1>1, <1>2, <2>1, <2>2, <3>1, <3>2 DEF InSequence
  <2> QED
    BY <2>4, <2>5
<1>4. /\ \A i \in Items : ItemState(i) = IF i < next THEN "done" ELSE "todo"
      /\ ItemState(next) = "todo" /\ \A j \in 1..(next - 1) : ItemState(j) = "done"
  <2>1. \A i \in Items : ItemState(i) = IF i < next THEN "done" ELSE "todo"
    BY <1>1 DEF ItemState
  <2> QED
    BY <1>1, <1>2, <2>1
<1>5. parallel' = parallel
  BY <1>1 DEF config
<1>6. CASE SingleFails
  <2>1. /\ next' = next /\ broken' = {next} /\ result' \in {"failed", "abandoned"}
        /\ outputs' = [outputs EXCEPT ![next] = None]
    BY <1>1, <1>3, <1>6 DEF SingleFails, Close, seqVars, TypeOK
  <2>2. \A i \in Items : ItemState(i)' = IF i = next THEN "broken" ELSE ItemState(i)
    BY <1>1, <1>5, <2>1 DEF ItemState
  <2>3. ItemStates' = [ItemStates EXCEPT ![next] = "broken"]
    BY <2>2 DEF ItemStates
  <2> QED
    BY <1>1, <1>4, <2>1, <2>3, AdvanceStep
<1>7. CASE SingleCompletes(ran) \/ SingleExcused(ran)
  <2>1. next' = next + 1 /\ result' \in {result, "abandoned"} /\ broken' = broken
    BY <1>7 DEF SingleCompletes, SingleExcused, Advance, Yield, Close
  <2>2. \A i \in Items : ItemState(i)' = IF i = next THEN "done" ELSE ItemState(i)
    <3>1. \A i \in Items : i < next + 1 <=> i < next \/ i = next
      BY <1>2
    <3>2. \A i \in Items : ItemState(i)' = IF i < next + 1 THEN "done" ELSE "todo"
      BY <1>1, <1>5, <2>1 DEF ItemState
    <3> QED
      BY <1>4, <3>1, <3>2
  <2>3. ItemStates' = [ItemStates EXCEPT ![next] = "done"]
    BY <2>2 DEF ItemStates
  <2>4. \E o \in Loop!Possible(next) :
          o \in Items \cup {None} /\ outputs' = [outputs EXCEPT ![next] = o]
    <3>1. CASE SingleExcused(ran)
      <4>1. mode # "terminated" /\ outputs' = [outputs EXCEPT ![next] = None]
        BY <1>3, <3>1 DEF SingleExcused, TypeOK
      <4>2. None \in Loop!Possible(next)
        BY <4>1 DEF Loop!Possible, Loop!None, None
      <4> QED
        BY <4>1, <4>2
    <3>2. CASE SingleCompletes(ran)
      <4>1. /\ Found(ran) # None /\ Found(ran) \in {next, leftover}
            /\ outputs' = [outputs EXCEPT ![next] = Found(ran)]
        BY <3>2 DEF SingleCompletes, Found
      <4>2. Found(ran) \in Loop!Possible(next)
        <5>1. CASE Found(ran) = next
          BY <5>1 DEF Loop!Possible
        <5>2. CASE Found(ran) # next
          <6>1. /\ leftover \in 1..(next - 1) /\ mode # "terminated"
                /\ \E j \in 1..leftover : outputs[j] = None
            BY <1>1, <1>2, <1>3, <4>1, <5>2 DEF Clean
          <6> QED
            BY <1>1, <1>3, <4>1, <5>2, <6>1 DEF Loop!Possible, Loop!None, None
        <5> QED
          BY <5>1, <5>2
      <4>3. Found(ran) \in Items
        BY <1>1, <4>1 DEF TypeOK
      <4> QED
        BY <4>1, <4>2, <4>3
    <3> QED
      BY <1>7, <3>1, <3>2
  <2>5. PICK o \in Loop!Possible(next) :
          o \in Items \cup {None} /\ outputs' = [outputs EXCEPT ![next] = o]
    BY <2>4
  <2>6. UNCHANGED <<config, overtook>> /\ result # "succeeded"
    BY <1>1
  <2> QED
    BY <1>1, <1>4, <2>1, <2>3, <2>5, <2>6, AdvanceStep
<1> QED
  BY <1>6, <1>7

\* A success that no None has overtaken follows a Next of every iteration.
LEMMA AllReported ==
  ASSUME IInv, parallel, counted = NItems
  PROVE  Reported = Items
<1> USE DEF IInv
<1>1. q \in Seq(Events) /\ Reported \subseteq Items /\ Items \subseteq Items
  BY DEF TypeOK, Reported
<1>2. Cardinality(NextsIn(q)) \in Nat
  BY <1>1, NextsFinite
<1>3. Cardinality(Reported) \in Nat /\ Cardinality(Reported) <= Cardinality(Items)
  BY <1>1, ItemSets
<1>4. Cardinality(Items) = Cardinality(Reported)
  BY <1>2, <1>3, ItemsFinite DEF CountFits
<1> QED
  BY <1>1, <1>4, ItemsFinite, FS_Subset

LEMMA FinishRefines ==
  ASSUME IInv, RInv, Finish
  PROVE  Loop!End
<1> USE DEF IInv, RInv
<1>1. /\ main = "finish" /\ result = "running" /\ result' \in {"succeeded", "abandoned"}
      /\ UNCHANGED <<config, next, iter, outputs, broken, overtook>>
  BY DEF Finish, Close, Ongoing, seqVars, threadVars
<1>2. ItemStates' = ItemStates
  BY <1>1, SameItems DEF config
<1>3. ASSUME NEW i \in Items
      PROVE  ItemState(i) = "done" \/ (overtook /\ ItemState(i) # "todo")
  <2>1. CASE ~parallel
    <3>1. broken = {} /\ iter[i] = "absent" /\ i < next
      BY <1>1, <2>1, ItemsFinite DEF InSequence, ModesApart, AtEnd, Items
    <3> QED
      BY <2>1, <3>1 DEF ItemState
  <2>2. CASE parallel /\ overtook
    <3>1. iter[i] \in {"done", "lost"}
      BY <1>1, <2>2 DEF AtEnd, AllDone
    <3> QED
      BY <2>2, <3>1 DEF ItemState
  <2>3. CASE parallel /\ ~overtook
    <3>1. i \in Reported
      BY <1>1, <2>3, AllReported DEF NoneJustified
    <3> QED
      BY <3>1 DEF Reported, ItemState
  <2> QED
    BY <2>1, <2>2, <2>3
<1> QED
  BY <1>1, <1>2, <1>3, EndStep

LEMMA RunRefines ==
  ASSUME IInv, RInv, Run
  PROVE  Loop!Advance \/ Loop!End \/ UNCHANGED Loop!vars
<1> USE DEF IInv, RInv
<1>1. CASE Finish
  BY <1>1, FinishRefines
<1>2. ASSUME NEW ran \in BOOLEAN, SingleCompletes(ran) \/ SingleExcused(ran) \/ SingleFails
      PROVE  Loop!Advance
  BY <1>2, SingleRefines
<1>3. CASE Submit
  <2>1. /\ main = "submit" /\ parallel /\ result = "running"
        /\ UNCHANGED <<config, outputs, broken, overtook>> /\ result' \in {result, "raised"}
        /\ iter' \in {iter, [iter EXCEPT ![next] = "queued"]}
    BY <1>3 DEF Submit, Close, Ongoing, ModesApart
  <2>2. next \in Items /\ iter[next] = "absent"
    <3>1. next \in Items /\ next >= next
      BY <2>1, ItemsFinite DEF AtItem, Items
    <3> QED
      BY <2>1, <3>1 DEF Unsubmitted
  <2>3. \A i \in Items : \/ iter'[i] = iter[i]
                         \/ {iter[i], iter'[i]} \subseteq {"absent", "queued", "run"}
    BY <2>1, <2>2 DEF TypeOK
  <2>4. ItemStates' = ItemStates
    BY <2>1, <2>3, SameItems DEF config
  <2> QED
    BY <2>1, <2>4, EndStep
<1>4. CASE CollectNext \/ CollectFailed \/ CollectFailure
  <2>1. /\ main = "collect" /\ parallel /\ result = "running"
        /\ UNCHANGED <<config, iter, outputs, broken>>
    BY <1>4 DEF CollectNext, CollectFailed, CollectFailure, Collect, Ongoing, ModesApart,
                threadVars
  <2>2. ItemStates' = ItemStates
    BY <2>1, SameItems DEF config
  <2>3. overtook' \in {overtook, parallel /\ Loop!Broken}
    <3>1. CASE overtook' = overtook
      BY <3>1
    <3>2. CASE overtook' # overtook
      <4>1. CollectFailed
        BY <1>4, <3>2 DEF CollectNext, CollectFailure
      <4>2. overtook' = TRUE /\ broken # {}
        BY <3>2, <4>1 DEF CollectFailed, TypeOK
      <4>3. Loop!Broken = TRUE
        BY <4>2, BrokenItems DEF Loop!Broken
      <4> QED
        BY <2>1, <4>2, <4>3
    <3> QED
      BY <3>1, <3>2
  <2>4. result' \in {result, "abandoned"} \/ (result' = "failed" /\ Loop!Broken)
    <3>1. CASE CollectNext \/ CollectFailed
      BY <3>1 DEF CollectNext, CollectFailed, Yield, Close
    <3>2. CASE CollectFailure
      <4>1. q # <<>> /\ Head(q) \in Fatal /\ q \in Seq(Events)
        BY <3>2 DEF CollectFailure, Collect, Fatal, TypeOK
      <4>2. 1 \in 1..Len(q) /\ q[1] \in Fatal
        BY <4>1
      <4>3. broken # {}
        BY <4>2 DEF Blamed
      <4> QED
        BY <3>2, <4>3, BrokenItems DEF CollectFailure, Close
    <3> QED
      BY <1>4, <3>1, <3>2
  <2> QED
    BY <2>1, <2>2, <2>3, <2>4, EndStep
<1>5. CASE CollectNone \/ Wait
  <2>1. UNCHANGED <<config, next, iter, outputs, broken, overtook, result>>
    BY <1>5 DEF CollectNone, Wait, seqVars, threadVars
  <2>2. ItemStates' = ItemStates
    BY <2>1, SameItems DEF config
  <2> QED
    BY <2>1, <2>2 DEF Loop!vars, ItemStates, config
<1> QED
  BY <1>1, <1>2, <1>3, <1>4, <1>5 DEF Run

\* The threads, the pool and the queue of an iteration node implement one
\* iteration over the list with one result (IterationNode._run, 129-251,
\* _run_single_iter and _run_single_iter_parallel).
THEOREM Refinement == Spec => ImplementsItemsRun
<1>1. Init => Loop!Init
  <2> SUFFICES ASSUME Init PROVE Loop!Init
    OBVIOUS
  <2>1. \A i \in Items : ItemState(i) = "todo"
    <3>1. broken = {} /\ next = 1 /\ \A i \in Items : iter[i] = "absent" /\ ~(i < 1)
      BY ItemsFinite DEF Init, Items
    <3> QED
      BY <3>1 DEF ItemState
  <2> QED
    BY <2>1 DEF Init, Modes, Items, None, Loop!Init, Loop!Items, Loop!None
<1>2. IInv /\ RInv /\ [Next]_vars => [Loop!Next]_(Loop!vars)
  <2> SUFFICES ASSUME IInv, RInv, [Next]_vars PROVE Loop!Next \/ UNCHANGED Loop!vars
    BY DEF Loop!Next
  <2>1. CASE UNCHANGED vars
    <3>1. UNCHANGED <<parallel, mode, next, iter, outputs, broken, overtook, result>>
      BY <2>1 DEF vars
    <3>2. ItemStates' = ItemStates
      BY <3>1, SameItems
    <3> QED
      BY <3>1, <3>2 DEF Loop!vars, ItemStates
  <2>2. CASE Run
    BY <2>2, RunRefines DEF Loop!Next
  <2>3. ASSUME NEW i \in Items, Iterate(i) PROVE Loop!Next \/ UNCHANGED Loop!vars
    BY <2>3, IterateRefines DEF Loop!Next
  <2>4. ASSUME NEW i \in Items, StrayWrites(i) PROVE UNCHANGED Loop!vars
    <3>1. UNCHANGED <<parallel, mode, next, iter, outputs, broken, overtook, result>>
      BY <2>4 DEF StrayWrites, Single, config, threadVars
    <3>2. ItemStates' = ItemStates
      BY <3>1, SameItems
    <3> QED
      BY <3>1, <3>2 DEF Loop!vars, ItemStates
  <2> QED
    BY <2>1, <2>2, <2>3, <2>4 DEF Next
<1> QED
  BY <1>1, <1>2, Invariant, RefineInvariant, PTL DEF Spec, ImplementsItemsRun, Loop!Spec
=============================================================================
