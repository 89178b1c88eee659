--------------------------- MODULE LoadBalancing ---------------------------
(***************************************************************************)
(* Calls to a model whose provider has several credentials                  *)
(* (ModelInstance._round_robin_invoke): LBModelManager.fetch_next picks the  *)
(* next configuration by a counter in Redis that all callers share, skips   *)
(* those that are cooling down, and gives up when it has met as many        *)
(* cooling ones as there are configurations; a call that fails puts its     *)
(* configuration on cooldown and picks again.                               *)
(*                                                                         *)
(* Every Redis command is a step of its own.                                *)
(***************************************************************************)
EXTENDS Integers, Sequences

CONSTANTS
  Callers,  \* concurrent calls to the model, in any process
  N,        \* the number of load balancing configurations
  ResetAt   \* the counter starts again at 1 here (10000000 in the code)

ASSUME LoadBalancingAssumption ==
  N \in Nat \ {0} /\ ResetAt \in Nat /\ ResetAt > N

Configs == 0..(N - 1)

\* How far into the list the counter is when it starts again: 9999999 % N.
LastRound == (ResetAt - 1) % N

VARIABLES
  counter,   \* model_lb_index:...; 0 when the key does not exist
  volatile,  \* the key has a time to live
  cooling,   \* the configurations whose cooldown key exists
  pc,        \* what each caller is about to do
  current,   \* its current_index
  found,     \* its cooldown_load_balancing_configs
  lap,       \* history: the length of found when its fetch started the counter again
  disturbed  \* history: the counter expired, or someone else moved it, during its fetch

callerVars == <<pc, current, found, lap, disturbed>>
vars == <<counter, volatile, cooling, callerVars>>

InFetch == {"incr", "reset", "renew", "check"}
Pc      == InFetch \cup {"idle", "invoke", "cooldown", "none"}

Init ==
  /\ counter = 0 /\ volatile = FALSE /\ cooling = {}
  /\ pc = [c \in Callers |-> "idle"]
  /\ current = [c \in Callers |-> 1]
  /\ found = [c \in Callers |-> <<>>]
  /\ lap = [c \in Callers |-> 0]
  /\ disturbed = [c \in Callers |-> FALSE]

\* Mutant: the index is not brought back into the list.
PickBeyond(i) == i - 1

\* The configuration of index i; Python's list index -1 is the last one.
Pick(i) ==
  LET real == (IF i > N THEN i % N ELSE i) - 1
  IN  IF real < 0 THEN N + real ELSE real

Config(c) == Pick(current[c])

Go(c, from, to) == pc[c] = from /\ pc' = [pc EXCEPT ![c] = to]

\* Mutant: the list of a fetch is the one of the fetch before.
NewFetchKeeps(c) ==
  /\ UNCHANGED found
  /\ lap' = [lap EXCEPT ![c] = 0]
  /\ disturbed' = [disturbed EXCEPT ![c] = FALSE]

\* fetch_next begins or returns: its list is local.
NewFetch(c) ==
  /\ found' = [found EXCEPT ![c] = <<>>]
  /\ lap' = [lap EXCEPT ![c] = 0]
  /\ disturbed' = [disturbed EXCEPT ![c] = FALSE]

Invoke(c) ==
  /\ Go(c, "idle", "incr")
  /\ NewFetch(c)
  /\ UNCHANGED <<counter, volatile, cooling, current>>

\* Those of the others that are in a fetch see the counter move.
Disturb(others) ==
  disturbed' = [c \in Callers |-> disturbed[c] \/ (c \in others /\ pc[c] \in InFetch)]

\* INCR leaves the time to live as it is, and makes a key without one.
Incr(c) ==
  /\ Go(c, "incr", IF counter + 1 >= ResetAt THEN "reset" ELSE "renew")
  /\ counter' = counter + 1
  /\ current' = [current EXCEPT ![c] = IF counter + 1 >= ResetAt THEN 1 ELSE counter + 1]
  /\ Disturb(Callers \ {c})
  /\ UNCHANGED <<volatile, cooling, found, lap>>

\* SET takes the time to live away.
Reset(c) ==
  /\ Go(c, "reset", "renew")
  /\ counter' = 1 /\ volatile' = FALSE
  /\ lap' = [lap EXCEPT ![c] = Len(found[c])]
  /\ Disturb(Callers \ {c})
  /\ UNCHANGED <<cooling, current, found>>

\* EXPIRE does nothing to a key that has expired meanwhile.
Renew(c) ==
  /\ Go(c, "renew", "check")
  /\ volatile' = (counter # 0)
  /\ UNCHANGED <<counter, cooling, current, found, lap, disturbed>>

CheckReady(c) ==
  /\ Config(c) \notin cooling
  /\ Go(c, "check", "invoke")
  /\ NewFetch(c)
  /\ UNCHANGED <<counter, volatile, cooling, current>>

\* Mutant: the fetch gives up one configuration early.
CheckCoolingEarly(c) ==
  /\ Config(c) \in cooling
  /\ found' = [found EXCEPT ![c] = Append(@, Config(c))]
  /\ Go(c, "check", IF Len(found[c]) + 2 >= N THEN "none" ELSE "incr")
  /\ UNCHANGED <<counter, volatile, cooling, current, lap, disturbed>>

CheckCooling(c) ==
  /\ Config(c) \in cooling
  /\ found' = [found EXCEPT ![c] = Append(@, Config(c))]
  /\ Go(c, "check", IF Len(found[c]) + 1 >= N THEN "none" ELSE "incr")
  /\ UNCHANGED <<counter, volatile, cooling, current, lap, disturbed>>

\* The model answers, or raises an error that is not retried.
InvokeEnds(c) ==
  /\ Go(c, "invoke", "idle")
  /\ UNCHANGED <<counter, volatile, cooling, current, found, lap, disturbed>>

\* Rate limit, authorization or connection error.
InvokeFails(c) ==
  /\ Go(c, "invoke", "cooldown")
  /\ UNCHANGED <<counter, volatile, cooling, current, found, lap, disturbed>>

\* Mutant: the configuration that failed is not put on cooldown.
CooldownForgotten(c) ==
  /\ Go(c, "cooldown", "incr")
  /\ NewFetch(c)
  /\ UNCHANGED <<counter, volatile, cooling, current>>

Cooldown(c) ==
  /\ Go(c, "cooldown", "incr")
  /\ cooling' = cooling \cup {Config(c)}
  /\ NewFetch(c)
  /\ UNCHANGED <<counter, volatile, current>>

\* The last exception is raised, or that no credentials are initialized.
GiveUp(c) ==
  /\ Go(c, "none", "idle")
  /\ NewFetch(c)
  /\ UNCHANGED <<counter, volatile, cooling, current>>

\* Keys expire: a cooldown 60 or 10 seconds after the failure, the counter an
\* hour after the last EXPIRE, be it between the INCR and the EXPIRE of a fetch.
CooldownExpires(k) ==
  /\ k \in cooling
  /\ cooling' = cooling \ {k}
  /\ UNCHANGED <<counter, volatile, callerVars>>

CounterExpires ==
  /\ volatile
  /\ counter' = 0 /\ volatile' = FALSE
  /\ Disturb(Callers)
  /\ UNCHANGED <<cooling, pc, current, found, lap>>

Calls(c) ==
  \/ Incr(c) \/ Reset(c) \/ Renew(c) \/ CheckReady(c) \/ CheckCooling(c)
  \/ InvokeEnds(c) \/ InvokeFails(c) \/ Cooldown(c) \/ GiveUp(c)

Expire == CounterExpires \/ \E k \in Configs : CooldownExpires(k)

Next == Expire \/ \E c \in Callers : Invoke(c) \/ Calls(c)

Spec == Init /\ [][Next]_vars

\* A thread goes on with a call it has begun, and the model answers in the end.
FairSpec == Spec /\ \A c \in Callers : WF_vars(Calls(c))

-----------------------------------------------------------------------------

\* The keys and the callers' variables hold values of their types; an index
\* always designates a configuration, and a key that does not exist has no time
\* to live.
TypeOK ==
  /\ counter \in Nat /\ volatile \in BOOLEAN /\ cooling \subseteq Configs
  /\ volatile => counter # 0
  /\ pc \in [Callers -> Pc]
  /\ current \in [Callers -> 1..ResetAt]
  /\ found \in [Callers -> Seq(Configs)]
  /\ lap \in [Callers -> Nat]
  /\ disturbed \in [Callers -> BOOLEAN]

\* A fetch that nobody disturbs meets the same configuration twice in one case
\* only: it met it, started the counter again in the middle of the list, and
\* met it a second time (model_manager.py, 454-456).
NoConfigTwice ==
  \A c \in Callers : ~disturbed[c] =>
    \A i, j \in 1..Len(found[c]) :
      i < j /\ found[c][i] = found[c][j] => i <= lap[c] /\ lap[c] < j /\ LastRound # 0

\* "all configs are in cooldown" (model_manager.py, 471): a fetch that nobody
\* disturbs and that returns None has found each of them so.  One that started
\* the counter again may have passed over configurations at the end of the list,
\* from the place on where the counter left it, and over no other.  With others
\* moving the counter a fetch may meet one of them as often as there are
\* configurations, and give up without a look at the rest.
UndisturbedNoneMeansAllCooling ==
  \A c \in Callers : pc[c] = "none" /\ ~disturbed[c] =>
    \A k \in Configs :
      \/ \E i \in 1..Len(found[c]) : found[c][i] = k
      \/ lap[c] > 0 /\ LastRound # 0 /\ k >= LastRound

\* Unless cooldowns go on expiring while it retries, every call ends.
CallsEnd ==
  <>[][~\E k \in Configs : CooldownExpires(k)]_vars
    => \A c \in Callers : []<>(pc[c] = "idle")
=============================================================================
