----------------------------- MODULE RateLimit -----------------------------
(***************************************************************************)
(* The per-app limit on concurrent requests                                *)
(* (core/app/features/rate_limiting/rate_limit.py), as AppGenerateService   *)
(* and AppService use it.                                                  *)
(*                                                                         *)
(* Every API worker process keeps ONE RateLimit object per app, shared by   *)
(* its threads (__new__).  The limit and the table of active requests live  *)
(* in Redis and are shared by all processes.  Each Redis round trip is a    *)
(* step of its own where another thread, or the expiry of a key, can make a *)
(* difference: the check and the insertion of enter() are two steps, and    *)
(* flush_cache() is four.  Time is a bounded clock.                         *)
(***************************************************************************)
EXTENDS Integers, FiniteSets

CONSTANTS
  Requests,   \* identities of requests (uuid4: never reused)
  Updaters,   \* identities of "update the app" calls
  Workers,    \* API worker processes
  Limits,     \* values max_active_requests may take
  Default,    \* dify_config.APP_MAX_ACTIVE_REQUESTS
  Unset,      \* app.max_active_requests is NULL; also an absent Redis key
  Alive,      \* _REQUEST_MAX_ALIVE_TIME
  Interval,   \* _ACTIVE_REQUESTS_COUNT_FLUSH_INTERVAL
  Day,        \* the expiry set on both Redis keys
  MaxTime     \* bound on the clock (checking only)

ASSUME RateLimitAssumption ==
  /\ Requests \cap Updaters = {}
  /\ Limits \subseteq Int
  /\ Default \in Limits
  /\ Unset \notin Int
  /\ Alive \in Nat /\ Interval \in Nat /\ Day \in Nat /\ MaxTime \in Nat

Threads == Requests \cup Updaters

VARIABLES
  now,        \* time.time()
  dbLimit,    \* app.max_active_requests in the database
  redisLimit, \* the max_active_requests key
  limitTTL,   \* the time at which that key expires
  active,     \* the active_requests hash: request -> time stamp, Unset = no field
  activeTTL,  \* the time at which that key expires, Unset = never
  localLimit, \* worker -> RateLimit.max_active_requests
  lastFlush,  \* worker -> RateLimit.last_recalculate_time, Unset = no object yet
  pc,         \* thread -> the next step of the call it executes
  worker,     \* thread -> the worker process it runs in
  arg,        \* thread -> the limit it read from the database
  local,      \* thread -> the use_local_value argument of its flush_cache
  cont,       \* thread -> where it continues after flush_cache
  stale,      \* thread -> the timed-out requests its flush_cache has read
  broken,     \* history: the processes whose last recalculation raised
  mark,       \* thread -> history: the value it last wrote in lastFlush
  free        \* request -> TRUE if enter() returned _UNLIMITED_REQUEST_ID

redisVars  == <<redisLimit, limitTTL, active, activeTTL>>
objVars    == <<localLimit, lastFlush>>
flushVars  == <<local, cont, stale, mark, broken>>
threadVars == <<pc, worker, arg, free>>
vars == <<now, dbLimit, redisVars, objVars, flushVars, threadVars>>

Flushing == {"flushLimit", "flushGet", "flushRead", "flushDel"}

\* A request's life, and an updater's.
RequestPC == {"idle", "construct", "enter", "check", "admit", "generate",
              "streaming", "exit", "done", "leaked", "dead"} \cup Flushing
UpdaterPC == {"idle", "construct", "refresh", "done", "dead"} \cup (Flushing \ {"flushGet"})

\* Mutant: the database's NULL is passed on.
EffectiveNull(limit) == limit

Effective(limit) == IF limit = Unset THEN Default ELSE limit

Counted == {k \in Requests : active[k] # Unset}

(***************************************************************************)
(* Initial state: no object, no Redis key.                                 *)
(***************************************************************************)
Init ==
  /\ now = 0
  /\ dbLimit = Unset
  /\ redisLimit = Unset /\ limitTTL = 0
  /\ active = [k \in Requests |-> Unset] /\ activeTTL = Unset
  /\ localLimit = [w \in Workers |-> Default]
  /\ lastFlush = [w \in Workers |-> Unset]
  /\ pc = [t \in Threads |-> "idle"]
  /\ worker \in [Threads -> Workers]
  /\ arg = [t \in Threads |-> Default]
  /\ local = [t \in Threads |-> FALSE]
  /\ cont = [t \in Threads |-> "done"]
  /\ stale = [t \in Threads |-> {}]
  /\ mark = [t \in Threads |-> 0]
  /\ broken = {}
  /\ free = [k \in Requests |-> FALSE]

Goto(t, label) == pc' = [pc EXCEPT ![t] = label]

\* HDEL: a hash without fields is a key that does not exist, its expiry gone.
Hdel(S) ==
  /\ active' = [k \in Requests |-> IF k \in S THEN Unset ELSE active[k]]
  /\ activeTTL' = IF Counted \subseteq S THEN Unset ELSE activeTTL

\* The locals of a flush_cache call that is over.
ForgetFlush(S) ==
  /\ local' = [t \in Threads |-> t \notin S /\ local[t]]
  /\ cont' = [t \in Threads |-> IF t \in S THEN "done" ELSE cont[t]]
  /\ stale' = [t \in Threads |-> IF t \in S THEN {} ELSE stale[t]]
  /\ mark' = [t \in Threads |-> IF t \in S THEN 0 ELSE mark[t]]

(***************************************************************************)
(* flush_cache                                                             *)
(***************************************************************************)

\* The call and its first statement: last_recalculate_time = time.time().
CallFlush(t, useLocal, next) ==
  /\ lastFlush' = [lastFlush EXCEPT ![worker[t]] = now]
  /\ mark' = [mark EXCEPT ![t] = now]
  /\ broken' = broken \ {worker[t]}
  /\ local' = [local EXCEPT ![t] = useLocal]
  /\ cont' = [cont EXCEPT ![t] = next]
  /\ Goto(t, "flushLimit")
  /\ UNCHANGED stale

\* The limit is pushed to Redis, or it exists there.
FlushLimit(t) ==
  /\ pc[t] = "flushLimit"
  /\ IF local[t] \/ redisLimit = Unset
     THEN /\ redisLimit' = localLimit[worker[t]] /\ limitTTL' = now + Day
          /\ Goto(t, "flushRead")
     ELSE Goto(t, "flushGet") /\ UNCHANGED <<redisLimit, limitTTL>>
  /\ UNCHANGED <<now, dbLimit, active, activeTTL, objVars, flushVars, worker, arg, free>>

\* It is taken from there.  A key that expired since then raises ("None has no
\* decode"), and enter(), the only caller, with it: the call ends in exit().
FlushGet(t) ==
  /\ pc[t] = "flushGet"
  /\ \/ /\ redisLimit # Unset
        /\ localLimit' = [localLimit EXCEPT ![worker[t]] = redisLimit]
        /\ limitTTL' = now + Day
        /\ Goto(t, "flushRead")
        /\ UNCHANGED flushVars
     \/ /\ redisLimit = Unset
        /\ broken' = broken \cup {worker[t]}
        /\ Goto(t, "exit")
        /\ ForgetFlush({t})
        /\ UNCHANGED <<localLimit, limitTTL>>
  /\ UNCHANGED <<now, dbLimit, redisLimit, active, activeTTL, lastFlush, worker, arg, free>>

\* Mutant: a request is removed one unit too late.
TimedOutLate == {k \in Counted : now - active[k] > Alive + 1}

\* Mutant: a request may live one unit less.
TimedOutEarly == {k \in Counted : now - active[k] >= Alive}

TimedOut == {k \in Counted : now - active[k] > Alive}

\* The table of requests is read, and those that timed out are picked.
FlushRead(t) ==
  /\ pc[t] = "flushRead"
  /\ stale' = [stale EXCEPT ![t] = TimedOut]
  /\ activeTTL' = IF Counted = {} THEN activeTTL ELSE now + Day
  /\ Goto(t, "flushDel")
  /\ UNCHANGED <<now, dbLimit, redisLimit, limitTTL, active, objVars,
                 local, cont, mark, broken, worker, arg, free>>

\* They are removed.
FlushDel(t) ==
  /\ pc[t] = "flushDel"
  /\ Hdel(stale[t])
  /\ Goto(t, cont[t])
  /\ ForgetFlush({t})
  /\ UNCHANGED <<now, dbLimit, redisLimit, limitTTL, objVars, broken, worker, arg, free>>

(***************************************************************************)
(* AppGenerateService.generate                                             *)
(***************************************************************************)

\* _get_max_active_requests: the limit as the database has it now.
Begin(r) ==
  /\ pc[r] = "idle"
  /\ arg' = [arg EXCEPT ![r] = Effective(dbLimit)]
  /\ Goto(r, "construct")
  /\ UNCHANGED <<now, dbLimit, redisVars, objVars, flushVars, worker, free>>

\* RateLimit(app_id, limit): __init__ overwrites the limit of the process's
\* object every time, and flushes the local limit to Redis the first time.
Construct(t) ==
  LET next == IF t \in Requests THEN "enter" ELSE "refresh" IN
  /\ pc[t] = "construct"
  /\ localLimit' = [localLimit EXCEPT ![worker[t]] = arg[t]]
  /\ arg' = [arg EXCEPT ![t] = Default]
  /\ IF lastFlush[worker[t]] = Unset
     THEN CallFlush(t, TRUE, next)
     ELSE Goto(t, next) /\ UNCHANGED <<lastFlush, flushVars>>
  /\ UNCHANGED <<now, dbLimit, redisVars, worker, free>>

\* enter(): recalculate when the last recalculation is too old.
Enter(r) ==
  /\ pc[r] = "enter"
  /\ IF now - lastFlush[worker[r]] > Interval
     THEN CallFlush(r, FALSE, "check")
     ELSE Goto(r, "check") /\ UNCHANGED <<lastFlush, flushVars>>
  /\ UNCHANGED <<now, dbLimit, redisVars, localLimit, worker, arg, free>>

\* enter(): unlimited, or HLEN compared with the limit.  A refused request
\* leaves through the "except Exception" clause, which calls exit().
Check(r) ==
  LET limit == localLimit[worker[r]] IN
  /\ pc[r] = "check"
  /\ \/ /\ limit <= 0
        /\ free' = [free EXCEPT ![r] = TRUE]
        /\ Goto(r, "generate")
     \/ /\ limit > 0
        /\ Goto(r, IF Cardinality(Counted) >= limit THEN "exit" ELSE "admit")
        /\ UNCHANGED free
  /\ UNCHANGED <<now, dbLimit, redisVars, objVars, flushVars, worker, arg>>

\* enter(): HSET.  The hash has no expiry until a flush gives it one.
Admit(r) ==
  /\ pc[r] = "admit"
  /\ active' = [active EXCEPT ![r] = now]
  /\ Goto(r, "generate")
  /\ UNCHANGED <<now, dbLimit, redisLimit, limitTTL, activeTTL, objVars,
                 flushVars, worker, arg, free>>

\* The app generator returns a stream; a blocking call ends, well or badly,
\* in the "finally" clause; a streaming call that raises ends in "except
\* Exception", unless it raises RateLimitError, whose clause has no exit().
Generate(r) ==
  /\ pc[r] = "generate"
  /\ \E next \in {"streaming", "exit", "leaked"} : Goto(r, next)
  /\ UNCHANGED <<now, dbLimit, redisVars, objVars, flushVars, worker, arg, free>>

\* Mutant: a stream that is closed does not give its slot back.
CloseOnly(r) ==
  /\ pc[r] = "streaming"
  /\ Goto(r, "done")
  /\ UNCHANGED <<now, dbLimit, redisVars, objVars, flushVars, worker, arg, free>>

\* RateLimitGenerator: the stream is exhausted, fails or is closed.
Close(r) ==
  /\ pc[r] = "streaming"
  /\ Goto(r, "exit")
  /\ UNCHANGED <<now, dbLimit, redisVars, objVars, flushVars, worker, arg, free>>

\* exit(): HDEL, except for the unlimited id.
Exit(r) ==
  /\ pc[r] = "exit"
  /\ Hdel(IF free[r] THEN {} ELSE {r})
  /\ Goto(r, "done")
  /\ UNCHANGED <<now, dbLimit, redisLimit, limitTTL, objVars, flushVars, worker, arg, free>>

(***************************************************************************)
(* AppService.update_app                                                   *)
(***************************************************************************)

\* The commit; a NULL limit is not propagated.
Update(u) ==
  /\ pc[u] = "idle"
  /\ \E limit \in Limits \cup {Unset} :
       /\ dbLimit' = limit
       /\ arg' = [arg EXCEPT ![u] = Effective(limit)]
       /\ Goto(u, IF limit = Unset THEN "done" ELSE "construct")
  /\ UNCHANGED <<now, redisVars, objVars, flushVars, worker, free>>

\* rate_limit.flush_cache(use_local_value=True)
Refresh(u) ==
  /\ pc[u] = "refresh"
  /\ CallFlush(u, TRUE, "done")
  /\ UNCHANGED <<now, dbLimit, redisVars, localLimit, worker, arg, free>>

(***************************************************************************)
(* The environment                                                         *)
(***************************************************************************)

Killed(w) ==
  {t \in Threads : worker[t] = w /\ pc[t] \notin {"idle", "done", "leaked"}}

\* A worker process dies: its object and its calls are gone, Redis is not.
Crash(w) ==
  /\ lastFlush[w] # Unset
  /\ lastFlush' = [lastFlush EXCEPT ![w] = Unset]
  /\ localLimit' = [localLimit EXCEPT ![w] = Default]
  /\ pc' = [t \in Threads |-> IF t \in Killed(w) THEN "dead" ELSE pc[t]]
  /\ ForgetFlush(Killed(w))
  /\ UNCHANGED <<now, dbLimit, redisVars, broken, worker, arg, free>>

\* Time passes; Redis drops the keys that expire.
Tick ==
  /\ now < MaxTime
  /\ now' = now + 1
  /\ redisLimit' = IF now' >= limitTTL THEN Unset ELSE redisLimit
  /\ IF activeTTL # Unset /\ now' >= activeTTL
     THEN active' = [k \in Requests |-> Unset] /\ activeTTL' = Unset
     ELSE UNCHANGED <<active, activeTTL>>
  /\ UNCHANGED <<dbLimit, limitTTL, objVars, flushVars, threadVars>>

RequestStep(r) ==
  Begin(r) \/ Enter(r) \/ Check(r) \/ Admit(r) \/ Generate(r) \/ Close(r) \/ Exit(r)

UpdaterStep(u) == Update(u) \/ Refresh(u)

ThreadStep(t) == Construct(t) \/ FlushLimit(t) \/ FlushGet(t) \/ FlushRead(t) \/ FlushDel(t)

Next ==
  \/ \E r \in Requests : RequestStep(r)
  \/ \E u \in Updaters : UpdaterStep(u)
  \/ \E t \in Threads : ThreadStep(t)
  \/ \E w \in Workers : Crash(w)
  \/ Tick

Spec == Init /\ [][Next]_vars

(***************************************************************************)
(* Properties                                                              *)
(***************************************************************************)

Stamp == 0 .. MaxTime

\* The variables have their types; in particular the limit of a process is
\* always a number, never the database's NULL or an absent Redis key.
TypeOK ==
  /\ now \in Stamp
  /\ dbLimit \in Limits \cup {Unset}
  /\ redisLimit \in Limits \cup {Unset}
  /\ limitTTL \in 0 .. MaxTime + Day
  /\ active \in [Requests -> Stamp \cup {Unset}]
  /\ activeTTL \in (0 .. MaxTime + Day) \cup {Unset}
  /\ localLimit \in [Workers -> Limits]
  /\ lastFlush \in [Workers -> Stamp \cup {Unset}]
  /\ pc \in [Threads -> RequestPC \cup UpdaterPC]
  /\ \A r \in Requests : pc[r] \in RequestPC
  /\ \A u \in Updaters : pc[u] \in UpdaterPC
  /\ worker \in [Threads -> Workers]
  /\ arg \in [Threads -> Limits]
  /\ local \in [Threads -> BOOLEAN]
  /\ cont \in [Threads -> {"enter", "check", "refresh", "done"}]
  /\ \A r \in Requests : cont[r] # "refresh"
  /\ \A u \in Updaters : cont[u] \in {"refresh", "done"}
  /\ stale \in [Threads -> SUBSET Requests]
  /\ mark \in [Threads -> Stamp]
  /\ broken \in SUBSET Workers
  /\ \A u \in Updaters : pc[u] = "flushLimit" => local[u]
  /\ free \in [Requests -> BOOLEAN]

FlushesIn(w) == {t \in Threads : worker[t] = w /\ pc[t] \in Flushing}

Fresh(k, since) == active[k] # Unset => active[k] >= since - Alive

\* A process whose last recalculation is over, and did not raise, has
\* removed from the shared table every request that was older than
\* _REQUEST_MAX_ALIVE_TIME when it did so, whatever the other processes and
\* the threads of its own did between the steps of flush_cache.  Since enter()
\* recalculates after _ACTIVE_REQUESTS_COUNT_FLUSH_INTERVAL, a request whose
\* process died cannot hold its slot longer than the two times together.
DeadRequestsExpire ==
  \A w \in Workers :
    lastFlush[w] # Unset /\ w \notin broken /\ FlushesIn(w) = {} =>
      \A k \in Requests : Fresh(k, lastFlush[w])

\* A slot of the table belongs to a request still in generate() or in its
\* stream, or to one whose process died, or that failed with RateLimitError
\* (whose except clause has no exit()): a request that ended in any other way,
\* by an exception, a closed stream or a refusal, has given its slot back, and
\* no late step of another thread puts it back.
SlotsAreOwned ==
  \A k \in Counted : pc[k] \in {"generate", "streaming", "exit", "leaked", "dead"}

\* What makes it inductive: a request that enter() let in without a limit never
\* had a slot, so that exit() may do nothing for it.
UnlimitedHasNoSlot ==
  \A r \in Requests : free[r] =>
    /\ active[r] = Unset
    /\ pc[r] \in {"generate", "streaming", "exit", "done", "leaked", "dead"}

SlotInv == SlotsAreOwned /\ UnlimitedHasNoSlot

\* A request that has a slot keeps it, with the time it was let in, until it gives
\* the slot back or has had it longer than _REQUEST_MAX_ALIVE_TIME: no flush
\* of another thread, whose list of timed-out requests may be old by the time it
\* removes them, takes the slot of a live request.  Only the expiry of the
\* whole table can.
SlotsLast ==
  [][\A k \in Requests : active[k] # Unset /\ active'[k] # active[k] =>
       /\ active'[k] = Unset
       /\ \/ pc[k] = "exit"
          \/ now - active[k] > Alive
          \/ activeTTL # Unset /\ now' >= activeTTL]_active

\* What a flush is about to remove never gets a slot any more, and has had
\* the one it may still have too long.
StaleIsOver ==
  \A t \in Threads : \A k \in stale[t] :
    /\ pc[k] \in {"generate", "streaming", "exit", "done", "leaked", "dead"}
    /\ active[k] # Unset => now - active[k] > Alive

\* The three facts that make DeadRequestsExpire inductive.  A time stamp is
\* never in the future; what a thread is about to leave in the table is fresh
\* with respect to the time it recorded; and a process either has the thread
\* that recorded its last recalculation still at work, or a purged table, unless
\* that thread raised.
StampsArePast ==
  /\ \A t \in Threads : mark[t] <= now
  /\ \A w \in Workers : lastFlush[w] # Unset => lastFlush[w] <= now

StaleIsComplete ==
  \A t \in Threads : pc[t] = "flushDel" =>
    \A k \in Requests \ stale[t] : Fresh(k, mark[t])

PurgedOrFlushing ==
  \A w \in Workers : lastFlush[w] # Unset /\ w \notin broken =>
    \/ \E t \in FlushesIn(w) : mark[t] = lastFlush[w]
    \/ \A k \in Requests : Fresh(k, lastFlush[w])

FlushInv == StampsArePast /\ StaleIsComplete /\ PurgedOrFlushing

\* The requests that enter() let in under a limit and that are being served.
Served == {r \in Requests : pc[r] \in {"generate", "streaming"} /\ ~free[r]}

\* What the refusal says (rate_limit.py:76-77, "The current maximum concurrent
\* requests allowed is {}") and configs/feature/__init__.py documents: no more
\* requests of an app than its limit are served at a time.
LimitRespected ==
  \A w \in Workers :
    localLimit[w] > 0 => Cardinality(Served) <= localLimit[w]
=============================================================================
