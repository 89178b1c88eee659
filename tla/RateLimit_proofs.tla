-------------------------- MODULE RateLimit_proofs --------------------------
(***************************************************************************)
(* What RateLimit guarantees for every number of requests, processes and    *)
(* updates, and for every value of the two times.                          *)
(***************************************************************************)
EXTENDS RateLimit, TLAPS

\* Every variable keeps its type; in particular no process ever takes the
\* absent Redis key for a limit.
THEOREM TypeCorrect == Spec => []TypeOK
<1>1. Init => TypeOK
  BY RateLimitAssumption
  DEF Init, TypeOK, RequestPC, UpdaterPC, Threads, Stamp
<1>2. TypeOK /\ [Next]_vars => TypeOK'
  <2> SUFFICES ASSUME TypeOK, [Next]_vars PROVE TypeOK'
    OBVIOUS
  <2> USE RateLimitAssumption DEF TypeOK, Threads, Stamp, RequestPC, UpdaterPC,
          Flushing, redisVars, objVars, flushVars, threadVars
  <2>1. ASSUME NEW r \in Requests, Begin(r) PROVE TypeOK'
    BY <2>1 DEF Begin, Goto, Effective
  <2>2. ASSUME NEW r \in Requests, Enter(r) PROVE TypeOK'
    <3>1. CASE CallFlush(r, FALSE, "check")
      BY <2>2, <3>1 DEF Enter, CallFlush, Goto
    <3>2. CASE Goto(r, "check") /\ UNCHANGED <<lastFlush, flushVars>>
      BY <2>2, <3>2 DEF Enter, Goto
    <3>3. QED
      BY <2>2, <3>1, <3>2 DEF Enter
  <2>3. ASSUME NEW r \in Requests, Check(r) PROVE TypeOK'
    BY <2>3 DEF Check, Goto
  <2>4. ASSUME NEW r \in Requests, Admit(r) PROVE TypeOK'
    BY <2>4 DEF Admit, Goto
  <2>5. ASSUME NEW r \in Requests, Generate(r) PROVE TypeOK'
    BY <2>5 DEF Generate, Goto
  <2>6. ASSUME NEW r \in Requests, Close(r) PROVE TypeOK'
    BY <2>6 DEF Close, Goto
  <2>7. ASSUME NEW r \in Requests, Exit(r) PROVE TypeOK'
    BY <2>7 DEF Exit, Goto, Hdel
  <2>8. ASSUME NEW u \in Updaters, Update(u) PROVE TypeOK'
    BY <2>8 DEF Update, Goto, Effective
  <2>9. ASSUME NEW u \in Updaters, Refresh(u) PROVE TypeOK'
    BY <2>9 DEF Refresh, CallFlush, Goto
  <2>10. ASSUME NEW t \in Threads, Construct(t) PROVE TypeOK'
    <3> DEFINE next == IF t \in Requests THEN "enter" ELSE "refresh"
    <3>1. CASE CallFlush(t, TRUE, next)
      BY <2>10, <3>1 DEF Construct, CallFlush, Goto
    <3>2. CASE Goto(t, next) /\ UNCHANGED <<lastFlush, flushVars>>
      BY <2>10, <3>2 DEF Construct, Goto
    <3>3. QED
      BY <2>10, <3>1, <3>2 DEF Construct
  <2>11. ASSUME NEW t \in Threads, FlushLimit(t) PROVE TypeOK'
    BY <2>11 DEF FlushLimit, Goto
  <2>18. ASSUME NEW t \in Threads, FlushGet(t) PROVE TypeOK'
    <3>1. t \in Requests
      BY <2>18 DEF FlushGet
    <3>2. CASE redisLimit # Unset
      BY <2>18, <3>1, <3>2 DEF FlushGet, Goto
    <3>3. CASE redisLimit = Unset
      BY <2>18, <3>1, <3>3 DEF FlushGet, Goto, ForgetFlush
    <3>4. QED
      BY <3>2, <3>3
  <2>12. ASSUME NEW t \in Threads, FlushRead(t) PROVE TypeOK'
    BY <2>12 DEF FlushRead, TimedOut, Goto, Counted
  <2>13. ASSUME NEW t \in Threads, FlushDel(t) PROVE TypeOK'
    BY <2>13 DEF FlushDel, Goto, Hdel, ForgetFlush
  <2>14. ASSUME NEW w \in Workers, Crash(w) PROVE TypeOK'
    BY <2>14 DEF Crash, ForgetFlush, Killed
  <2>15. CASE Tick
    BY <2>15 DEF Tick
  <2>16. CASE UNCHANGED vars
    BY <2>16 DEF vars
  <2>17. QED
    BY <2>1, <2>2, <2>3, <2>4, <2>5, <2>6, <2>7, <2>8, <2>9, <2>10, <2>11,
       <2>12, <2>13, <2>14, <2>15, <2>16, <2>18
    DEF Next, RequestStep, UpdaterStep, ThreadStep
<1>3. QED
  BY <1>1, <1>2, PTL DEF Spec

\* A thread that begins a recalculation becomes the witness of PurgedOrFlushing
\* for its process and disturbs no other.
LEMMA CallFlushKeeps ==
  ASSUME TypeOK, FlushInv,
         NEW t \in Threads, NEW useLocal, NEW next,
         pc[t] \notin Flushing, CallFlush(t, useLocal, next),
         UNCHANGED <<now, active, worker>>
  PROVE  FlushInv'
<1> USE RateLimitAssumption
<1>1. StampsArePast'
  BY DEF TypeOK, FlushInv, StampsArePast, CallFlush, Stamp
<1>2. StaleIsComplete'
  BY DEF TypeOK, FlushInv, StaleIsComplete, CallFlush, Goto, Fresh
<1>3. PurgedOrFlushing'
  <2> SUFFICES ASSUME NEW w \in Workers, lastFlush'[w] # Unset, w \notin broken',
                      ~ \A k \in Requests : Fresh(k, lastFlush[w])'
               PROVE  \E s \in FlushesIn(w)' : mark'[s] = lastFlush'[w]
    BY DEF PurgedOrFlushing
  <2>1. CASE w = worker[t]
    <3>1. t \in FlushesIn(w)'
      BY <2>1 DEF TypeOK, CallFlush, Goto, FlushesIn, Flushing
    <3>2. mark'[t] = lastFlush'[w]
      BY <2>1 DEF TypeOK, CallFlush
    <3>3. QED
      BY <3>1, <3>2
  <2>2. CASE w # worker[t]
    <3>1. lastFlush'[w] = lastFlush[w]
      BY <2>2 DEF TypeOK, CallFlush
    <3>2. PICK s \in FlushesIn(w) : mark[s] = lastFlush[w]
      BY <2>2, <3>1 DEF FlushInv, PurgedOrFlushing, Fresh, CallFlush
    <3>3. s # t /\ s \in FlushesIn(w)' /\ mark'[s] = mark[s]
      BY <2>2, <3>2 DEF TypeOK, CallFlush, Goto, FlushesIn
    <3>4. QED
      BY <3>1, <3>2, <3>3
  <2>3. QED
    BY <2>1, <2>2
<1>4. QED
  BY <1>1, <1>2, <1>3 DEF FlushInv

\* A step that records no time and ends no recalculation keeps what the threads
\* at work have established, as long as the table only loses entries or gains
\* entries stamped with the present time.
LEMMA OtherStepsKeep ==
  ASSUME TypeOK, FlushInv,
         now' \in Stamp, now <= now',
         UNCHANGED <<lastFlush, mark, broken, stale, worker>>,
         \A k \in Requests : active'[k] \in {active[k], Unset, now},
         \A t \in Threads : pc[t] \in Flushing => pc'[t] \in Flushing,
         \A t \in Threads : pc'[t] = "flushDel" => pc[t] = "flushDel"
  PROVE  FlushInv'
<1> USE RateLimitAssumption DEF Fresh, Stamp
<1>1. StampsArePast'
  BY DEF TypeOK, FlushInv, StampsArePast
<1>2. StaleIsComplete'
  BY DEF TypeOK, FlushInv, StampsArePast, StaleIsComplete
<1>3. PurgedOrFlushing'
  <2> SUFFICES ASSUME NEW w \in Workers, lastFlush[w] # Unset, w \notin broken,
                      ~ \A k \in Requests : Fresh(k, lastFlush[w])'
               PROVE  \E s \in FlushesIn(w)' : mark[s] = lastFlush[w]
    BY DEF PurgedOrFlushing
  <2>1. PICK k \in Requests : active'[k] # Unset /\ ~(active'[k] >= lastFlush[w] - Alive)
    OBVIOUS
  <2>2. active'[k] = active[k]
    BY <2>1 DEF TypeOK, FlushInv, StampsArePast
  <2>3. PICK s \in FlushesIn(w) : mark[s] = lastFlush[w]
    BY <2>1, <2>2 DEF FlushInv, PurgedOrFlushing
  <2>4. s \in FlushesIn(w)'
    BY <2>3 DEF FlushesIn
  <2>5. QED
    BY <2>3, <2>4
<1>4. QED
  BY <1>1, <1>2, <1>3 DEF FlushInv

\* Reading the limit: only the key's expiry takes the witness of a process.
LEMMA FlushGetKeeps ==
  ASSUME TypeOK, FlushInv, NEW t \in Threads, FlushGet(t)
  PROVE  FlushInv'
<1> USE RateLimitAssumption DEF flushVars
<1>t. now \in Stamp /\ now <= now
  BY DEF TypeOK, Stamp
<1>1. CASE redisLimit # Unset
  BY <1>t, <1>1, OtherStepsKeep DEF TypeOK, FlushGet, Goto, Flushing
<1>2. CASE redisLimit = Unset
  <2>1. StampsArePast'
    BY <1>2 DEF TypeOK, FlushInv, StampsArePast, FlushGet, ForgetFlush, Stamp
  <2>2. StaleIsComplete'
    BY <1>2 DEF TypeOK, FlushInv, StaleIsComplete, FlushGet, ForgetFlush, Goto, Fresh
  <2>3. PurgedOrFlushing'
    <3> SUFFICES ASSUME NEW w \in Workers, lastFlush[w] # Unset, w \notin broken, w # worker[t],
                        ~ \A k \in Requests : Fresh(k, lastFlush[w])
                 PROVE  \E s \in FlushesIn(w)' : mark'[s] = lastFlush[w]
      BY <1>2 DEF PurgedOrFlushing, FlushGet, Fresh
    <3>1. PICK s \in FlushesIn(w) : mark[s] = lastFlush[w]
      BY DEF FlushInv, PurgedOrFlushing
    <3>2. s # t /\ s \in FlushesIn(w)' /\ mark'[s] = mark[s]
      BY <1>2, <3>1 DEF TypeOK, FlushesIn, FlushGet, ForgetFlush, Goto
    <3>3. QED
      BY <3>1, <3>2
  <2>4. QED
    BY <2>1, <2>2, <2>3 DEF FlushInv
<1>3. QED
  BY <1>1, <1>2

\* Reading the table: what is not picked as timed out is fresh with respect to
\* the present, hence to the time the thread recorded earlier.
LEMMA FlushReadKeeps ==
  ASSUME TypeOK, FlushInv, NEW t \in Threads, FlushRead(t)
  PROVE  FlushInv'
<1> USE RateLimitAssumption DEF Fresh, Stamp, redisVars, objVars, flushVars
<1>1. StampsArePast'
  BY DEF TypeOK, FlushInv, StampsArePast, FlushRead
<1>2. StaleIsComplete'
  <2> SUFFICES ASSUME NEW s \in Threads, pc'[s] = "flushDel",
                      NEW k \in Requests \ stale'[s], active[k] # Unset
               PROVE  active[k] >= mark[s] - Alive
    BY DEF StaleIsComplete, FlushRead
  <2>1. CASE s = t
    <3>1. k \in Counted /\ k \notin stale'[t]
      BY <2>1 DEF Counted
    <3>2. ~(now - active[k] > Alive)
      BY <3>1 DEF TypeOK, FlushRead, TimedOut
    <3>3. mark[t] <= now
      BY DEF FlushInv, StampsArePast
    <3>4. now \in Int /\ mark[t] \in Int /\ active[k] \in Int /\ Alive \in Int
      BY DEF TypeOK
    <3>5. QED
      BY <2>1, <3>2, <3>3, <3>4
  <2>2. CASE s # t
    BY <2>2 DEF TypeOK, FlushInv, StaleIsComplete, FlushRead, Goto
  <2>3. QED
    BY <2>1, <2>2
<1>3. PurgedOrFlushing'
  BY DEF TypeOK, FlushInv, PurgedOrFlushing, FlushRead, Goto, FlushesIn, Flushing
<1>4. QED
  BY <1>1, <1>2, <1>3 DEF FlushInv

\* Removing what was picked: if the thread recorded its process's last time,
\* the whole table is fresh from then on; otherwise the witness is another.
LEMMA FlushDelKeeps ==
  ASSUME TypeOK, FlushInv, NEW t \in Threads, FlushDel(t)
  PROVE  FlushInv'
<1> USE RateLimitAssumption DEF Fresh, Stamp, redisVars, objVars, flushVars
<1>1. StampsArePast'
  BY DEF TypeOK, FlushInv, StampsArePast, FlushDel, ForgetFlush
<1>2. StaleIsComplete'
  BY DEF TypeOK, FlushInv, StaleIsComplete, FlushDel, ForgetFlush, Hdel, Goto
<1>3. PurgedOrFlushing'
  <2> SUFFICES ASSUME NEW w \in Workers, lastFlush[w] # Unset, w \notin broken,
                      ~ \A k \in Requests : Fresh(k, lastFlush[w])'
               PROVE  \E s \in FlushesIn(w)' : mark'[s] = lastFlush[w]
    BY DEF PurgedOrFlushing, FlushDel
  <2>1. PICK k \in Requests : active'[k] # Unset /\ ~(active'[k] >= lastFlush[w] - Alive)
    BY DEF FlushDel
  <2>2. active'[k] = active[k] /\ k \notin stale[t]
    BY <2>1 DEF TypeOK, FlushDel, Hdel
  <2>3. PICK s \in FlushesIn(w) : mark[s] = lastFlush[w]
    BY <2>1, <2>2 DEF FlushInv, PurgedOrFlushing
  <2>4. s # t
    BY <2>1, <2>2, <2>3 DEF FlushInv, StaleIsComplete, FlushDel
  <2>5. s \in FlushesIn(w)' /\ mark'[s] = mark[s]
    BY <2>3, <2>4 DEF TypeOK, FlushesIn, FlushDel, ForgetFlush, Goto
  <2>6. QED
    BY <2>3, <2>5
<1>4. QED
  BY <1>1, <1>2, <1>3 DEF FlushInv

\* A crash takes the witnesses of one process only, together with its object.
LEMMA CrashKeeps ==
  ASSUME TypeOK, FlushInv, NEW w \in Workers, Crash(w)
  PROVE  FlushInv'
<1> USE RateLimitAssumption DEF Fresh, Stamp, redisVars, objVars, flushVars
<1>1. StampsArePast'
  BY DEF TypeOK, FlushInv, StampsArePast, Crash, ForgetFlush
<1>2. StaleIsComplete'
  BY DEF TypeOK, FlushInv, StaleIsComplete, Crash, ForgetFlush, Killed
<1>3. PurgedOrFlushing'
  BY DEF TypeOK, FlushInv, PurgedOrFlushing, Crash, ForgetFlush, Killed, FlushesIn
<1>4. QED
  BY <1>1, <1>2, <1>3 DEF FlushInv

\* Between the recalculations of a process, no request older than
\* _REQUEST_MAX_ALIVE_TIME at the last one occupies a slot.
THEOREM DeadRequestsExpireAlways == Spec => []DeadRequestsExpire
<1>1. Init => FlushInv
  BY DEF Init, FlushInv, StampsArePast, StaleIsComplete, PurgedOrFlushing
<1>2. TypeOK /\ TypeOK' /\ FlushInv /\ [Next]_vars => FlushInv'
  <2> SUFFICES ASSUME TypeOK, TypeOK', FlushInv, [Next]_vars PROVE FlushInv'
    OBVIOUS
  <2> USE RateLimitAssumption
          DEF redisVars, objVars, flushVars, threadVars, Flushing
  <2>t. now \in Stamp /\ now' \in Stamp /\ now <= now
    BY DEF TypeOK, Stamp
  <2>1. ASSUME NEW r \in Requests, Begin(r) PROVE FlushInv'
    BY <2>1, <2>t, OtherStepsKeep DEF TypeOK, Begin, Goto
  <2>2. ASSUME NEW r \in Requests, Enter(r) PROVE FlushInv'
    <3>1. CASE CallFlush(r, FALSE, "check")
      BY <2>2, <3>1, CallFlushKeeps DEF Enter, Threads
    <3>2. CASE Goto(r, "check") /\ UNCHANGED <<lastFlush, flushVars>>
      BY <2>2, <2>t, <3>2, OtherStepsKeep DEF TypeOK, Enter, Goto
    <3>3. QED
      BY <2>2, <3>1, <3>2 DEF Enter
  <2>3. ASSUME NEW r \in Requests, Check(r) PROVE FlushInv'
    BY <2>3, <2>t, OtherStepsKeep DEF TypeOK, Check, Goto
  <2>4. ASSUME NEW r \in Requests, Admit(r) PROVE FlushInv'
    BY <2>4, <2>t, OtherStepsKeep DEF TypeOK, Admit, Goto
  <2>5. ASSUME NEW r \in Requests, Generate(r) PROVE FlushInv'
    BY <2>5, <2>t, OtherStepsKeep DEF TypeOK, Generate, Goto
  <2>6. ASSUME NEW r \in Requests, Close(r) PROVE FlushInv'
    BY <2>6, <2>t, OtherStepsKeep DEF TypeOK, Close, Goto
  <2>7. ASSUME NEW r \in Requests, Exit(r) PROVE FlushInv'
    BY <2>7, <2>t, OtherStepsKeep DEF TypeOK, Exit, Goto, Hdel
  <2>8. ASSUME NEW u \in Updaters, Update(u) PROVE FlushInv'
    BY <2>8, <2>t, OtherStepsKeep DEF TypeOK, Update, Goto
  <2>9. ASSUME NEW u \in Updaters, Refresh(u) PROVE FlushInv'
    BY <2>9, CallFlushKeeps DEF Refresh, Threads
  <2>10. ASSUME NEW t \in Threads, Construct(t) PROVE FlushInv'
    <3> DEFINE next == IF t \in Requests THEN "enter" ELSE "refresh"
    <3>0. pc[t] = "construct" /\ UNCHANGED <<now, active, worker>> /\ next \in {"enter", "refresh"}
      BY <2>10 DEF Construct
    <3>1. CASE CallFlush(t, TRUE, next)
      BY <3>0, <3>1, CallFlushKeeps
    <3>2. CASE Goto(t, next) /\ UNCHANGED <<lastFlush, flushVars>>
      BY <2>t, <3>0, <3>2, OtherStepsKeep DEF TypeOK, Goto
    <3>3. QED
      BY <2>10, <3>1, <3>2 DEF Construct
  <2>11. ASSUME NEW t \in Threads, FlushLimit(t) PROVE FlushInv'
    BY <2>11, <2>t, OtherStepsKeep DEF TypeOK, FlushLimit, Goto
  <2>18. ASSUME NEW t \in Threads, FlushGet(t) PROVE FlushInv'
    BY <2>18, FlushGetKeeps
  <2>12. ASSUME NEW t \in Threads, FlushRead(t) PROVE FlushInv'
    BY <2>12, FlushReadKeeps
  <2>13. ASSUME NEW t \in Threads, FlushDel(t) PROVE FlushInv'
    BY <2>13, FlushDelKeeps
  <2>14. ASSUME NEW w \in Workers, Crash(w) PROVE FlushInv'
    BY <2>14, CrashKeeps
  <2>15. CASE Tick
    <3>1. now <= now'
      BY <2>15, <2>t DEF Tick, Stamp
    <3>2. QED
      BY <2>15, <2>t, <3>1, OtherStepsKeep DEF TypeOK, Tick
  <2>16. CASE UNCHANGED vars
    BY <2>16, <2>t, OtherStepsKeep DEF vars
  <2>17. QED
    BY <2>1, <2>2, <2>3, <2>4, <2>5, <2>6, <2>7, <2>8, <2>9, <2>10, <2>11,
       <2>12, <2>13, <2>14, <2>15, <2>16, <2>18
    DEF Next, RequestStep, UpdaterStep, ThreadStep
<1>3. FlushInv => DeadRequestsExpire
  BY DEF FlushInv, PurgedOrFlushing, DeadRequestsExpire
<1>4. QED
  BY <1>1, <1>2, <1>3, TypeCorrect, PTL DEF Spec

\* Each step keeps the two facts about slots.
LEMMA SlotInvKeeps == TypeOK /\ SlotInv /\ [Next]_vars => SlotInv'
<1> SUFFICES ASSUME TypeOK, SlotInv, [Next]_vars PROVE SlotInv'
  OBVIOUS
<1> USE RateLimitAssumption
        DEF redisVars, objVars, flushVars, threadVars, Flushing, SlotInv, SlotsAreOwned,
            UnlimitedHasNoSlot, Counted, Goto, TypeOK, Threads
<1>1. ASSUME NEW r \in Requests, RequestStep(r) PROVE SlotInv'
  <2>1. CASE Begin(r)
    BY <2>1 DEF Begin
  <2>2. CASE Enter(r)
    BY <2>2 DEF Enter, CallFlush
  <2>3. CASE Check(r)
    BY <2>3 DEF Check
  <2>4. CASE Admit(r)
    BY <2>4 DEF Admit
  <2>5. CASE Generate(r)
    BY <2>5 DEF Generate
  <2>6. CASE Close(r)
    BY <2>6 DEF Close
  <2>7. CASE Exit(r)
    BY <2>7 DEF Exit, Hdel
  <2>8. QED
    BY <1>1, <2>1, <2>2, <2>3, <2>4, <2>5, <2>6, <2>7 DEF RequestStep
<1>2. ASSUME NEW u \in Updaters, UpdaterStep(u) PROVE SlotInv'
  BY <1>2 DEF UpdaterStep, Update, Refresh, CallFlush
<1>3. ASSUME NEW t \in Threads, ThreadStep(t) PROVE SlotInv'
  <2>1. CASE Construct(t)
    BY <2>1 DEF Construct, CallFlush
  <2>2. CASE FlushLimit(t)
    BY <2>2 DEF FlushLimit
  <2>3. CASE FlushGet(t)
    BY <2>3 DEF FlushGet
  <2>4. CASE FlushRead(t)
    BY <2>4 DEF FlushRead
  <2>5. CASE FlushDel(t)
    BY <2>5 DEF FlushDel, Hdel
  <2>6. QED
    BY <1>3, <2>1, <2>2, <2>3, <2>4, <2>5 DEF ThreadStep
<1>4. ASSUME NEW w \in Workers, Crash(w) PROVE SlotInv'
  BY <1>4 DEF Crash, Killed
<1>5. CASE Tick
  BY <1>5 DEF Tick
<1>6. CASE UNCHANGED vars
  BY <1>6 DEF vars
<1>7. QED
  BY <1>1, <1>2, <1>3, <1>4, <1>5, <1>6 DEF Next

\* SlotInv is an invariant of its own, for the proofs that need both parts of it.
LEMMA SlotInvAlways == Spec => []SlotInv
<1>1. Init => SlotInv
  BY DEF Init, SlotInv, SlotsAreOwned, UnlimitedHasNoSlot, Counted
<1>2. QED
  BY <1>1, SlotInvKeeps, TypeCorrect, PTL DEF Spec

\* Whatever fails, is refused or is closed, and whatever the other threads and
\* processes do, a request that ended has given its slot back.
THEOREM SlotsAreOwnedAlways == Spec => []SlotsAreOwned
BY SlotInvAlways, PTL DEF SlotInv

\* A flush picks what is too old, and never again is it let in: whoever is picked
\* has a slot, hence has been admitted already.
LEMMA StaleIsOverKeeps ==
  ASSUME TypeOK, SlotsAreOwned, StaleIsOver, [Next]_vars
  PROVE  StaleIsOver'
<1> USE RateLimitAssumption
        DEF redisVars, objVars, flushVars, threadVars, Goto, TypeOK, Stamp, Threads
<1>1. ASSUME NEW r \in Requests, RequestStep(r) PROVE StaleIsOver'
  <2>1. CASE Begin(r)
    BY <2>1 DEF Begin, StaleIsOver
  <2>2. CASE Enter(r)
    BY <2>2 DEF Enter, CallFlush, StaleIsOver
  <2>3. CASE Check(r)
    BY <2>3 DEF Check, StaleIsOver
  <2>4. CASE Admit(r)
    BY <2>4 DEF Admit, StaleIsOver
  <2>5. CASE Generate(r)
    BY <2>5 DEF Generate, StaleIsOver
  <2>6. CASE Close(r)
    BY <2>6 DEF Close, StaleIsOver
  <2>7. CASE Exit(r)
    BY <2>7 DEF Exit, Hdel, StaleIsOver
  <2>8. QED
    BY <1>1, <2>1, <2>2, <2>3, <2>4, <2>5, <2>6, <2>7 DEF RequestStep
<1>2. ASSUME NEW u \in Updaters, UpdaterStep(u) PROVE StaleIsOver'
  BY <1>2 DEF UpdaterStep, Update, Refresh, CallFlush, StaleIsOver
<1>3. ASSUME NEW t \in Threads, ThreadStep(t) PROVE StaleIsOver'
  <2>1. CASE Construct(t)
    BY <2>1 DEF Construct, CallFlush, StaleIsOver
  <2>2. CASE FlushLimit(t)
    BY <2>2 DEF FlushLimit, StaleIsOver
  <2>3. CASE FlushGet(t)
    BY <2>3 DEF FlushGet, ForgetFlush, Flushing, StaleIsOver
  <2>4. CASE FlushRead(t)
    BY <2>4 DEF FlushRead, TimedOut, Counted, SlotsAreOwned, StaleIsOver
  <2>5. CASE FlushDel(t)
    BY <2>5 DEF FlushDel, ForgetFlush, Hdel, StaleIsOver
  <2>6. QED
    BY <1>3, <2>1, <2>2, <2>3, <2>4, <2>5 DEF ThreadStep
<1>4. ASSUME NEW w \in Workers, Crash(w) PROVE StaleIsOver'
  BY <1>4 DEF Crash, ForgetFlush, Killed, StaleIsOver
<1>5. CASE Tick
  BY <1>5 DEF Tick, StaleIsOver
<1>6. CASE UNCHANGED vars
  BY <1>6 DEF vars, StaleIsOver
<1>7. QED
  BY <1>1, <1>2, <1>3, <1>4, <1>5, <1>6 DEF Next

\* The actions that touch the table are Admit, Exit, FlushDel and Tick; each
\* leaves every entry alone, removes what it may, or fills a place that was empty.
LEMMA TableSteps ==
  ASSUME TypeOK, SlotInv, StaleIsOver, [Next]_vars,
         NEW k \in Requests, active[k] # Unset, active'[k] # active[k]
  PROVE  /\ active'[k] = Unset
         /\ \/ pc[k] = "exit"
            \/ now - active[k] > Alive
            \/ activeTTL # Unset /\ now' >= activeTTL
<1> USE DEF redisVars, objVars, flushVars, threadVars
<1>1. ASSUME NEW r \in Requests, RequestStep(r)
      PROVE  Admit(r) \/ Exit(r)
  BY <1>1 DEF RequestStep, Begin, Enter, Check, Generate, Close, Admit, Exit
<1>2. ASSUME NEW u \in Updaters, UpdaterStep(u) PROVE FALSE
  BY <1>2 DEF UpdaterStep, Update, Refresh
<1>3. ASSUME NEW t \in Threads, ThreadStep(t) PROVE FlushDel(t)
  BY <1>3 DEF ThreadStep, Construct, FlushLimit, FlushGet, FlushRead
<1>4. ASSUME NEW w \in Workers, Crash(w) PROVE FALSE
  BY <1>4 DEF Crash
<1>5. ASSUME NEW r \in Requests, Admit(r) PROVE FALSE
  BY <1>5 DEF Admit, TypeOK, SlotInv, SlotsAreOwned, Counted
<1>6. ASSUME NEW r \in Requests, Exit(r)
      PROVE  active'[k] = Unset /\ pc[k] = "exit"
  BY <1>6 DEF Exit, Hdel, TypeOK
<1>7. ASSUME NEW t \in Threads, FlushDel(t)
      PROVE  active'[k] = Unset /\ now - active[k] > Alive
  BY <1>7 DEF FlushDel, Hdel, TypeOK, StaleIsOver
<1>8. CASE Tick
  BY <1>8 DEF Tick, TypeOK
<1>9. CASE UNCHANGED vars
  BY <1>9 DEF vars
<1>10. QED
  BY <1>1, <1>2, <1>3, <1>4, <1>5, <1>6, <1>7, <1>8, <1>9 DEF Next

\* No flush takes the slot of a request that is younger than
\* _REQUEST_MAX_ALIVE_TIME, however long ago it read the table.
THEOREM SlotsLastAlways == Spec => SlotsLast
<1>1. Init => StaleIsOver
  BY DEF Init, StaleIsOver
<1>2. TypeOK /\ SlotInv /\ StaleIsOver /\ [Next]_vars => StaleIsOver'
  BY StaleIsOverKeeps DEF SlotInv
<1>3. TypeOK /\ SlotInv /\ StaleIsOver /\ [Next]_vars
        => [\A k \in Requests : active[k] # Unset /\ active'[k] # active[k] =>
             /\ active'[k] = Unset
             /\ \/ pc[k] = "exit"
                \/ now - active[k] > Alive
                \/ activeTTL # Unset /\ now' >= activeTTL]_active
  BY TableSteps
<1>4. QED
  BY <1>1, <1>2, <1>3, TypeCorrect, SlotInvAlways, PTL DEF Spec, SlotsLast
=============================================================================
