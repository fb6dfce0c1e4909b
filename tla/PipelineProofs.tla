--------------------------- MODULE PipelineProofs ----------------------------
(***************************************************************************)
(* What the change pipeline guarantees for every set of keys and any       *)
(* number of events: the safety properties of Pipeline, from its inductive *)
(* invariant, and that it implements SerialWork.                           *)
(***************************************************************************)
EXTENDS Pipeline, TLAPS

USE MaxEventsAssumption, KeysAssumption

-----------------------------------------------------------------------------
\* The queue's operations, by themselves: they keep its types, its order free of
\* duplicates and one job under each key of the order.

\* A push keeps the queue's two structures in agreement: it coalesces or appends,
\* and a push to a closed queue changes nothing.
LEMMA PushKeeps ==
  ASSUME NEW k \in JobKeys, NEW j \in Payloads,
         QueueTypeOK, QueueWellFormed, Push(k, j)
  PROVE  QueueTypeOK' /\ QueueWellFormed'
<1>1. CASE closed
  BY <1>1 DEF Push, QueueTypeOK, QueueWellFormed
<1>2. CASE ~closed /\ jobs[k] = None
  <2>1. order' = Append(order, k) /\ jobs' = [jobs EXCEPT ![k] = j]
    BY <1>2 DEF Push
  <2>2. order' \in Seq(JobKeys) /\ jobs' \in [JobKeys -> Opt(Payloads)]
    BY <2>1 DEF QueueTypeOK, Opt
  <2>3. /\ Len(order') = Len(order) + 1
        /\ Len(order) \in Nat
        /\ order'[Len(order) + 1] = k
        /\ \A i \in 1..Len(order) : order'[i] = order[i]
    BY <2>1 DEF QueueTypeOK
  <2>4. \A i \in 1..Len(order) : order[i] # k
    BY <1>2 DEF QueueWellFormed, QueueTypeOK
  <2>5. j # None
    BY DEF Payloads, Events
  <2>6. \A i, m \in 1..Len(order') : order'[i] = order'[m] => i = m
    BY <2>3, <2>4 DEF QueueWellFormed
  <2>7. \A n \in JobKeys : jobs'[n] # None <=> \E i \in 1..Len(order') : order'[i] = n
    <3> SUFFICES ASSUME NEW n \in JobKeys
                 PROVE  jobs'[n] # None <=> \E i \in 1..Len(order') : order'[i] = n
      OBVIOUS
    <3>1. CASE n = k
      BY <3>1, <2>1, <2>3, <2>5 DEF QueueTypeOK
    <3>2. CASE n # k
      <4>1. jobs'[n] = jobs[n]
        BY <3>2, <2>1 DEF QueueTypeOK
      <4>2. (\E i \in 1..Len(order') : order'[i] = n)
              <=> (\E i \in 1..Len(order) : order[i] = n)
        BY <3>2, <2>3
      <4> QED
        BY <4>1, <4>2 DEF QueueWellFormed
    <3> QED
      BY <3>1, <3>2
  <2> QED
    BY <2>2, <2>6, <2>7 DEF Push, QueueTypeOK, QueueWellFormed
<1>3. CASE ~closed /\ jobs[k] # None
  <2>1. order' = order /\ jobs' = [jobs EXCEPT ![k] = j]
    BY <1>3 DEF Push
  <2>2. j # None
    BY DEF Payloads, Events
  <2>3. \A n \in JobKeys : jobs'[n] # None <=> jobs[n] # None
    BY <1>3, <2>1, <2>2 DEF QueueTypeOK
  <2> QED
    BY <2>1, <2>3 DEF Push, QueueTypeOK, QueueWellFormed, Opt
<1> QED
  BY <1>1, <1>2, <1>3

\* A pop takes the head's key from the order and its job from the map.
LEMMA PopKeeps ==
  ASSUME QueueTypeOK, QueueWellFormed, Pop
  PROVE  QueueTypeOK' /\ QueueWellFormed' /\ Head(order) \in JobKeys
<1>1. /\ order' \in Seq(JobKeys)
      /\ Head(order) \in JobKeys
      /\ Head(order) = order[1]
      /\ Len(order) \in Nat \ {0}
      /\ Len(order') = Len(order) - 1
      /\ \A i \in 1..Len(order') : order'[i] = order[i + 1]
  BY DEF Pop, QueueTypeOK
<1>2. jobs' = [jobs EXCEPT ![Head(order)] = None] /\ closed' = closed
  BY DEF Pop
<1>3. jobs' \in [JobKeys -> Opt(Payloads)]
  BY <1>2 DEF QueueTypeOK, Opt
<1>4. \A i, j \in 1..Len(order') : order'[i] = order'[j] => i = j
  BY <1>1 DEF QueueWellFormed
<1>5. \A k \in JobKeys : jobs'[k] # None <=> \E i \in 1..Len(order') : order'[i] = k
  <2> SUFFICES ASSUME NEW k \in JobKeys
               PROVE  jobs'[k] # None <=> \E i \in 1..Len(order') : order'[i] = k
    OBVIOUS
  <2>1. CASE k = Head(order)
    <3>1. jobs'[k] = None
      BY <2>1, <1>2 DEF QueueTypeOK
    <3>2. \A i \in 1..Len(order') : order'[i] # k
      BY <2>1, <1>1 DEF QueueWellFormed
    <3> QED
      BY <3>1, <3>2
  <2>2. CASE k # Head(order)
    <3>1. jobs'[k] = jobs[k]
      BY <2>2, <1>2 DEF QueueTypeOK
    <3>2. ASSUME NEW i \in 1..Len(order), order[i] = k
          PROVE  \E n \in 1..Len(order') : order'[n] = k
      <4>1. i - 1 \in 1..Len(order') /\ order'[i - 1] = order[i]
        BY <3>2, <2>2, <1>1
      <4> QED
        BY <3>2, <4>1
    <3>3. ASSUME NEW i \in 1..Len(order'), order'[i] = k
          PROVE  \E n \in 1..Len(order) : order[n] = k
      BY <3>3, <1>1
    <3> QED
      BY <3>1, <3>2, <3>3 DEF QueueWellFormed
  <2> QED
    BY <2>1, <2>2
<1> QED
  BY <1>1, <1>2, <1>3, <1>4, <1>5 DEF QueueTypeOK, QueueWellFormed

-----------------------------------------------------------------------------
\* The debouncer's operations, by themselves.

DebInv == DebTypeOK /\ Bookkeeping /\ PendingHasTimer /\ LatestWins

\* observe leaves the key with the event it was given and a timer armed for it.
LEMMA ObserveKeeps ==
  ASSUME NEW k \in Keys, DebInv, Observe(k)
  PROVE  DebInv'
<1> DEFINE e == seen + 1
<1>1. /\ e \in Events
      /\ keyOf' = [keyOf EXCEPT ![e] = k]
      /\ pending' = [pending EXCEPT ![k] = e]
      /\ timers' = [timers EXCEPT ![k] = e]
      /\ seen' = e
      /\ flight' = flight
  BY DEF Observe, DebInv, DebTypeOK, Events
<1>2. \A f \in Events :
        timer'[f] = IF f = e THEN "armed"
                    ELSE IF f = timers[k] /\ timer[f] = "armed" THEN "gone"
                    ELSE timer[f]
  BY <1>1 DEF Observe, StopTimers
<1>3. DebTypeOK'
  BY <1>1 DEF Observe, StopTimers, DebInv, DebTypeOK, Opt, Events, TimerState
<1>4. Bookkeeping'
  BY <1>1, <1>2 DEF DebInv, DebTypeOK, Bookkeeping, Opt, Events
<1>5. PendingHasTimer'
  <2> SUFFICES ASSUME NEW j \in Keys, pending'[j] # None
               PROVE  \E f \in Events : keyOf'[f] = j /\ timer'[f] \in {"armed", "expired"}
    BY DEF PendingHasTimer
  <2>1. CASE j = k
    BY <2>1, <1>1, <1>2 DEF DebInv, DebTypeOK
  <2>2. CASE j # k
    <3>1. pending[j] # None
      BY <2>2, <1>1 DEF DebInv, DebTypeOK
    <3>2. PICK f \in Events : keyOf[f] = j /\ timer[f] \in {"armed", "expired"}
      BY <3>1 DEF DebInv, PendingHasTimer
    <3>3. f # e /\ f # timers[k]
      BY <3>2, <2>2, <1>1 DEF DebInv, DebTypeOK, Bookkeeping, Events
    <3> QED
      BY <3>2, <3>3, <1>1, <1>2 DEF DebInv, DebTypeOK
  <2> QED
    BY <2>1, <2>2
<1>6. LatestWins'
  <2> SUFFICES ASSUME NEW j \in Keys, pending'[j] # None, NEW f \in Events, keyOf'[f] = j
               PROVE  f <= pending'[j]
    BY DEF LatestWins
  <2>1. CASE j = k
    <3>1. f <= seen \/ f = e
      BY <2>1, <1>1 DEF DebInv, DebTypeOK, Bookkeeping
    <3> QED
      BY <2>1, <3>1, <1>1 DEF DebInv, DebTypeOK, Events
  <2>2. CASE j # k
    BY <2>2, <1>1 DEF DebInv, DebTypeOK, LatestWins
  <2> QED
    BY <2>1, <2>2
<1> QED
  BY <1>3, <1>4, <1>5, <1>6 DEF DebInv

\* A timer whose window has elapsed still owes its key a fire.
LEMMA ExpireKeeps ==
  ASSUME NEW e \in Events, DebInv, Expire(e)
  PROVE  DebInv'
<1>1. \A f \in Events : timer'[f] = IF f = e THEN "expired" ELSE timer[f]
  BY DEF Expire, DebInv, DebTypeOK
<1>2. DebTypeOK'
  BY DEF Expire, DebInv, DebTypeOK, TimerState
<1>3. Bookkeeping' /\ LatestWins'
  BY <1>1 DEF Expire, DebInv, DebTypeOK, Bookkeeping, LatestWins
<1>4. PendingHasTimer'
  BY <1>1 DEF Expire, DebInv, PendingHasTimer
<1> QED
  BY <1>2, <1>3, <1>4 DEF DebInv

\* The locked part of fire takes the key's event away with the timer it removes,
\* so no event is left in the map without a timer.
LEMMA FireKeeps ==
  ASSUME NEW e \in Events, DebInv, Fire(e),
         stopped => \A k \in Keys : pending[k] = None
  PROVE  DebInv'
<1> DEFINE k == keyOf[e]
<1>1. k \in Keys
  BY DEF Fire, DebInv, DebTypeOK, Bookkeeping, Opt
<1>2. \A f \in Events : timer'[f] = IF f = e THEN "gone" ELSE timer[f]
  BY DEF Fire, DebInv, DebTypeOK
<1>3. seen' = seen /\ keyOf' = keyOf
  BY DEF Fire
<1>4. \A j \in Keys : pending'[j] = IF j = k THEN None ELSE pending[j]
  BY <1>1 DEF Fire, DebInv, DebTypeOK
<1>5. \A j \in Keys : timers'[j] \in {timers[j], None}
  BY <1>1 DEF Fire, DebInv, DebTypeOK
<1>6. \A f \in Events : flight'[f] # flight[f] => f = e
  BY <1>1 DEF Fire, DebInv, DebTypeOK
<1>7. DebTypeOK'
  BY <1>1 DEF Fire, DebInv, DebTypeOK, TimerState, Opt
<1>8. Bookkeeping'
  <2>1. timer[e] = "expired"
    BY DEF Fire
  <2>2. e <= seen
    BY <2>1 DEF DebInv, Bookkeeping
  <2> QED
    BY <1>2, <1>3, <1>4, <1>5, <1>6, <2>1, <2>2 DEF DebInv, Bookkeeping
<1>9. PendingHasTimer'
  <2> SUFFICES ASSUME NEW j \in Keys, pending'[j] # None
               PROVE  \E f \in Events : keyOf'[f] = j /\ timer'[f] \in {"armed", "expired"}
    BY DEF PendingHasTimer
  <2>1. j # k /\ pending[j] # None
    BY <1>4
  <2>2. PICK f \in Events : keyOf[f] = j /\ timer[f] \in {"armed", "expired"}
    BY <2>1 DEF DebInv, PendingHasTimer
  <2> QED
    BY <2>1, <2>2, <1>2, <1>3
<1>10. LatestWins'
  BY <1>3, <1>4 DEF DebInv, LatestWins
<1> QED
  BY <1>7, <1>8, <1>9, <1>10 DEF DebInv

\* The push of a timer's goroutine changes nothing in the debouncer's maps.
LEMMA LandKeeps ==
  ASSUME NEW e \in Events, DebInv, Land(e)
  PROVE  DebInv' /\ keyOf[e] \in Keys /\ flight[e] \in Events
<1>1. keyOf[e] \in Keys /\ flight[e] \in Events
  BY DEF Land, DebInv, DebTypeOK, Bookkeeping, Opt
<1>2. DebTypeOK' /\ Bookkeeping'
  BY DEF Land, DebInv, DebTypeOK, Bookkeeping, Opt
<1>3. PendingHasTimer' /\ LatestWins'
  BY DEF Land, DebInv, PendingHasTimer, LatestWins
<1> QED
  BY <1>1, <1>2, <1>3 DEF DebInv

\* flushNow and stop empty the map of pending events, whatever timers they stop.
LEMMA HaltKeeps ==
  ASSUME DebInv, FlushTake \/ Stop
  PROVE  DebInv' /\ \A k \in Keys : pending'[k] = None
<1>1. \A k \in Keys : pending'[k] = None /\ timers'[k] \in {timers[k], None}
  BY DEF FlushTake, Stop
<1>2. DebTypeOK'
  BY DEF FlushTake, Stop, StopTimers, DebInv, DebTypeOK, TimerState, Opt
<1>3. Bookkeeping'
  <2>1. \A e \in Events : timer'[e] # "unset" <=> timer[e] # "unset"
    BY DEF FlushTake, Stop, StopTimers, DebInv, DebTypeOK
  <2>2. seen' = seen /\ keyOf' = keyOf /\ flight' = flight
    BY DEF FlushTake, Stop
  <2> QED
    BY <1>1, <2>1, <2>2 DEF DebInv, Bookkeeping
<1>4. PendingHasTimer' /\ LatestWins'
  BY <1>1 DEF PendingHasTimer, LatestWins
<1> QED
  BY <1>1, <1>2, <1>3, <1>4 DEF DebInv

\* A step that leaves the debouncer alone keeps its invariant.
LEMMA DebSame ==
  ASSUME DebInv, UNCHANGED debVars
  PROVE  DebInv'
BY DEF DebInv, DebTypeOK, Bookkeeping, PendingHasTimer, LatestWins, debVars
-----------------------------------------------------------------------------
\* The invariant of the whole: the debouncer's, the queue's and Run's.

QueueInv == QueueTypeOK /\ QueueWellFormed

RunTypeOK ==
  /\ main \in MainAt
  /\ flushing \in [Keys -> Opt(Events)]
  /\ worker \in WorkerAt
  /\ running \in Opt(JobKeys)
  /\ cancelled \in BOOLEAN
  /\ jobDone \in BOOLEAN

RunInv == RunTypeOK /\ Phases /\ WorkerSound

\* The inductive invariant is the debouncer's, the queue's and Run's, each of its
\* own variables.
LEMMA InvParts == PipelineInv <=> DebInv /\ QueueInv /\ RunInv
BY DEF PipelineInv, DebInv, QueueInv, RunInv, TypeOK, RunTypeOK

\* A step that leaves the order and the jobs alone keeps the queue's invariant;
\* close is one.
LEMMA QueueSame ==
  ASSUME QueueInv, order' = order, jobs' = jobs, closed' \in BOOLEAN
  PROVE  QueueInv'
BY DEF QueueInv, QueueTypeOK, QueueWellFormed

\* The daemon starts in a state of the invariant, with the boot pass queued.
LEMMA InitInv == Init => PipelineInv
<1> SUFFICES ASSUME Init PROVE PipelineInv
  OBVIOUS
<1>1. DebInv
  <2>1. DebTypeOK
    <3>1. seen \in 0..MaxEvents
      BY DEF Init, DebInit
    <3>2. timer \in [Events -> TimerState]
      BY DEF Init, DebInit, TimerState
    <3>3. keyOf \in [Events -> Opt(Keys)] /\ flight \in [Events -> Opt(Events)]
      BY DEF Init, DebInit, Opt
    <3>4. pending \in [Keys -> Opt(Events)] /\ timers \in [Keys -> Opt(Events)]
      BY DEF Init, DebInit, Opt
    <3> QED
      BY <3>1, <3>2, <3>3, <3>4 DEF Init, DebInit, DebTypeOK
  <2>2. Bookkeeping /\ PendingHasTimer /\ LatestWins
    BY DEF Init, DebInit, Bookkeeping, PendingHasTimer, LatestWins, Events
  <2> QED
    BY <2>1, <2>2 DEF DebInv
<1>2. QueueInv
  <2>1. order = <<FullPass>> /\ FullPass \in JobKeys
    BY DEF Init, QueueInit, JobKeys
  <2>2. order \in Seq(JobKeys) /\ Len(order) = 1 /\ order[1] = FullPass
    BY <2>1
  <2>3. \A k \in JobKeys : jobs[k] = IF k = FullPass THEN FullPass ELSE None
    BY DEF Init, QueueInit
  <2>4. jobs \in [JobKeys -> Opt(Payloads)]
    BY DEF Init, QueueInit, JobKeys, Opt, Payloads
  <2>5. QueueWellFormed
    BY <2>2, <2>3 DEF QueueWellFormed
  <2> QED
    BY <2>2, <2>4, <2>5 DEF Init, QueueInit, QueueInv, QueueTypeOK
<1>3. RunInv
  BY DEF Init, DebInit, QueueInit, RunInv, RunTypeOK, Phases, WorkerSound, MainAt,
         WorkerAt, Opt
<1> QED
  BY <1>1, <1>2, <1>3, InvParts

\* Every step of Run, the worker and the timers keeps the invariant.
LEMMA NextInv == PipelineInv /\ [Next]_vars => PipelineInv'
<1> SUFFICES ASSUME DebInv, QueueInv, RunInv, [Next]_vars
             PROVE  DebInv' /\ QueueInv' /\ RunInv'
  BY DEF PipelineInv, DebInv, QueueInv, RunInv, TypeOK, RunTypeOK
<1> USE DEF RunInv, RunTypeOK, Phases, WorkerSound
<1>1. ASSUME NEW k \in Keys, HandleEvent(k)
      PROVE  DebInv' /\ QueueInv' /\ RunInv'
  <2>1. DebInv'
    BY <1>1, ObserveKeeps DEF HandleEvent
  <2>2. QueueInv'
    BY <1>1, QueueSame DEF HandleEvent, queueVars, QueueInv, QueueTypeOK
  <2>3. RunInv'
    BY <1>1 DEF HandleEvent, Observe, queueVars, runVars
  <2> QED
    BY <2>1, <2>2, <2>3
<1>2. ASSUME NEW e \in Events, TimerExpires(e)
      PROVE  DebInv' /\ QueueInv' /\ RunInv'
  <2>1. DebInv'
    BY <1>2, ExpireKeeps DEF TimerExpires
  <2>2. QueueInv'
    BY <1>2, QueueSame DEF TimerExpires, queueVars, QueueInv, QueueTypeOK
  <2>3. RunInv'
    BY <1>2 DEF TimerExpires, Expire, queueVars, runVars
  <2> QED
    BY <2>1, <2>2, <2>3
<1>3. ASSUME NEW e \in Events, TimerFires(e)
      PROVE  DebInv' /\ QueueInv' /\ RunInv'
  <2>1. stopped => \A k \in Keys : pending[k] = None
    OBVIOUS
  <2>2. DebInv'
    BY <1>3, <2>1, FireKeeps DEF TimerFires
  <2>3. QueueInv'
    BY <1>3, QueueSame DEF TimerFires, queueVars, QueueInv, QueueTypeOK
  <2>4. keyOf[e] \in Keys
    BY <1>3 DEF TimerFires, Fire, DebInv, DebTypeOK, Bookkeeping, Opt
  <2>5. \A k \in Keys : pending'[k] \in {pending[k], None}
    BY <1>3, <2>4 DEF TimerFires, Fire, DebInv, DebTypeOK
  <2>6. RunInv'
    BY <1>3, <2>5 DEF TimerFires, Fire, queueVars, runVars
  <2> QED
    BY <2>2, <2>3, <2>6
<1>4. ASSUME NEW e \in Events, TimerFlushes(e)
      PROVE  DebInv' /\ QueueInv' /\ RunInv'
  <2>1. DebInv' /\ keyOf[e] \in JobKeys /\ flight[e] \in Payloads
    BY <1>4, LandKeeps DEF TimerFlushes, JobKeys, Payloads
  <2>2. QueueInv'
    BY <1>4, <2>1, PushKeeps DEF TimerFlushes, QueueInv
  <2>3. RunInv'
    BY <1>4 DEF TimerFlushes, Land, Push, runVars
  <2> QED
    BY <2>1, <2>2, <2>3
<1>5. CASE WorkerChecks \/ WorkerExhausts \/ JobReturns
  <2>1. UNCHANGED <<debVars, queueVars, main, flushing, cancelled>>
    BY <1>5 DEF WorkerChecks, WorkerExhausts, JobReturns
  <2>2. DebInv' /\ QueueInv'
    BY <2>1, DebSame, QueueSame DEF queueVars, QueueInv, QueueTypeOK
  <2>3. RunTypeOK' /\ WorkerSound'
    BY <1>5, <2>1 DEF WorkerChecks, WorkerExhausts, JobReturns, Exhausted, WorkerAt,
                      Opt, queueVars
  <2>4. Phases'
    BY <1>5, <2>1 DEF WorkerChecks, WorkerExhausts, JobReturns, debVars, queueVars
  <2> QED
    BY <2>2, <2>3, <2>4
<1>6. CASE WorkerPops
  <2>1. DebInv'
    BY <1>6, DebSame DEF WorkerPops
  <2>2. QueueInv' /\ Head(order) \in JobKeys
    BY <1>6, PopKeeps DEF WorkerPops, QueueInv
  <2>3. Head(order) # None
    BY <2>2 DEF JobKeys
  <2>4. RunInv'
    BY <1>6, <2>2, <2>3 DEF WorkerPops, Pop, WorkerAt, Opt, debVars
  <2> QED
    BY <2>1, <2>2, <2>4
<1>7. CASE BeginFlush
  <2>1. DebInv' /\ \A k \in Keys : pending'[k] = None
    BY <1>7, HaltKeeps DEF BeginFlush
  <2>2. QueueInv'
    BY <1>7, QueueSame DEF BeginFlush, queueVars, QueueInv, QueueTypeOK
  <2>3. RunInv'
    BY <1>7, <2>1 DEF BeginFlush, FlushTake, queueVars, MainAt, DebInv, DebTypeOK
  <2> QED
    BY <2>1, <2>2, <2>3
<1>8. ASSUME NEW k \in Keys, FlushKey(k)
      PROVE  DebInv' /\ QueueInv' /\ RunInv'
  <2>1. DebInv'
    BY <1>8, DebSame DEF FlushKey
  <2>2. k \in JobKeys /\ flushing[k] \in Payloads
    BY <1>8 DEF FlushKey, JobKeys, Payloads, Opt
  <2>3. QueueInv'
    BY <1>8, <2>2, PushKeeps DEF FlushKey, QueueInv
  <2>4. RunInv'
    BY <1>8 DEF FlushKey, Push, debVars, Opt
  <2> QED
    BY <2>1, <2>3, <2>4
<1>9. CASE StopDebouncer
  <2>1. DebInv' /\ \A k \in Keys : pending'[k] = None
    BY <1>9, HaltKeeps DEF StopDebouncer
  <2>2. QueueInv'
    BY <1>9, QueueSame DEF StopDebouncer, queueVars, QueueInv, QueueTypeOK
  <2>3. RunInv'
    BY <1>9, <2>1 DEF StopDebouncer, Stop, queueVars, MainAt
  <2> QED
    BY <2>1, <2>2, <2>3
<1>10. CASE CloseQueue \/ BeginDrain \/ Progress \/ Cut \/ Drained
  <2>1. DebInv'
    BY <1>10, DebSame DEF CloseQueue, BeginDrain, Progress, Cut, Drained
  <2>2. QueueInv'
    BY <1>10, QueueSame DEF CloseQueue, Close, BeginDrain, Progress, Cut, Drained,
                            queueVars, QueueInv, QueueTypeOK
  <2>3. UNCHANGED <<debVars, order, flushing, worker, running>>
    BY <1>10 DEF CloseQueue, Close, BeginDrain, Progress, Cut, Drained, queueVars
  <2>4. RunTypeOK'
    BY <1>10, <2>3 DEF CloseQueue, BeginDrain, Progress, Cut, Drained, MainAt
  <2>5. WorkerSound'
    BY <1>10, <2>3 DEF CloseQueue, Close, BeginDrain, Progress, Cut, Drained, queueVars
  <2>6. Phases'
    BY <1>10, <2>3 DEF CloseQueue, Close, BeginDrain, Progress, Cut, Drained, queueVars,
                       debVars
  <2> QED
    BY <2>1, <2>2, <2>4, <2>5, <2>6
<1>11. CASE Terminated \/ UNCHANGED vars
  <2>1. UNCHANGED <<debVars, queueVars, runVars>>
    BY <1>11 DEF Terminated, vars
  <2>2. DebInv' /\ QueueInv'
    BY <2>1, DebSame, QueueSame DEF queueVars, QueueInv, QueueTypeOK
  <2>3. RunInv'
    BY <2>1 DEF debVars, queueVars, runVars
  <2> QED
    BY <2>2, <2>3
<1> QED
  BY <1>1, <1>2, <1>3, <1>4, <1>5, <1>6, <1>7, <1>8, <1>9, <1>10, <1>11
  DEF Next, Timer, Worker, Shutdown

\* The inductive invariant holds of every behaviour of the daemon: any keys, any
\* number of events, any interleaving of Run, the worker and the timers.
THEOREM PipelineInvariant == Spec => []PipelineInv
BY InitInv, NextInv, PTL DEF Spec

\* The pipeline's variables always have their types: every map holds events or
\* nothing, the queue holds job keys.
THEOREM TypeCorrect == Spec => []TypeOK
<1>1. PipelineInv => TypeOK
  BY DEF PipelineInv
<1> QED
  BY <1>1, PipelineInvariant, PTL

\* A change in its quiet window always has a timer that will flush it, whatever
\* fire and observe do to each other's entries of the timers map.
THEOREM PendingIsArmed == Spec => []PendingHasTimer
<1>1. PipelineInv => PendingHasTimer
  BY DEF PipelineInv
<1> QED
  BY <1>1, PipelineInvariant, PTL

\* What waits for a key in the debouncer is the last event observed for it.
THEOREM LatestIsKept == Spec => []LatestWins
<1>1. PipelineInv => LatestWins
  BY DEF PipelineInv
<1> QED
  BY <1>1, PipelineInvariant, PTL

\* The queue's order and its map of jobs agree: a popped key has its job.
THEOREM QueueIsWellFormed == Spec => []QueueWellFormed
<1>1. PipelineInv => QueueWellFormed
  BY DEF PipelineInv
<1> QED
  BY <1>1, PipelineInvariant, PTL

\* A Run that returns without having cut its worker has drained the queue.
THEOREM ExitIsDrained == Spec => []DrainedAtExit
<1>1. PipelineInv => DrainedAtExit
  <2> SUFFICES ASSUME PipelineInv, main = "done", ~cancelled
               PROVE  /\ worker = "exited"
                      /\ Outstanding \subseteq {keyOf[e] : e \in InFlight}
    BY DEF DrainedAtExit
  <2>1. worker = "exited" /\ order = <<>>
    BY DEF PipelineInv, Phases, WorkerSound
  <2>2. \A k \in Keys : pending[k] = None /\ flushing[k] = None
    BY DEF PipelineInv, Phases
  <2>3. \A k \in JobKeys : jobs[k] = None
    BY <2>1 DEF PipelineInv, QueueWellFormed
  <2> QED
    BY <2>1, <2>2, <2>3 DEF Outstanding
<1> QED
  BY <1>1, PipelineInvariant, PTL

-----------------------------------------------------------------------------
\* What a step does to the keys that are owed a run.

Owed(k) ==
  \/ k \in Keys /\ (pending[k] # None \/ flushing[k] # None)
  \/ \E e \in Events : flight[e] # None /\ keyOf[e] = k
  \/ jobs[k] # None

\* What is outstanding, key by key.
LEMMA OutstandingIsOwed ==
  ASSUME PipelineInv
  PROVE  Outstanding = {k \in JobKeys : Owed(k)}
<1>1. \A e \in Events : flight[e] # None => keyOf[e] \in JobKeys
  BY DEF PipelineInv, TypeOK, DebTypeOK, Bookkeeping, Opt, JobKeys
<1> QED
  BY <1>1 DEF Outstanding, InFlight, Owed, JobKeys

\* The same of the next state.
LEMMA OutstandingIsOwedNext ==
  ASSUME PipelineInv'
  PROVE  Outstanding' = {k \in JobKeys : Owed(k)'}
<1>1. \A e \in Events : flight'[e] # None => keyOf'[e] \in JobKeys
  BY DEF PipelineInv, TypeOK, DebTypeOK, Bookkeeping, Opt, JobKeys
<1> QED
  BY <1>1 DEF Outstanding, InFlight, Owed, JobKeys

\* An observed event makes its key owed, and no other.
LEMMA EventMarks ==
  ASSUME PipelineInv, NEW k \in Keys, HandleEvent(k)
  PROVE  \A n \in JobKeys : Owed(n)' <=> Owed(n) \/ n = k
<1> DEFINE e == seen + 1
<1>1. /\ e \in Events
      /\ keyOf' = [keyOf EXCEPT ![e] = k]
      /\ pending' = [pending EXCEPT ![k] = e]
      /\ UNCHANGED <<flight, flushing, jobs>>
  BY DEF HandleEvent, Observe, PipelineInv, TypeOK, DebTypeOK, Events, queueVars, runVars
<1>2. flight[e] = None
  BY <1>1 DEF PipelineInv, Bookkeeping, TypeOK, DebTypeOK, Events
<1>3. \A f \in Events : flight[f] # None => keyOf'[f] = keyOf[f]
  BY <1>1, <1>2 DEF PipelineInv, TypeOK, DebTypeOK
<1>4. \A n \in Keys : pending'[n] # None <=> pending[n] # None \/ n = k
  BY <1>1 DEF PipelineInv, TypeOK, DebTypeOK, Events
<1> QED
  BY <1>1, <1>3, <1>4 DEF Owed, JobKeys

\* The locked part of fire hands a key from the map to its goroutine.
LEMMA FireHandsOver ==
  ASSUME PipelineInv, NEW e \in Events, TimerFires(e)
  PROVE  \A n \in JobKeys : Owed(n)' <=> Owed(n)
<1> DEFINE k == keyOf[e]
<1>1. UNCHANGED <<keyOf, flushing, jobs>>
  BY DEF TimerFires, Fire, queueVars, runVars
<1>2. k \in Keys
  BY DEF TimerFires, Fire, PipelineInv, TypeOK, DebTypeOK, Bookkeeping, Opt
<1>3. CASE pending[k] = None \/ stopped
  BY <1>1, <1>3 DEF TimerFires, Fire, Owed
<1>4. CASE ~(pending[k] = None \/ stopped)
  <2>1. /\ flight' = [flight EXCEPT ![e] = pending[k]]
        /\ pending' = [pending EXCEPT ![k] = None]
    BY <1>4 DEF TimerFires, Fire
  <2>2. flight'[e] # None /\ \A f \in Events \ {e} : flight'[f] = flight[f]
    BY <2>1, <1>4 DEF PipelineInv, TypeOK, DebTypeOK
  <2>3. \A n \in Keys \ {k} : pending'[n] = pending[n]
    BY <2>1 DEF PipelineInv, TypeOK, DebTypeOK
  <2>4. ASSUME NEW n \in JobKeys, n = k PROVE Owed(n)' <=> Owed(n)
    BY <1>1, <1>2, <1>4, <2>2, <2>4 DEF Owed
  <2>5. ASSUME NEW n \in JobKeys, n # k PROVE Owed(n)' <=> Owed(n)
    BY <1>1, <2>2, <2>3, <2>5 DEF Owed
  <2> QED
    BY <2>4, <2>5
<1> QED
  BY <1>3, <1>4

\* A goroutine's push puts its key in the queue, or loses it to a closed one.
LEMMA LandSettles ==
  ASSUME PipelineInv, NEW e \in Events, TimerFlushes(e)
  PROVE  /\ keyOf[e] \in Keys /\ Owed(keyOf[e])
         /\ \A n \in JobKeys \ {keyOf[e]} : Owed(n)' <=> Owed(n)
         /\ ~closed => Owed(keyOf[e])'
<1> DEFINE k == keyOf[e]
<1>1. /\ UNCHANGED <<keyOf, pending, flushing>>
      /\ flight[e] # None
      /\ flight' = [flight EXCEPT ![e] = None]
  BY DEF TimerFlushes, Land, runVars
<1>2. k \in Keys /\ k \in JobKeys /\ Owed(k)
  BY <1>1 DEF PipelineInv, TypeOK, DebTypeOK, Bookkeeping, Opt, JobKeys, Owed
<1>3. \A f \in Events \ {e} : flight'[f] = flight[f]
  BY <1>1 DEF PipelineInv, TypeOK, DebTypeOK
<1>4. \A n \in JobKeys \ {k} : jobs'[n] = jobs[n]
  BY <1>2 DEF TimerFlushes, Push, PipelineInv, TypeOK, QueueTypeOK
<1>5. ~closed => jobs'[k] # None
  BY <1>1, <1>2 DEF TimerFlushes, Push, PipelineInv, TypeOK, QueueTypeOK
<1>6. flight'[e] = None
  BY <1>1 DEF PipelineInv, TypeOK, DebTypeOK
<1> QED
  BY <1>1, <1>2, <1>3, <1>4, <1>5, <1>6 DEF Owed

\* A pop takes the job of the key whose run starts.
LEMMA PopStarts ==
  ASSUME PipelineInv, WorkerPops
  PROVE  /\ running' \in JobKeys /\ Owed(running')
         /\ \A n \in JobKeys \ {running'} : Owed(n)' <=> Owed(n)
<1> DEFINE k == Head(order)
<1>1. /\ UNCHANGED <<keyOf, pending, flushing, flight>>
      /\ order # <<>>
      /\ running' = k
      /\ jobs' = [jobs EXCEPT ![k] = None]
  BY DEF WorkerPops, Pop, debVars
<1>2. k \in JobKeys /\ k = order[1] /\ 1 \in 1..Len(order)
  BY <1>1 DEF PipelineInv, TypeOK, QueueTypeOK
<1>3. jobs[k] # None
  BY <1>2 DEF PipelineInv, QueueWellFormed
<1>4. \A n \in JobKeys \ {k} : jobs'[n] = jobs[n]
  BY <1>1 DEF PipelineInv, TypeOK, QueueTypeOK
<1> QED
  BY <1>1, <1>2, <1>3, <1>4 DEF Owed

\* The shutdown's flush loses nothing: flushNow takes all that is pending, pushes
\* it while the queue is open, and leaves nothing for stop to drop.
LEMMA FlushHandsOver ==
  ASSUME PipelineInv,
         BeginFlush \/ (\E k \in Keys : FlushKey(k)) \/ StopDebouncer
  PROVE  \A n \in JobKeys : Owed(n)' <=> Owed(n)
<1>1. CASE BeginFlush
  <2>1. UNCHANGED <<keyOf, flight, jobs>> /\ flushing' = pending
    BY <1>1 DEF BeginFlush, FlushTake, queueVars
  <2>2. \A k \in Keys : pending'[k] = None /\ flushing[k] = None
    BY <1>1 DEF BeginFlush, FlushTake, PipelineInv, Phases
  <2> QED
    BY <2>1, <2>2 DEF Owed
<1>2. ASSUME NEW k \in Keys, FlushKey(k)
      PROVE  \A n \in JobKeys : Owed(n)' <=> Owed(n)
  <2>1. UNCHANGED <<keyOf, flight, pending>> /\ ~closed
    BY <1>2 DEF FlushKey, debVars, PipelineInv, Phases
  <2>2. /\ flushing[k] # None
        /\ flushing' = [flushing EXCEPT ![k] = None]
        /\ jobs' = [jobs EXCEPT ![k] = flushing[k]]
    BY <1>2, <2>1 DEF FlushKey, Push
  <2>3. jobs'[k] # None /\ k \in JobKeys
    BY <2>2 DEF PipelineInv, TypeOK, QueueTypeOK, JobKeys
  <2>4. /\ \A n \in Keys \ {k} : flushing'[n] = flushing[n]
        /\ \A n \in JobKeys \ {k} : jobs'[n] = jobs[n]
    BY <2>2 DEF PipelineInv, TypeOK, QueueTypeOK
  <2>5. Owed(k)' /\ Owed(k)
    BY <2>2, <2>3 DEF Owed
  <2>6. ASSUME NEW n \in JobKeys, n # k PROVE Owed(n)' <=> Owed(n)
    BY <2>1, <2>4, <2>6 DEF Owed
  <2> QED
    BY <2>5, <2>6
<1>3. CASE StopDebouncer
  <2>1. UNCHANGED <<keyOf, flight, jobs, flushing>>
    BY <1>3 DEF StopDebouncer, Stop, queueVars
  <2>2. \A k \in Keys : pending'[k] = None /\ pending[k] = None
    BY <1>3 DEF StopDebouncer, Stop, PipelineInv, Phases
  <2> QED
    BY <2>1, <2>2 DEF Owed
<1> QED
  BY <1>1, <1>2, <1>3
-----------------------------------------------------------------------------
\* The steps that leave every owed key owed, and the way they leave Run.

Quiet ==
  \/ \E e \in Events : TimerExpires(e)
  \/ WorkerChecks \/ WorkerExhausts
  \/ CloseQueue \/ BeginDrain \/ Progress \/ Cut
  \/ Terminated \/ UNCHANGED vars

\* A step that only moves Run, the worker or a timer leaves all that holds a change
\* where it was.
LEMMA QuietKeeps ==
  ASSUME PipelineInv, Quiet \/ JobReturns \/ Drained
  PROVE  UNCHANGED <<keyOf, pending, flushing, flight, jobs>>
BY DEF Quiet, TimerExpires, Expire, WorkerChecks, WorkerExhausts, CloseQueue, Close,
       BeginDrain, Progress, Cut, Drained, JobReturns, Terminated, vars, debVars,
       queueVars, runVars

\* So such a step, the return of a job and the end of Run change nothing that is owed.
LEMMA QuietOwes ==
  ASSUME PipelineInv, Quiet \/ JobReturns \/ Drained
  PROVE  \A n \in JobKeys : Owed(n)' <=> Owed(n)
BY QuietKeeps DEF Owed

\* Every step is one that moves a change on (an event, a fire, a push, a pop, the
\* flush), the return of a job or of Run, or a quiet one.
LEMMA NextCases ==
  ASSUME [Next]_vars
  PROVE  \/ \E k \in Keys : HandleEvent(k)
         \/ \E e \in Events : TimerFires(e) \/ TimerFlushes(e)
         \/ WorkerPops \/ JobReturns \/ Drained
         \/ BeginFlush \/ (\E k \in Keys : FlushKey(k)) \/ StopDebouncer
         \/ Quiet
BY DEF Next, Timer, Worker, Shutdown, Quiet

\* No change is lost but by the one door left open: a key stops being owed when
\* its run starts, or when a timer's goroutine that took it before flushNow finds
\* the queue closed.
THEOREM NothingElseIsLost == Spec => LostOnlyInFlight
<1> DEFINE Kept ==
      \A k \in JobKeys : k \in Outstanding \ Outstanding' =>
        \/ running = None /\ running' = k
        \/ closed /\ \E e \in InFlight : keyOf[e] = k
<1>1. PipelineInv /\ PipelineInv' /\ [Next]_vars => [Kept]_vars
  <2> SUFFICES ASSUME PipelineInv, PipelineInv', [Next]_vars,
                      NEW k \in JobKeys, Owed(k), ~Owed(k)'
               PROVE  \/ running = None /\ running' = k
                      \/ closed /\ \E e \in InFlight : keyOf[e] = k
    BY OutstandingIsOwed, OutstandingIsOwedNext
  <2>1. ASSUME NEW n \in Keys, HandleEvent(n) PROVE FALSE
    BY <2>1, EventMarks
  <2>2. ASSUME NEW e \in Events, TimerFires(e) PROVE FALSE
    BY <2>2, FireHandsOver
  <2>3. ASSUME NEW e \in Events, TimerFlushes(e)
        PROVE  closed /\ \E f \in InFlight : keyOf[f] = k
    <3>1. k = keyOf[e]
      BY <2>3, LandSettles
    <3>2. closed
      BY <2>3, <3>1, LandSettles DEF Owed, TimerFlushes, Land
    <3>3. e \in InFlight
      BY <2>3 DEF TimerFlushes, Land, InFlight
    <3> QED
      BY <3>1, <3>2, <3>3
  <2>4. CASE WorkerPops
    <3>1. k = running'
      BY <2>4, PopStarts
    <3> QED
      BY <2>4, <3>1 DEF WorkerPops, PipelineInv, WorkerSound
  <2>5. CASE BeginFlush \/ (\E n \in Keys : FlushKey(n)) \/ StopDebouncer
    BY <2>5, FlushHandsOver
  <2>6. CASE Quiet \/ JobReturns \/ Drained
    BY <2>6, QuietOwes
  <2> QED
    BY <2>1, <2>2, <2>3, <2>4, <2>5, <2>6, NextCases
<1> QED
  BY <1>1, PipelineInvariant, PTL DEF Spec, LostOnlyInFlight

-----------------------------------------------------------------------------
\* The abstract step a concrete step is.

PromiseStep == [Promise!Next]_<<Outstanding, running, Phase>>

\* Every step of the pipeline is a step of SerialWork or leaves it where it is.
LEMMA PromiseOfStep ==
  ASSUME PipelineInv, PipelineInv', [Next]_vars
  PROVE  PromiseStep
<1> USE DEF PromiseStep, Promise!Next
<1>o. /\ Outstanding = {n \in JobKeys : Owed(n)}
      /\ Outstanding' = {n \in JobKeys : Owed(n)'}
  BY OutstandingIsOwed, OutstandingIsOwedNext
<1>same. (\A n \in JobKeys : Owed(n)' <=> Owed(n)) => Outstanding' = Outstanding
  BY <1>o
<1>1. ASSUME NEW k \in Keys, HandleEvent(k) PROVE PromiseStep
  <2>1. Outstanding' = Outstanding \cup {k} /\ k \in JobKeys
    BY <1>1, <1>o, EventMarks DEF JobKeys
  <2>2. Phase = "up" /\ Phase' = Phase /\ running' = running
    BY <1>1 DEF HandleEvent, runVars, Phase
  <2>3. Promise!Mark(k)
    BY <2>1, <2>2 DEF Promise!Mark
  <2> QED
    BY <2>1, <2>3
<1>2. ASSUME NEW e \in Events, TimerFires(e) PROVE PromiseStep
  <2>1. Outstanding' = Outstanding
    BY <1>2, <1>same, FireHandsOver
  <2>2. main' = main /\ running' = running
    BY <1>2 DEF TimerFires, runVars
  <2> QED
    BY <2>1, <2>2 DEF Phase
<1>3. ASSUME NEW e \in Events, TimerFlushes(e) PROVE PromiseStep
  <2> DEFINE k == keyOf[e]
  <2>1. main' = main /\ running' = running
    BY <1>3 DEF TimerFlushes, runVars
  <2>2. k \in JobKeys
    BY <1>3, LandSettles DEF JobKeys
  <2>3. \A n \in JobKeys \ {k} : n \in Outstanding' <=> n \in Outstanding
    BY <1>3, <1>o, LandSettles
  <2>4. k \in Outstanding
    BY <1>3, <1>o, <2>2, LandSettles
  <2>5. CASE k \in Outstanding'
    <3>1. Outstanding' = Outstanding
      BY <2>3, <2>4, <2>5, <1>o
    <3> QED
      BY <2>1, <3>1 DEF Phase
  <2>6. CASE k \notin Outstanding'
    <3>1. Outstanding' = Outstanding \ {k}
      BY <2>3, <2>6, <1>o
    <3>2. closed
      <4> SUFFICES ASSUME ~closed PROVE FALSE
        OBVIOUS
      <4>1. keyOf' = keyOf
        BY <1>3 DEF TimerFlushes, Land
      <4>2. Owed(keyOf[e])'
        BY <1>3, LandSettles
      <4>3. k \in Outstanding'
        BY <4>1, <4>2, <2>2, <1>o DEF Owed
      <4> QED
        BY <4>3, <2>6
    <3>3. Phase # "up"
      BY <3>2 DEF Phase, PipelineInv, Phases
    <3>4. Promise!Forget(k)
      BY <2>1, <3>1, <3>3 DEF Promise!Forget, Phase
    <3> QED
      BY <2>2, <3>4
  <2> QED
    BY <2>5, <2>6
<1>4. CASE WorkerPops
  <2> DEFINE k == running'
  <2>1. k \in JobKeys /\ k \in Outstanding
    BY <1>4, <1>o, PopStarts
  <2>2. \A n \in JobKeys \ {k} : n \in Outstanding' <=> n \in Outstanding
    BY <1>4, <1>o, PopStarts
  <2>3. Outstanding' \in {Outstanding, Outstanding \ {k}}
    BY <2>1, <2>2, <1>o
  <2>4. running = None /\ main' = main
    BY <1>4 DEF WorkerPops, PipelineInv, WorkerSound
  <2>5. Promise!Start(k)
    BY <2>1, <2>3, <2>4 DEF Promise!Start, Phase
  <2> QED
    BY <2>1, <2>5
<1>5. CASE JobReturns
  <2>1. Outstanding' = Outstanding
    BY <1>5, <1>same, QuietOwes
  <2>2. running # None /\ running' = None /\ main' = main
    BY <1>5 DEF JobReturns, PipelineInv, WorkerSound
  <2>3. Promise!Finish
    BY <2>1, <2>2 DEF Promise!Finish, Phase
  <2> QED
    BY <2>3
<1>6. CASE BeginFlush
  <2>1. Outstanding' = Outstanding
    BY <1>6, <1>same, FlushHandsOver
  <2>2. Phase = "up" /\ Phase' = "closing" /\ running' = running
    BY <1>6 DEF BeginFlush, Phase
  <2>3. Promise!Close
    BY <2>1, <2>2 DEF Promise!Close
  <2> QED
    BY <2>3
<1>7. CASE (\E k \in Keys : FlushKey(k)) \/ StopDebouncer
  <2>1. Outstanding' = Outstanding
    BY <1>7, <1>same, FlushHandsOver
  <2>2. running' = running /\ main \notin {"loop", "done"} /\ main' \notin {"loop", "done"}
    BY <1>7 DEF FlushKey, StopDebouncer
  <2> QED
    BY <2>1, <2>2 DEF Phase
<1>8. CASE Drained
  <2>1. Outstanding' = Outstanding
    BY <1>8, <1>same, QuietOwes
  <2>2. Phase = "closing" /\ Phase' = "down" /\ running' = running /\ running = None
    BY <1>8 DEF Drained, Phase, PipelineInv, WorkerSound
  <2>3. Promise!Exit
    BY <2>1, <2>2 DEF Promise!Exit
  <2> QED
    BY <2>3
<1>9. CASE Quiet
  <2>1. Outstanding' = Outstanding
    BY <1>9, <1>same, QuietOwes
  <2>2. running' = running
    BY <1>9 DEF Quiet, TimerExpires, WorkerChecks, WorkerExhausts, CloseQueue,
                BeginDrain, Progress, Cut, Terminated, vars, runVars
  <2>3. main' = main \/ (main \notin {"loop", "done"} /\ main' \notin {"loop", "done"})
    BY <1>9 DEF Quiet, TimerExpires, WorkerChecks, WorkerExhausts, CloseQueue,
                BeginDrain, Progress, Cut, Terminated, vars, runVars
  <2> QED
    BY <2>1, <2>2, <2>3 DEF Phase
<1> QED
  BY <1>1, <1>2, <1>3, <1>4, <1>5, <1>6, <1>7, <1>8, <1>9, NextCases

\* The change pipeline implements SerialWork for every set of keys: what is owed
\* stays owed until its run starts, runs never overlap, and only a daemon that is
\* going down forgets.
THEOREM PipelineImplementsSerialWork == Spec => ImplementsSerialWork
<1>1. Init => Promise!Init
  <2> SUFFICES ASSUME Init PROVE Promise!Init
    OBVIOUS
  <2>1. Outstanding = {FullPass}
    <3>1. \A k \in JobKeys : Owed(k) <=> k = FullPass
      BY DEF Init, DebInit, QueueInit, Owed, JobKeys
    <3>2. FullPass \in JobKeys
      BY DEF JobKeys
    <3> QED
      BY <3>1, <3>2, InitInv, OutstandingIsOwed
  <2> QED
    BY <2>1 DEF Init, Promise!Init, Phase
<1>2. PipelineInv /\ PipelineInv' /\ [Next]_vars => [Promise!Next]_Promise!vars
  BY PromiseOfStep DEF PromiseStep, Promise!vars
<1> QED
  BY <1>1, <1>2, PipelineInvariant, PTL DEF Spec, ImplementsSerialWork, Promise!Spec
=============================================================================
