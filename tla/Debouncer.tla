------------------------------ MODULE Debouncer ------------------------------
(***************************************************************************)
(* daemon/debounce.go: container events are coalesced per service key and  *)
(* flushed one quiet window after the last of them.                        *)
(*                                                                         *)
(* Go's time.AfterFunc runs fire in a goroutine of its own, so a timer     *)
(* passes through three moments the lock does not join: its expiry, the    *)
(* locked part of fire, and the call of onFlush after the unlock.  Stop    *)
(* only has an effect before the first of them.                            *)
(***************************************************************************)
EXTENDS Changes

VARIABLES
  seen,     \* how many events have been observed
  keyOf,    \* keyOf[e]: the key event e was observed for; timer e is its timer
  pending,  \* debouncer.pending: the latest event of each key in its window
  timers,   \* debouncer.timers: the timer the map holds for each key
  timer,    \* timer[e]: what has become of the timer event e armed
  flight,   \* flight[e]: the event timer e's goroutine carries to onFlush
  stopped   \* debouncer.stopped

debVars == <<seen, keyOf, pending, timers, timer, flight, stopped>>

TimerState ==
  {"unset",    \* not created yet
   "armed",    \* counting down
   "expired",  \* its goroutine runs fire and waits for the lock
   "gone"}     \* stopped, or past the locked part of fire

DebTypeOK ==
  /\ seen \in 0..MaxEvents
  /\ keyOf \in [Events -> Opt(Keys)]
  /\ pending \in [Keys -> Opt(Events)]
  /\ timers \in [Keys -> Opt(Events)]
  /\ timer \in [Events -> TimerState]
  /\ flight \in [Events -> Opt(Events)]
  /\ stopped \in BOOLEAN

DebInit ==
  /\ seen = 0
  /\ keyOf = [e \in Events |-> None]
  /\ pending = [k \in Keys |-> None]
  /\ timers = [k \in Keys |-> None]
  /\ timer = [e \in Events |-> "unset"]
  /\ flight = [e \in Events |-> None]
  /\ stopped = FALSE

\* Timer.Stop on every timer of T: it cannot recall one that has expired.
StopTimers(T) ==
  [e \in Events |-> IF e \in T /\ timer[e] = "armed" THEN "gone" ELSE timer[e]]

\* An observe that leaves the old timer to flush the burst, and stops it all the same.
ObserveWithoutArming(k) ==
  LET e == seen + 1 IN
  /\ seen < MaxEvents
  /\ ~stopped
  /\ seen' = e
  /\ keyOf' = [keyOf EXCEPT ![e] = k]
  /\ pending' = [pending EXCEPT ![k] = e]
  /\ timers' = [timers EXCEPT ![k] = e]
  /\ timer' = [StopTimers({timers[k]}) EXCEPT
                 ![e] = IF pending[k] = None THEN "armed" ELSE "gone"]
  /\ UNCHANGED <<flight, stopped>>

\* observe: the latest id wins and the key's timer starts again.
Observe(k) ==
  LET e == seen + 1 IN
  /\ seen < MaxEvents
  /\ ~stopped
  /\ seen' = e
  /\ keyOf' = [keyOf EXCEPT ![e] = k]
  /\ pending' = [pending EXCEPT ![k] = e]
  /\ timers' = [timers EXCEPT ![k] = e]
  /\ timer' = [StopTimers({timers[k]}) EXCEPT ![e] = "armed"]
  /\ UNCHANGED <<flight, stopped>>

\* The quiet window of timer e elapses: the runtime starts its goroutine.
Expire(e) ==
  /\ timer[e] = "armed"
  /\ timer' = [timer EXCEPT ![e] = "expired"]
  /\ UNCHANGED <<seen, keyOf, pending, timers, flight, stopped>>

\* The locked part of fire.  It takes whatever id the key has by now, and
\* removes whatever timer the map has by now.
Fire(e) ==
  LET k == keyOf[e] IN
  /\ timer[e] = "expired"
  /\ timer' = [timer EXCEPT ![e] = "gone"]
  /\ IF pending[k] = None \/ stopped
       THEN UNCHANGED <<pending, timers, flight>>
       ELSE /\ flight' = [flight EXCEPT ![e] = pending[k]]
            /\ pending' = [pending EXCEPT ![k] = None]
            /\ timers' = [timers EXCEPT ![k] = None]
  /\ UNCHANGED <<seen, keyOf, stopped>>

\* The end of timer e's goroutine: onFlush has been called with flight[e].
Land(e) ==
  /\ flight[e] # None
  /\ flight' = [flight EXCEPT ![e] = None]
  /\ UNCHANGED <<seen, keyOf, pending, timers, timer, stopped>>

\* The locked part of flushNow, when not stopped: every pending key is taken
\* and its timer stopped.
FlushTake ==
  /\ ~stopped
  /\ pending' = [k \in Keys |-> None]
  /\ timers' = [k \in Keys |-> IF pending[k] = None THEN timers[k] ELSE None]
  /\ timer' = StopTimers({timers[k] : k \in {j \in Keys : pending[j] # None}})
  /\ UNCHANGED <<seen, keyOf, flight, stopped>>

\* stop: armed timers are halted, what is still pending is dropped.
Stop ==
  /\ stopped' = TRUE
  /\ timer' = StopTimers({timers[k] : k \in Keys})
  /\ timers' = [k \in Keys |-> None]
  /\ pending' = [k \in Keys |-> None]
  /\ UNCHANGED <<seen, keyOf, flight>>
=============================================================================
