------------------------------ MODULE Pipeline -------------------------------
(***************************************************************************)
(* The daemon's control loop (daemon/daemon.go Run, worker.go runWorker,   *)
(* watch.go): container events go through the debouncer onto the queue and *)
(* one worker runs the jobs, until a shutdown flushes, closes and drains.  *)
(*                                                                         *)
(* Four kinds of goroutine interleave here: Run itself, which also hands   *)
(* each watch event to the debouncer; the worker; and the goroutine of     *)
(* every timer that has expired.  The watchdog's two timers are a choice   *)
(* (Drain.tla gives them a clock): Cut may come at any moment of the drain.*)
(***************************************************************************)
EXTENDS Debouncer, WorkQueue

VARIABLES
  main,       \* where Run is
  flushing,   \* flushNow's local keys and ids, not yet handed to onFlush
  worker,     \* where runWorker is
  running,    \* the key of the job it runs, or None
  cancelled,  \* workerCtx is cancelled
  jobDone     \* a completion waits in the size-1 jobDone channel

runVars == <<main, flushing, worker, running, cancelled, jobDone>>
vars == <<debVars, queueVars, runVars>>

MainAt == {"loop", "flushing", "stopped", "closed", "drain", "cut", "done"}
WorkerAt == {"check", "pop", "run", "exited"}

TypeOK ==
  /\ DebTypeOK
  /\ QueueTypeOK
  /\ main \in MainAt
  /\ flushing \in [Keys -> Opt(Events)]
  /\ worker \in WorkerAt
  /\ running \in Opt(JobKeys)
  /\ cancelled \in BOOLEAN
  /\ jobDone \in BOOLEAN

Init ==
  /\ DebInit
  /\ QueueInit
  /\ main = "loop"
  /\ flushing = [k \in Keys |-> None]
  /\ worker = "check"
  /\ running = None
  /\ cancelled = FALSE
  /\ jobDone = FALSE

-----------------------------------------------------------------------------
\* Run before the shutdown: handleEvent.

HandleEvent(k) ==
  /\ main = "loop"
  /\ Observe(k)
  /\ UNCHANGED <<queueVars, runVars>>

\* The timers.

TimerExpires(e) ==
  /\ Expire(e)
  /\ UNCHANGED <<queueVars, runVars>>

TimerFires(e) ==
  /\ Fire(e)
  /\ UNCHANGED <<queueVars, runVars>>

\* fire's onFlush: the goroutine pushes what it took.
TimerFlushes(e) ==
  /\ Land(e)
  /\ Push(keyOf[e], flight[e])
  /\ UNCHANGED runVars

-----------------------------------------------------------------------------
\* runWorker.

WorkerChecks ==
  /\ worker = "check"
  /\ worker' = IF cancelled THEN "exited" ELSE "pop"
  /\ UNCHANGED <<debVars, queueVars, main, flushing, running, cancelled, jobDone>>

\* A worker that remembers the job instead of its key, and a second worker.
WorkerPopsJob ==
  /\ worker = "pop"
  /\ Pop
  /\ worker' = "run"
  /\ running' = jobs[Head(order)]
  /\ UNCHANGED <<debVars, main, flushing, cancelled, jobDone>>

WorkerPopsMeanwhile ==
  /\ worker \in {"pop", "run"}
  /\ Pop
  /\ worker' = "run"
  /\ running' = Head(order)
  /\ UNCHANGED <<debVars, main, flushing, cancelled, jobDone>>

WorkerPops ==
  /\ worker = "pop"
  /\ Pop
  /\ worker' = "run"
  /\ running' = Head(order)
  /\ UNCHANGED <<debVars, main, flushing, cancelled, jobDone>>

WorkerExhausts ==
  /\ worker = "pop"
  /\ Exhausted
  /\ worker' = "exited"
  /\ UNCHANGED <<debVars, queueVars, main, flushing, running, cancelled, jobDone>>

\* The job returns; signalJobDone posts to the channel, or finds it full.
JobReturns ==
  /\ worker = "run"
  /\ worker' = "check"
  /\ running' = None
  /\ jobDone' = TRUE
  /\ UNCHANGED <<debVars, queueVars, main, flushing, cancelled>>

-----------------------------------------------------------------------------
\* Run after the watch has returned.

\* Closing first would have flushNow push to a closed queue.
CloseBeforeFlush ==
  /\ main = "loop"
  /\ FlushTake
  /\ flushing' = pending
  /\ main' = "flushing"
  /\ Close
  /\ UNCHANGED <<worker, running, cancelled, jobDone>>

\* runLoop returns and flushNow takes every pending key under the lock.
BeginFlush ==
  /\ main = "loop"
  /\ FlushTake
  /\ flushing' = pending
  /\ main' = "flushing"
  /\ UNCHANGED <<queueVars, worker, running, cancelled, jobDone>>

\* flushNow's onFlush of one key; the map gives them in any order.
FlushKey(k) ==
  /\ main = "flushing"
  /\ flushing[k] # None
  /\ Push(k, flushing[k])
  /\ flushing' = [flushing EXCEPT ![k] = None]
  /\ UNCHANGED <<debVars, main, worker, running, cancelled, jobDone>>

StopDebouncer ==
  /\ main = "flushing"
  /\ \A k \in Keys : flushing[k] = None
  /\ Stop
  /\ main' = "stopped"
  /\ UNCHANGED <<queueVars, flushing, worker, running, cancelled, jobDone>>

CloseQueue ==
  /\ main = "stopped"
  /\ Close
  /\ main' = "closed"
  /\ UNCHANGED <<debVars, flushing, worker, running, cancelled, jobDone>>

\* A completion of before the drain is taken out of the channel.
BeginDrain ==
  /\ main = "closed"
  /\ main' = "drain"
  /\ jobDone' = FALSE
  /\ UNCHANGED <<debVars, queueVars, flushing, worker, running, cancelled>>

\* The drain loop's select: a completion, the end of the worker, or one of
\* the two timers, after which Run waits for the worker it has cancelled.
Progress ==
  /\ main = "drain"
  /\ jobDone
  /\ jobDone' = FALSE
  /\ UNCHANGED <<debVars, queueVars, main, flushing, worker, running, cancelled>>

\* A cut that waits for the worker without cancelling it.
CutWithoutCancel ==
  /\ main = "drain"
  /\ main' = "cut"
  /\ UNCHANGED <<debVars, queueVars, flushing, worker, running, cancelled, jobDone>>

Cut ==
  /\ main = "drain"
  /\ main' = "cut"
  /\ cancelled' = TRUE
  /\ UNCHANGED <<debVars, queueVars, flushing, worker, running, jobDone>>

\* The drain that does not wait for the worker.
DrainedEarly ==
  /\ main \in {"drain", "cut"}
  /\ main' = "done"
  /\ UNCHANGED <<debVars, queueVars, flushing, worker, running, cancelled, jobDone>>

Drained ==
  /\ main \in {"drain", "cut"}
  /\ worker = "exited"
  /\ main' = "done"
  /\ UNCHANGED <<debVars, queueVars, flushing, worker, running, cancelled, jobDone>>

Terminated ==
  /\ main = "done"
  /\ UNCHANGED vars

-----------------------------------------------------------------------------
Timer(e) == TimerExpires(e) \/ TimerFires(e) \/ TimerFlushes(e)

Worker == WorkerChecks \/ WorkerPops \/ WorkerExhausts \/ JobReturns

Shutdown ==
  \/ BeginFlush
  \/ \E k \in Keys : FlushKey(k)
  \/ StopDebouncer
  \/ CloseQueue
  \/ BeginDrain
  \/ Progress
  \/ Cut
  \/ Drained

Next ==
  \/ \E k \in Keys : HandleEvent(k)
  \/ \E e \in Events : Timer(e)
  \/ Worker
  \/ Shutdown
  \/ Terminated

Spec == Init /\ [][Next]_vars

(***************************************************************************)
(* The runtime starts every expired timer, the scheduler runs every        *)
(* goroutine that can run, and the drain's ceiling timer always comes.     *)
(* Nothing makes a job return (a reconcile may hang) until its context is  *)
(* cancelled; nothing makes containers change or the daemon stop.          *)
(***************************************************************************)
Fairness ==
  /\ \A e \in Events : WF_vars(Timer(e))
  /\ WF_vars(WorkerChecks \/ WorkerPops \/ WorkerExhausts)
  /\ WF_vars(cancelled /\ JobReturns)
  /\ WF_vars(\E k \in Keys : FlushKey(k))
  /\ WF_vars(StopDebouncer \/ CloseQueue \/ BeginDrain)
  /\ WF_vars(Cut)
  /\ WF_vars(Drained)

FairSpec == Spec /\ Fairness

-----------------------------------------------------------------------------
InFlight == {e \in Events : flight[e] # None}

\* The keys with a change that no run has started for: in its quiet window,
\* in the hands of a timer's goroutine or of flushNow, or queued.
Outstanding ==
  {k \in Keys : pending[k] # None} \cup {keyOf[e] : e \in InFlight}
    \cup {k \in Keys : flushing[k] # None} \cup {k \in JobKeys : jobs[k] # None}

\* The queue's two structures agree: every key of the order has its one job
\* and no key waits twice.  A key with no job would have pop return the zero
\* job, whose run is nil (workQueue.pop reads pending[key] unchecked).
QueueWellFormed ==
  /\ \A i, j \in 1..Len(order) : order[i] = order[j] => i = j
  /\ \A k \in JobKeys : jobs[k] # None <=> \E i \in 1..Len(order) : order[i] = k

\* A change in its quiet window always has a timer that will still flush it,
\* however fire, observe and flushNow have replaced and removed the entries of
\* the timers map: fire deletes the map's timer, which need not be its own.
PendingHasTimer ==
  \A k \in Keys : pending[k] # None =>
    \E e \in Events : keyOf[e] = k /\ timer[e] \in {"armed", "expired"}

\* The latest event wins in the debouncer: what waits for a key is the last
\* container id observed for it ("The latest id wins", observe).
LatestWins ==
  \A k \in Keys : pending[k] # None =>
    \A e \in Events : keyOf[e] = k => e <= pending[k]

\* Who holds what: an event has a key and a timer once it has been observed,
\* the maps hold events of their own keys, and a goroutine carries one of its.
Bookkeeping ==
  /\ \A e \in Events : /\ keyOf[e] # None <=> e <= seen
                       /\ timer[e] # "unset" <=> e <= seen
                       /\ flight[e] # None => e <= seen
  /\ \A k \in Keys : /\ timers[k] # None => keyOf[timers[k]] = k
                     /\ pending[k] # None => keyOf[pending[k]] = k

\* How far Run has come tells what is stopped, flushed, closed and cancelled.
Phases ==
  /\ stopped <=> main \notin {"loop", "flushing"}
  /\ closed <=> main \in {"closed", "drain", "cut", "done"}
  /\ main = "cut" => cancelled
  /\ cancelled => main \in {"cut", "done"}
  /\ main = "done" => worker = "exited"
  /\ \A k \in Keys : /\ main # "loop" => pending[k] = None
                     /\ main # "flushing" => flushing[k] = None

\* Why the worker is where it is.
WorkerSound ==
  /\ running # None <=> worker = "run"
  /\ worker = "exited" /\ ~cancelled => closed /\ order = <<>>

\* The inductive invariant.
PipelineInv ==
  /\ TypeOK
  /\ Bookkeeping
  /\ PendingHasTimer
  /\ LatestWins
  /\ QueueWellFormed
  /\ Phases
  /\ WorkerSound

\* A Run that returns without having cut the worker leaves no job behind: only
\* a timer's goroutine that never reached the queue can still hold a change.
DrainedAtExit ==
  main = "done" /\ ~cancelled =>
    /\ worker = "exited"
    /\ Outstanding \subseteq {keyOf[e] : e \in InFlight}

\* No change is lost but by the one door left open: a key leaves Outstanding
\* when its run starts, or when a timer's goroutine that had taken it before
\* flushNow pushes it to the queue that has closed meanwhile.
LostOnlyInFlight ==
  [][\A k \in JobKeys : k \in Outstanding \ Outstanding' =>
       \/ running = None /\ running' = k
       \/ closed /\ \E e \in InFlight : keyOf[e] = k]_vars

Phase ==
  CASE main = "loop" -> "up"
    [] main = "done" -> "down"
    [] OTHER -> "closing"

\* The pipeline keeps the promise of SerialWork: a debounced, coalesced, queued
\* change is owed until its run starts, and runs never overlap.
Promise == INSTANCE SerialWork
             WITH Work <- JobKeys, Boot <- FullPass,
                  owed <- Outstanding, phase <- Phase

ImplementsSerialWork == Promise!Spec

\* Run always returns once its context is cancelled, a hung job or not (the
\* drain "always self-bounds").
ShutdownTerminates == main # "loop" ~> main = "done"

\* While the daemon is up and its jobs return, every change is eventually run.
OwedIsRun ==
  []<>(worker # "run") =>
    \A k \in JobKeys : k \in Outstanding ~> (running = k \/ main # "loop")
=============================================================================
