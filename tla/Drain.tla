-------------------------------- MODULE Drain --------------------------------
(***************************************************************************)
(* The watchdog of the graceful shutdown (daemon/daemon.go, Run, after the *)
(* queue has closed), with a clock: the worker drains a backlog while Run  *)
(* watches for progress, and cancels it when no job has completed for      *)
(* Stall ticks or when Ceiling ticks have gone by.                         *)
(*                                                                         *)
(* A tick is long against a goroutine switch: whatever can run at once     *)
(* runs before the next tick.  Of several ready channels the drain's       *)
(* select takes any.                                                       *)
(***************************************************************************)
EXTENDS Integers, Sequences, FiniteSets

CONSTANTS
  Stall,    \* shutdownStall, in ticks
  Ceiling,  \* shutdownCeiling, in ticks
  Efforts,  \* the ticks of work a job of the backlog may need
  Hung,     \* the effort of a job that does not return until it is cancelled
  MaxJobs   \* bound on the backlog

ASSUME DrainAssumption ==
  /\ Stall \in Nat \ {0}
  /\ Ceiling \in Nat \ {0}
  /\ MaxJobs \in Nat
  /\ Efforts \subseteq Nat
  /\ Hung \notin Nat

VARIABLES
  backlog,     \* the efforts of the jobs, the one in progress first (fixed)
  at,          \* how many of them the worker has started
  left,        \* the work left of the job in progress
  worker,      \* "pop", "run" or "exited"
  jobDone,     \* a completion waits in the jobDone channel
  main,        \* "drain", "cut" (waiting for the cancelled worker), "done"
  stallLeft,   \* ticks until the stall timer fires; 0: stall.C is ready
  ceilLeft,    \* ticks until the ceiling timer fires; 0: ceiling.C is ready
  elapsed,     \* ticks since the drain began
  quiet        \* ticks since the last completion Run heard of

vars == <<backlog, at, left, worker, jobDone, main, stallLeft, ceilLeft,
          elapsed, quiet>>

Jobs == Efforts \cup {Hung}

TypeOK ==
  /\ backlog \in UNION {[1..n -> Jobs] : n \in 0..MaxJobs}
  /\ at \in 0..Len(backlog)
  /\ left \in Nat \cup {Hung}
  /\ worker \in {"pop", "run", "exited"}
  /\ jobDone \in BOOLEAN
  /\ main \in {"drain", "cut", "done"}
  /\ stallLeft \in 0..Stall
  /\ ceilLeft \in 0..Ceiling
  /\ elapsed \in Nat
  /\ quiet \in Nat

Init ==
  /\ backlog \in UNION {[1..n -> Jobs] : n \in 0..MaxJobs}
  /\ at = 0
  /\ left = 0
  /\ worker = "pop"
  /\ jobDone = FALSE
  /\ main = "drain"
  /\ stallLeft = Stall
  /\ ceilLeft = Ceiling
  /\ elapsed = 0
  /\ quiet = 0

cancelled == main = "cut"

-----------------------------------------------------------------------------
\* A worker that runs the zero job of a pop that reported false.
WorkerNextPastEnd ==
  /\ worker = "pop"
  /\ IF cancelled
       THEN /\ worker' = "exited"
            /\ UNCHANGED <<at, left>>
       ELSE /\ worker' = "run"
            /\ at' = at + 1
            /\ left' = IF at < Len(backlog) THEN backlog[at + 1] ELSE 0
  /\ UNCHANGED <<backlog, jobDone, main, stallLeft, ceilLeft, elapsed, quiet>>

\* runWorker: the context is looked at before each pop.
WorkerNext ==
  /\ worker = "pop"
  /\ IF cancelled \/ at = Len(backlog)
       THEN /\ worker' = "exited"
            /\ UNCHANGED <<at, left>>
       ELSE /\ worker' = "run"
            /\ at' = at + 1
            /\ left' = backlog[at + 1]
  /\ UNCHANGED <<backlog, jobDone, main, stallLeft, ceilLeft, elapsed, quiet>>

\* A job that does not watch its context.
JobReturnsInItsOwnTime ==
  /\ worker = "run"
  /\ left = 0
  /\ worker' = "pop"
  /\ jobDone' = TRUE
  /\ UNCHANGED <<backlog, at, left, main, stallLeft, ceilLeft, elapsed, quiet>>

\* The job returns, its work done or its context cancelled: signalJobDone.
JobReturns ==
  /\ worker = "run"
  /\ left = 0 \/ cancelled
  /\ worker' = "pop"
  /\ jobDone' = TRUE
  /\ UNCHANGED <<backlog, at, left, main, stallLeft, ceilLeft, elapsed, quiet>>

-----------------------------------------------------------------------------
\* Progress that leaves the stall timer running, and one that also grants a
\* new ceiling.
ProgressWithoutReset ==
  /\ main = "drain"
  /\ jobDone
  /\ jobDone' = FALSE
  /\ quiet' = 0
  /\ UNCHANGED <<backlog, at, left, worker, main, stallLeft, ceilLeft, elapsed>>

ProgressResettingBoth ==
  /\ main = "drain"
  /\ jobDone
  /\ jobDone' = FALSE
  /\ stallLeft' = Stall
  /\ ceilLeft' = Ceiling
  /\ quiet' = 0
  /\ UNCHANGED <<backlog, at, left, worker, main, elapsed>>

\* A completion: the stall window starts again (Stop, drain the channel, Reset).
Progress ==
  /\ main = "drain"
  /\ jobDone
  /\ jobDone' = FALSE
  /\ stallLeft' = Stall
  /\ quiet' = 0
  /\ UNCHANGED <<backlog, at, left, worker, main, ceilLeft, elapsed>>

\* A stall that warns and waits once more.
StallRearms ==
  /\ main = "drain"
  /\ stallLeft = 0
  /\ stallLeft' = Stall
  /\ UNCHANGED <<backlog, at, left, worker, jobDone, main, ceilLeft, elapsed, quiet>>

StallFires ==
  /\ main = "drain"
  /\ stallLeft = 0
  /\ main' = "cut"
  /\ UNCHANGED <<backlog, at, left, worker, jobDone, stallLeft, ceilLeft,
                 elapsed, quiet>>

CeilingFires ==
  /\ main = "drain"
  /\ ceilLeft = 0
  /\ main' = "cut"
  /\ UNCHANGED <<backlog, at, left, worker, jobDone, stallLeft, ceilLeft,
                 elapsed, quiet>>

Drained ==
  /\ main \in {"drain", "cut"}
  /\ worker = "exited"
  /\ main' = "done"
  /\ UNCHANGED <<backlog, at, left, worker, jobDone, stallLeft, ceilLeft,
                 elapsed, quiet>>

-----------------------------------------------------------------------------
Prompt ==
  \/ worker = "pop"
  \/ worker = "run" /\ (left = 0 \/ cancelled)
  \/ main = "drain" /\ (jobDone \/ stallLeft = 0 \/ ceilLeft = 0)
  \/ worker = "exited"

\* One tick of the clock: both timers and the job in progress advance.
Tick ==
  /\ ~Prompt
  /\ stallLeft' = stallLeft - 1
  /\ ceilLeft' = ceilLeft - 1
  /\ left' = IF left = Hung THEN Hung ELSE left - 1
  /\ elapsed' = elapsed + 1
  /\ quiet' = quiet + 1
  /\ UNCHANGED <<backlog, at, worker, jobDone, main>>

Terminated ==
  /\ main = "done"
  /\ UNCHANGED vars

Next ==
  \/ WorkerNext
  \/ JobReturns
  \/ Progress
  \/ StallFires
  \/ CeilingFires
  \/ Drained
  \/ Tick
  \/ Terminated

Spec == Init /\ [][Next]_vars

FairSpec == Spec /\ WF_vars(Next)

-----------------------------------------------------------------------------
\* The ticks of work of the jobs after the first i, one by one.
WorkAfter(i) == UNION {{j} \X (1..backlog[j]) : j \in (i + 1)..Len(backlog)}

Effort == Cardinality(WorkAfter(0))

\* Every job makes progress within the stall window, and all of them together
\* fit under the ceiling.
Healthy ==
  /\ \A i \in 1..Len(backlog) : backlog[i] # Hung /\ backlog[i] < Stall
  /\ Effort < Ceiling

\* "A healthy backlog that keeps completing jobs drains in full, however long
\* that takes" (daemon.go, Run): it is never cut.  A job that needs the whole window
\* is not healthy: its completion and the stall timer are ready together, and the
\* select may take the timer.
HealthyDrainsInFull ==
  Healthy => /\ main # "cut"
             /\ main = "done" => at = Len(backlog)

\* The drain is over, the worker's cancellation included, by the ceiling,
\* whatever the jobs do and however often they report progress.
SelfBounded == elapsed <= Ceiling

\* A hang is cut Stall ticks after the last completion, not at the ceiling.
HangCutPromptly == quiet <= Stall

\* Run returns, and not before the worker has.
DrainEnds == <>(main = "done" /\ worker = "exited")
=============================================================================
