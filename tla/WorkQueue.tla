------------------------------ MODULE WorkQueue ------------------------------
(***************************************************************************)
(* daemon/worker.go, workQueue: a FIFO of keys with one waiting job per    *)
(* key.  A job is known by the event it was flushed for; the full pass's   *)
(* by FullPass.                                                            *)
(***************************************************************************)
EXTENDS Changes, Sequences

VARIABLES
  order,   \* workQueue.order
  jobs,    \* workQueue.pending: the waiting job of each key
  closed   \* workQueue.closed

queueVars == <<order, jobs, closed>>

Payloads == Events \cup {FullPass}

QueueTypeOK ==
  /\ order \in Seq(JobKeys)
  /\ jobs \in [JobKeys -> Opt(Payloads)]
  /\ closed \in BOOLEAN

\* The queue as the worker first finds it: Run has queued the boot pass.
QueueInit ==
  /\ order = <<FullPass>>
  /\ jobs = [k \in JobKeys |-> IF k = FullPass THEN FullPass ELSE None]
  /\ closed = FALSE

\* push: dropped when closed; replaces the job of a key already waiting,
\* which keeps its place; else joins at the back.
Push(k, j) ==
  /\ UNCHANGED closed
  /\ IF closed
       THEN UNCHANGED <<order, jobs>>
       ELSE /\ order' = IF jobs[k] = None THEN Append(order, k) ELSE order
            /\ jobs' = [jobs EXCEPT ![k] = j]

\* A pop that leaves the job in the map.
PopKeepingJob ==
  /\ order # <<>>
  /\ order' = Tail(order)
  /\ UNCHANGED <<jobs, closed>>

\* pop, once it has something to return.
Pop ==
  /\ order # <<>>
  /\ order' = Tail(order)
  /\ jobs' = [jobs EXCEPT ![Head(order)] = None]
  /\ UNCHANGED closed

\* A pop that reports false as soon as the queue is closed.
ExhaustedWhenClosed == closed

\* pop reports false: closed and drained.
Exhausted == order = <<>> /\ closed

Close ==
  /\ closed' = TRUE
  /\ UNCHANGED <<order, jobs>>
=============================================================================
