----------------------------- MODULE DrainProofs -----------------------------
(***************************************************************************)
(* What the watchdog of the shutdown guarantees for every backlog of jobs, *)
(* whatever they need, and for any stall window and ceiling.               *)
(***************************************************************************)
EXTENDS Drain, FiniteSetTheorems, TLAPS

USE DrainAssumption

-----------------------------------------------------------------------------
\* Each timer and the time it has run make up what it was set to, as long as Run is
\* watching; after that no time goes by, for whoever is left to act acts at once.
Watch ==
  /\ main = "drain" => /\ elapsed + ceilLeft = Ceiling
                       /\ quiet + stallLeft = Stall
  /\ main = "done" => worker = "exited"

DrainInv == TypeOK /\ Watch /\ SelfBounded /\ HangCutPromptly

\* The worker's next step takes a job of the backlog, or leaves.
LEMMA WorkerKeepsTypes ==
  ASSUME TypeOK, WorkerNext
  PROVE  TypeOK'
<1>1. PICK k \in 0..MaxJobs : backlog \in [1..k -> Jobs]
  BY DEF TypeOK
<1>2. Len(backlog) = k
  BY <1>1
<1>3. CASE cancelled \/ at = Len(backlog)
  BY <1>3 DEF WorkerNext, TypeOK
<1>4. CASE ~(cancelled \/ at = Len(backlog))
  <2>1. at + 1 \in 1..k
    BY <1>2, <1>4 DEF TypeOK
  <2>2. backlog[at + 1] \in Nat \cup {Hung}
    BY <1>1, <2>1 DEF Jobs
  <2> QED BY <1>2, <1>4, <2>1, <2>2 DEF WorkerNext, TypeOK
<1> QED BY <1>3, <1>4

\* The clock moves only while Run watches both timers and a job is at work.
LEMMA TickMeansWatching ==
  ASSUME TypeOK, Watch, Tick
  PROVE  /\ main = "drain"
         /\ stallLeft > 0 /\ ceilLeft > 0
         /\ left = Hung \/ left \in Nat \ {0}
<1>1. worker = "run" /\ left # 0 /\ main # "cut"
  BY DEF Tick, Prompt, TypeOK, cancelled
<1>2. main = "drain"
  BY <1>1 DEF TypeOK, Watch
<1>3. stallLeft # 0 /\ ceilLeft # 0
  BY <1>2 DEF Tick, Prompt
<1> QED BY <1>1, <1>2, <1>3 DEF TypeOK

LEMMA InitSound == Init => DrainInv
<1> SUFFICES ASSUME Init PROVE DrainInv
  OBVIOUS
<1>1. TypeOK
  <2>1. PICK k \in 0..MaxJobs : backlog \in [1..k -> Jobs]
    BY DEF Init
  <2>2. Len(backlog) = k
    BY <2>1
  <2>3. backlog \in UNION {[1..n -> Jobs] : n \in 0..MaxJobs}
    BY DEF Init
  <2>4. at \in 0..Len(backlog)
    BY <2>2 DEF Init
  <2>5. /\ left \in Nat \cup {Hung}
        /\ stallLeft \in 0..Stall /\ ceilLeft \in 0..Ceiling
        /\ elapsed \in Nat /\ quiet \in Nat
    BY DEF Init
  <2>6. /\ worker \in {"pop", "run", "exited"}
        /\ jobDone \in BOOLEAN
        /\ main \in {"drain", "cut", "done"}
    BY Zenon DEF Init
  <2> QED BY <2>3, <2>4, <2>5, <2>6, Zenon DEF TypeOK
<1> QED BY <1>1 DEF Init, DrainInv, Watch, SelfBounded, HangCutPromptly

\* A cut, a reset of the stall window and a tick keep what is left of the two timers in
\* step with the time that has gone by.
LEMMA StepSound == DrainInv /\ [Next]_vars => DrainInv'
<1> SUFFICES ASSUME DrainInv, [Next]_vars
             PROVE  DrainInv'
  OBVIOUS
<1> USE DEF DrainInv
<1>1. CASE WorkerNext
  <2>1. TypeOK' BY <1>1, WorkerKeepsTypes
  <2>2. Watch' BY <1>1 DEF WorkerNext, Watch
  <2> QED BY <1>1, <2>1, <2>2 DEF WorkerNext, SelfBounded, HangCutPromptly
<1>2. CASE JobReturns
  BY <1>2 DEF JobReturns, TypeOK, Watch, SelfBounded, HangCutPromptly
<1>3. CASE Progress
  <2>1. stallLeft' \in 0..Stall /\ quiet' \in Nat
    BY <1>3 DEF Progress
  <2>2. jobDone' \in BOOLEAN
    BY <1>3, Zenon DEF Progress
  <2>3. UNCHANGED <<backlog, at, left, worker, main, ceilLeft, elapsed>>
    BY <1>3 DEF Progress
  <2>4. TypeOK'
    BY <2>1, <2>2, <2>3 DEF TypeOK
  <2>5. Watch'
    BY <1>3 DEF Progress, Watch
  <2>6. SelfBounded' /\ HangCutPromptly'
    BY <1>3 DEF Progress, SelfBounded, HangCutPromptly
  <2> QED BY <2>4, <2>5, <2>6
<1>4. CASE StallFires
  BY <1>4 DEF StallFires, TypeOK, Watch, SelfBounded, HangCutPromptly
<1>5. CASE CeilingFires
  BY <1>5 DEF CeilingFires, TypeOK, Watch, SelfBounded, HangCutPromptly
<1>6. CASE Drained
  BY <1>6 DEF Drained, TypeOK, Watch, SelfBounded, HangCutPromptly
<1>7. CASE Tick
  <2>1. /\ main = "drain" /\ stallLeft > 0 /\ ceilLeft > 0
        /\ left = Hung \/ left \in Nat \ {0}
    BY <1>7, TickMeansWatching
  <2>2. TypeOK'
    <3>1. left' \in Nat \cup {Hung}
      BY <1>7, <2>1 DEF Tick
    <3> QED BY <1>7, <2>1, <3>1 DEF Tick, TypeOK
  <2>3. Watch'
    BY <1>7, <2>1 DEF Tick, TypeOK, Watch
  <2>4. SelfBounded' /\ HangCutPromptly'
    BY <2>1, <2>2, <2>3, <1>7 DEF Tick, TypeOK, Watch, SelfBounded, HangCutPromptly
  <2> QED BY <2>2, <2>3, <2>4
<1>8. CASE Terminated \/ UNCHANGED vars
  BY <1>8 DEF Terminated, vars, TypeOK, Watch, SelfBounded, HangCutPromptly
<1> QED BY <1>1, <1>2, <1>3, <1>4, <1>5, <1>6, <1>7, <1>8 DEF Next

\* The inductive invariant: the types, the timers in step with the time that has gone by,
\* and the two bounds the drain of Run promises.
THEOREM DrainInvariant == Spec => []DrainInv
BY InitSound, StepSound, PTL DEF Spec

\* The timers, the worker and the backlog are always what their types say.
THEOREM DrainTypeCorrect == Spec => []TypeOK
<1>1. DrainInv => TypeOK
  BY DEF DrainInv
<1> QED BY <1>1, DrainInvariant, PTL

\* The drain is over by the ceiling, whatever the jobs do (the ceiling timer of Run).
THEOREM DrainIsSelfBounded == Spec => []SelfBounded
<1>1. DrainInv => SelfBounded
  BY DEF DrainInv
<1> QED BY <1>1, DrainInvariant, PTL

\* No more than a stall window goes by without a completion (the stall timer of Run).
THEOREM HangIsCutPromptly == Spec => []HangCutPromptly
<1>1. DrainInv => HangCutPromptly
  BY DEF DrainInv
<1> QED BY <1>1, DrainInvariant, PTL

-----------------------------------------------------------------------------
\* What a healthy drain keeps: the time gone by and the work that is left never exceed the
\* whole, and the job in progress ends within the window that its predecessor opened.
HealthyHolds ==
  Healthy => /\ main # "cut"
             /\ left \in Nat
             /\ elapsed + left + Cardinality(WorkAfter(at)) <= Effort
             /\ quiet < Stall
             /\ worker = "run" => IF jobDone THEN left < Stall ELSE quiet + left < Stall
             /\ worker # "run" => left = 0
             /\ worker = "pop" /\ ~jobDone => quiet = 0
             /\ worker = "exited" => at = Len(backlog)
HealthyInv == DrainInv /\ HealthyHolds

\* The jobs of a healthy backlog need whole numbers of ticks, less than the window.
LEMMA HealthyEfforts ==
  ASSUME TypeOK, Healthy
  PROVE  /\ Len(backlog) \in Nat
         /\ \A i \in 1..Len(backlog) : backlog[i] \in Nat /\ backlog[i] < Stall
<1>1. PICK k \in 0..MaxJobs : backlog \in [1..k -> Jobs]
  BY DEF TypeOK
<1>2. Len(backlog) = k
  BY <1>1
<1>3. ASSUME NEW i \in 1..k PROVE backlog[i] \in Nat /\ backlog[i] < Stall
  BY <1>1, <1>2, <1>3 DEF Healthy, Jobs
<1> QED BY <1>2, <1>3

\* The work of a healthy backlog can be counted.
LEMMA WorkIsFinite ==
  ASSUME TypeOK, Healthy, NEW i \in Nat
  PROVE  IsFiniteSet(WorkAfter(i)) /\ Cardinality(WorkAfter(i)) \in Nat
<1> DEFINE Grid == (1..Len(backlog)) \X (1..Stall)
<1>1. /\ Len(backlog) \in Nat
      /\ \A j \in 1..Len(backlog) : backlog[j] \in Nat /\ backlog[j] < Stall
  BY HealthyEfforts
<1>2. IsFiniteSet(1..Len(backlog)) /\ IsFiniteSet(1..Stall)
  BY <1>1, FS_Interval
<1>3. IsFiniteSet(Grid)
  BY <1>2, FS_Product
<1>4. ASSUME NEW w \in WorkAfter(i) PROVE w \in Grid
  <2>1. PICK j \in (i + 1)..Len(backlog) : w \in {j} \X (1..backlog[j])
    BY <1>4 DEF WorkAfter
  <2>2. j \in 1..Len(backlog)
    BY <1>1
  <2>3. \A t \in 1..backlog[j] : t \in 1..Stall
    BY <1>1, <2>2
  <2> QED BY <2>1, <2>2, <2>3
<1> HIDE DEF Grid
<1>5. WorkAfter(i) \in SUBSET Grid
  BY <1>4
<1>6. IsFiniteSet(WorkAfter(i))
  BY <1>3, <1>5, FS_Subset
<1> QED BY <1>6, FS_CardinalityType

LEMMA TicksOfAJob ==
  ASSUME NEW n \in Nat
  PROVE  IsFiniteSet(1..n) /\ Cardinality(1..n) = n
<1>1. /\ IsFiniteSet(1..n)
      /\ Cardinality(1..n) = IF 1 > n THEN 0 ELSE n - 1 + 1
  BY FS_Interval
<1> QED BY <1>1

\* Taking the next job takes its ticks, and no others, off the work that waits.
LEMMA NextJobsWork ==
  ASSUME TypeOK, Healthy, at < Len(backlog)
  PROVE  Cardinality(WorkAfter(at)) = backlog[at + 1] + Cardinality(WorkAfter(at + 1))
<1> DEFINE Own == {at + 1} \X (1..backlog[at + 1])
<1>1. /\ at \in Nat /\ at + 1 \in 1..Len(backlog) /\ Len(backlog) \in Nat
      /\ backlog[at + 1] \in Nat
  BY HealthyEfforts DEF TypeOK
<1>2. /\ IsFiniteSet(WorkAfter(at + 1)) /\ Cardinality(WorkAfter(at + 1)) \in Nat
  BY <1>1, WorkIsFinite
<1>3. /\ IsFiniteSet({at + 1}) /\ Cardinality({at + 1}) = 1
      /\ IsFiniteSet(1..backlog[at + 1])
      /\ Cardinality(1..backlog[at + 1]) = backlog[at + 1]
  <2>1. IsFiniteSet({at + 1}) /\ Cardinality({at + 1}) = 1
    BY FS_Singleton, Zenon
  <2>2. /\ IsFiniteSet(1..backlog[at + 1])
        /\ Cardinality(1..backlog[at + 1]) = backlog[at + 1]
    BY <1>1, TicksOfAJob
  <2> QED BY <2>1, <2>2
<1>4. IsFiniteSet(Own) /\ Cardinality(Own) = backlog[at + 1]
  <2>1. IsFiniteSet(Own) /\ Cardinality(Own) = 1 * backlog[at + 1]
    BY <1>3, FS_Product
  <2> QED BY <1>1, <2>1
<1>5. WorkAfter(at) = Own \cup WorkAfter(at + 1)
  <2>1. (at + 1)..Len(backlog) = {at + 1} \cup ((at + 1) + 1)..Len(backlog)
    BY <1>1
  <2> QED BY <2>1, Zenon DEF WorkAfter
<1>6. Own \cap WorkAfter(at + 1) = {}
  <2> SUFFICES ASSUME NEW w \in Own, w \in WorkAfter(at + 1) PROVE FALSE
    OBVIOUS
  <2>1. PICK j \in ((at + 1) + 1)..Len(backlog) : w \in {j} \X (1..backlog[j])
    BY DEF WorkAfter
  <2>2. w[1] = j /\ w[1] = at + 1
    BY <2>1
  <2> QED BY <1>1, <2>2
<1> HIDE DEF Own
<1>7. Cardinality(Own \cap WorkAfter(at + 1)) = 0
  BY <1>6, FS_EmptySet
<1>8. Cardinality(Own \cup WorkAfter(at + 1))
        = Cardinality(Own) + Cardinality(WorkAfter(at + 1))
          - Cardinality(Own \cap WorkAfter(at + 1))
  BY <1>2, <1>4, FS_Union
<1> QED BY <1>1, <1>2, <1>4, <1>5, <1>7, <1>8

LEMMA InitHealthy == Init => HealthyHolds
<1> SUFFICES ASSUME Init, Healthy PROVE HealthyHolds
  BY DEF HealthyHolds
<1>1. TypeOK
  BY InitSound DEF DrainInv
<1>2. Cardinality(WorkAfter(0)) \in Nat
  BY <1>1, WorkIsFinite
<1>3. Cardinality(WorkAfter(at)) = Effort
  BY DEF Init, Effort
<1> QED BY <1>2, <1>3 DEF Init, HealthyHolds, Effort

\* No step touches the backlog, so what is asked of it keeps its value.
LEMMA BacklogStands ==
  ASSUME [Next]_vars
  PROVE  /\ backlog' = backlog
         /\ Healthy' <=> Healthy
         /\ Effort' = Effort
<1>1. backlog' = backlog
  BY DEF Next, vars, WorkerNext, JobReturns, Progress, StallFires, CeilingFires, Drained,
         Tick, Terminated
<1>2. Effort' = Effort
  BY <1>1, Zenon DEF Effort, WorkAfter
<1>3. Healthy' <=> Healthy
  BY <1>1, <1>2 DEF Healthy
<1> QED BY <1>1, <1>2, <1>3

\* Neither timer can have run out on a healthy drain, so only work, its completion and the
\* clock move it.
LEMMA StepHealthy == HealthyInv /\ [Next]_vars => HealthyHolds'
<1> SUFFICES ASSUME HealthyInv, [Next]_vars, Healthy'
             PROVE  HealthyHolds'
  BY DEF HealthyHolds
<1>1. /\ TypeOK /\ Watch /\ TypeOK'
      /\ backlog' = backlog /\ Healthy /\ Effort' = Effort
  BY StepSound, BacklogStands DEF HealthyInv, DrainInv
<1>2. /\ main # "cut" /\ left \in Nat
      /\ elapsed + left + Cardinality(WorkAfter(at)) <= Effort
      /\ quiet < Stall
      /\ worker = "run" => IF jobDone THEN left < Stall ELSE quiet + left < Stall
      /\ worker # "run" => left = 0
      /\ worker = "pop" /\ ~jobDone => quiet = 0
      /\ worker = "exited" => at = Len(backlog)
  BY <1>1 DEF HealthyInv, HealthyHolds
<1>3. /\ at \in Nat /\ Len(backlog) \in Nat /\ at <= Len(backlog)
      /\ elapsed \in Nat /\ quiet \in Nat
      /\ Cardinality(WorkAfter(at)) \in Nat
  <2>1. Len(backlog) \in Nat
    BY <1>1, HealthyEfforts
  <2>2. at \in Nat /\ at <= Len(backlog) /\ elapsed \in Nat /\ quiet \in Nat
    BY <1>1, <2>1 DEF TypeOK
  <2> QED BY <1>1, <2>1, <2>2, WorkIsFinite
<1>4. Effort < Ceiling /\ Effort \in Nat
  BY <1>1, WorkIsFinite DEF Healthy, Effort
<1>5. ASSUME at' = at PROVE Cardinality(WorkAfter(at))' = Cardinality(WorkAfter(at))
  BY <1>1, <1>5, Zenon DEF WorkAfter
<1>6. CASE WorkerNext
  <2>1. CASE at = Len(backlog)
    BY <1>1, <1>2, <1>5, <1>6, <2>1 DEF WorkerNext, HealthyHolds
  <2>2. CASE at # Len(backlog)
    <3>1. /\ at + 1 \in 1..Len(backlog)
          /\ backlog[at + 1] \in Nat /\ backlog[at + 1] < Stall
      BY <1>1, <1>3, <2>2, HealthyEfforts
    <3>2. /\ worker = "pop" /\ worker' = "run" /\ at' = at + 1 /\ left' = backlog[at + 1]
          /\ UNCHANGED <<jobDone, main, elapsed, quiet>>
      BY <1>2, <1>6, <2>2 DEF WorkerNext, cancelled
    <3>3. Cardinality(WorkAfter(at)) = backlog[at + 1] + Cardinality(WorkAfter(at + 1))
      BY <1>1, <1>3, <2>2, NextJobsWork
    <3>4. Cardinality(WorkAfter(at))' = Cardinality(WorkAfter(at + 1))
      BY <1>1, <3>2, Zenon DEF WorkAfter
    <3>5. Cardinality(WorkAfter(at + 1)) \in Nat
      BY <1>1, <1>3, WorkIsFinite
    <3>6. elapsed' + left' + Cardinality(WorkAfter(at))' <= Effort'
      BY <1>1, <1>2, <1>3, <3>1, <3>2, <3>3, <3>4, <3>5
    <3> QED BY <1>2, <3>1, <3>2, <3>6 DEF HealthyHolds
  <2> QED BY <2>1, <2>2
<1>7. CASE JobReturns
  BY <1>1, <1>2, <1>5, <1>7 DEF JobReturns, HealthyHolds, cancelled
<1>8. CASE Progress
  BY <1>1, <1>2, <1>5, <1>8 DEF Progress, HealthyHolds
<1>9. CASE StallFires
  BY <1>1, <1>2, <1>3, <1>9 DEF StallFires, Watch
<1>10. CASE CeilingFires
  <2>1. elapsed = Ceiling
    BY <1>1, <1>3, <1>10 DEF CeilingFires, Watch
  <2> QED BY <1>2, <1>3, <1>4, <2>1
<1>11. CASE Drained
  BY <1>1, <1>2, <1>5, <1>11 DEF Drained, HealthyHolds
<1>12. CASE Tick
  <2>1. main = "drain" /\ left \in Nat \ {0}
    BY <1>1, <1>2, <1>12, TickMeansWatching
  <2>2. worker = "run" /\ ~jobDone
    BY <1>2, <1>12, <2>1 DEF Tick, Prompt
  <2>3. /\ elapsed' = elapsed + 1 /\ left' = left - 1 /\ quiet' = quiet + 1
        /\ UNCHANGED <<at, worker, jobDone, main>>
    BY <1>2, <1>12 DEF Tick
  <2>4. elapsed' + left' + Cardinality(WorkAfter(at))' <= Effort'
    BY <1>1, <1>2, <1>3, <1>5, <2>1, <2>3
  <2>5. quiet' < Stall /\ quiet' + left' < Stall /\ left' \in Nat
    BY <1>2, <1>3, <2>1, <2>2, <2>3
  <2> QED BY <1>2, <2>2, <2>3, <2>4, <2>5 DEF HealthyHolds
<1>13. CASE Terminated \/ UNCHANGED vars
  BY <1>1, <1>2, <1>5, <1>13 DEF Terminated, vars, HealthyHolds
<1> QED BY <1>6, <1>7, <1>8, <1>9, <1>10, <1>11, <1>12, <1>13 DEF Next

\* The invariant of the healthy drain, beside that of every drain.
THEOREM HealthyInvariant == Spec => []HealthyInv
<1>1. Init => HealthyInv
  BY InitSound, InitHealthy DEF HealthyInv
<1>2. HealthyInv /\ [Next]_vars => HealthyInv'
  BY StepSound, StepHealthy DEF HealthyInv
<1> QED BY <1>1, <1>2, PTL DEF Spec

\* A backlog whose jobs each fit the stall window and together fit the ceiling is never cut
\* and is run to its end, whatever the select takes first ("drains in full", Run).
THEOREM HealthyIsDrained == Spec => []HealthyDrainsInFull
<1>1. HealthyInv => HealthyDrainsInFull
  BY DEF HealthyInv, DrainInv, HealthyHolds, HealthyDrainsInFull, Watch
<1> QED BY <1>1, HealthyInvariant, PTL
=============================================================================
