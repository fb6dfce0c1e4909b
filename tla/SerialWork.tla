----------------------------- MODULE SerialWork ------------------------------
(***************************************************************************)
(* What the daemon's change pipeline promises, with no timers, no queue    *)
(* and no goroutines: a key that is owed work stays owed until a run of it *)
(* starts, runs never overlap, and only a daemon that is going down may    *)
(* forget what it owes.                                                    *)
(***************************************************************************)
CONSTANTS
  Work,   \* the keys work is done for
  Boot,   \* the one that is owed from the start
  None

VARIABLES
  owed,     \* the keys with a change no run has started for
  running,  \* the key whose run is in progress, or None
  phase     \* "up", "closing", "down"

vars == <<owed, running, phase>>

Init ==
  /\ owed = {Boot}
  /\ running = None
  /\ phase = "up"

\* A change of k is observed.
Mark(k) ==
  /\ phase = "up"
  /\ owed' = owed \cup {k}
  /\ UNCHANGED <<running, phase>>

\* A run of k starts.  It settles what k was owed, unless a change of k is
\* still on its way: then k is run again.
Start(k) ==
  /\ running = None
  /\ k \in owed
  /\ running' = k
  /\ owed' \in {owed, owed \ {k}}
  /\ UNCHANGED phase

Finish ==
  /\ running # None
  /\ running' = None
  /\ UNCHANGED <<owed, phase>>

Close ==
  /\ phase = "up"
  /\ phase' = "closing"
  /\ UNCHANGED <<owed, running>>

\* On the way out a change may be forgotten.
Forget(k) ==
  /\ phase # "up"
  /\ owed' = owed \ {k}
  /\ UNCHANGED <<running, phase>>

Exit ==
  /\ phase = "closing"
  /\ running = None
  /\ phase' = "down"
  /\ UNCHANGED <<owed, running>>

Next ==
  \/ \E k \in Work : Mark(k) \/ Start(k) \/ Forget(k)
  \/ Finish
  \/ Close
  \/ Exit

Spec == Init /\ [][Next]_vars
=============================================================================
