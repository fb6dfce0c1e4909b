------------------------------- MODULE Changes -------------------------------
(***************************************************************************)
(* The vocabulary the daemon's change pipeline shares: the service keys    *)
(* container events are debounced by, the reserved key of the full pass,   *)
(* and the events themselves.  An event is named by its position in the    *)
(* stream the watch hands to the daemon; that number also stands for the   *)
(* container id it carries and for the timer it arms, so that a later      *)
(* event is always told from an earlier one.                               *)
(***************************************************************************)
EXTENDS Integers

CONSTANTS
  Keys,       \* debounce keys: the stable service identities
  FullPass,   \* fullPassKey, outside the service-name space
  MaxEvents,  \* bound on the events of one run of the daemon
  None        \* "no entry" in a map, "no job" at the worker

ASSUME MaxEventsAssumption == MaxEvents \in Nat
ASSUME KeysAssumption ==
  /\ FullPass \notin Keys
  /\ None \notin Keys \cup {FullPass}
  /\ None \notin 1..MaxEvents
  /\ FullPass \notin 1..MaxEvents

Events  == 1..MaxEvents
JobKeys == Keys \cup {FullPass}

Opt(S) == S \cup {None}
=============================================================================
