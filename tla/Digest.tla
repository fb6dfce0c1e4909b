------------------------------- MODULE Digest --------------------------------
(***************************************************************************)
(* daemon/digest.go: the goroutine that reads the daemon's state beside the*)
(* worker (Sync), the sticky errors under one lock and the orphans under   *)
(* the next, and names what it has read.                                   *)
(***************************************************************************)
EXTENDS Sync

VARIABLES
  reading,  \* SendDigest is between its reads
  unnamed,  \* those in trouble since it began to read, without an error it has read
  missed    \* those in trouble ever since a digest that did not name them

digestVars == <<reading, unnamed, missed>>

WithErrors == {s \in Slugs : sticky[s] # {}}
Trouble == WithErrors \cup orphans

DigestInit ==
  /\ Init
  /\ reading = FALSE
  /\ unnamed = {}
  /\ missed = {}

\* The ticker fires, at any time: d.sticky.list().
ReadSticky ==
  /\ ~reading
  /\ reading' = TRUE
  /\ unnamed' = Trouble \ WithErrors
  /\ UNCHANGED <<vars, missed>>

\* A digest that leaves the orphans to the alert that was sent for them.
ReadNewOrphans ==
  /\ reading
  /\ reading' = FALSE
  /\ unnamed' = {}
  /\ missed' = unnamed \ (orphans \ told)
  /\ UNCHANGED vars

\* d.snapshotOrphans(), and the digest is sent.  The views it also prints, under a third
\* lock, name what was reconciled, in trouble or not.
ReadOrphans ==
  /\ reading
  /\ reading' = FALSE
  /\ unnamed' = {}
  /\ missed' = unnamed \ orphans
  /\ UNCHANGED vars

DaemonStep ==
  /\ Next
  /\ unnamed' = unnamed \cap Trouble'
  /\ missed' = missed \cap Trouble'
  /\ UNCHANGED reading

DigestNext == ReadSticky \/ ReadOrphans \/ DaemonStep

DigestSpec == DigestInit /\ [][DigestNext]_<<vars, digestVars>>

-----------------------------------------------------------------------------
\* "The digest re-emits the sticky errors and the orphan set until they are fixed"
\* (runDigest), although the two are read one after the other: a slug that moves from
\* the orphans to the errors between the reads is in neither list, but not in two digests
\* running, as nothing moves back without having been in neither.
MissedAtMostOnce ==
  [][reading /\ ~reading' => missed \cap missed' = {}]_<<vars, digestVars>>
=============================================================================
