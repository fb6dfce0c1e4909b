-------------------------------- MODULE Fleet --------------------------------
(***************************************************************************)
(* The two processes that write to Authentik, side by side: the daemon,    *)
(* whose one worker reconciles the containers that run, and a person's     *)
(* aboard prune.  Containers come and go meanwhile.  Nothing but the server*)
(* joins the two: no lock, no lease, no version on what is sent back.      *)
(***************************************************************************)
EXTENDS Reconcile, Prune

VARIABLE containers  \* the specs of the enabled containers, one per slug

fleetVars == <<vars, pruneVars, containers>>
reconcileVars == <<step, label, local, wrote, outcome, runs>>

Enabled == {l.slug : l \in containers}

FleetTypeOK ==
  /\ TypeOK
  /\ PruneTypeOK
  /\ containers \subseteq Labels

FleetInit ==
  /\ Init
  /\ PruneInit
  /\ containers = {}

-----------------------------------------------------------------------------
ContainerStarts(l) ==
  /\ l.slug \notin Enabled
  /\ containers' = containers \cup {l}
  /\ UNCHANGED <<vars, pruneVars>>

ContainerStops(l) ==
  /\ l \in containers
  /\ containers' = containers \ {l}
  /\ UNCHANGED <<vars, pruneVars>>

\* The daemon: a run for a container it has inspected.
DaemonStarts(l) ==
  /\ l \in containers
  /\ Start(l)
  /\ UNCHANGED <<pruneVars, containers>>

DaemonRuns ==
  /\ Run \/ Fails \/ OutpostReloads
  /\ UNCHANGED <<pruneVars, containers>>

\* discoverEnabled, and the rest of prune.
PruneStarts ==
  /\ ListEnabled(Enabled)
  /\ UNCHANGED <<reconcileVars, containers>>

PruneRuns ==
  /\ PruneNext
  /\ UNCHANGED <<reconcileVars, containers>>

FleetNext ==
  \/ \E l \in Labels : ContainerStarts(l) \/ ContainerStops(l) \/ DaemonStarts(l)
  \/ DaemonRuns
  \/ PruneStarts
  \/ PruneRuns

FleetSpec == FleetInit /\ [][FleetNext]_fleetVars

-----------------------------------------------------------------------------
\* "Delete orphaned aboard-owned Authentik objects": prune takes nothing from a
\* slug that was enabled when it listed the containers, however long a person
\* thought about it and whatever the daemon did for that slug meanwhile.
SparedIsSpared ==
  [][\A s \in spared : pstep # "off" =>
       /\ apps[s] # None /\ apps'[s] = None => FALSE
       /\ apps[s] # None /\ apps'[s] # None /\ apps'[s].provider = None
            => apps[s].provider = None]_fleetVars

\* "the worst outcome is the pre-existing state, never an attached provider whose
\* application is already gone" (Teardown): what carries the marker and is in an outpost
\* has its application.  Nothing keeps the daemon from giving a container that starts
\* during the prune a new provider on the application that is about to be deleted.
AttachedHasApplication ==
  \A o \in Outposts : \A pk \in members[o] :
    Marked(pk) => AssignedSlug(pk) # None

\* The list that is sent back loses the provider that is being torn down and, at
\* worst, those that joined after the list was read: nothing else.
DetachKeepsWhatItSaw ==
  [][\A o \in Outposts : \A pk \in members[o] \ members'[o] :
       \/ pk = target.pk
       \/ pstep = "detach" /\ pk \notin target.seen
       \/ step \in {"attach", "force"} /\ pk \notin local.seen]_fleetVars

\* "pruned N orphan(s)" (deleteOrphans): of a prune that reports no failure not one
\* provider that it showed is left, however old the list was by then; one that has no
\* application, which Teardown cannot find, makes the prune report a failure.
PrunedIsGone ==
  [][pstep = "next" /\ pstep' = "off" /\ ~failed' =>
       \A o \in shown : ~Exists(o.pk)]_fleetVars

\* The order of a teardown, "detach the provider from the outpost FIRST [...], then
\* delete the provider, then delete the application": a provider of aboard's that
\* stays keeps its application, whatever the daemon does between the steps, but for
\* one that the daemon put there after the teardown had deleted the provider it read.
KeepsItsApplication ==
  [][\A pk \in PKs : Marked(pk) /\ AssignedSlug(pk) # None /\ Marked(pk)' /\ AssignedSlug(pk)' = None
       => pstep = "app" /\ pk # target.pk]_fleetVars
=============================================================================
