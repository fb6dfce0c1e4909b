-------------------------------- MODULE Prune --------------------------------
(***************************************************************************)
(* aboard prune (cli/prune.go, reconcile/orphans.go), the tool's only      *)
(* delete path, as a process of its own: the enabled slugs are listed, the *)
(* orphans found and shown, and once a person agrees each of them is torn  *)
(* down, detach first, then the provider, then the application.  A failed  *)
(* teardown is reported and the next one begun.                            *)
(***************************************************************************)
EXTENDS Authentik

CONSTANT MaxPrunes  \* bound on the prunes

ASSUME MaxPrunesAssumption == MaxPrunes \in Nat

VARIABLES
  pstep,   \* where prune is, "off" when it does not run
  spared,  \* the slugs that were enabled when it listed the containers
  shown,   \* the orphans it found and showed
  plan,    \* those still to be torn down
  target,  \* the teardown in progress: its slug, what it has read
  failed,  \* this prune has not done all it planned
  prunes   \* how many there have been

pruneVars == <<pstep, spared, shown, plan, target, failed, prunes>>

PruneSteps == {"off", "scan", "ask", "next", "find", "own", "read", "detach",
               "provider", "app"}

\* An orphan with no slug is a provider no application points at.
Orphan == [slug: Slugs \cup {None}, pk: PKs, kind: Kinds]

Target == [slug: Slugs \cup {None}, pk: PKs \cup {None}, seen: SUBSET PKs]

NoTarget == [slug |-> None, pk |-> None, seen |-> {}]

PruneTypeOK ==
  /\ pstep \in PruneSteps
  /\ spared \subseteq Slugs
  /\ shown \subseteq Orphan
  /\ plan \subseteq shown
  /\ target \in Target
  /\ failed \in BOOLEAN
  /\ prunes \in 0..MaxPrunes

PruneInit ==
  /\ pstep = "off"
  /\ spared = {}
  /\ shown = {}
  /\ plan = {}
  /\ target = NoTarget
  /\ failed = FALSE
  /\ prunes = 0

-----------------------------------------------------------------------------
\* runPrune: the plan.

ListEnabled(slugs) ==
  /\ pstep = "off"
  /\ prunes < MaxPrunes
  /\ prunes' = prunes + 1
  /\ pstep' = "scan"
  /\ spared' = slugs
  /\ failed' = FALSE
  /\ UNCHANGED <<server, shown, plan, target>>

\* assigned_application_slug, as the listing of all providers carries it.
AssignedSlug(pk) ==
  IF \E s \in Slugs : apps[s] # None /\ apps[s].provider = pk
    THEN CHOOSE s \in Slugs : apps[s] # None /\ apps[s].provider = pk
    ELSE None

\* A scan that forgets the enabled slugs.
OrphansOfAll ==
  {[slug |-> AssignedSlug(pk), pk |-> pk, kind |-> providers[pk].kind] :
     pk \in {p \in PKs : Exists(p) /\ providers[p].owner # Hand}}

\* Orphans: what carries a marker name and belongs to no enabled slug.
Orphans ==
  {[slug |-> AssignedSlug(pk), pk |-> pk, kind |-> providers[pk].kind] :
     pk \in {p \in PKs : /\ Exists(p)
                         /\ providers[p].owner # Hand
                         /\ AssignedSlug(p) \notin spared}}

Scan ==
  /\ pstep = "scan"
  /\ shown' = Orphans
  /\ plan' = Orphans
  /\ pstep' = IF Orphans = {} THEN "off" ELSE "ask"
  /\ UNCHANGED <<server, spared, target, failed, prunes>>

\* --yes, or a person who agrees, after any length of time.
Agree ==
  /\ pstep = "ask"
  /\ pstep' = "next"
  /\ UNCHANGED <<server, spared, shown, plan, target, failed, prunes>>

\* --dry-run, a no, an interrupt, or a failed scan: nothing more is done.
PruneStops ==
  /\ pstep # "off"
  /\ pstep' = "off"
  /\ shown' = {}
  /\ plan' = {}
  /\ target' = NoTarget
  /\ failed' = TRUE
  /\ UNCHANGED <<server, spared, prunes>>

-----------------------------------------------------------------------------
\* deleteOrphans: one Teardown after another, OIDC first.

TakeOrphan(o) ==
  /\ pstep = "next"
  /\ o \in plan
  /\ o.kind = "oauth2" \/ \A x \in plan : x.kind # "oauth2"
  /\ plan' = plan \ {o}
  /\ target' = [NoTarget EXCEPT !.slug = o.slug]
  /\ pstep' = "find"
  /\ UNCHANGED <<server, spared, shown, failed, prunes>>

PruneEnds ==
  /\ pstep = "next"
  /\ plan = {}
  /\ pstep' = "off"
  /\ shown' = {}
  /\ target' = NoTarget
  /\ UNCHANGED <<server, spared, plan, failed, prunes>>

TeardownStep(s) ==
  /\ pstep' = s
  /\ UNCHANGED <<spared, shown, plan, failed, prunes>>

\* A failure that is printed and not counted.
TeardownFailsUncounted ==
  /\ pstep \in {"find", "own", "read", "detach", "provider", "app"}
  /\ pstep' = "next"
  /\ UNCHANGED <<server, spared, shown, plan, target, failed, prunes>>

\* A call fails, or Teardown refuses: on to the next orphan.
TeardownFails ==
  /\ pstep \in {"find", "own", "read", "detach", "provider", "app"}
  /\ pstep' = "next"
  /\ failed' = TRUE
  /\ UNCHANGED <<server, spared, shown, plan, target, prunes>>

\* A teardown that goes on with the zero provider where there is no application.
FindApplicationOrZero ==
  /\ pstep = "find"
  /\ target' = [target EXCEPT !.pk = IF target.slug = None THEN 0
                                      ELSE apps[target.slug].provider]
  /\ TeardownStep("own")
  /\ UNCHANGED server

FindApplication ==
  /\ pstep = "find"
  /\ target.slug # None
  /\ apps[target.slug] # None
  /\ target' = [target EXCEPT !.pk = apps[target.slug].provider]
  /\ TeardownStep("own")
  /\ UNCHANGED server

\* The kind decides whether there is an outpost to detach from.
CheckOwner ==
  /\ pstep = "own"
  /\ LET kind == OwnKind(target.slug, target.pk) IN
       /\ kind # None
       /\ TeardownStep(IF kind = "proxy" THEN "read" ELSE "provider")
  /\ UNCHANGED <<server, target>>

\* detachFromEmbedded: only the embedded outpost is looked at, and there may be none.
Attached == IF Embedded \in Outposts THEN members[Embedded] ELSE {}

ReadAttached ==
  /\ pstep = "read"
  /\ target' = [target EXCEPT !.seen = Attached]
  /\ TeardownStep(IF target.pk \in Attached THEN "detach" ELSE "provider")
  /\ UNCHANGED server

\* A detach that sends an empty list.
DetachAll ==
  /\ pstep = "detach"
  /\ PatchOutpost(Embedded, {})
  /\ TeardownStep("provider")
  /\ UNCHANGED target

Detach ==
  /\ pstep = "detach"
  /\ PatchOutpost(Embedded, target.seen \ {target.pk})
  /\ TeardownStep("provider")
  /\ UNCHANGED target

\* The application first, the provider next.
RemoveApplicationFirst ==
  /\ pstep = "provider"
  /\ IF apps[target.slug] # None THEN DeleteApp(target.slug) ELSE UNCHANGED server
  /\ TeardownStep("app")
  /\ UNCHANGED target

\* A provider, or an application, that is gone already is no failure.
RemoveProvider ==
  /\ pstep = "provider"
  /\ IF Exists(target.pk) THEN DeleteProvider(target.pk) ELSE UNCHANGED server
  /\ TeardownStep("app")
  /\ UNCHANGED target

RemoveApplication ==
  /\ pstep = "app"
  /\ IF apps[target.slug] # None THEN DeleteApp(target.slug) ELSE UNCHANGED server
  /\ TeardownStep("next")
  /\ UNCHANGED target

PruneNext ==
  \/ Scan
  \/ Agree
  \/ PruneStops
  \/ \E o \in plan : TakeOrphan(o)
  \/ PruneEnds
  \/ TeardownFails
  \/ FindApplication
  \/ CheckOwner
  \/ ReadAttached
  \/ Detach
  \/ RemoveProvider
  \/ RemoveApplication
=============================================================================
