------------------------------ MODULE Reconcile ------------------------------
(***************************************************************************)
(* reconcile.Reconcile: one container's labels converged onto Authentik,   *)
(* one REST call per step, by the daemon's single worker.  Runs follow one *)
(* another (Pipeline.tla), for any labels a container may carry by then,   *)
(* and any of them may be broken off at any call: an error answer, an      *)
(* answer lost after the write was made, a cancelled context or a crash    *)
(* all leave what has been written and forget the rest.                    *)
(***************************************************************************)
EXTENDS Authentik

CONSTANTS
  Labels,        \* the specs containers may ask for
  CreateGroups,  \* ABOARD_CREATE_GROUPS
  MaxRuns        \* bound on the runs

ASSUME MaxRunsAssumption == MaxRuns \in Nat

VARIABLES
  step,     \* where Reconcile is, "idle" between runs
  label,    \* the spec of the run, or of the last one
  local,    \* what the run has read and not yet used
  wrote,    \* what the run has written: "groups", "objects"
  outcome,  \* how the last run ended
  runs      \* how many there have been

locals == <<label, runs>>
vars == <<server, step, label, local, wrote, outcome, runs>>

Label == [slug: Slugs, kind: Kinds \ {"other"}, host: Hosts \cup {None},
          gates: SUBSET (Groups \cup Policies), title: Titles, mode: Modes,
          adopt: BOOLEAN, outpost: Outposts \cup {None}]

ASSUME LabelsAssumption ==
  /\ Labels \subseteq Label /\ None \notin Labels
  /\ \A l \in Labels : l.kind = "proxy" <=> l.host # None
  /\ CreateGroups \in BOOLEAN

Steps == {"idle", "resolve", "look", "own", "gate", "collide", "provider",
          "create", "patch", "app", "list", "unbind", "bind", "outpost",
          "attach", "probe", "force", "poll"}

\* The variables of Reconcile: app and appExists, own, adoptPK, providerPK,
\* the stray and the missing bindings, and the outpost as it was read.
Local == [app: App \cup {None}, own: Kinds \cup {None}, adopt: PKs \cup {None},
          pk: PKs \cup {None}, stray: SUBSET Gates, missing: SUBSET Gates,
          seen: SUBSET PKs]

Blank == [app |-> None, own |-> None, adopt |-> None, pk |-> None,
          stray |-> {}, missing |-> {}, seen |-> {}]

Outcomes == {"none", "running", "live", "converged", "failed", "refused",
             "missing", "duplicate"}

TypeOK ==
  /\ ServerTypeOK
  /\ step \in Steps
  /\ label \in Labels \cup {None}
  /\ local \in Local
  /\ wrote \subseteq {"groups", "objects"}
  /\ outcome \in Outcomes
  /\ runs \in 0..MaxRuns

Init ==
  /\ ServerInit
  /\ step = "idle"
  /\ label = None
  /\ local = Blank
  /\ wrote = {}
  /\ outcome = "none"
  /\ runs = 0

-----------------------------------------------------------------------------
\* The shapes a step can have.

Goto(s) ==
  /\ step' = s
  /\ UNCHANGED <<locals, outcome>>

End(o) ==
  /\ step' = "idle"
  /\ local' = Blank
  /\ outcome' = o
  /\ UNCHANGED locals

Reads == UNCHANGED <<server, wrote>>

Writes(what) == wrote' = wrote \cup {what}

Keep == UNCHANGED local

Start(l) ==
  /\ step = "idle"
  /\ runs < MaxRuns
  /\ runs' = runs + 1
  /\ step' = "resolve"
  /\ label' = l
  /\ outcome' = "running"
  /\ wrote' = {}
  /\ UNCHANGED <<server, local>>

\* A bind that warns and carries on.
FailsOrGoesOn ==
  /\ step # "idle"
  /\ IF step = "bind" THEN Goto("outpost") /\ Keep ELSE End("failed")
  /\ Reads

\* Any call may fail, and any failure ends the run where it is.
Fails ==
  /\ step # "idle"
  /\ End("failed")
  /\ Reads

-----------------------------------------------------------------------------
\* Step a: the gates, the application, its owner, the adoption gate.

MissingGroups == (label.gates \cap Groups) \ groups

ResolveBindings ==
  /\ step = "resolve"
  /\ Reads
  /\ IF MissingGroups = {} THEN Goto("look") /\ Keep
                           ELSE ~CreateGroups /\ End("missing")

\* ABOARD_CREATE_GROUPS: a missing group is made, empty.
MakeGroup(g) ==
  /\ step = "resolve"
  /\ CreateGroups
  /\ g \in MissingGroups
  /\ CreateGroup(g)
  /\ Writes("groups")
  /\ Goto("resolve") /\ Keep

LookUpApplication ==
  /\ step = "look"
  /\ local' = [local EXCEPT !.app = apps[label.slug]]
  /\ Goto(IF apps[label.slug] = None
            THEN IF label.kind = "proxy" THEN "collide" ELSE "provider"
            ELSE "own")
  /\ Reads

\* The marker put on before the gate has agreed.
MarkBeforeGate ==
  /\ step = "own"
  /\ LET own == OwnKind(label.slug, local.app.provider)
         pk == local.app.provider IN
       /\ local' = [local EXCEPT !.own = own]
       /\ IF own = None /\ Exists(pk) /\ ~NameTaken(label.slug, pk)
            THEN /\ PatchProvider(pk, label.slug, providers[pk].kind, providers[pk].host)
                 /\ Writes("objects")
            ELSE Reads
       /\ Goto(IF own # label.kind THEN "gate"
               ELSE IF label.kind = "proxy" THEN "collide" ELSE "provider")

ResolveOwnership ==
  /\ step = "own"
  /\ LET own == OwnKind(label.slug, local.app.provider) IN
       /\ local' = [local EXCEPT !.own = own]
       /\ Goto(IF own # label.kind THEN "gate"
               ELSE IF label.kind = "proxy" THEN "collide" ELSE "provider")
  /\ Reads

\* A provider of another kind is never taken over; what cannot be looked up,
\* or is of a kind aboard does not know, is let through.
TypeChange ==
  \/ local.own # None
  \/ /\ Exists(local.app.provider)
     /\ providers[local.app.provider].kind \notin {"other", label.kind}

\* The material differences: title, policy engine mode and binding set.
Differs(app, bound, l) ==
  \/ app.title # l.title
  \/ app.mode # l.mode
  \/ bound # l.gates

Consents(app, bound, l) == l.adopt \/ ~Differs(app, bound, l)

\* A gate that does not compare the bindings.
AdoptionGateUnbound ==
  /\ step = "gate"
  /\ Reads
  /\ IF TypeChange \/ ~Consents(local.app, label.gates, label)
       THEN End("refused")
       ELSE /\ local' = [local EXCEPT !.adopt = local.app.provider]
            /\ Goto(IF label.kind = "proxy" THEN "collide" ELSE "provider")

AdoptionGate ==
  /\ step = "gate"
  /\ Reads
  /\ IF TypeChange \/ ~Consents(local.app, bindings[label.slug], label)
       THEN End("refused")
       ELSE /\ local' = [local EXCEPT !.adopt = local.app.provider]
            /\ Goto(IF label.kind = "proxy" THEN "collide" ELSE "provider")

\* A check that looks only at what is attached.
HostTakenAttached ==
  \E pk \in members[Embedded] \ {local.adopt} :
    /\ Exists(pk)
    /\ providers[pk].kind = "proxy"
    /\ providers[pk].owner \notin {Hand, label.slug}
    /\ providers[pk].host = label.host

\* Another aboard-owned proxy provider claims the host.
HostTaken ==
  \E pk \in PKs \ {local.adopt} :
    /\ Exists(pk)
    /\ providers[pk].kind = "proxy"
    /\ providers[pk].owner \notin {Hand, label.slug}
    /\ providers[pk].host = label.host

CheckExternalHost ==
  /\ step = "collide"
  /\ Reads
  /\ IF HostTaken THEN End("duplicate") ELSE Goto("provider") /\ Keep

-----------------------------------------------------------------------------
\* Step b: the provider, adopted in place, found by its name, or created.

LookUpProvider ==
  /\ step = "provider"
  /\ Reads
  /\ IF local.adopt # None
       THEN local' = [local EXCEPT !.pk = local.adopt] /\ Goto("patch")
       ELSE LET found == ByName(label.slug, label.kind) IN
            IF found = {}
              THEN Goto("create") /\ Keep
              ELSE /\ local' = [local EXCEPT !.pk = CHOOSE pk \in found : TRUE]
                   /\ Goto("patch")

MakeProvider ==
  /\ step = "create"
  /\ CreateProvider(label.slug, label.kind, label.host)
  /\ local' = [local EXCEPT !.pk = lastPK + 1]
  /\ Writes("objects")
  /\ Goto("app")

ReshapeProvider ==
  /\ step = "patch"
  /\ PatchProvider(local.pk, label.slug, label.kind, label.host)
  /\ Writes("objects")
  /\ Goto("app") /\ Keep

-----------------------------------------------------------------------------
\* Step c: the application, created or patched by what was read at the start.

\* A PATCH that leaves the policy engine mode to the UI.
ConvergeAppKeepingMode ==
  /\ step = "app"
  /\ IF local.app = None
       THEN CreateApp(label.slug, local.pk, label.title, label.mode)
       ELSE PatchApp(label.slug, local.pk, label.title, local.app.mode)
  /\ Writes("objects")
  /\ Goto("list") /\ Keep

ConvergeApplication ==
  /\ step = "app"
  /\ IF local.app = None
       THEN CreateApp(label.slug, local.pk, label.title, label.mode)
       ELSE PatchApp(label.slug, local.pk, label.title, label.mode)
  /\ Writes("objects")
  /\ Goto("list") /\ Keep

-----------------------------------------------------------------------------
\* Step d: the bindings, the strays out first, then the missing ones in.

ListBindings ==
  /\ step = "list"
  /\ local' = [local EXCEPT !.stray = bindings[label.slug] \ label.gates,
                            !.missing = label.gates \ bindings[label.slug]]
  /\ Goto("unbind")
  /\ Reads

RemoveStray(g) ==
  /\ step = "unbind"
  /\ g \in local.stray
  /\ DeleteBinding(label.slug, g)
  /\ local' = [local EXCEPT !.stray = @ \ {g}]
  /\ Writes("objects")
  /\ Goto("unbind")

StraysRemoved ==
  /\ step = "unbind"
  /\ local.stray = {}
  /\ Goto("bind") /\ Keep
  /\ Reads

Bind(g) ==
  /\ step = "bind"
  /\ g \in local.missing
  /\ CreateBinding(label.slug, g)
  /\ local' = [local EXCEPT !.missing = @ \ {g}]
  /\ Writes("objects")
  /\ Goto("bind")

\* All bound: an OIDC or SAML run is over.
Bound ==
  /\ step = "bind"
  /\ local.missing = {}
  /\ Reads
  /\ IF label.kind = "proxy" THEN Goto("outpost") /\ Keep
                             ELSE End("converged")

-----------------------------------------------------------------------------
\* Step e: the attach, and whether the running outpost serves the host.

\* An outpost that is read without looking whether there is one.
ReadOutpostUnchecked ==
  /\ step = "outpost"
  /\ Reads
  /\ local' = [local EXCEPT !.seen = IF label.outpost \in Outposts
                                       THEN members[label.outpost] ELSE {None}]
  /\ Goto("attach")

OutpostMissing ==
  /\ step = "outpost"
  /\ label.outpost \notin Outposts
  /\ End("missing")
  /\ Reads

ReadOutpost ==
  /\ step = "outpost"
  /\ label.outpost \in Outposts
  /\ Reads
  /\ LET seen == members[label.outpost] IN
       IF local.pk \in seen /\ label.outpost # Embedded
         THEN End("live")
         ELSE /\ local' = [local EXCEPT !.seen = seen]
              /\ Goto(IF local.pk \in seen THEN "probe" ELSE "attach")

\* A PATCH of the one provider, as if the call added to the list.
AttachAlone ==
  /\ step = "attach"
  /\ PatchOutpost(label.outpost, {local.pk})
  /\ Writes("objects")
  /\ IF label.outpost = Embedded THEN Goto("probe") /\ Keep ELSE End("live")

\* A named outpost cannot be probed: the attach is all there is to report.
Attach ==
  /\ step = "attach"
  /\ PatchOutpost(label.outpost, local.seen \cup {local.pk})
  /\ Writes("objects")
  /\ IF label.outpost = Embedded THEN Goto("probe") /\ Keep ELSE End("live")

Serves == label.host \in served

Probe ==
  /\ step = "probe"
  /\ Reads
  /\ IF Serves THEN End("live") ELSE Goto("force") /\ Keep

\* The list is sent once more, from what was read before the attach.
ForceReload ==
  /\ step = "force"
  /\ PatchOutpost(label.outpost, local.seen \cup {local.pk})
  /\ Writes("objects")
  /\ Goto("poll") /\ Keep

\* The poll's deadline is one of the failures.
PollServed ==
  /\ step = "poll"
  /\ Serves
  /\ End("live")
  /\ Reads

OutpostReloads ==
  /\ Reload
  /\ UNCHANGED <<step, label, local, wrote, outcome, runs>>

-----------------------------------------------------------------------------
Run ==
  \/ ResolveBindings
  \/ \E g \in Groups : MakeGroup(g)
  \/ LookUpApplication
  \/ ResolveOwnership
  \/ AdoptionGate
  \/ CheckExternalHost
  \/ LookUpProvider
  \/ MakeProvider
  \/ ReshapeProvider
  \/ ConvergeApplication
  \/ ListBindings
  \/ \E g \in Gates : RemoveStray(g) \/ Bind(g)
  \/ StraysRemoved
  \/ Bound
  \/ OutpostMissing
  \/ ReadOutpost
  \/ Attach
  \/ Probe
  \/ ForceReload
  \/ PollServed

Next ==
  \/ \E l \in Labels : Start(l)
  \/ Run
  \/ Fails
  \/ OutpostReloads

Spec == Init /\ [][Next]_vars

-----------------------------------------------------------------------------
Marked(pk) == Exists(pk) /\ providers[pk].owner # Hand

\* "Two providers on one external_host collide in the embedded outpost's
\* host-to-provider map [...] and auth 302-loops forever" (CodeDuplicateHost):
\* no two aboard-owned proxy providers ever claim one host, whatever labels
\* changed and wherever the runs before were broken off.
OneProviderPerHost ==
  \A p, q \in PKs :
    Marked(p) /\ Marked(q) /\ providers[p].kind = "proxy" /\ providers[q].kind = "proxy"
      /\ providers[p].host = providers[q].host => p = q

\* An application of a person's making: no marker-named provider.
HandMade(s) == apps[s] # None /\ ~Marked(apps[s].provider)

\* The run in progress may take it over: it is for this slug and this kind, and
\* changes nothing material or has aboard.adopt.
MayTake(s) ==
  /\ label # None
  /\ label.slug = s
  /\ Consents(apps[s], bindings[s], label)
  /\ Exists(apps[s].provider) =>
       providers[apps[s].provider].kind \in {"other", label.kind}

\* "a hand-made object is safe" from a run that may not take it over: nothing of it
\* changes, its bindings, its provider and its place in the outpost included, whatever
\* the runs for its slug have written beside it.  A run whose label differs in nothing
\* material may take it without aboard.adopt and give its provider another host.
HandMadeUntouched ==
  [][\A s \in Slugs : HandMade(s) /\ ~MayTake(s) =>
       /\ apps'[s] = apps[s]
       /\ bindings'[s] = bindings[s]
       /\ apps[s].provider # None =>
            /\ providers'[apps[s].provider] = providers[apps[s].provider]
            /\ \A o \in Outposts :
                 apps[s].provider \in members[o] => apps[s].provider \in members'[o]]_vars

\* The ordering contract: a provider joins an outpost only once its application
\* points at it and carries exactly the labels' gates and mode, so that a run
\* which failed before leaves nothing live.
GatedBeforeAttach ==
  [][\A o \in Outposts : \A pk \in members'[o] \ members[o] :
       \E s \in Slugs :
         /\ apps[s] # None /\ apps[s].provider = pk
         /\ s = label.slug
         /\ bindings[s] = label.gates
         /\ apps[s].mode = label.mode]_vars

\* The attach is a read-modify-write "never dropping a provider it does not
\* own": no outpost ever loses a provider to a reconcile.
OutpostKeepsAll ==
  [][\A o \in Outposts : members[o] \subseteq members'[o]]_vars

\* A run that reports success has converged all of it, whatever the runs before
\* left half done: the marker-named provider has the label's shape, the
\* application points at it, the bindings are the desired set, and a
\* forward-auth provider is in its outpost.
ConvergedOnSuccess ==
  outcome \in {"live", "converged"} =>
    /\ apps[label.slug] # None
    /\ apps[label.slug].title = label.title
    /\ apps[label.slug].mode = label.mode
    /\ apps[label.slug].provider # None
    /\ providers[apps[label.slug].provider] =
         [owner |-> label.slug, kind |-> label.kind, host |-> label.host]
    /\ bindings[label.slug] = label.gates
    /\ label.kind = "proxy" =>
         apps[label.slug].provider \in members[label.outpost]

\* Adoption and host refusals come before any write to an object: "so a refused
\* adoption also leaves nothing behind", "BEFORE any write, so the collision is
\* never created".
RefusedBeforeWriting ==
  outcome \in {"refused", "duplicate"} => "objects" \notin wrote

\* An application a user can reach: its provider is in an outpost, or is one
\* Authentik serves by itself.
Reachable(s) ==
  /\ apps[s] # None
  /\ Exists(apps[s].provider)
  /\ \/ providers[apps[s].provider].kind # "proxy"
     \/ \E o \in Outposts : apps[s].provider \in members[o]

\* "a failed reconcile can never leave an app open to every authenticated user"
\* (api.go): where every label asks for a gate, no failed run leaves a reachable
\* application without one.
FailedNeverOpen ==
  (\A l \in Labels : l.gates # {}) /\ outcome = "failed" =>
    ~(Reachable(label.slug) /\ bindings[label.slug] = {})
=============================================================================
