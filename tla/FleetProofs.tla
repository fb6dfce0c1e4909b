----------------------------- MODULE FleetProofs -----------------------------
(***************************************************************************)
(* The daemon and aboard prune at the same server, for any labels, any     *)
(* number of runs and prunes, wherever either is broken off and however    *)
(* they overlap.                                                           *)
(***************************************************************************)
EXTENDS Fleet, ReconcileProofs, TLAPS

-----------------------------------------------------------------------------
\* What a run and a teardown may count on.

\* An application points at no provider that carries another slug's name.
OwnersPoint ==
  \A s \in Slugs : \A pk \in PKs : Points(s, pk) /\ Marked(pk) => providers[pk].owner = s

\* What a run has read of its application may be gone by now, but is nobody else's.
ReadIsOwn ==
  /\ step \in {"own", "gate"} => local.app # None
  /\ local.adopt # None => local.app # None /\ local.adopt = local.app.provider
  /\ local.app # None /\ local.app.provider # None =>
       /\ \A s \in Slugs : Points(s, local.app.provider) => s = label.slug
       /\ Marked(local.app.provider) => providers[local.app.provider].owner = label.slug

\* The provider a run has chosen, if it is still there, is the slug's or will be.
ChosenIsOwn ==
  /\ step = "patch" =>
       \/ local.adopt # None /\ local.pk = local.adopt
       \/ Exists(local.pk) => providers[local.pk].owner = label.slug
  /\ step = "app" /\ Exists(local.pk) => providers[local.pk].owner = label.slug

\* A teardown is of a slug that was not enabled, and of a provider with its name.
TargetIsOrphan ==
  /\ pstep \in {"off", "scan"} => plan = {} /\ target = NoTarget
  /\ \A o \in plan : o.slug \notin spared
  /\ target.slug \notin spared
  /\ target.pk # None => target.pk <= lastPK
  /\ pstep \in {"own", "read", "detach", "provider", "app"} => target.slug \in Slugs
  /\ pstep \in {"read", "detach", "provider"} /\ Exists(target.pk) =>
       providers[target.pk].owner = target.slug

FleetInv ==
  /\ FleetTypeOK
  /\ ServerSound
  /\ Running
  /\ OwnersPoint
  /\ ReadIsOwn
  /\ ChosenIsOwn
  /\ TargetIsOrphan

-----------------------------------------------------------------------------
\* What prune has shown and has still to do.

\* The row is planned, or its teardown has not come to the provider's delete.
Due(o) ==
  \/ o \in plan
  \/ pstep = "find" /\ o.slug = target.slug
  \/ pstep \in {"own", "read", "detach", "provider"} /\ o.pk = target.pk

\* One row for a provider, and one for an application that was there.
ShownOnce ==
  /\ pstep \in {"off", "scan"} => shown = {}
  /\ \A o \in shown : o.pk <= lastPK
  /\ \A o, x \in shown : o.pk = x.pk \/ (o.slug = x.slug /\ o.slug # None) => o = x

\* A teardown is of a row that was shown, once, and is past its provider at the end.
TargetShown ==
  /\ pstep \in {"find", "own", "read", "detach", "provider"} =>
       \E o \in shown : o.slug = target.slug /\ (pstep # "find" => o.pk = target.pk)
  /\ pstep \in {"find", "own", "read", "detach", "provider", "app"} /\ target.slug # None =>
       \A o \in plan : o.slug # target.slug
  /\ pstep = "app" => ~Exists(target.pk)

\* A row with an application stays true until its turn comes, whatever the daemon does.
RowsHold ==
  \A o \in shown : o.slug # None /\ Due(o) => Points(o.slug, o.pk) /\ Marked(o.pk)

\* A row that is neither gone nor due has failed.
RowsDone ==
  \A o \in shown : ~Exists(o.pk) \/ failed \/ Due(o)

RowsInv ==
  /\ ShownOnce
  /\ TargetShown
  /\ RowsHold
  /\ RowsDone

-----------------------------------------------------------------------------
\* The calls that delete, beside those that reconcile makes.

LEMMA DeleteProviderSound ==
  ASSUME NEW pk, ServerTypeOK, ServerSound, DeleteProvider(pk)
  PROVE  /\ ServerTypeOK' /\ ServerSound'
         /\ pk \in PKs /\ ~Exists(pk)'
         /\ \A p \in PKs \ {pk} : providers'[p] = providers[p]
         /\ \A s \in Slugs :
              /\ Points(s, pk) => apps'[s] # None /\ apps'[s].provider = None
              /\ ~Points(s, pk) => apps'[s] = apps[s]
         /\ \A o \in Outposts : members'[o] = members[o] \ {pk}
         /\ UNCHANGED <<lastPK, bindings, groups, served>>
<1> USE NoneAssumption, ServerAssumption
<1>1. /\ pk \in PKs /\ ~Exists(pk)'
      /\ \A p \in PKs \ {pk} : providers'[p] = providers[p]
      /\ providers' \in [PKs -> Provider \cup {None}]
  BY DEF DeleteProvider, Exists, ServerTypeOK
<1>2. ASSUME NEW s \in Slugs
      PROVE  /\ apps'[s] \in App \cup {None}
             /\ Points(s, pk) => apps'[s] # None /\ apps'[s].provider = None
             /\ ~Points(s, pk) => apps'[s] = apps[s]
  <2>1. apps[s] \in App \cup {None} /\ pk # None
    BY <1>1 DEF ServerTypeOK, PKs
  <2>2. Points(s, pk) => [apps[s] EXCEPT !.provider = None] \in App
    BY <2>1 DEF App, Points
  <2>3. apps'[s] = IF Points(s, pk) THEN [apps[s] EXCEPT !.provider = None] ELSE apps[s]
    BY DEF DeleteProvider, Points
  <2>4. Points(s, pk) => [apps[s] EXCEPT !.provider = None].provider = None
    BY <2>1 DEF App, Points
  <2> QED BY <2>1, <2>2, <2>3, <2>4
<1>3. apps' \in [Slugs -> App \cup {None}]
  BY <1>2 DEF DeleteProvider
<1>4. /\ members' \in [Outposts -> SUBSET PKs]
      /\ \A o \in Outposts : members'[o] = members[o] \ {pk}
      /\ UNCHANGED <<lastPK, bindings, groups, served>>
  BY DEF DeleteProvider, ServerTypeOK
<1>5. ServerTypeOK'
  BY <1>1, <1>3, <1>4 DEF ServerTypeOK
<1>6. \A p \in PKs : Exists(p)' => Exists(p) /\ p # pk
  BY <1>1 DEF Exists
<1>7. NamesUnique' /\ PKsFresh'
  BY <1>1, <1>4, <1>6 DEF ServerSound, NamesUnique, PKsFresh, Marked
<1>8. AppsSound'
  <2>1. ASSUME NEW s \in Slugs, apps'[s] # None, apps'[s].provider # None
        PROVE  apps'[s] = apps[s] /\ apps[s].provider # pk /\ Exists(apps[s].provider)'
    BY <1>1, <1>2, <2>1 DEF ServerSound, AppsSound, Points, Exists
  <2>2. ASSUME NEW s \in Slugs, NEW p \in PKs, Points(s, p)'
        PROVE  Points(s, p)
    <3>1. p # None
      BY DEF PKs
    <3> QED BY <2>1, <2>2, <3>1 DEF Points
  <2> QED BY <2>1, <2>2 DEF ServerSound, AppsSound
<1> QED BY <1>1, <1>2, <1>4, <1>5, <1>7, <1>8 DEF ServerSound

LEMMA DeleteAppSound ==
  ASSUME NEW slug \in Slugs, ServerTypeOK, ServerSound, DeleteApp(slug)
  PROVE  /\ ServerTypeOK' /\ ServerSound'
         /\ apps'[slug] = None
         /\ \A s \in Slugs \ {slug} : apps'[s] = apps[s]
         /\ UNCHANGED <<providers, lastPK, members, groups, served>>
<1>1. /\ ServerTypeOK' /\ apps'[slug] = None
      /\ \A s \in Slugs \ {slug} : apps'[s] = apps[s]
      /\ UNCHANGED <<providers, lastPK, members, groups, served>>
  BY DEF DeleteApp, ServerTypeOK
<1>2. ServerSound'
  BY <1>1 DEF ServerSound, NamesUnique, PKsFresh, AppsSound, Points, Marked, Exists
<1> QED BY <1>1, <1>2

\* A step of the two is one of the daemon's runs, or nothing to them, or one of prune.
PruneStep == ListEnabled(Enabled) \/ PruneNext

LEMMA OneAtATime ==
  ASSUME [FleetNext]_fleetVars
  PROVE  \/ [Next]_vars /\ UNCHANGED pruneVars
         \/ PruneStep /\ UNCHANGED <<reconcileVars, containers>>
BY DEF FleetNext, fleetVars, ContainerStarts, ContainerStops, DaemonStarts, DaemonRuns, PruneStarts,
   PruneRuns, PruneStep, Next

\* What prune reads and where it gets to is typed, and it deletes what is there.
LEMMA PruneTyped ==
  ASSUME TypeOK, PruneTypeOK, ServerSound, TargetIsOrphan, containers \subseteq Labels,
         PruneStep, UNCHANGED <<reconcileVars, containers>>
  PROVE  TypeOK' /\ PruneTypeOK' /\ ServerSound'
<1> USE DEF PruneTypeOK, PruneSteps
<1> SUFFICES PruneTypeOK' /\ ServerTypeOK' /\ ServerSound'
  BY DEF TypeOK, reconcileVars
<1>1. ServerTypeOK
  BY DEF TypeOK
<1>2. UNCHANGED server => ServerTypeOK' /\ ServerSound'
  BY <1>1, OthersSound DEF server, objects, ServerTypeOK
<1>3. NoTarget \in Target /\ target.seen \in SUBSET PKs /\ target.slug \in Slugs \cup {None}
      /\ target.pk \in PKs \cup {None}
  BY DEF NoTarget, Target
<1>4. CASE ListEnabled(Enabled)
  <2>1. Enabled \subseteq Slugs
    BY LabelTyped DEF Enabled
  <2>2. prunes' \in 0..MaxPrunes
    BY <1>4, MaxPrunesAssumption DEF ListEnabled
  <2> QED BY <1>2, <1>4, <2>1, <2>2 DEF ListEnabled
<1>5. CASE Scan
  <2>1. Orphans \subseteq Orphan
    <3>1. \A pk \in PKs : Exists(pk) => providers[pk].kind \in Kinds
      BY <1>1 DEF Exists, ServerTypeOK, Provider
    <3>2. \A pk : AssignedSlug(pk) \in Slugs \cup {None}
      BY DEF AssignedSlug
    <3> QED BY <3>1, <3>2 DEF Orphans, Orphan
  <2> QED BY <1>2, <1>5, <2>1 DEF Scan
<1>6. CASE Agree \/ PruneStops \/ PruneEnds \/ TeardownFails
  BY <1>2, <1>3, <1>6 DEF Agree, PruneStops, PruneEnds, TeardownFails
<1>7. ASSUME NEW o \in plan, TakeOrphan(o)
      PROVE  PruneTypeOK' /\ ServerTypeOK' /\ ServerSound'
  <2>1. [NoTarget EXCEPT !.slug = o.slug] \in Target
    BY DEF NoTarget, Target, Orphan
  <2> QED BY <1>2, <1>7, <2>1 DEF TakeOrphan
<1>8. CASE FindApplication
  <2>1. target.slug \in Slugs /\ apps[target.slug] \in App
    BY <1>1, <1>3, <1>8 DEF FindApplication, ServerTypeOK
  <2>2. [target EXCEPT !.pk = apps[target.slug].provider] \in Target
    BY <2>1 DEF Target, App
  <2> QED BY <1>2, <1>8, <2>2 DEF FindApplication, TeardownStep
<1>9. CASE CheckOwner
  BY <1>2, <1>9 DEF CheckOwner, TeardownStep
<1>10. CASE ReadAttached
  <2>1. Attached \in SUBSET PKs
    BY <1>1 DEF Attached, ServerTypeOK
  <2>2. [target EXCEPT !.seen = Attached] \in Target
    BY <2>1 DEF Target
  <2> QED BY <1>2, <1>10, <2>2 DEF ReadAttached, TeardownStep
<1>11. CASE Detach
  BY <1>1, <1>11, PatchOutpostSound DEF Detach, TeardownStep
<1>12. CASE RemoveProvider
  BY <1>1, <1>2, <1>12, DeleteProviderSound DEF RemoveProvider, TeardownStep
<1>13. CASE RemoveApplication
  BY <1>1, <1>2, <1>13, DeleteAppSound DEF RemoveApplication, TeardownStep, TargetIsOrphan
<1> QED BY <1>4, <1>5, <1>6, <1>7, <1>8, <1>9, <1>10, <1>11, <1>12, <1>13 DEF PruneStep, PruneNext

-----------------------------------------------------------------------------
\* The daemon, however prune may be going on beside it.

LEMMA NoneIsNoPK == None \notin PKs /\ None \notin Slugs
BY ServerAssumption, NoneAssumption DEF PKs

\* A run that has ended, or not begun to read, knows nothing.
LEMMA BlankIsOwn ==
  ASSUME local' = Blank, step' \notin {"own", "gate", "patch", "app"}
  PROVE  ReadIsOwn' /\ ChosenIsOwn'
BY DEF ReadIsOwn, ChosenIsOwn, Blank

\* A run has a label and a reading of nothing until its first call.
LEMMA RunningKept ==
  ASSUME Running, [Next]_vars
  PROVE  Running'
<1>1. CASE \E l \in Labels : Start(l)
  BY <1>1 DEF Start, Running
<1>2. CASE Fails \/ OutpostReloads \/ UNCHANGED vars
  BY <1>2 DEF Fails, End, OutpostReloads, vars, locals, Running
<1>3. CASE Run
  <2>1. step # "idle"
    BY <1>3 DEF Run, ResolveBindings, MakeGroup, LookUpApplication, ResolveOwnership, AdoptionGate,
       CheckExternalHost, LookUpProvider, MakeProvider, ReshapeProvider, ConvergeApplication, ListBindings,
       RemoveStray, Bind, StraysRemoved, Bound, OutpostMissing, ReadOutpost, Attach, Probe, ForceReload,
       PollServed
  <2>2. label' = label /\ (outcome' = outcome \/ step' = "idle")
    BY <1>3 DEF Run, ResolveBindings, MakeGroup, LookUpApplication, ResolveOwnership, AdoptionGate,
       CheckExternalHost, LookUpProvider, MakeProvider, ReshapeProvider, ConvergeApplication, ListBindings,
       RemoveStray, Bind, StraysRemoved, Bound, OutpostMissing, ReadOutpost, Attach, Probe, ForceReload,
       PollServed, Goto, End, locals
  <2>3. step' \in {"idle", "resolve", "look"} => local' = Blank
    BY <1>3 DEF Run, ResolveBindings, MakeGroup, LookUpApplication, ResolveOwnership, AdoptionGate,
       CheckExternalHost, LookUpProvider, MakeProvider, ReshapeProvider, ConvergeApplication, ListBindings,
       RemoveStray, Bind, StraysRemoved, Bound, OutpostMissing, ReadOutpost, Attach, Probe, ForceReload,
       PollServed, Goto, End, Keep, Running
  <2> QED BY <2>1, <2>2, <2>3 DEF Running
<1> QED BY <1>1, <1>2, <1>3 DEF Next

\* The steps that write neither providers nor applications.
LEMMA ReadingKeeps ==
  ASSUME FleetInv, [Next]_vars, UNCHANGED <<providers, lastPK, apps>>,
         ~MakeProvider, ~ReshapeProvider, ~ConvergeApplication
  PROVE  ReadIsOwn' /\ ChosenIsOwn'
<1> USE DEF FleetInv, FleetTypeOK
<1>1. CASE (\E o : End(o)) \/ \E l \in Labels : Start(l)
  BY <1>1, BlankIsOwn DEF End, Start, Running
<1>2. CASE OutpostReloads \/ UNCHANGED vars
  BY <1>2 DEF OutpostReloads, vars, locals, ReadIsOwn, ChosenIsOwn, Points, Marked, Exists
<1>3. CASE LookUpApplication
  <2>1. /\ local' = [local EXCEPT !.app = apps[label.slug]] /\ local = Blank /\ label' = label
        /\ step' \in {"own", "collide", "provider"} /\ (step' = "own" => apps[label.slug] # None)
        /\ label.slug \in Slugs
    BY <1>3, LabelTyped DEF LookUpApplication, Goto, Running, locals
  <2>2. local'.app = apps[label.slug] /\ local'.adopt = None
    BY <2>1 DEF Blank
  <2>3. apps[label.slug] # None /\ apps[label.slug].provider # None =>
          /\ Points(label.slug, apps[label.slug].provider) /\ apps[label.slug].provider \in PKs
    BY <2>1 DEF ServerSound, AppsSound, Points, Exists
  <2> QED BY <2>1, <2>2, <2>3
          DEF ReadIsOwn, ChosenIsOwn, OwnersPoint, ServerSound, AppsSound, Points, Marked, Exists
<1>4. CASE ResolveOwnership \/ (CheckExternalHost /\ step' # "idle")
  <2>1. /\ local'.app = local.app /\ local'.adopt = local.adopt /\ label' = label
        /\ step' \in {"gate", "collide", "provider"} /\ (step' = "gate" => step = "own")
    BY <1>4 DEF ResolveOwnership, CheckExternalHost, Goto, Keep, End, locals, TypeOK, Local
  <2> QED BY <2>1 DEF ReadIsOwn, ChosenIsOwn, Points, Marked, Exists
<1>5. CASE AdoptionGate /\ step' # "idle"
  <2>1. /\ step = "gate" /\ step' \in {"collide", "provider"} /\ label' = label
        /\ local'.app = local.app /\ local'.adopt = local.app.provider
    BY <1>5 DEF AdoptionGate, Goto, End, locals, TypeOK, Local
  <2> QED BY <2>1 DEF ReadIsOwn, ChosenIsOwn, Points, Marked, Exists
<1>6. CASE LookUpProvider
  <2>1. /\ local'.app = local.app /\ local'.adopt = local.adopt /\ label' = label
        /\ step' \in {"create", "patch"}
    BY <1>6 DEF LookUpProvider, Goto, Keep, locals, TypeOK, Local
  <2>2. step' = "patch" /\ local.adopt # None => local'.pk = local.adopt
    BY <1>6 DEF LookUpProvider, Goto, TypeOK, Local
  <2>3. step' = "patch" /\ local.adopt = None => local'.pk \in ByName(label.slug, label.kind)
    BY <1>6 DEF LookUpProvider, Goto, TypeOK, Local
  <2> QED BY <2>1, <2>2, <2>3 DEF ReadIsOwn, ChosenIsOwn, ByName, Points, Marked, Exists
<1>7. CASE /\ step' \notin {"idle", "own", "gate", "patch", "app"} /\ label' = label
           /\ local'.app = local.app /\ local'.adopt = local.adopt
  BY <1>7 DEF ReadIsOwn, ChosenIsOwn, Points, Marked, Exists
<1>8. Run => \/ \E o : End(o)
             \/ LookUpApplication \/ ResolveOwnership \/ CheckExternalHost \/ AdoptionGate \/ LookUpProvider
             \/ /\ step' \notin {"idle", "own", "gate", "patch", "app"} /\ label' = label
                /\ local'.app = local.app /\ local'.adopt = local.adopt
  BY DEF Run, ResolveBindings, MakeGroup, ListBindings, RemoveStray, Bind, StraysRemoved, Bound,
     OutpostMissing, ReadOutpost, Attach, Probe, ForceReload, PollServed, Goto, Keep, locals, TypeOK, Local
<1>9. CheckExternalHost \/ AdoptionGate => step' # "idle" \/ \E o : End(o)
  BY DEF CheckExternalHost, AdoptionGate, Goto
<1>10. Fails => \E o : End(o)
  BY DEF Fails
<1>11. (\E l \in Labels : Start(l)) \/ Run \/ Fails \/ OutpostReloads \/ UNCHANGED vars
  BY DEF Next
<1> QED BY <1>1, <1>2, <1>3, <1>4, <1>5, <1>6, <1>7, <1>8, <1>9, <1>10, <1>11

\* The steps that write a provider or an application write the run's own.
LEMMA WritingKeeps ==
  ASSUME FleetInv, UNCHANGED pruneVars, MakeProvider \/ ReshapeProvider \/ ConvergeApplication
  PROVE  OwnersPoint' /\ ReadIsOwn' /\ ChosenIsOwn' /\ TargetIsOrphan'
<1> USE NoneIsNoPK, ServerAssumption DEF FleetInv, FleetTypeOK, TypeOK, ServerTypeOK
<1>1. label \in Labels /\ label.slug \in Slugs /\ label.slug # Hand /\ label' = label
  <2>1. label \in Labels /\ label' = label
    BY DEF Running, MakeProvider, ReshapeProvider, ConvergeApplication, Goto, locals
  <2> QED BY <2>1, LabelTyped
<1>2. UNCHANGED <<pstep, spared, plan, target>>
  BY DEF pruneVars
<1>3. CASE MakeProvider
  <2> DEFINE new == lastPK + 1
  <2>1. new \in PKs /\ ~Exists(new) /\ lastPK \in Nat
    BY <1>3 DEF MakeProvider, CreateProvider, ServerSound, PKsFresh, PKs
  <2>2. /\ \A pk \in PKs \ {new} : providers'[pk] = providers[pk]
        /\ providers'[new].owner = label.slug
        /\ apps' = apps /\ lastPK' = new /\ local'.pk = new /\ step' = "app"
        /\ local'.app = local.app /\ local'.adopt = local.adopt
    BY <1>3, <2>1 DEF MakeProvider, CreateProvider, Goto, Local
  <2> HIDE DEF new
  <2>3. OwnersPoint'
    BY <2>1, <2>2 DEF OwnersPoint, ServerSound, AppsSound, Points, Marked, Exists
  <2>4. ReadIsOwn' /\ ChosenIsOwn'
    BY <1>1, <2>1, <2>2 DEF ReadIsOwn, ChosenIsOwn, Points, Marked, Exists
  <2>5. TargetIsOrphan'
    <3>1. target.pk # None => target.pk \in PKs /\ target.pk # new /\ target.pk <= lastPK'
      BY <2>1, <2>2 DEF TargetIsOrphan, PruneTypeOK, Target, PKs, new
    <3> QED BY <1>2, <2>2, <3>1 DEF TargetIsOrphan, Exists
  <2> QED BY <2>3, <2>4, <2>5
<1>4. CASE ReshapeProvider
  <2> DEFINE pk == local.pk
  <2>1. /\ pk \in PKs /\ Exists(pk) /\ step = "patch"
        /\ \A p \in PKs \ {pk} : providers'[p] = providers[p]
        /\ providers'[pk].owner = label.slug /\ providers'[pk] # None
        /\ apps' = apps /\ lastPK' = lastPK /\ local' = local /\ step' = "app"
    <3>1. [owner |-> label.slug, kind |-> label.kind, host |-> label.host] \in Provider
      BY <1>1, LabelTyped DEF Provider
    <3> QED BY <1>4, <3>1, NoneAssumption DEF ReshapeProvider, PatchProvider, Exists, Goto, Keep
  <2>2. Marked(pk) => providers[pk].owner = label.slug
    BY <2>1 DEF ReadIsOwn, ChosenIsOwn, Marked
  <2>3. \A s \in Slugs : Points(s, pk) => s = label.slug
    BY <1>1, <2>1 DEF ReadIsOwn, ChosenIsOwn, OwnersPoint, Marked
  <2> HIDE DEF pk
  <2>4. OwnersPoint'
    BY <2>1, <2>3 DEF OwnersPoint, Points, Marked, Exists
  <2>5. ReadIsOwn'
    BY <1>1, <2>1 DEF ReadIsOwn, Points, Marked, Exists
  <2>6. ChosenIsOwn'
    BY <1>1, <2>1 DEF ChosenIsOwn, pk
  <2>7. TargetIsOrphan'
    BY <1>2, <2>1, <2>2 DEF TargetIsOrphan, Marked, Exists
  <2> QED BY <2>4, <2>5, <2>6, <2>7
<1>5. CASE ConvergeApplication
  <2>1. /\ Exists(local.pk) /\ step = "app" /\ step' = "list" /\ local' = local
        /\ \A s \in Slugs \ {label.slug} : apps'[s] = apps[s]
        /\ apps'[label.slug].provider = local.pk
        /\ UNCHANGED <<providers, lastPK>>
    BY <1>1, <1>5 DEF ConvergeApplication, CreateApp, PatchApp, Goto, Keep
  <2>2. providers[local.pk].owner = label.slug
    BY <2>1 DEF ChosenIsOwn
  <2>3. OwnersPoint'
    BY <2>1, <2>2 DEF OwnersPoint, Points, Marked, Exists
  <2>4. ReadIsOwn' /\ ChosenIsOwn'
    BY <1>1, <2>1 DEF ReadIsOwn, ChosenIsOwn, Points, Marked, Exists
  <2>5. TargetIsOrphan'
    BY <1>2, <2>1 DEF TargetIsOrphan, Exists
  <2> QED BY <2>3, <2>4, <2>5
<1> QED BY <1>3, <1>4, <1>5

\* All the others leave the providers and the applications alone.
LEMMA WhoWrites ==
  ASSUME [Next]_vars
  PROVE  \/ MakeProvider \/ ReshapeProvider \/ ConvergeApplication
         \/ UNCHANGED <<providers, lastPK, apps>>
BY DEF Next, Run, Start, Fails, OutpostReloads, Reload, ResolveBindings, MakeGroup, CreateGroup,
   LookUpApplication, ResolveOwnership, AdoptionGate, CheckExternalHost, LookUpProvider, ListBindings,
   RemoveStray, DeleteBinding, Bind, CreateBinding, StraysRemoved, Bound, OutpostMissing, ReadOutpost,
   Attach, ForceReload, PatchOutpost, Probe, PollServed, Reads, vars, server, objects

LEMMA DaemonKeeps ==
  ASSUME FleetInv, [Next]_vars, UNCHANGED pruneVars
  PROVE  Running' /\ OwnersPoint' /\ ReadIsOwn' /\ ChosenIsOwn' /\ TargetIsOrphan'
<1>1. Running'
  BY RunningKept DEF FleetInv
<1>2. CASE MakeProvider \/ ReshapeProvider \/ ConvergeApplication
  BY <1>1, <1>2, WritingKeeps
<1>3. CASE ~(MakeProvider \/ ReshapeProvider \/ ConvergeApplication)
  <2>1. UNCHANGED <<providers, lastPK, apps>>
    BY <1>3, WhoWrites
  <2>2. ReadIsOwn' /\ ChosenIsOwn'
    BY <1>3, <2>1, ReadingKeeps
  <2>3. OwnersPoint' /\ TargetIsOrphan'
    BY <2>1 DEF FleetInv, OwnersPoint, TargetIsOrphan, pruneVars, Points, Marked, Exists
  <2> QED BY <1>1, <2>2, <2>3
<1> QED BY <1>2, <1>3

-----------------------------------------------------------------------------
\* Prune, however the daemon may be at work beside it.

\* It only takes away: what is left of the server is as it was.
LEMMA PruneTakesAway ==
  ASSUME FleetInv, PruneStep
  PROVE  /\ \A pk \in PKs : Exists(pk)' => Exists(pk) /\ providers'[pk] = providers[pk]
         /\ \A s \in Slugs : \A pk \in PKs : Points(s, pk)' => Points(s, pk)
         /\ lastPK' = lastPK
<1> USE NoneIsNoPK DEF FleetInv, FleetTypeOK, TypeOK
<1>1. CASE UNCHANGED <<providers, apps, lastPK>>
  BY <1>1 DEF Points, Exists
<1>2. CASE RemoveProvider /\ Exists(target.pk)
  <2>1. DeleteProvider(target.pk)
    BY <1>2 DEF RemoveProvider
  <2> QED BY <2>1, DeleteProviderSound DEF Points, Exists
<1>3. CASE RemoveApplication /\ apps[target.slug] # None
  <2>1. DeleteApp(target.slug) /\ target.slug \in Slugs
    BY <1>3 DEF RemoveApplication, TargetIsOrphan
  <2> QED BY <2>1, DeleteAppSound DEF Points, Exists
<1>4. \/ UNCHANGED <<providers, apps, lastPK>>
      \/ RemoveProvider /\ Exists(target.pk)
      \/ RemoveApplication /\ apps[target.slug] # None
  BY DEF PruneStep, PruneNext, ListEnabled, Scan, Agree, PruneStops, TakeOrphan, PruneEnds, TeardownFails,
     FindApplication, CheckOwner, ReadAttached, Detach, PatchOutpost, RemoveProvider, RemoveApplication,
     server, objects
<1> QED BY <1>1, <1>2, <1>3, <1>4

\* The target is an orphan of the plan, and its provider one that carries its name.
LEMMA TargetKept ==
  ASSUME FleetInv, PruneStep
  PROVE  TargetIsOrphan'
<1> USE NoneIsNoPK DEF FleetInv, FleetTypeOK, TypeOK, PruneTypeOK, PruneSteps
<1>1. NoTarget.slug = None /\ NoTarget.pk = None /\ None \notin spared
  BY DEF NoTarget
<1>2. /\ target.slug \in Slugs \cup {None} /\ target.pk \in PKs \cup {None}
      /\ \A pk \in PKs : Exists(pk)' => Exists(pk) /\ providers'[pk] = providers[pk]
      /\ lastPK' = lastPK
  BY PruneTakesAway DEF Target
<1>3. CASE ListEnabled(Enabled)
  <2>1. None \notin Enabled
    BY LabelTyped DEF Enabled
  <2> QED BY <1>1, <1>3, <2>1 DEF ListEnabled, TargetIsOrphan
<1>4. CASE Scan
  <2>1. \A o \in Orphans : o.slug \notin spared
    BY DEF Orphans
  <2> QED BY <1>2, <1>4, <2>1 DEF Scan, TargetIsOrphan
<1>5. CASE Agree \/ PruneStops \/ PruneEnds \/ TeardownFails
  BY <1>1, <1>2, <1>5 DEF Agree, PruneStops, PruneEnds, TeardownFails, TargetIsOrphan
<1>6. ASSUME NEW o \in plan, TakeOrphan(o)
      PROVE  TargetIsOrphan'
  <2>1. target'.slug = o.slug /\ target'.pk = None
    BY <1>6 DEF TakeOrphan, NoTarget
  <2> QED BY <1>6, <2>1 DEF TakeOrphan, TargetIsOrphan
<1>7. CASE FindApplication
  <2>1. /\ target'.slug = target.slug /\ target.slug \in Slugs
        /\ target'.pk = apps[target.slug].provider /\ apps[target.slug] # None
    BY <1>2, <1>7 DEF FindApplication, Target
  <2>2. target'.pk # None => target'.pk <= lastPK
    BY <2>1 DEF ServerSound, AppsSound, PKsFresh, Exists
  <2> QED BY <1>2, <1>7, <2>1, <2>2 DEF FindApplication, TeardownStep, TargetIsOrphan
<1>8. CASE CheckOwner
  <2>1. OwnKind(target.slug, target.pk) \in Kinds
    BY <1>8, OwnKindTyped DEF CheckOwner
  <2>2. providers[target.pk].owner = target.slug
    BY <2>1, OwnKindTyped
  <2>3. pstep = "own" /\ pstep' \in {"read", "provider"}
    BY <1>8 DEF CheckOwner, TeardownStep
  <2> QED BY <1>2, <1>8, <2>2, <2>3 DEF CheckOwner, TeardownStep, TargetIsOrphan, server, objects
<1>9. CASE ReadAttached
  <2>1. target'.slug = target.slug /\ target'.pk = target.pk
    BY <1>9 DEF ReadAttached, Target
  <2> QED BY <1>2, <1>9, <2>1 DEF ReadAttached, TeardownStep, TargetIsOrphan, server, objects, Exists
<1>10. CASE Detach
  BY <1>2, <1>10 DEF Detach, PatchOutpost, TeardownStep, TargetIsOrphan, Exists
<1>11. CASE RemoveProvider \/ RemoveApplication
  BY <1>2, <1>11 DEF RemoveProvider, RemoveApplication, TeardownStep, TargetIsOrphan
<1> QED BY <1>3, <1>4, <1>5, <1>6, <1>7, <1>8, <1>9, <1>10, <1>11 DEF PruneStep, PruneNext

LEMMA PruneKeeps ==
  ASSUME FleetInv, PruneStep, UNCHANGED reconcileVars
  PROVE  Running' /\ OwnersPoint' /\ ReadIsOwn' /\ ChosenIsOwn' /\ TargetIsOrphan'
<1> USE NoneIsNoPK DEF FleetInv, FleetTypeOK, TypeOK
<1>1. UNCHANGED <<step, label, local, outcome>>
  BY DEF reconcileVars
<1>2. Running'
  BY <1>1 DEF Running
<1>3. OwnersPoint'
  BY PruneTakesAway DEF OwnersPoint, Marked
<1>4. local.app # None => local.app.provider \in PKs \cup {None}
  BY DEF Local, App
<1>5. ReadIsOwn'
  BY <1>1, <1>4, PruneTakesAway DEF ReadIsOwn, Marked
<1>6. ChosenIsOwn'
  BY <1>1, PruneTakesAway DEF ChosenIsOwn, Local, Exists
<1> QED BY <1>2, <1>3, <1>5, <1>6, TargetKept

LEMMA FleetInitSound == FleetInit => FleetInv
<1> SUFFICES ASSUME FleetInit PROVE FleetInv
  OBVIOUS
<1>1. ServerTypeOK /\ ServerSound
  BY InitTyped DEF FleetInit, Init
<1>2. TypeOK /\ Running
  BY <1>1, InitSound DEF FleetInit, ReconcileInv, RunSound
<1>3. PruneTypeOK
  <2>1. NoTarget \in Target /\ prunes \in 0..MaxPrunes
    BY MaxPrunesAssumption DEF FleetInit, PruneInit, NoTarget, Target
  <2> QED BY <2>1 DEF FleetInit, PruneInit, PruneTypeOK, PruneSteps
<1>4. OwnersPoint
  BY DEF FleetInit, Init, ServerInit, OwnersPoint, Marked, Exists
<1>5. ReadIsOwn /\ ChosenIsOwn /\ TargetIsOrphan
  BY NoneIsNoPK DEF FleetInit, Init, PruneInit, ReadIsOwn, ChosenIsOwn, TargetIsOrphan, Blank, NoTarget
<1> QED BY <1>1, <1>2, <1>3, <1>4, <1>5 DEF FleetInit, FleetInv, FleetTypeOK

LEMMA FleetStep == FleetInv /\ [FleetNext]_fleetVars => FleetInv'
<1> SUFFICES ASSUME FleetInv, [FleetNext]_fleetVars PROVE FleetInv'
  OBVIOUS
<1>1. containers' \subseteq Labels
  BY DEF FleetNext, ContainerStarts, ContainerStops, DaemonStarts, DaemonRuns, PruneStarts, PruneRuns,
     fleetVars, FleetInv, FleetTypeOK
<1>2. CASE [Next]_vars /\ UNCHANGED pruneVars
  <2>1. TypeOK' /\ ServerSound'
    BY <1>2, StepTyped DEF FleetInv, FleetTypeOK, ReadIsOwn
  <2>2. PruneTypeOK'
    BY <1>2 DEF FleetInv, FleetTypeOK, PruneTypeOK, pruneVars
  <2> QED BY <1>1, <1>2, <2>1, <2>2, DaemonKeeps DEF FleetInv, FleetTypeOK
<1>3. CASE PruneStep /\ UNCHANGED <<reconcileVars, containers>>
  BY <1>1, <1>3, PruneTyped, PruneKeeps DEF FleetInv, FleetTypeOK
<1> QED BY <1>2, <1>3, OneAtATime

\* The daemon and prune, however they overlap: the types, unique names and fresh pks, that
\* an application points at no provider with another's name, and that a run and a
\* teardown act on no provider but their own slug's.
THEOREM FleetInvariant == FleetSpec => []FleetInv
BY FleetInitSound, FleetStep, PTL DEF FleetSpec

\* Every variable of the two processes, and of the server between them, has its type.
THEOREM FleetTypeCorrect == FleetSpec => []FleetTypeOK
<1>1. FleetInv => FleetTypeOK
  BY DEF FleetInv
<1> QED BY <1>1, FleetInvariant, PTL

\* What prune does to the applications: only its target's is deleted or left bare.
LEMMA PruneSparesApps ==
  ASSUME FleetInv, PruneStep, NEW s \in Slugs, apps'[s] # apps[s]
  PROVE  \/ /\ RemoveProvider /\ Points(s, target.pk) /\ Exists(target.pk)
            /\ apps[s] # None /\ apps'[s] # None /\ apps'[s].provider = None
         \/ RemoveApplication /\ s = target.slug
<1> USE DEF FleetInv, FleetTypeOK, TypeOK
<1>1. CASE RemoveProvider
  <2>1. Exists(target.pk) /\ DeleteProvider(target.pk)
    BY <1>1 DEF RemoveProvider, server, objects
  <2> QED BY <1>1, <2>1, DeleteProviderSound DEF Points
<1>2. CASE RemoveApplication
  <2>1. DeleteApp(target.slug) /\ target.slug \in Slugs
    BY <1>2 DEF RemoveApplication, TargetIsOrphan, server, objects
  <2> QED BY <1>2, <2>1, DeleteAppSound
<1>3. RemoveProvider \/ RemoveApplication
  BY DEF PruneStep, PruneNext, ListEnabled, Scan, Agree, PruneStops, TakeOrphan, PruneEnds, TeardownFails,
     FindApplication, CheckOwner, ReadAttached, Detach, PatchOutpost, server, objects
<1> QED BY <1>1, <1>2, <1>3

\* What was enabled when prune listed the containers keeps its application, and that its
\* provider, whatever else prune deletes and whatever the daemon does meanwhile.
THEOREM EnabledIsSpared == FleetSpec => SparedIsSpared
<1> DEFINE Kept == \A s \in spared : pstep # "off" =>
                     /\ apps[s] # None /\ apps'[s] = None => FALSE
                     /\ apps[s] # None /\ apps'[s] # None /\ apps'[s].provider = None
                          => apps[s].provider = None
<1>1. FleetInv /\ [FleetNext]_fleetVars => Kept
  <2> SUFFICES ASSUME FleetInv, [FleetNext]_fleetVars, NEW s \in spared, apps[s] # None,
                      apps'[s] # apps[s]
               PROVE  apps'[s] # None /\ apps'[s].provider # None
    OBVIOUS
  <2>1. s \in Slugs /\ s # target.slug /\ target.pk \in PKs \cup {None}
    BY DEF FleetInv, FleetTypeOK, PruneTypeOK, TargetIsOrphan, Target
  <2>2. CASE [Next]_vars
    <3>1. ConvergeApplication
      BY <2>2, WhoWrites DEF MakeProvider, CreateProvider, ReshapeProvider, PatchProvider
    <3>2. /\ label \in Labels /\ local.pk \in PKs
          /\ apps'[s] = [provider |-> local.pk, title |-> label.title, mode |-> label.mode]
      BY <2>1, <3>1 DEF ConvergeApplication, CreateApp, PatchApp, Exists, FleetInv, FleetTypeOK,
           TypeOK, ServerTypeOK, Running
    <3>3. apps'[s] \in App
      BY <3>2, LabelTyped DEF App
    <3> QED BY <3>2, <3>3, NoneIsNoPK, NoneAssumption
  <2>3. CASE PruneStep
    <3>1. RemoveProvider /\ Points(s, target.pk) /\ Exists(target.pk)
      BY <2>1, <2>3, PruneSparesApps
    <3>2. Marked(target.pk) /\ providers[target.pk].owner = target.slug /\ target.pk \in PKs
      BY <3>1, ServerAssumption DEF FleetInv, TargetIsOrphan, RemoveProvider, Marked, Exists
    <3> QED BY <2>1, <3>1, <3>2 DEF FleetInv, OwnersPoint
  <2> QED BY <2>2, <2>3, OneAtATime
<1>2. FleetInv /\ [FleetNext]_fleetVars => [Kept]_fleetVars
  BY <1>1
<1> QED BY <1>2, FleetInvariant, PTL DEF FleetSpec, SparedIsSpared

\* detachFromEmbedded and the attach send whole lists: one that is sent back loses the
\* provider that is torn down and what joined after it was read, nothing else.
THEOREM ListsLoseLittle == FleetSpec => DetachKeepsWhatItSaw
<1> DEFINE Kept == \A o \in Outposts : \A pk \in members[o] \ members'[o] :
                     \/ pk = target.pk
                     \/ pstep = "detach" /\ pk \notin target.seen
                     \/ step \in {"attach", "force"} /\ pk \notin local.seen
<1>1. FleetInv /\ [FleetNext]_fleetVars => Kept
  <2> SUFFICES ASSUME FleetInv, [FleetNext]_fleetVars,
                      NEW o \in Outposts, NEW pk \in members[o] \ members'[o]
               PROVE  \/ pk = target.pk
                      \/ pstep = "detach" /\ pk \notin target.seen
                      \/ step \in {"attach", "force"} /\ pk \notin local.seen
    OBVIOUS
  <2>1. CASE [Next]_vars
    <3>1. Attach \/ ForceReload
      BY <2>1 DEF Next, Run, Start, Fails, OutpostReloads, Reload, ResolveBindings, MakeGroup, CreateGroup,
         LookUpApplication, ResolveOwnership, AdoptionGate, CheckExternalHost, LookUpProvider,
         MakeProvider, CreateProvider, ReshapeProvider, PatchProvider, ConvergeApplication, CreateApp,
         PatchApp, ListBindings, RemoveStray, DeleteBinding, Bind, CreateBinding, StraysRemoved, Bound,
         OutpostMissing, ReadOutpost, Probe, PollServed, Reads, vars, server, objects
    <3> QED BY <3>1 DEF Attach, ForceReload, PatchOutpost, FleetInv, FleetTypeOK, TypeOK, ServerTypeOK
  <2>2. CASE PruneStep
    <3>1. Detach \/ RemoveProvider
      BY <2>2 DEF PruneStep, PruneNext, ListEnabled, Scan, Agree, PruneStops, TakeOrphan, PruneEnds,
         TeardownFails, FindApplication, CheckOwner, ReadAttached, RemoveApplication, DeleteApp, server, objects
    <3>2. CASE Detach
      BY <3>2 DEF Detach, PatchOutpost, FleetInv, FleetTypeOK, TypeOK, ServerTypeOK
    <3>3. CASE RemoveProvider
      BY <3>3 DEF RemoveProvider, DeleteProvider, server, objects
    <3> QED BY <3>1, <3>2, <3>3
  <2> QED BY <2>1, <2>2, OneAtATime
<1>2. FleetInv /\ [FleetNext]_fleetVars => [Kept]_fleetVars
  BY <1>1
<1> QED BY <1>2, FleetInvariant, PTL DEF FleetSpec, DetachKeepsWhatItSaw

-----------------------------------------------------------------------------
\* What prune has shown, and what becomes of it.

\* What a run writes to applications and providers, and to which.
LEMMA MakeWrites ==
  ASSUME FleetInv, MakeProvider
  PROVE  /\ apps' = apps /\ lastPK' = lastPK + 1 /\ lastPK + 1 \in PKs
         /\ ~Exists(lastPK + 1)
         /\ \A pk \in PKs \ {lastPK + 1} : providers'[pk] = providers[pk]
BY ServerAssumption DEF MakeProvider, CreateProvider, ServerSound, PKsFresh, PKs, FleetInv, FleetTypeOK,
   TypeOK, ServerTypeOK

LEMMA ConvergeWrites ==
  ASSUME FleetInv, ConvergeApplication
  PROVE  /\ UNCHANGED <<providers, lastPK, label, local>>
         /\ local.pk \in PKs /\ Exists(local.pk) /\ providers[local.pk].owner = label.slug
         /\ label \in Labels /\ label.slug \in Slugs
         /\ \A s \in Slugs \ {label.slug} : apps'[s] = apps[s]
         /\ apps'[label.slug] # None /\ apps'[label.slug].provider = local.pk
<1> USE DEF FleetInv, FleetTypeOK, TypeOK, ServerTypeOK
<1>1. label \in Labels /\ step = "app" /\ local' = local /\ label' = label
  BY DEF ConvergeApplication, Goto, Keep, locals, Running
<1>2. /\ label.slug \in Slugs /\ Exists(local.pk) /\ local.pk \in PKs
      /\ \A s \in Slugs \ {label.slug} : apps'[s] = apps[s]
      /\ apps'[label.slug] = [provider |-> local.pk, title |-> label.title, mode |-> label.mode]
      /\ UNCHANGED <<providers, lastPK>>
  BY <1>1, LabelTyped DEF ConvergeApplication, CreateApp, PatchApp, Exists
<1>3. apps'[label.slug] \in App
  BY <1>1, <1>2, LabelTyped DEF App
<1> QED BY <1>1, <1>2, <1>3, NoneAssumption DEF ChosenIsOwn

\* The daemon points an application away from no provider that carries the marker.
LEMMA DaemonKeepsPointing ==
  ASSUME FleetInv, [Next]_vars, NEW s \in Slugs, NEW pk \in PKs, Points(s, pk), Marked(pk)
  PROVE  Points(s, pk)' /\ Marked(pk)'
<1> USE DEF FleetInv, FleetTypeOK, TypeOK, ServerTypeOK
<1>1. CASE UNCHANGED <<providers, lastPK, apps>>
  BY <1>1 DEF Points, Marked, Exists
<1>2. CASE MakeProvider
  BY <1>2, MakeWrites DEF Points, Marked, Exists
<1>3. CASE ReshapeProvider
  <2>1. /\ label.slug # Hand /\ apps' = apps
        /\ [owner |-> label.slug, kind |-> label.kind, host |-> label.host] # None
    BY <1>3, LabelTyped, ServerAssumption, NoneAssumption DEF ReshapeProvider, PatchProvider, Running, Provider
  <2>2. \/ providers'[pk] = providers[pk]
        \/ providers'[pk] # None /\ providers'[pk].owner = label.slug
    BY <1>3, <2>1 DEF ReshapeProvider, PatchProvider
  <2> QED BY <2>1, <2>2 DEF Points, Marked, Exists
<1>4. CASE ConvergeApplication
  <2>1. s = label.slug => pk = local.pk
    <3>1. s = label.slug => providers[pk].owner = label.slug
      BY DEF OwnersPoint
    <3>2. /\ providers[local.pk].owner = label.slug /\ Exists(local.pk)
          /\ local.pk \in PKs /\ label.slug # Hand
      BY <1>4, ConvergeWrites, ServerAssumption
    <3> QED BY <3>1, <3>2 DEF ServerSound, NamesUnique, Marked
  <2> QED BY <1>4, <2>1, ConvergeWrites DEF Points, Marked, Exists
<1> QED BY <1>1, <1>2, <1>3, <1>4, WhoWrites

\* Prune takes an application from a provider that stays with its last delete only.
LEMMA PruneKeepsPointing ==
  ASSUME FleetInv, PruneStep, NEW s \in Slugs, NEW pk \in PKs, Points(s, pk), ~Points(s, pk)', Exists(pk)'
  PROVE  RemoveApplication /\ s = target.slug
<1> USE DEF FleetInv, FleetTypeOK, TypeOK
<1>1. apps'[s] # apps[s]
  BY DEF Points
<1>2. ASSUME RemoveProvider, Points(s, target.pk), Exists(target.pk)
      PROVE  FALSE
  <2>1. pk = target.pk /\ DeleteProvider(target.pk)
    BY <1>2 DEF Points, RemoveProvider
  <2> QED BY <2>1, DeleteProviderSound
<1> QED BY <1>1, <1>2, PruneSparesApps

\* What is gone stays gone: no pk is given out twice.
LEMMA GoneStays ==
  ASSUME FleetInv, [Next]_vars \/ PruneStep, NEW pk, pk \in PKs => pk <= lastPK, ~Exists(pk)
  PROVE  ~Exists(pk)'
<1> USE DEF FleetInv, FleetTypeOK, TypeOK, ServerTypeOK
<1>1. CASE PruneStep
  BY <1>1, PruneTakesAway DEF Exists
<1>2. CASE MakeProvider
  BY <1>2, MakeWrites DEF Exists, PKs
<1>3. CASE ReshapeProvider
  BY <1>3 DEF ReshapeProvider, PatchProvider, Exists
<1>4. CASE ConvergeApplication
  BY <1>4, ConvergeWrites DEF Exists
<1>5. CASE UNCHANGED <<providers, lastPK, apps>>
  BY <1>5 DEF Exists
<1> QED BY <1>1, <1>2, <1>3, <1>4, <1>5, WhoWrites

LEMMA RowTyped ==
  ASSUME FleetInv, NEW o \in shown
  PROVE  o.slug \in Slugs \cup {None} /\ o.pk \in PKs
BY DEF FleetInv, FleetTypeOK, PruneTypeOK, Orphan

\* The rows stand while the daemon is at work.
LEMMA DaemonKeepsRows ==
  ASSUME FleetInv, RowsInv, [Next]_vars, UNCHANGED pruneVars
  PROVE  RowsInv'
<1> USE DEF RowsInv
<1>1. /\ UNCHANGED <<pstep, shown, plan, target, failed>>
      /\ \A o \in shown : Due(o)' <=> Due(o)
  BY DEF pruneVars, Due
<1>2. ASSUME NEW o \in shown
      PROVE  o.pk <= lastPK' /\ (~Exists(o.pk) => ~Exists(o.pk)')
  <2>1. o.pk \in PKs /\ o.pk <= lastPK
    BY RowTyped DEF ShownOnce
  <2>2. lastPK' = lastPK \/ lastPK' = lastPK + 1
    BY WhoWrites, MakeWrites DEF ReshapeProvider, PatchProvider, ConvergeApplication, CreateApp, PatchApp
  <2> QED BY <2>1, <2>2, GoneStays DEF FleetInv, FleetTypeOK, TypeOK, ServerTypeOK, PKs
<1>3. ShownOnce'
  BY <1>1, <1>2 DEF ShownOnce
<1>4. TargetShown'
  <2>1. target.pk \in PKs => target.pk <= lastPK
    BY NoneIsNoPK DEF FleetInv, TargetIsOrphan
  <2>2. ASSUME ~Exists(target.pk)
        PROVE  ~Exists(target.pk)'
    BY <1>1, <2>1, <2>2, GoneStays DEF Exists
  <2> QED BY <1>1, <2>2 DEF TargetShown
<1>5. RowsHold'
  <2> SUFFICES ASSUME NEW o \in shown, o.slug # None, Due(o)
               PROVE  Points(o.slug, o.pk)' /\ Marked(o.pk)'
    BY <1>1 DEF RowsHold
  <2> QED BY RowTyped, DaemonKeepsPointing DEF RowsHold
<1>6. RowsDone'
  BY <1>1, <1>2 DEF RowsDone
<1> QED BY <1>3, <1>4, <1>5, <1>6

\* What the scan shows is there, and has the application it is shown with.
LEMMA ScanShows ==
  ASSUME FleetInv, Scan
  PROVE  /\ \A o, x \in Orphans : o.pk = x.pk \/ (o.slug = x.slug /\ o.slug # None) => o = x
         /\ \A o \in Orphans : /\ o.pk \in PKs /\ o.pk <= lastPK
                               /\ o.slug # None => Points(o.slug, o.pk) /\ Marked(o.pk)
<1>1. ASSUME NEW o \in Orphans
      PROVE  /\ o.pk \in PKs /\ Exists(o.pk) /\ Marked(o.pk)
             /\ o = [slug |-> AssignedSlug(o.pk), pk |-> o.pk, kind |-> providers[o.pk].kind]
             /\ o.slug = AssignedSlug(o.pk)
  BY DEF Orphans, Marked
<1>2. ASSUME NEW o \in Orphans, o.slug # None
      PROVE  Points(o.slug, o.pk)
  BY <1>1, <1>2 DEF AssignedSlug, Points
<1>3. ASSUME NEW o \in Orphans, NEW x \in Orphans, o.slug = x.slug, o.slug # None
      PROVE  o.pk = x.pk
  BY <1>2, <1>3 DEF Points
<1>4. \A o \in Orphans : o.pk <= lastPK
  BY <1>1 DEF FleetInv, ServerSound, PKsFresh
<1> QED BY <1>1, <1>2, <1>3, <1>4

\* The steps of prune that leave the server alone.
LEMMA ReadingKeepsRows ==
  ASSUME FleetInv, RowsInv, UNCHANGED server,
         ListEnabled(Enabled) \/ Scan \/ Agree \/ PruneStops \/ (\E o \in plan : TakeOrphan(o))
           \/ PruneEnds \/ TeardownFails \/ FindApplication \/ CheckOwner \/ ReadAttached
  PROVE  RowsInv'
<1> USE NoneIsNoPK DEF RowsInv
<1>1. /\ UNCHANGED <<providers, lastPK, apps>>
      /\ \A pk : Exists(pk)' <=> Exists(pk)
      /\ \A pk : Marked(pk)' <=> Marked(pk)
      /\ \A s, pk : Points(s, pk)' <=> Points(s, pk)
  BY DEF server, objects, Exists, Marked, Points
<1>2. CASE ListEnabled(Enabled) \/ PruneStops \/ PruneEnds
  <2>1. pstep' \in {"off", "scan"} /\ shown' = {}
    BY <1>2 DEF ListEnabled, PruneStops, PruneEnds, ShownOnce
  <2> QED BY <2>1 DEF ShownOnce, TargetShown, RowsHold, RowsDone
<1>3. CASE Scan
  <2>1. /\ shown' = Orphans /\ plan' = Orphans /\ pstep' \in {"off", "ask"}
        /\ pstep' = "off" => Orphans = {}
    BY <1>3 DEF Scan
  <2>2. \A o \in Orphans : Due(o)'
    BY <2>1 DEF Due
  <2> QED BY <1>1, <1>3, <2>1, <2>2, ScanShows DEF ShownOnce, TargetShown, RowsHold, RowsDone
<1>4. CASE Agree
  <2>1. \A o : Due(o)' <=> Due(o)
    BY <1>4 DEF Agree, Due
  <2> QED BY <1>1, <1>4, <2>1 DEF Agree, ShownOnce, TargetShown, RowsHold, RowsDone
<1>5. ASSUME NEW o \in plan, TakeOrphan(o)
      PROVE  RowsInv'
  <2>1. /\ pstep = "next" /\ pstep' = "find" /\ plan' = plan \ {o} /\ target'.slug = o.slug
        /\ UNCHANGED <<shown, failed>> /\ o \in shown
    BY <1>5 DEF TakeOrphan, NoTarget, FleetInv, FleetTypeOK, PruneTypeOK
  <2>2. \A x \in shown : Due(x)' => x \in plan \/ x.slug = o.slug
    BY <2>1 DEF Due
  <2>3. \A x \in shown : Due(x) => Due(x)'
    BY <2>1 DEF Due
  <2>4. RowsHold'
    BY <1>1, <2>1, <2>2 DEF RowsHold, ShownOnce, Due
  <2>5. TargetShown'
    BY <2>1 DEF TargetShown, ShownOnce, FleetInv, FleetTypeOK, PruneTypeOK
  <2> QED BY <1>1, <2>1, <2>3, <2>4, <2>5 DEF ShownOnce, RowsDone
<1>6. CASE TeardownFails
  <2>1. \A o : Due(o)' => Due(o)
    BY <1>6 DEF TeardownFails, Due
  <2> QED BY <1>1, <1>6, <2>1 DEF TeardownFails, ShownOnce, TargetShown, RowsHold, RowsDone
<1>7. CASE FindApplication
  <2>1. /\ pstep = "find" /\ pstep' = "own" /\ target.slug # None
        /\ target'.slug = target.slug /\ target'.pk = apps[target.slug].provider
        /\ UNCHANGED <<shown, plan, failed>>
    BY <1>7 DEF FindApplication, TeardownStep, FleetInv, FleetTypeOK, PruneTypeOK, Target
  <2>2. PICK t \in shown : t.slug = target.slug
    BY <2>1 DEF TargetShown
  <2>3. Points(t.slug, t.pk) /\ target'.pk = t.pk
    BY <2>1, <2>2 DEF RowsHold, Due, Points
  <2>4. \A o \in shown : Due(o)' <=> Due(o)
    BY <2>1, <2>2, <2>3 DEF Due, ShownOnce
  <2>5. TargetShown'
    BY <2>1, <2>2, <2>3 DEF TargetShown
  <2> QED BY <1>1, <2>1, <2>4, <2>5 DEF ShownOnce, RowsHold, RowsDone
<1>8. CASE CheckOwner \/ ReadAttached
  <2>1. /\ pstep \in {"own", "read"} /\ pstep' \in {"read", "detach", "provider"}
        /\ target'.slug = target.slug /\ target'.pk = target.pk /\ UNCHANGED <<shown, plan, failed>>
    BY <1>8 DEF CheckOwner, ReadAttached, TeardownStep, FleetInv, FleetTypeOK, PruneTypeOK, Target
  <2>2. \A o : Due(o)' <=> Due(o)
    BY <2>1 DEF Due
  <2> QED BY <1>1, <2>1, <2>2 DEF ShownOnce, TargetShown, RowsHold, RowsDone
<1> QED BY <1>2, <1>3, <1>4, <1>5, <1>6, <1>7, <1>8

\* The steps of prune that write to it.
LEMMA DeletingKeepsRows ==
  ASSUME FleetInv, RowsInv, PruneStep, Detach \/ RemoveProvider \/ RemoveApplication
  PROVE  RowsInv'
<1> USE NoneIsNoPK DEF RowsInv
<1>1. /\ UNCHANGED <<shown, plan, target, failed>> /\ lastPK' = lastPK
      /\ \A pk \in PKs : Exists(pk)' => Exists(pk) /\ providers'[pk] = providers[pk]
  BY PruneTakesAway DEF Detach, RemoveProvider, RemoveApplication, TeardownStep
<1>2. /\ pstep \in {"detach", "provider", "app"} /\ pstep' \in {"provider", "app", "next"}
      /\ \A o : Due(o)' => Due(o)
  BY <1>1 DEF Due, Detach, RemoveProvider, RemoveApplication, TeardownStep
<1>3. RemoveProvider => ~Exists(target.pk)'
  <2>1. CASE RemoveProvider /\ Exists(target.pk)
    <3>1. DeleteProvider(target.pk)
      BY <2>1 DEF RemoveProvider
    <3> QED BY <1>1, <3>1, DeleteProviderSound DEF FleetInv, FleetTypeOK, TypeOK
  <2>2. CASE RemoveProvider /\ ~Exists(target.pk)
    BY <1>1, <2>2 DEF Exists
  <2> QED BY <2>1, <2>2
<1>4. ShownOnce'
  BY <1>1, <1>2 DEF ShownOnce
<1>5. TargetShown'
  BY <1>1, <1>2, <1>3 DEF TargetShown, Detach, RemoveProvider, RemoveApplication, TeardownStep
<1>6. RowsDone'
  <2>1. ASSUME NEW o \in shown, Due(o), ~Due(o)'
        PROVE  ~Exists(o.pk)'
    BY <1>1, <1>3, <2>1 DEF Due, Detach, RemoveProvider, RemoveApplication, TeardownStep
  <2> QED BY <1>1, <2>1, RowTyped DEF RowsDone
<1>7. RowsHold'
  <2> SUFFICES ASSUME NEW o \in shown, o.slug # None, Due(o)'
               PROVE  Points(o.slug, o.pk)' /\ Marked(o.pk)'
    BY <1>1 DEF RowsHold
  <2>1. Points(o.slug, o.pk) /\ Marked(o.pk) /\ o.slug \in Slugs /\ o.pk \in PKs
    BY <1>2, RowTyped DEF RowsHold
  <2>2. Exists(o.pk)'
    <3>1. CASE RemoveProvider
      <4>1. o \in plan
        BY <1>1, <3>1 DEF Due, RemoveProvider, TeardownStep
      <4>2. PICK t \in shown : t.slug = target.slug /\ t.pk = target.pk
        BY <3>1 DEF TargetShown, RemoveProvider
      <4>3. target.slug \in Slugs
        BY <3>1 DEF RemoveProvider, FleetInv, TargetIsOrphan
      <4>4. o.pk # target.pk
        BY <3>1, <4>1, <4>2, <4>3 DEF TargetShown, ShownOnce, RemoveProvider
      <4>5. CASE Exists(target.pk)
        <5>1. DeleteProvider(target.pk)
          BY <3>1, <4>5 DEF RemoveProvider
        <5> QED BY <2>1, <4>4, <5>1, DeleteProviderSound DEF FleetInv, FleetTypeOK, TypeOK, Marked, Exists
      <4>6. CASE ~Exists(target.pk)
        BY <2>1, <3>1, <4>6 DEF RemoveProvider, server, objects, Marked, Exists
      <4> QED BY <4>5, <4>6
    <3>2. CASE Detach
      BY <2>1, <3>2 DEF Detach, PatchOutpost, Marked, Exists
    <3>3. CASE RemoveApplication
      BY <2>1, <3>3 DEF RemoveApplication, DeleteApp, server, objects, Marked, Exists
    <3> QED BY <3>1, <3>2, <3>3
  <2>3. ~(RemoveApplication /\ o.slug = target.slug)
    BY <1>1, <2>1 DEF Due, TargetShown, RemoveApplication, TeardownStep
  <2> QED BY <1>1, <2>1, <2>2, <2>3, PruneKeepsPointing DEF Marked
<1> QED BY <1>4, <1>5, <1>6, <1>7

LEMMA RowsStep == FleetInv /\ RowsInv /\ [FleetNext]_fleetVars => RowsInv'
<1> SUFFICES ASSUME FleetInv, RowsInv, [FleetNext]_fleetVars PROVE RowsInv'
  OBVIOUS
<1>1. CASE PruneStep
  <2>1. \/ Detach \/ RemoveProvider \/ RemoveApplication
        \/ /\ UNCHANGED server
           /\ ListEnabled(Enabled) \/ Scan \/ Agree \/ PruneStops \/ (\E o \in plan : TakeOrphan(o))
                \/ PruneEnds \/ TeardownFails \/ FindApplication \/ CheckOwner \/ ReadAttached
    BY <1>1 DEF PruneStep, PruneNext, ListEnabled, Scan, Agree, PruneStops, TakeOrphan, PruneEnds,
       TeardownFails, FindApplication, CheckOwner, ReadAttached
  <2> QED BY <1>1, <2>1, ReadingKeepsRows, DeletingKeepsRows
<1> QED BY <1>1, DaemonKeepsRows, OneAtATime

\* Every row that prune has shown is still as it was when its turn comes, by whatever
\* run of the daemon; and then it is gone, or the prune has failed.
THEOREM RowsInvariant == FleetSpec => [](FleetInv /\ RowsInv)
<1>1. FleetInit => FleetInv /\ RowsInv
  <2>1. FleetInit => RowsInv
    BY DEF FleetInit, PruneInit, RowsInv, ShownOnce, TargetShown, RowsHold, RowsDone
  <2> QED BY <2>1, FleetInitSound
<1>2. FleetInv /\ RowsInv /\ [FleetNext]_fleetVars => (FleetInv /\ RowsInv)'
  BY FleetStep, RowsStep
<1> QED BY <1>1, <1>2, PTL DEF FleetSpec

\* deleteOrphans: of a prune that reports no failure not one provider that it showed is
\* left, whatever the daemon did meanwhile; a dangling one makes it fail.
THEOREM PrunedMeansGone == FleetSpec => PrunedIsGone
<1> DEFINE Gone == pstep = "next" /\ pstep' = "off" /\ ~failed' => \A o \in shown : ~Exists(o.pk)
<1>1. FleetInv /\ RowsInv /\ [FleetNext]_fleetVars => Gone
  <2> SUFFICES ASSUME FleetInv, RowsInv, [FleetNext]_fleetVars, pstep = "next", pstep' = "off", ~failed',
                      NEW o \in shown
               PROVE  ~Exists(o.pk)
    OBVIOUS
  <2>1. PruneEnds
    <3>1. PruneStep
      BY OneAtATime DEF pruneVars
    <3> QED BY <3>1 DEF PruneStep, PruneNext, ListEnabled, Scan, Agree, PruneStops, TakeOrphan,
              TeardownFails, FindApplication, CheckOwner, ReadAttached, Detach, RemoveProvider,
              RemoveApplication, TeardownStep
  <2>2. ~failed /\ ~Due(o)
    BY <2>1 DEF PruneEnds, Due
  <2> QED BY <2>2 DEF RowsInv, RowsDone
<1>2. FleetInv /\ RowsInv /\ [FleetNext]_fleetVars => [Gone]_fleetVars
  BY <1>1
<1> QED BY <1>2, RowsInvariant, PTL DEF FleetSpec, PrunedIsGone

\* Teardown's order, whatever runs between its steps: a provider of aboard's that stays
\* keeps its application, but for one the daemon gave that application after the teardown
\* had deleted the provider it read.
THEOREM ApplicationsAreKept == FleetSpec => KeepsItsApplication
<1> DEFINE Kept == \A pk \in PKs :
                     Marked(pk) /\ AssignedSlug(pk) # None /\ Marked(pk)' /\ AssignedSlug(pk)' = None
                       => pstep = "app" /\ pk # target.pk
<1>1. FleetInv /\ RowsInv /\ [FleetNext]_fleetVars => Kept
  <2> SUFFICES ASSUME FleetInv, RowsInv, [FleetNext]_fleetVars, NEW pk \in PKs,
                      Marked(pk), AssignedSlug(pk) # None, Marked(pk)', AssignedSlug(pk)' = None
               PROVE  pstep = "app" /\ pk # target.pk
    OBVIOUS
  <2>1. PICK s \in Slugs : Points(s, pk)
    BY DEF AssignedSlug, Points
  <2>2. ~Points(s, pk)'
    <3>1. (\E t \in Slugs : Points(t, pk)') => AssignedSlug(pk)' \in Slugs
      BY DEF AssignedSlug, Points
    <3> QED BY <3>1, NoneIsNoPK
  <2>3. PruneStep
    BY <2>1, <2>2, OneAtATime, DaemonKeepsPointing
  <2>4. RemoveApplication
    BY <2>1, <2>2, <2>3, PruneKeepsPointing DEF Marked
  <2> QED BY <2>4 DEF RemoveApplication, RowsInv, TargetShown, Marked
<1>2. FleetInv /\ RowsInv /\ [FleetNext]_fleetVars => [Kept]_fleetVars
  BY <1>1
<1> QED BY <1>2, RowsInvariant, PTL DEF FleetSpec, KeepsItsApplication
=============================================================================
