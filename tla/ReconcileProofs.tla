--------------------------- MODULE ReconcileProofs ---------------------------
(***************************************************************************)
(* What a sequence of reconcile runs guarantees, for any labels, any       *)
(* applications people have made, any number of runs and wherever each of  *)
(* them is broken off.                                                     *)
(***************************************************************************)
EXTENDS Reconcile, TLAPS

-----------------------------------------------------------------------------
\* What the server holds, whoever writes to it.

\* A marker name is carried by one provider.
NamesUnique ==
  \A p, q \in PKs :
    Marked(p) /\ Marked(q) /\ providers[p].owner = providers[q].owner => p = q

\* No pk beyond the last one is in use.
PKsFresh == \A pk \in PKs : Exists(pk) => pk <= lastPK

Points(s, pk) == apps[s] # None /\ apps[s].provider = pk

\* An application's provider exists and is no other application's.
AppsSound ==
  /\ \A s \in Slugs : apps[s] # None /\ apps[s].provider # None => Exists(apps[s].provider)
  /\ \A s, t \in Slugs : \A pk \in PKs : Points(s, pk) /\ Points(t, pk) => s = t

ServerSound == NamesUnique /\ PKsFresh /\ AppsSound

-----------------------------------------------------------------------------
\* Where a run is, and what it then knows.

BeforeWrites == {"resolve", "look", "own", "gate", "collide", "provider", "create", "patch"}
HasRead == {"own", "gate", "collide", "provider", "create", "patch", "app"}
Decided == {"collide", "provider", "create", "patch", "app"}
Converged == {"outpost", "attach", "probe", "force", "poll"}
HasApp == {"list", "unbind", "bind"} \cup Converged

\* A run has a label and no outcome, and has read nothing before its first call.
Running ==
  /\ step # "idle" => label \in Labels /\ outcome = "running"
  /\ step \in {"idle", "resolve", "look"} => local = Blank

\* What was read of the application is still so when it is acted on; what is adopted is
\* its provider, once the gate has agreed.
ReadHolds ==
  /\ step \in HasRead => local.app = apps[label.slug]
  /\ step \in {"own", "gate"} => local.app # None /\ local.adopt = None
  /\ local.adopt # None => local.app # None /\ local.adopt = local.app.provider

\* Past the gate, an application of a person's making is one that may be taken.
GatePassed ==
  step \in Decided => (HandMade(label.slug) => MayTake(label.slug))

\* Past the collision check, the host is nobody else's.
HostFree ==
  step \in {"provider", "create", "patch"} /\ label.kind = "proxy" => ~HostTaken

\* The provider to be patched is the adopted one, or carries the slug's name.
ProviderFound ==
  /\ step = "create" => local.adopt = None
  /\ step = "patch" => \/ local.adopt # None /\ local.pk = local.adopt
                       \/ /\ local.adopt = None
                          /\ local.pk \in PKs
                          /\ Exists(local.pk)
                          /\ providers[local.pk].owner = label.slug

\* A provider with the label's shape.
Shaped(pk) ==
  /\ pk \in PKs
  /\ providers[pk] = [owner |-> label.slug, kind |-> label.kind, host |-> label.host]

\* The provider first, then the application, then the bindings, then the outpost.
InOrder ==
  /\ step \in {"app"} \cup HasApp => Shaped(local.pk)
  /\ step \in HasApp =>
       apps[label.slug] = [provider |-> local.pk, title |-> label.title, mode |-> label.mode]
  /\ step \in {"unbind", "bind"} =>
       /\ bindings[label.slug] \ label.gates = local.stray
       /\ label.gates \ bindings[label.slug] = local.missing
  /\ step = "bind" => local.stray = {}
  /\ step \in Converged => bindings[label.slug] = label.gates /\ label.kind = "proxy"

\* The list a run sends back is the one there is, with its provider.
ListHolds ==
  /\ step \in {"attach", "probe", "force", "poll"} => label.outpost \in Outposts
  /\ step = "attach" => members[label.outpost] = local.seen
  /\ step \in {"probe", "force", "poll"} =>
       members[label.outpost] = local.seen \cup {local.pk}

NothingWritten == step \in BeforeWrites => "objects" \notin wrote

RunSound ==
  /\ Running
  /\ ReadHolds
  /\ GatePassed
  /\ HostFree
  /\ ProviderFound
  /\ InOrder
  /\ ListHolds
  /\ NothingWritten

ReconcileInv ==
  /\ TypeOK
  /\ ServerSound
  /\ RunSound
  /\ RefusedBeforeWriting
  /\ ConvergedOnSuccess
  /\ OneProviderPerHost

-----------------------------------------------------------------------------
\* The calls keep what the server holds typed and sound.

LEMMA CreateProviderSound ==
  ASSUME NEW slug \in Slugs, NEW kind \in Kinds, NEW host \in Hosts \cup {None},
         ServerTypeOK, ServerSound, CreateProvider(slug, kind, host)
  PROVE  ServerTypeOK' /\ ServerSound'
<1> USE ServerAssumption, NoneAssumption
<1>1. lastPK + 1 \in PKs /\ lastPK' \in 0..MaxPK
  BY DEF CreateProvider, ServerTypeOK, PKs
<1>2. [owner |-> slug, kind |-> kind, host |-> host] \in Provider
  BY DEF Provider
<1>3. ServerTypeOK'
  BY <1>1, <1>2 DEF CreateProvider, ServerTypeOK
<1>4. ~Exists(lastPK + 1)
  BY <1>1 DEF ServerSound, PKsFresh, ServerTypeOK, PKs
<1>5. \A pk \in PKs \ {lastPK + 1} : providers'[pk] = providers[pk]
  BY <1>1 DEF CreateProvider, ServerTypeOK
<1>6. providers'[lastPK + 1] = [owner |-> slug, kind |-> kind, host |-> host]
  BY <1>1 DEF CreateProvider, ServerTypeOK
<1>7. NamesUnique'
  <2>1. \A pk \in PKs : Exists(pk) => providers[pk].owner # slug
    BY DEF CreateProvider, NameTaken, PKs
  <2> QED BY <1>5, <1>6, <2>1 DEF ServerSound, NamesUnique, Marked, Exists
<1>8. PKsFresh'
  BY <1>1, <1>5 DEF ServerSound, PKsFresh, Exists, CreateProvider, ServerTypeOK, PKs
<1>9. AppsSound'
  BY <1>2, <1>5, <1>6 DEF ServerSound, AppsSound, Points, Exists, CreateProvider
<1> QED BY <1>3, <1>7, <1>8, <1>9 DEF ServerSound

LEMMA PatchProviderSound ==
  ASSUME NEW pk, NEW slug \in Slugs, NEW kind \in Kinds, NEW host \in Hosts \cup {None},
         ServerTypeOK, ServerSound, PatchProvider(pk, slug, kind, host)
  PROVE  ServerTypeOK' /\ ServerSound'
<1> USE NoneAssumption
<1>1. pk \in PKs /\ providers[pk] # None
  BY DEF PatchProvider, Exists
<1>2. [owner |-> slug, kind |-> kind, host |-> host] \in Provider
  BY DEF Provider
<1>3. ServerTypeOK'
  BY <1>1, <1>2 DEF PatchProvider, ServerTypeOK
<1>4. /\ \A p \in PKs \ {pk} : providers'[p] = providers[p]
      /\ providers'[pk] = [owner |-> slug, kind |-> kind, host |-> host]
  BY <1>1 DEF PatchProvider, ServerTypeOK
<1>5. NamesUnique'
  BY <1>4 DEF ServerSound, NamesUnique, Marked, Exists, PatchProvider, NameTaken
<1>6. PKsFresh'
  BY <1>1, <1>4 DEF ServerSound, PKsFresh, Exists, PatchProvider
<1>7. AppsSound'
  BY <1>2, <1>4 DEF ServerSound, AppsSound, Points, Exists, PatchProvider
<1> QED BY <1>3, <1>5, <1>6, <1>7 DEF ServerSound

\* An application is given a provider that exists and is no one else's.
LEMMA GiveProviderSound ==
  ASSUME NEW slug \in Slugs, NEW pk, NEW title \in Titles, NEW mode \in Modes,
         ServerTypeOK, ServerSound,
         CreateApp(slug, pk, title, mode) \/ PatchApp(slug, pk, title, mode)
  PROVE  ServerTypeOK' /\ ServerSound'
<1> USE NoneAssumption
<1>1. /\ Exists(pk) /\ ~Assigned(pk, slug)
      /\ apps' = [apps EXCEPT ![slug] = [provider |-> pk, title |-> title, mode |-> mode]]
      /\ UNCHANGED <<providers, lastPK, bindings, members, groups, served>>
  BY DEF CreateApp, PatchApp
<1>2. [provider |-> pk, title |-> title, mode |-> mode] \in App
  BY <1>1 DEF App, Exists
<1>3. ServerTypeOK'
  BY <1>1, <1>2 DEF ServerTypeOK
<1>4. /\ \A s \in Slugs \ {slug} : apps'[s] = apps[s]
      /\ apps'[slug] = [provider |-> pk, title |-> title, mode |-> mode]
  BY <1>1 DEF ServerTypeOK
<1>5. AppsSound'
  BY <1>1, <1>4 DEF ServerSound, AppsSound, Points, Assigned, Exists
<1>6. NamesUnique' /\ PKsFresh'
  BY <1>1 DEF ServerSound, NamesUnique, PKsFresh, Marked, Exists
<1> QED BY <1>3, <1>5, <1>6 DEF ServerSound

\* What touches neither providers nor applications keeps them sound.
LEMMA OthersSound ==
  ASSUME ServerSound, UNCHANGED <<providers, lastPK, apps>>
  PROVE  ServerSound'
BY DEF ServerSound, NamesUnique, PKsFresh, AppsSound, Points, Marked, Exists

LEMMA BindingSound ==
  ASSUME NEW slug \in Slugs, NEW g \in Gates, ServerTypeOK, ServerSound,
         CreateBinding(slug, g) \/ DeleteBinding(slug, g)
  PROVE  ServerTypeOK' /\ ServerSound'
<1>1. ServerTypeOK'
  BY DEF CreateBinding, DeleteBinding, ServerTypeOK
<1> QED BY <1>1, OthersSound DEF CreateBinding, DeleteBinding

LEMMA PatchOutpostSound ==
  ASSUME NEW o, NEW pks, ServerTypeOK, ServerSound, PatchOutpost(o, pks)
  PROVE  ServerTypeOK' /\ ServerSound'
<1>1. pks \in SUBSET PKs
  BY DEF PatchOutpost, Exists
<1>2. ServerTypeOK'
  BY <1>1 DEF PatchOutpost, ServerTypeOK
<1> QED BY <1>2, OthersSound DEF PatchOutpost

LEMMA CreateGroupSound ==
  ASSUME NEW g \in Groups, ServerTypeOK, ServerSound, CreateGroup(g)
  PROVE  ServerTypeOK' /\ ServerSound'
<1>1. ServerTypeOK'
  BY DEF CreateGroup, objects, ServerTypeOK
<1> QED BY <1>1, OthersSound DEF CreateGroup, objects

LEMMA ReloadSound ==
  ASSUME ServerTypeOK, ServerSound, Reload
  PROVE  ServerTypeOK' /\ ServerSound'
<1>1. served' \subseteq Hosts
  BY DEF Reload, Configured
<1>2. ServerTypeOK'
  BY <1>1 DEF Reload, objects, ServerTypeOK
<1> QED BY <1>2, OthersSound DEF Reload, objects

-----------------------------------------------------------------------------
\* Types, and a sound server, through every step of a run.

LEMMA LabelTyped ==
  ASSUME NEW l \in Labels
  PROVE  /\ l.slug \in Slugs /\ l.kind \in Kinds \ {"other"} /\ l.host \in Hosts \cup {None}
         /\ l.gates \in SUBSET (Groups \cup Policies) /\ l.title \in Titles
         /\ l.mode \in Modes /\ l.adopt \in BOOLEAN
  BY LabelsAssumption DEF Label

LEMMA BlankTyped == Blank \in Local
  BY DEF Blank, Local

LEMMA InitTyped ==
  ASSUME ServerInit
  PROVE  ServerTypeOK /\ ServerSound
<1> USE ServerAssumption, NoneAssumption, HandAppsAssumption
<1>1. PICK h \in HandApps \cup {None} :
        LET made == h # None
            prov == made /\ h.kind # None
        IN /\ providers = [pk \in PKs |->
                             IF prov /\ pk = 1
                               THEN [owner |-> Hand, kind |-> h.kind, host |-> h.host]
                               ELSE None]
           /\ lastPK = IF prov THEN 1 ELSE 0
           /\ apps = [s \in Slugs |->
                        IF made /\ s = h.slug
                          THEN [provider |-> IF prov THEN 1 ELSE None,
                                title |-> h.title, mode |-> h.mode]
                          ELSE None]
           /\ bindings = [s \in Slugs |-> IF made /\ s = h.slug THEN h.gates ELSE {}]
           /\ members = [o \in Outposts |->
                           IF prov /\ h.attached /\ o = Embedded THEN {1} ELSE {}]
           /\ groups \in {Groups, {}}
           /\ served = Configured
  BY DEF ServerInit
<1>2. 1 \in PKs
  BY DEF PKs
<1>3. h # None => /\ h.slug \in Slugs /\ h.kind \in Kinds \cup {None} /\ h.host \in Hosts \cup {None}
                  /\ h.title \in Titles /\ h.mode \in Modes /\ h.gates \in SUBSET Gates
  BY <1>1
<1>4. providers \in [PKs -> Provider \cup {None}]
  BY <1>1, <1>3 DEF Provider
<1>5. lastPK \in 0..MaxPK /\ groups \subseteq Groups /\ served \subseteq Hosts
  BY <1>1 DEF Configured
<1>6. apps \in [Slugs -> App \cup {None}]
  BY <1>1, <1>2, <1>3 DEF App
<1>7. bindings \in [Slugs -> SUBSET Gates]
  BY <1>1, <1>3
<1>8. members \in [Outposts -> SUBSET PKs]
  BY <1>1, <1>2
<1>9. ServerTypeOK
  BY <1>4, <1>5, <1>6, <1>7, <1>8 DEF ServerTypeOK
<1>10. \A pk \in PKs : Exists(pk) => pk = 1 /\ lastPK = 1 /\ providers[pk].owner = Hand
  BY <1>1 DEF Exists
<1>11. NamesUnique /\ PKsFresh
  BY <1>10 DEF NamesUnique, PKsFresh, Marked
<1>12. \A s \in Slugs : apps[s] # None =>
         /\ h # None /\ s = h.slug
         /\ apps[s].provider = IF h.kind # None THEN 1 ELSE None
  BY <1>1
<1>13. h # None /\ h.kind # None => Exists(1)
  BY <1>1, <1>2, <1>3 DEF Exists, Provider
<1>14. AppsSound
  BY <1>12, <1>13 DEF AppsSound, Points
<1> QED BY <1>9, <1>11, <1>14 DEF ServerSound

\* The steps that only read, and move on or end the run.
LEMMA ReadsTyped ==
  ASSUME TypeOK, Reads, local' \in Local, step' \in Steps, outcome' \in Outcomes, UNCHANGED locals
  PROVE  TypeOK'
BY DEF TypeOK, ServerTypeOK, Reads, server, objects, locals

LEMMA EndTyped ==
  ASSUME TypeOK, NEW o \in Outcomes, End(o), Reads
  PROVE  TypeOK'
<1>1. local' \in Local /\ step' \in Steps /\ outcome' \in Outcomes /\ UNCHANGED locals
  BY BlankTyped DEF End, Steps
<1> QED BY <1>1, ReadsTyped

LEMMA GotoTyped ==
  ASSUME TypeOK, NEW s \in Steps, Goto(s), Reads, local' \in Local
  PROVE  TypeOK'
<1>1. outcome' \in Outcomes /\ UNCHANGED locals /\ step' \in Steps
  BY DEF Goto, TypeOK
<1> QED BY <1>1, ReadsTyped

\* The steps that write: the server is typed by the lemmas above.
LEMMA WritesTyped ==
  ASSUME TypeOK, NEW what \in {"groups", "objects"}, Writes(what), ServerTypeOK',
         NEW s \in Steps, Goto(s) \/ End("live"), local' \in Local
  PROVE  TypeOK'
<1>1. wrote' \subseteq {"groups", "objects"}
  BY DEF Writes, TypeOK
<1>2. step' \in Steps /\ outcome' \in Outcomes /\ UNCHANGED locals
  BY DEF Goto, End, TypeOK, Steps, Outcomes
<1> QED BY <1>1, <1>2 DEF TypeOK, locals

LEMMA OwnKindTyped ==
  ASSUME NEW slug, NEW pk
  PROVE  /\ OwnKind(slug, pk) \in Kinds \cup {None}
         /\ OwnKind(slug, pk) \in Kinds =>
              Exists(pk) /\ providers[pk].owner = slug /\ providers[pk].kind = OwnKind(slug, pk)
BY NoneAssumption DEF OwnKind, ByName

\* A step of a run keeps the types, the server sound with them.
LEMMA RunTyped ==
  ASSUME TypeOK, ServerSound, Running, step = "gate" => local.app # None, Run
  PROVE  TypeOK' /\ ServerSound'
<1> USE DEF Steps, Outcomes
<1>1. /\ ServerTypeOK /\ local \in Local /\ step \in Steps
      /\ Reads => ServerSound'
  BY OthersSound DEF TypeOK, Reads, server, objects
<1>2. step # "idle" => label \in Labels
  BY DEF Running
<1>3. label \in Labels =>
        /\ label.slug \in Slugs /\ label.kind \in Kinds /\ label.host \in Hosts \cup {None}
        /\ label.title \in Titles /\ label.mode \in Modes
        /\ label.gates \in SUBSET Gates
  BY LabelTyped DEF Gates
<1>4. CASE ResolveBindings
  <2>1. local' \in Local
    BY <1>1, <1>4, BlankTyped DEF ResolveBindings, Keep, End
  <2> QED BY <1>1, <1>4, <2>1, GotoTyped, EndTyped DEF ResolveBindings
<1>5. ASSUME NEW g \in Groups, MakeGroup(g)
      PROVE  TypeOK' /\ ServerSound'
  <2>1. ServerTypeOK' /\ ServerSound'
    BY <1>1, <1>5, CreateGroupSound DEF MakeGroup
  <2>2. local' \in Local
    BY <1>1, <1>5 DEF MakeGroup, Keep
  <2> QED BY <1>5, <2>1, <2>2, WritesTyped DEF MakeGroup
<1>6. CASE LookUpApplication
  <2>1. apps[label.slug] \in App \cup {None}
    BY <1>1, <1>2, <1>3, <1>6 DEF LookUpApplication, ServerTypeOK
  <2>2. local' \in Local
    BY <1>1, <1>6, <2>1 DEF LookUpApplication, Local
  <2> QED BY <1>1, <1>6, <2>2, GotoTyped DEF LookUpApplication
<1>7. CASE ResolveOwnership
  <2>1. local' \in Local
    BY <1>1, <1>7, OwnKindTyped DEF ResolveOwnership, Local
  <2> QED BY <1>1, <1>7, <2>1, GotoTyped DEF ResolveOwnership
<1>8. CASE AdoptionGate
  <2>1. local.app \in App
    BY <1>1, <1>8 DEF AdoptionGate, Local
  <2>2. local' \in Local
    BY <1>1, <1>8, <2>1, BlankTyped DEF AdoptionGate, Local, App, End
  <2> QED BY <1>1, <1>8, <2>2, GotoTyped, EndTyped DEF AdoptionGate
<1>9. CASE CheckExternalHost
  <2>1. local' \in Local
    BY <1>1, <1>9, BlankTyped DEF CheckExternalHost, Keep, End
  <2> QED BY <1>1, <1>9, <2>1, GotoTyped, EndTyped DEF CheckExternalHost
<1>10. CASE LookUpProvider
  <2>1. local' \in Local
    BY <1>1, <1>10 DEF LookUpProvider, Local, ByName, Keep
  <2> QED BY <1>1, <1>10, <2>1, GotoTyped DEF LookUpProvider
<1>11. CASE MakeProvider
  <2>1. ServerTypeOK' /\ ServerSound'
    BY <1>1, <1>2, <1>3, <1>11, CreateProviderSound DEF MakeProvider
  <2>2. lastPK + 1 \in PKs
    BY <1>1, <1>11, ServerAssumption DEF MakeProvider, CreateProvider, ServerTypeOK, PKs
  <2>3. local' \in Local
    BY <1>1, <1>11, <2>2 DEF MakeProvider, Local
  <2> QED BY <1>11, <2>1, <2>3, WritesTyped DEF MakeProvider
<1>12. CASE ReshapeProvider
  <2>1. ServerTypeOK' /\ ServerSound'
    BY <1>1, <1>2, <1>3, <1>12, PatchProviderSound DEF ReshapeProvider
  <2>2. local' \in Local
    BY <1>1, <1>12 DEF ReshapeProvider, Keep
  <2> QED BY <1>12, <2>1, <2>2, WritesTyped DEF ReshapeProvider
<1>13. CASE ConvergeApplication
  <2>1. ServerTypeOK' /\ ServerSound'
    BY <1>1, <1>2, <1>3, <1>13, GiveProviderSound DEF ConvergeApplication
  <2>2. local' \in Local
    BY <1>1, <1>13 DEF ConvergeApplication, Keep
  <2> QED BY <1>13, <2>1, <2>2, WritesTyped DEF ConvergeApplication
<1>14. CASE ListBindings
  <2>1. bindings[label.slug] \in SUBSET Gates
    BY <1>1, <1>2, <1>3, <1>14 DEF ListBindings, ServerTypeOK
  <2>2. local' \in Local
    BY <1>1, <1>2, <1>3, <1>14, <2>1 DEF ListBindings, Local
  <2> QED BY <1>1, <1>14, <2>2, GotoTyped DEF ListBindings
<1>15. ASSUME NEW g \in Gates, RemoveStray(g) \/ Bind(g)
       PROVE  TypeOK' /\ ServerSound'
  <2>1. ServerTypeOK' /\ ServerSound'
    BY <1>1, <1>2, <1>3, <1>15, BindingSound DEF RemoveStray, Bind
  <2>2. local' \in Local
    BY <1>1, <1>15 DEF RemoveStray, Bind, Local
  <2> QED BY <1>15, <2>1, <2>2, WritesTyped DEF RemoveStray, Bind
<1>16. CASE StraysRemoved \/ Bound \/ OutpostMissing
  <2>1. local' \in Local
    BY <1>1, <1>16, BlankTyped DEF StraysRemoved, Bound, OutpostMissing, Keep, End
  <2> QED BY <1>1, <1>16, <2>1, GotoTyped, EndTyped DEF StraysRemoved, Bound, OutpostMissing
<1>17. CASE ReadOutpost
  <2>1. members[label.outpost] \in SUBSET PKs
    BY <1>1, <1>17 DEF ReadOutpost, ServerTypeOK
  <2>2. local' \in Local
    BY <1>1, <1>17, <2>1, BlankTyped DEF ReadOutpost, Local, End
  <2> QED BY <1>1, <1>17, <2>2, GotoTyped, EndTyped DEF ReadOutpost
<1>18. CASE Attach \/ ForceReload
  <2>1. ServerTypeOK' /\ ServerSound'
    BY <1>1, <1>18, PatchOutpostSound DEF Attach, ForceReload
  <2>2. local' \in Local
    BY <1>1, <1>18, BlankTyped DEF Attach, ForceReload, Keep, End
  <2> QED BY <1>18, <2>1, <2>2, WritesTyped DEF Attach, ForceReload
<1>19. CASE Probe \/ PollServed
  <2>1. local' \in Local
    BY <1>1, <1>19, BlankTyped DEF Probe, PollServed, Keep, End
  <2> QED BY <1>1, <1>19, <2>1, GotoTyped, EndTyped DEF Probe, PollServed
<1> QED BY <1>4, <1>5, <1>6, <1>7, <1>8, <1>9, <1>10, <1>11, <1>12, <1>13, <1>14, <1>15,
           <1>16, <1>17, <1>18, <1>19 DEF Run

LEMMA StepTyped ==
  ASSUME TypeOK, ServerSound, Running, step = "gate" => local.app # None, [Next]_vars
  PROVE  TypeOK' /\ ServerSound'
<1> USE DEF Steps, Outcomes
<1>1. ASSUME NEW l \in Labels, Start(l)
      PROVE  TypeOK' /\ ServerSound'
  <2>1. runs' \in 0..MaxRuns
    BY <1>1, MaxRunsAssumption DEF Start, TypeOK
  <2> QED BY <1>1, <2>1, OthersSound DEF Start, TypeOK, ServerTypeOK, server, objects
<1>2. CASE Fails
  BY <1>2, EndTyped, OthersSound DEF Fails, Reads, server, objects
<1>3. CASE OutpostReloads
  <2>1. ServerTypeOK' /\ ServerSound'
    BY <1>3, ReloadSound DEF OutpostReloads, TypeOK
  <2> QED BY <1>3, <2>1 DEF OutpostReloads, TypeOK
<1>4. CASE UNCHANGED vars
  BY <1>4, OthersSound DEF vars, TypeOK, ServerTypeOK, server, objects, locals
<1> QED BY <1>1, <1>2, <1>3, <1>4, RunTyped DEF Next

-----------------------------------------------------------------------------
\* What a run knows, through every step of it.

\* A run that ends knows nothing.
LEMMA EndKnows ==
  ASSUME NEW o, End(o)
  PROVE  RunSound'
BY DEF End, RunSound, Running, ReadHolds, GatePassed, HostFree, ProviderFound, InOrder, ListHolds,
       NothingWritten, BeforeWrites, HasRead, Decided, Converged, HasApp, Blank

\* The formulas that speak of the server and the label only.
LEMMA SameServer ==
  ASSUME UNCHANGED <<server, label>>
  PROVE  /\ \A s \in Slugs : HandMade(s)' = HandMade(s) /\ MayTake(s)' = MayTake(s)
         /\ \A pk : Shaped(pk)' = Shaped(pk) /\ Exists(pk)' = Exists(pk)
BY DEF server, objects, HandMade, MayTake, Consents, Differs, Shaped, Marked, Exists

\* The steps up to the first write.
LEMMA DecidingKnows ==
  ASSUME TypeOK, RunSound,
         ResolveBindings \/ (\E g \in Groups : MakeGroup(g)) \/ LookUpApplication \/ ResolveOwnership
           \/ AdoptionGate \/ CheckExternalHost \/ LookUpProvider
  PROVE  RunSound'
<1> USE DEF BeforeWrites, HasRead, Decided, Converged, HasApp, Goto, Keep, locals
<1>1. step # "idle" /\ label \in Labels /\ label.slug \in Slugs /\ outcome = "running"
  BY LabelTyped DEF RunSound, Running, ResolveBindings, MakeGroup, LookUpApplication, ResolveOwnership,
      AdoptionGate, CheckExternalHost, LookUpProvider
<1>2. CASE ResolveBindings
  BY <1>1, <1>2, EndKnows DEF ResolveBindings, Reads, server, objects, RunSound, Running, ReadHolds, GatePassed, HostFree,
     ProviderFound, InOrder, ListHolds, NothingWritten
<1>3. CASE \E g \in Groups : MakeGroup(g)
  BY <1>1, <1>3 DEF MakeGroup, CreateGroup, Writes, RunSound, Running, ReadHolds, GatePassed, HostFree,
     ProviderFound, InOrder, ListHolds, NothingWritten
<1>4. CASE LookUpApplication
  BY <1>1, <1>4, NoneAssumption DEF LookUpApplication, RunSound, Running, ReadHolds, GatePassed, HostFree,
     ProviderFound, InOrder, ListHolds, NothingWritten, Reads, server, objects, Blank, HandMade
<1>5. CASE ResolveOwnership
  <2>1. /\ UNCHANGED <<server, label, outcome, wrote>> /\ step = "own"
        /\ local.app = apps[label.slug] /\ local.app # None /\ local.adopt = None
        /\ local'.app = local.app /\ local'.adopt = None
        /\ step' \in {"gate", "collide", "provider"}
    BY <1>5 DEF ResolveOwnership, RunSound, ReadHolds, Reads, TypeOK, Local
  <2>2. step' # "gate" => OwnKind(label.slug, local.app.provider) \in Kinds
    BY <1>1, <1>5, LabelTyped DEF ResolveOwnership
  <2>3. step' # "gate" => ~HandMade(label.slug)
    BY <1>1, <2>1, <2>2, OwnKindTyped, ServerAssumption DEF HandMade, Marked
  <2>4. GatePassed'
    BY <1>1, <2>1, <2>3, SameServer DEF GatePassed
  <2>5. HostFree'
    BY <1>5 DEF ResolveOwnership, HostFree
  <2> QED BY <1>1, <2>1, <2>4, <2>5 DEF RunSound, Running, ReadHolds, ProviderFound, InOrder,
          ListHolds, NothingWritten, server, objects
<1>6. CASE AdoptionGate
  <2>1. CASE TypeChange \/ ~Consents(local.app, bindings[label.slug], label)
    BY <1>6, <2>1, EndKnows DEF AdoptionGate
  <2>2. CASE ~(TypeChange \/ ~Consents(local.app, bindings[label.slug], label))
    <3>1. /\ local.app = apps[label.slug] /\ local.app # None /\ label # None
          /\ UNCHANGED <<server, label, outcome, wrote>>
          /\ local' = [local EXCEPT !.adopt = local.app.provider]
          /\ local'.adopt = local.app.provider /\ local'.app = local.app
      BY <1>1, <1>6, <2>2, LabelsAssumption
      DEF AdoptionGate, RunSound, ReadHolds, Reads, TypeOK, Local
    <3>2. MayTake(label.slug)
      BY <2>2, <3>1 DEF MayTake, TypeChange
    <3>3. GatePassed'
      BY <3>1, <3>2, SameServer, <1>1 DEF GatePassed
    <3>4. ReadHolds'
      BY <1>6, <2>2, <3>1 DEF AdoptionGate, ReadHolds, server, objects
    <3>5. Running' /\ HostFree' /\ ProviderFound' /\ InOrder' /\ ListHolds' /\ NothingWritten'
      BY <1>1, <1>6, <2>2, <3>1
      DEF AdoptionGate, RunSound, Running, HostFree, ProviderFound, InOrder, ListHolds, NothingWritten
    <3> QED BY <3>3, <3>4, <3>5 DEF RunSound
  <2> QED BY <2>1, <2>2
<1>7. CASE CheckExternalHost
  <2>1. CASE HostTaken
    BY <1>7, <2>1, EndKnows DEF CheckExternalHost
  <2>2. CASE ~HostTaken
    <3>1. UNCHANGED <<server, label, outcome, wrote, local>> /\ step = "collide" /\ step' = "provider"
      BY <1>7, <2>2 DEF CheckExternalHost, Reads
    <3>2. HostFree'
      BY <2>2, <3>1 DEF HostFree, HostTaken, Exists, server, objects
    <3>3. GatePassed'
      BY <1>1, <3>1, SameServer DEF GatePassed, RunSound
    <3> QED BY <3>1, <3>2, <3>3 DEF RunSound, Running, ReadHolds, ProviderFound, InOrder, ListHolds,
            NothingWritten, server, objects
  <2> QED BY <2>1, <2>2
<1>8. CASE LookUpProvider
  <2>1. /\ UNCHANGED <<server, label, outcome, wrote>> /\ step = "provider"
        /\ local'.app = local.app /\ local'.adopt = local.adopt
    BY <1>8 DEF LookUpProvider, Reads, TypeOK, Local
  <2>2. HostFree'
    BY <1>8, <2>1 DEF LookUpProvider, RunSound, HostFree, HostTaken, Exists, server, objects
  <2>3. GatePassed'
    BY <1>1, <1>8, <2>1, SameServer DEF LookUpProvider, RunSound, GatePassed
  <2>4. ProviderFound'
    BY <1>8, <2>1 DEF LookUpProvider, ProviderFound, ByName, Exists, TypeOK, Local, server, objects
  <2>5. Running' /\ ReadHolds' /\ InOrder' /\ ListHolds' /\ NothingWritten'
    BY <1>1, <1>8, <2>1 DEF LookUpProvider, RunSound, Running, ReadHolds, InOrder, ListHolds, NothingWritten,
        server, objects
  <2> QED BY <2>2, <2>3, <2>4, <2>5 DEF RunSound
<1> QED BY <1>2, <1>3, <1>4, <1>5, <1>6, <1>7, <1>8

\* The provider: what the run then holds has the label's shape, and an application of a
\* person's making is still only one that may be taken, or has become the slug's own.
LEMMA ProviderKnows ==
  ASSUME TypeOK, ServerSound, RunSound, MakeProvider \/ ReshapeProvider
  PROVE  RunSound'
<1> USE DEF BeforeWrites, HasRead, Decided, Converged, HasApp, Goto, Keep, locals
<1>1. /\ label \in Labels /\ label.slug \in Slugs /\ outcome = "running" /\ step \in {"create", "patch"}
      /\ step' = "app" /\ UNCHANGED <<label, outcome, apps, bindings, members>>
      /\ local'.app = local.app /\ local'.adopt = local.adopt
  BY LabelTyped DEF RunSound, Running, MakeProvider, ReshapeProvider, CreateProvider, PatchProvider,
     TypeOK, Local
<1>2. Shaped(local.pk)' /\ \A pk \in PKs \ {local'.pk} : providers'[pk] = providers[pk]
  <2>1. CASE MakeProvider
    <3>1. lastPK + 1 \in PKs
      BY <2>1, ServerAssumption DEF MakeProvider, CreateProvider, TypeOK, ServerTypeOK, PKs
    <3> QED BY <2>1, <3>1, <1>1 DEF MakeProvider, CreateProvider, Shaped, TypeOK, ServerTypeOK, Local
  <2>2. CASE ReshapeProvider
    BY <2>2, <1>1 DEF ReshapeProvider, PatchProvider, Exists, Shaped, TypeOK, ServerTypeOK
  <2> QED BY <2>1, <2>2
<1>3. HandMade(label.slug)' => HandMade(label.slug) /\ MayTake(label.slug)' = MayTake(label.slug)
  <2>1. Marked(local.pk)'
    BY <1>1, <1>2, NoneAssumption, ServerAssumption, LabelTyped DEF Shaped, Marked, Exists, Provider
  <2> SUFFICES ASSUME HandMade(label.slug)'
               PROVE  HandMade(label.slug) /\ MayTake(label.slug)' = MayTake(label.slug)
    OBVIOUS
  <2>2. apps[label.slug] # None /\ apps[label.slug].provider # local'.pk
    BY <1>1, <2>1 DEF HandMade
  <2>3. /\ Exists(apps[label.slug].provider)' = Exists(apps[label.slug].provider)
        /\ apps[label.slug].provider \in PKs =>
             providers'[apps[label.slug].provider] = providers[apps[label.slug].provider]
    BY <1>1, <1>2, <2>2 DEF Exists
  <2> QED BY <1>1, <2>2, <2>3 DEF HandMade, MayTake, Marked, Exists, Consents, Differs
<1>4. GatePassed'
  BY <1>1, <1>3 DEF RunSound, GatePassed
<1>5. Running' /\ ReadHolds' /\ HostFree' /\ ProviderFound' /\ ListHolds' /\ NothingWritten'
  BY <1>1 DEF RunSound, Running, ReadHolds, HostFree, ProviderFound, ListHolds, NothingWritten
<1>6. InOrder'
  BY <1>1, <1>2 DEF InOrder
<1> QED BY <1>4, <1>5, <1>6 DEF RunSound

\* The application, and its bindings.
LEMMA ApplicationKnows ==
  ASSUME TypeOK, ServerSound, RunSound,
         \/ ConvergeApplication \/ ListBindings \/ StraysRemoved \/ Bound
         \/ \E g \in Gates : RemoveStray(g) \/ Bind(g)
  PROVE  RunSound'
<1> USE DEF BeforeWrites, HasRead, Decided, Converged, HasApp, Goto, Keep, locals
<1>1. label \in Labels /\ label.slug \in Slugs /\ outcome = "running" /\ Shaped(local.pk)
  BY LabelTyped DEF RunSound, Running, InOrder, ConvergeApplication, ListBindings, RemoveStray,
     StraysRemoved, Bind, Bound
<1>2. CASE Bound /\ label.kind # "proxy"
  BY <1>2, EndKnows DEF Bound
<1>3. CASE ~(Bound /\ label.kind # "proxy")
  <2>1. /\ UNCHANGED <<label, outcome, providers, members>>
        /\ local'.app = local.app /\ local'.adopt = local.adopt /\ local'.pk = local.pk
        /\ step' \in {"list", "unbind", "bind", "outpost"}
    BY <1>3 DEF ConvergeApplication, CreateApp, PatchApp, ListBindings, RemoveStray, StraysRemoved,
       DeleteBinding, Bind, CreateBinding, Bound, TypeOK, Local, Reads, server, objects
  <2>2. Running' /\ ReadHolds' /\ GatePassed' /\ HostFree' /\ ProviderFound' /\ ListHolds' /\ NothingWritten'
    BY <1>1, <2>1 DEF RunSound, Running, ReadHolds, GatePassed, HostFree, ProviderFound, ListHolds,
       NothingWritten
  <2>3. Shaped(local.pk)'
    BY <1>1, <2>1 DEF Shaped
  <2>4. InOrder'
    <3>1. CASE ConvergeApplication
      BY <1>1, <2>1, <2>3, <3>1
      DEF ConvergeApplication, CreateApp, PatchApp, TypeOK, ServerTypeOK, InOrder
    <3>2. CASE ListBindings
      BY <1>1, <2>1, <2>3, <3>2
      DEF ListBindings, TypeOK, Local, Reads, server, objects, RunSound, InOrder
    <3>3. CASE \E g \in Gates : RemoveStray(g)
      BY <1>1, <2>1, <2>3, <3>3
      DEF RemoveStray, DeleteBinding, TypeOK, ServerTypeOK, Local, RunSound, InOrder
    <3>4. CASE StraysRemoved
      BY <1>1, <2>1, <2>3, <3>4
      DEF StraysRemoved, Reads, server, objects, RunSound, InOrder
    <3>5. CASE \E g \in Gates : Bind(g)
      BY <1>1, <2>1, <2>3, <3>5
      DEF Bind, CreateBinding, TypeOK, ServerTypeOK, Local, RunSound, InOrder
    <3>6. CASE Bound
      BY <1>1, <1>3, <2>1, <2>3, <3>6, LabelTyped
      DEF Bound, Reads, server, objects, RunSound, InOrder, TypeOK, ServerTypeOK
    <3> QED BY <3>1, <3>2, <3>3, <3>4, <3>5, <3>6
  <2> QED BY <2>2, <2>4 DEF RunSound
<1> QED BY <1>2, <1>3

\* The outpost.
LEMMA OutpostKnows ==
  ASSUME TypeOK, ServerSound, RunSound,
         OutpostMissing \/ ReadOutpost \/ Attach \/ Probe \/ ForceReload \/ PollServed
  PROVE  RunSound'
<1> USE DEF BeforeWrites, HasRead, Decided, Converged, HasApp, Goto, Keep, locals
<1>1. CASE \E o \in Outcomes : End(o)
  BY <1>1, EndKnows
<1>2. CASE ~\E o \in Outcomes : End(o)
  <2>1. label \in Labels /\ label.slug \in Slugs /\ outcome = "running"
    BY LabelTyped DEF RunSound, Running, OutpostMissing, ReadOutpost, Attach, Probe, ForceReload, PollServed
  <2>2. /\ UNCHANGED <<label, outcome, providers, apps, bindings>>
        /\ local'.app = local.app /\ local'.adopt = local.adopt /\ local'.pk = local.pk
        /\ step \in Converged /\ step' \in {"attach", "probe", "force", "poll"}
    BY <1>2 DEF Outcomes, OutpostMissing, ReadOutpost, Attach, Probe, ForceReload, PollServed, PatchOutpost,
       TypeOK, Local, Reads, server, objects
  <2>3. Running' /\ ReadHolds' /\ GatePassed' /\ HostFree' /\ ProviderFound' /\ InOrder' /\ NothingWritten'
    BY <2>1, <2>2 DEF RunSound, Running, ReadHolds, GatePassed, HostFree, ProviderFound, InOrder, Shaped,
       NothingWritten
  <2>4. ListHolds'
    <3>1. CASE ReadOutpost
      BY <1>2, <2>2, <3>1 DEF Outcomes, ReadOutpost, TypeOK, ServerTypeOK, Local, Reads, server, objects, ListHolds
    <3>2. CASE Attach \/ ForceReload
      BY <1>2, <2>2, <3>2 DEF Outcomes, Attach, ForceReload, PatchOutpost, TypeOK, ServerTypeOK,
         RunSound, ListHolds
    <3>3. CASE Probe
      BY <1>2, <2>2, <3>3 DEF Outcomes, Probe, Reads, server, objects, RunSound, ListHolds
    <3> QED BY <1>2, <3>1, <3>2, <3>3 DEF Outcomes, OutpostMissing, PollServed
  <2> QED BY <2>3, <2>4 DEF RunSound
<1> QED BY <1>1, <1>2

LEMMA StepKnows ==
  ASSUME TypeOK, ServerSound, RunSound, [Next]_vars
  PROVE  RunSound'
<1>1. ASSUME NEW l \in Labels, Start(l)
      PROVE  RunSound'
  BY <1>1 DEF Start, RunSound, Running, ReadHolds, GatePassed, HostFree, ProviderFound, InOrder, ListHolds,
     NothingWritten, BeforeWrites, HasRead, Decided, Converged, HasApp, Blank
<1>2. CASE Fails
  BY <1>2, EndKnows DEF Fails
<1>3. CASE OutpostReloads \/ UNCHANGED vars
  <2>1. UNCHANGED <<objects, step, label, local, wrote, outcome>>
    BY <1>3 DEF OutpostReloads, Reload, vars, server, locals
  <2> QED BY <2>1 DEF RunSound, Running, ReadHolds, GatePassed, HostFree, HostTaken, ProviderFound,
          InOrder, ListHolds, NothingWritten, objects, HandMade, MayTake, Consents, Differs, Shaped,
          Marked, Exists
<1>4. CASE Run
  BY <1>4, DecidingKnows, ProviderKnows, ApplicationKnows, OutpostKnows DEF Run
<1> QED BY <1>1, <1>2, <1>3, <1>4 DEF Next

-----------------------------------------------------------------------------
\* What a run that ends has done.

\* Only four steps report success, each with all that comes before it in place.
LEMMA SuccessIsConverged ==
  ASSUME TypeOK, ServerSound, RunSound, ConvergedOnSuccess, [Next]_vars
  PROVE  ConvergedOnSuccess'
<1> USE DEF Converged, HasApp
<1> SUFFICES ASSUME outcome' \in {"live", "converged"}
             PROVE  ConvergedOnSuccess'
  BY DEF ConvergedOnSuccess
<1>1. CASE OutpostReloads \/ UNCHANGED vars
  <2>1. UNCHANGED <<objects, label, outcome>>
    BY <1>1 DEF OutpostReloads, Reload, vars, server, locals
  <2> QED BY <2>1 DEF ConvergedOnSuccess, objects
<1>2. CASE Run
  <2>1. outcome = "running" /\ label \in Labels
    BY <1>2 DEF Run, ResolveBindings, MakeGroup, LookUpApplication, ResolveOwnership, AdoptionGate,
       CheckExternalHost, LookUpProvider, MakeProvider, ReshapeProvider, ConvergeApplication, ListBindings,
       RemoveStray, Bind, StraysRemoved, Bound, OutpostMissing, ReadOutpost, Attach, Probe, ForceReload,
       PollServed, RunSound, Running
  <2>2. Bound \/ ReadOutpost \/ Attach \/ Probe \/ PollServed
    BY <1>2, <2>1 DEF Run, ResolveBindings, MakeGroup, LookUpApplication, ResolveOwnership, AdoptionGate,
       CheckExternalHost, LookUpProvider, MakeProvider, ReshapeProvider, ConvergeApplication, ListBindings,
       RemoveStray, Bind, StraysRemoved, OutpostMissing, ForceReload, Goto, End
  <2>3. /\ UNCHANGED <<providers, apps, bindings, label>>
        /\ step \in {"bind"} \cup Converged
        /\ step = "bind" => label.kind # "proxy" /\ local.missing = {}
    BY <2>1, <2>2 DEF Bound, ReadOutpost, Attach, Probe, PollServed, PatchOutpost, Goto, End, Reads,
       server, objects, locals
  <2>4. label.kind = "proxy" => local.pk \in members'[label.outpost]
    <3>1. CASE Bound
      BY <2>3, <3>1 DEF Bound, RunSound, InOrder
    <3>2. CASE ReadOutpost
      BY <2>1, <3>2 DEF ReadOutpost, Goto, End, Reads, server, objects
    <3>3. CASE Attach
      BY <3>3 DEF Attach, PatchOutpost, TypeOK, ServerTypeOK
    <3>4. CASE Probe \/ PollServed
      BY <3>4 DEF Probe, PollServed, Reads, server, objects, RunSound, ListHolds
    <3> QED BY <2>2, <3>1, <3>2, <3>3, <3>4
  <2>5. label.slug \in Slugs /\ bindings[label.slug] \subseteq Gates
    BY <2>1, LabelTyped DEF TypeOK, ServerTypeOK
  <2>6. /\ apps[label.slug] = [provider |-> local.pk, title |-> label.title, mode |-> label.mode]
        /\ Shaped(local.pk) /\ bindings[label.slug] = label.gates
    BY <2>3, <2>5 DEF RunSound, InOrder
  <2>7. apps[label.slug] # None /\ local.pk # None
    <3>1. local.pk \in PKs /\ label.title \in Titles /\ label.mode \in Modes
      BY <2>1, <2>6, LabelTyped DEF Shaped
    <3>2. apps[label.slug] \in App
      BY <2>6, <3>1 DEF App
    <3>3. None \notin PKs /\ None \notin App
      BY NoneAssumption, ServerAssumption DEF PKs
    <3> QED BY <3>1, <3>2, <3>3
  <2> QED BY <2>3, <2>4, <2>6, <2>7 DEF ConvergedOnSuccess, Shaped
<1>3. CASE Fails \/ \E l \in Labels : Start(l)
  BY <1>3 DEF Fails, Start, End
<1> QED BY <1>1, <1>2, <1>3 DEF Next

\* Both refusals come before the first write.
LEMMA RefusedEarly ==
  ASSUME RunSound, RefusedBeforeWriting, [Next]_vars
  PROVE  RefusedBeforeWriting'
<1> SUFFICES ASSUME outcome' \in {"refused", "duplicate"}
             PROVE  "objects" \notin wrote'
  BY DEF RefusedBeforeWriting
<1>1. CASE OutpostReloads \/ UNCHANGED vars
  BY <1>1 DEF OutpostReloads, vars, RefusedBeforeWriting
<1>2. CASE Run
  <2>1. AdoptionGate \/ CheckExternalHost
    BY <1>2 DEF Run, ResolveBindings, MakeGroup, LookUpApplication, ResolveOwnership, LookUpProvider,
       MakeProvider, ReshapeProvider, ConvergeApplication, ListBindings, RemoveStray, Bind, StraysRemoved,
       Bound, OutpostMissing, ReadOutpost, Attach, Probe, ForceReload, PollServed, Goto, End, RunSound, Running
  <2> QED BY <2>1 DEF AdoptionGate, CheckExternalHost, Reads, RunSound, NothingWritten, BeforeWrites
<1>3. CASE Fails \/ \E l \in Labels : Start(l)
  BY <1>3 DEF Fails, Start, End
<1> QED BY <1>1, <1>2, <1>3 DEF Next

\* A host is taken by making a provider or by reshaping one, and only once it is free.
LEMMA HostsStayApart ==
  ASSUME TypeOK, ServerSound, RunSound, OneProviderPerHost, [Next]_vars
  PROVE  OneProviderPerHost'
<1>1. CASE UNCHANGED providers
  BY <1>1 DEF OneProviderPerHost, Marked, Exists
<1>2. CASE MakeProvider \/ ReshapeProvider
  <2>1. /\ label \in Labels /\ label.slug \in Slugs /\ step \in {"create", "patch"}
        /\ \A pk \in PKs \ {local'.pk} : providers'[pk] = providers[pk]
        /\ local'.pk \in PKs
        /\ providers'[local'.pk] = [owner |-> label.slug, kind |-> label.kind, host |-> label.host]
        /\ ~NameTaken(label.slug, local'.pk)
    <3>1. label \in Labels /\ label.slug \in Slugs /\ step \in {"create", "patch"}
      BY <1>2, LabelTyped DEF RunSound, Running, MakeProvider, ReshapeProvider
    <3>2. CASE MakeProvider
      <4>1. lastPK + 1 \in PKs /\ None \notin PKs
        BY <3>2, ServerAssumption DEF MakeProvider, CreateProvider, TypeOK, ServerTypeOK, PKs
      <4> QED BY <3>1, <3>2, <4>1
              DEF MakeProvider, CreateProvider, NameTaken, TypeOK, ServerTypeOK, Local
    <3>3. CASE ReshapeProvider
      BY <3>1, <3>3 DEF ReshapeProvider, PatchProvider, Exists, Keep, TypeOK, ServerTypeOK
    <3> QED BY <1>2, <3>1, <3>2, <3>3
  <2>2. label.kind = "proxy" =>
          \A q \in PKs \ {local'.pk} :
            ~(Marked(q) /\ providers[q].kind = "proxy" /\ providers[q].host = label.host)
    <3>1. local.adopt # None => local'.pk = local.adopt
      BY <1>2 DEF MakeProvider, ReshapeProvider, Keep, RunSound, ProviderFound, TypeOK, Local
    <3>2. \A q \in PKs \ {local'.pk} : Marked(q) => providers[q].owner \notin {Hand, label.slug}
      BY <2>1 DEF NameTaken, Marked
    <3>3. None \notin PKs
      BY ServerAssumption DEF PKs
    <3> QED BY <2>1, <3>1, <3>2, <3>3 DEF RunSound, HostFree, HostTaken, Marked
  <2> QED BY <2>1, <2>2 DEF OneProviderPerHost, Marked, Exists
<1> QED
  <2>1. UNCHANGED providers \/ MakeProvider \/ ReshapeProvider
    BY DEF Next, Run, Start, Fails, OutpostReloads, Reload, ResolveBindings, MakeGroup, CreateGroup,
       LookUpApplication, ResolveOwnership, AdoptionGate, CheckExternalHost, LookUpProvider,
       ConvergeApplication, CreateApp, PatchApp, ListBindings, RemoveStray, DeleteBinding, Bind, CreateBinding,
       StraysRemoved, Bound, OutpostMissing, ReadOutpost, Attach, Probe, ForceReload, PatchOutpost, PollServed,
       Reads, vars, server, objects
  <2> QED BY <1>1, <1>2, <2>1

LEMMA InitSound == Init => ReconcileInv
<1> SUFFICES ASSUME Init PROVE ReconcileInv
  OBVIOUS
<1>1. ServerTypeOK /\ ServerSound
  BY InitTyped DEF Init
<1>2. TypeOK
  BY <1>1, BlankTyped, MaxRunsAssumption DEF Init, TypeOK, Steps, Outcomes
<1>3. RunSound
  BY DEF Init, RunSound, Running, ReadHolds, GatePassed, HostFree, ProviderFound, InOrder, ListHolds,
     NothingWritten, BeforeWrites, HasRead, Decided, Converged, HasApp, Blank
<1>4. OneProviderPerHost
  BY NoneAssumption DEF Init, ServerInit, OneProviderPerHost, Marked, Exists
<1> QED BY <1>1, <1>2, <1>3, <1>4 DEF Init, ReconcileInv, RefusedBeforeWriting, ConvergedOnSuccess

\* The inductive invariant: the types, what the server holds, what a run knows at each of
\* its steps, and the promises about how it ends.
THEOREM ReconcileInvariant == Spec => []ReconcileInv
<1>1. ReconcileInv /\ [Next]_vars => ReconcileInv'
  BY StepTyped, StepKnows, SuccessIsConverged, RefusedEarly, HostsStayApart
     DEF ReconcileInv, RunSound, ReadHolds
<1> QED BY InitSound, <1>1, PTL DEF Spec

\* The objects of the server, and every variable of a run, are always what their types say.
THEOREM ReconcileTypeCorrect == Spec => []TypeOK
<1>1. ReconcileInv => TypeOK
  BY DEF ReconcileInv
<1> QED BY <1>1, ReconcileInvariant, PTL

\* No two providers with a marker ever claim one host (checkExternalHost before the first
\* write, unique names at the server), whatever the labels and wherever runs are broken off.
THEOREM HostsAreNeverShared == Spec => []OneProviderPerHost
<1>1. ReconcileInv => OneProviderPerHost
  BY DEF ReconcileInv
<1> QED BY <1>1, ReconcileInvariant, PTL

\* What Reconcile reports as a success is the whole of the labels, whatever earlier runs left.
THEOREM SuccessMeansConverged == Spec => []ConvergedOnSuccess
<1>1. ReconcileInv => ConvergedOnSuccess
  BY DEF ReconcileInv
<1> QED BY <1>1, ReconcileInvariant, PTL

\* adoptionGate and the host check refuse before any object is written.
THEOREM RefusalsWriteNothing == Spec => []RefusedBeforeWriting
<1>1. ReconcileInv => RefusedBeforeWriting
  BY DEF ReconcileInv
<1> QED BY <1>1, ReconcileInvariant, PTL

-----------------------------------------------------------------------------
\* What a step may never do.

\* The list that Attach and ForceReload send back has all that is in it, and nothing new
\* but the run's own provider.
LEMMA OutpostGains ==
  ASSUME TypeOK, RunSound, [Next]_vars, NEW o \in Outposts
  PROVE  /\ members[o] \subseteq members'[o]
         /\ \A pk \in members'[o] \ members[o] : pk = local.pk /\ step \in {"attach", "force"}
<1>1. CASE Attach \/ ForceReload
  BY <1>1 DEF Attach, ForceReload, PatchOutpost, TypeOK, ServerTypeOK, RunSound, ListHolds
<1>2. CASE ~(Attach \/ ForceReload)
  <2>1. UNCHANGED members
    BY <1>2 DEF Next, Run, Start, Fails, OutpostReloads, Reload, ResolveBindings, MakeGroup, CreateGroup,
       LookUpApplication, ResolveOwnership, AdoptionGate, CheckExternalHost, LookUpProvider,
       MakeProvider, CreateProvider, ReshapeProvider, PatchProvider,
       ConvergeApplication, CreateApp, PatchApp, ListBindings, RemoveStray, DeleteBinding, Bind, CreateBinding,
       StraysRemoved, Bound, OutpostMissing, ReadOutpost, Probe, PollServed, Reads, vars, server, objects
  <2> QED BY <2>1
<1> QED BY <1>1, <1>2

\* No outpost loses a provider to a run (Attach and ForceReload send the whole list back).
THEOREM NoOutpostLosesAny == Spec => OutpostKeepsAll
<1>1. ReconcileInv /\ [Next]_vars =>
        [\A o \in Outposts : members[o] \subseteq members'[o]]_vars
  BY OutpostGains DEF ReconcileInv
<1> QED BY <1>1, ReconcileInvariant, PTL DEF Spec, OutpostKeepsAll

\* What joins an outpost has its application, its mode and exactly its gates (Reconcile's
\* order of steps), so a run that fails before has put nothing on line.
THEOREM NothingJoinsUngated == Spec => GatedBeforeAttach
<1>1. ReconcileInv /\ [Next]_vars =>
        [\A o \in Outposts : \A pk \in members'[o] \ members[o] :
           \E s \in Slugs :
             /\ apps[s] # None /\ apps[s].provider = pk
             /\ s = label.slug
             /\ bindings[s] = label.gates
             /\ apps[s].mode = label.mode]_vars
  <2> SUFFICES ASSUME ReconcileInv, [Next]_vars, NEW o \in Outposts, NEW pk \in members'[o] \ members[o]
               PROVE  /\ label.slug \in Slugs
                      /\ apps[label.slug] # None /\ apps[label.slug].provider = pk
                      /\ bindings[label.slug] = label.gates
                      /\ apps[label.slug].mode = label.mode
    OBVIOUS
  <2>1. pk = local.pk /\ step \in {"attach", "force"}
    BY OutpostGains DEF ReconcileInv
  <2>2. label \in Labels /\ label.slug \in Slugs
    BY <2>1, LabelTyped DEF ReconcileInv, RunSound, Running
  <2>3. /\ apps[label.slug] = [provider |-> local.pk, title |-> label.title, mode |-> label.mode]
        /\ bindings[label.slug] = label.gates /\ Shaped(local.pk)
    BY <2>1 DEF ReconcileInv, RunSound, InOrder, HasApp, Converged
  <2>4. apps[label.slug] \in App
    BY <2>2, <2>3, LabelTyped DEF App, Shaped
  <2> QED BY <2>1, <2>2, <2>3, <2>4, NoneAssumption
<1> QED BY <1>1, ReconcileInvariant, PTL DEF Spec, GatedBeforeAttach

\* A person's application, unless the run in progress may take it over, keeps all it has
\* through any step: its provider is another one than the run's.
LEMMA HandMadeKept ==
  ASSUME ReconcileInv, [Next]_vars, NEW s \in Slugs, HandMade(s), ~MayTake(s)
  PROVE  /\ apps'[s] = apps[s]
         /\ bindings'[s] = bindings[s]
         /\ apps[s].provider # None => providers'[apps[s].provider] = providers[apps[s].provider]
<1> USE DEF ReconcileInv
<1> DEFINE pk == apps[s].provider
<1>1. apps[s] # None /\ ~Marked(pk) /\ (pk # None => Exists(pk) /\ pk \in PKs)
  BY DEF HandMade, ServerSound, AppsSound, Exists
<1>2. CASE MakeProvider
  <2>1. ~Exists(lastPK + 1)
    BY <1>2, ServerAssumption DEF MakeProvider, CreateProvider, ServerSound, PKsFresh, TypeOK, ServerTypeOK, PKs
  <2> QED BY <1>1, <1>2, <2>1 DEF MakeProvider, CreateProvider, TypeOK, ServerTypeOK
<1>3. CASE ReshapeProvider
  <2>1. label \in Labels /\ label.slug \in Slugs /\ step = "patch"
    BY <1>3, LabelTyped DEF ReshapeProvider, RunSound, Running
  <2>2. s # label.slug
    BY <2>1 DEF RunSound, GatePassed, Decided
  <2>3. pk # local.pk
    <3>1. CASE local.adopt # None
      <4>1. /\ local.app = apps[label.slug] /\ apps[label.slug] # None
            /\ local.pk = apps[label.slug].provider
        BY <2>1, <3>1 DEF RunSound, ReadHolds, HasRead, ProviderFound
      <4> QED BY <1>1, <1>3, <2>1, <2>2, <4>1
              DEF ServerSound, AppsSound, Points, ReshapeProvider, PatchProvider, Exists
    <3>2. CASE local.adopt = None
      <4>1. Marked(local.pk)
        BY <2>1, <3>2, ServerAssumption DEF RunSound, ProviderFound, Marked
      <4> QED BY <1>1, <4>1
    <3> QED BY <3>1, <3>2
  <2> QED BY <1>1, <1>3, <2>3 DEF ReshapeProvider, PatchProvider, TypeOK, ServerTypeOK
<1>4. CASE ConvergeApplication
  <2>1. label.slug # s
    BY <1>4 DEF ConvergeApplication, RunSound, GatePassed, Decided
  <2> QED BY <1>4, <2>1 DEF ConvergeApplication, CreateApp, PatchApp, TypeOK, ServerTypeOK
<1>5. CASE \E g \in Gates : RemoveStray(g) \/ Bind(g)
  <2>1. /\ apps[label.slug] = [provider |-> local.pk, title |-> label.title, mode |-> label.mode]
        /\ Shaped(local.pk) /\ label \in Labels
    BY <1>5 DEF RemoveStray, Bind, RunSound, Running, InOrder, HasApp
  <2>2. Marked(local.pk)
    BY <2>1, LabelTyped, NoneAssumption, ServerAssumption DEF Shaped, Marked, Exists, Provider
  <2>3. label.slug # s
    BY <1>1, <2>1, <2>2
  <2> QED BY <1>5, <2>3 DEF RemoveStray, Bind, DeleteBinding, CreateBinding, TypeOK, ServerTypeOK
<1>6. UNCHANGED <<apps, bindings, providers>>
      \/ MakeProvider \/ ReshapeProvider \/ ConvergeApplication \/ \E g \in Gates : RemoveStray(g) \/ Bind(g)
  BY DEF Next, Run, Start, Fails, OutpostReloads, Reload, ResolveBindings, MakeGroup, CreateGroup,
     LookUpApplication, ResolveOwnership, AdoptionGate, CheckExternalHost, LookUpProvider, ListBindings,
     StraysRemoved, Bound, OutpostMissing, ReadOutpost, Attach, ForceReload, PatchOutpost, Probe, PollServed,
     Reads, vars, server, objects
<1> QED BY <1>2, <1>3, <1>4, <1>5, <1>6

\* Without consent, or a difference too small to need it, nothing that a person made is
\* touched by any run (adoptionGate, resolveOwnership).
THEOREM HandMadeIsSafe == Spec => HandMadeUntouched
<1>1. ReconcileInv /\ [Next]_vars =>
        [\A s \in Slugs : HandMade(s) /\ ~MayTake(s) =>
           /\ apps'[s] = apps[s]
           /\ bindings'[s] = bindings[s]
           /\ apps[s].provider # None =>
                /\ providers'[apps[s].provider] = providers[apps[s].provider]
                /\ \A o \in Outposts :
                     apps[s].provider \in members[o] => apps[s].provider \in members'[o]]_vars
  BY HandMadeKept, OutpostGains DEF ReconcileInv
<1> QED BY <1>1, ReconcileInvariant, PTL DEF Spec, HandMadeUntouched
=============================================================================
