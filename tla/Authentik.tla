------------------------------ MODULE Authentik ------------------------------
(***************************************************************************)
(* The Authentik server as aboard's client (internal/authentik) uses it:   *)
(* the objects reconcile, prune and the digest read and write, and the     *)
(* REST calls that change them.  The server is outside the repository: what*)
(* it does is taken from the calls aboard makes, the answers it expects and*)
(* the behaviour its comments record of Authentik 2025.6.4.                *)
(*                                                                         *)
(* A provider is known by its pk.  Its name is an owner: the slug s for    *)
(* the marker name "s (aboard)", Hand for any name a person chose.  The    *)
(* gates are what a binding can point at: a group, a policy, or something  *)
(* aboard does not manage (a user binding).                                *)
(***************************************************************************)
EXTENDS Integers

CONSTANTS
  Slugs,     \* application slugs
  Hosts,     \* external hosts of forward-auth providers
  Groups,    \* group names
  Policies,  \* policy names
  Others,    \* bindings of any other kind, which no label can ask for
  Titles,    \* application titles
  Outposts,  \* the outposts there are
  Embedded,  \* the embedded one, which aboard can probe
  HandApps,  \* what people may have made before aboard first runs
  MaxPK,     \* bound on the providers ever created
  Hand,      \* the name of a provider that carries no marker
  None

ASSUME ServerAssumption ==
  /\ MaxPK \in Nat \ {0}
  /\ None \notin 1..MaxPK
  /\ Hand \notin Slugs

VARIABLES
  providers,  \* [pk -> provider or None]
  lastPK,     \* the last pk given out: pks are never used again
  apps,       \* [slug -> application or None]
  bindings,   \* [slug -> the gates bound to the application]
  members,    \* [outpost -> the pks of its providers list]
  groups,     \* the groups that exist
  served      \* the hosts the running embedded outpost serves

objects == <<providers, lastPK, apps, bindings, members>>
server  == <<objects, groups, served>>

PKs      == 1..MaxPK
Kinds    == {"proxy", "oauth2", "saml", "other"}
Modes    == {"any", "all"}
Gates    == Groups \cup Policies \cup Others

Provider == [owner: Slugs \cup {Hand}, kind: Kinds, host: Hosts \cup {None}]
App      == [provider: PKs \cup {None}, title: Titles, mode: Modes]

ASSUME NoneAssumption ==
  /\ None \notin Slugs \cup Hosts \cup Outposts \cup Kinds
  /\ None \notin Provider
  /\ None \notin App

ASSUME HandAppsAssumption ==
  /\ HandApps \subseteq [slug: Slugs, kind: Kinds \cup {None}, host: Hosts \cup {None}, title: Titles,
                         mode: Modes, gates: SUBSET Gates, attached: BOOLEAN]
  /\ None \notin HandApps

ServerTypeOK ==
  /\ providers \in [PKs -> Provider \cup {None}]
  /\ lastPK \in 0..MaxPK
  /\ apps \in [Slugs -> App \cup {None}]
  /\ bindings \in [Slugs -> SUBSET Gates]
  /\ members \in [Outposts -> SUBSET PKs]
  /\ groups \subseteq Groups
  /\ served \subseteq Hosts

Exists(pk) == pk \in PKs /\ providers[pk] # None

\* The providers a lookup by marker name finds on the endpoint of a kind; a
\* name is unique, so there is at most one.
ByName(slug, kind) ==
  {pk \in PKs : Exists(pk) /\ providers[pk].owner = slug
                           /\ providers[pk].kind = kind}

\* reconcile's resolveOwnership, from the lookups by marker name: the kind of the
\* slug's own provider if it is the one with this pk.
OwnKind(slug, pk) ==
  IF \E k \in Kinds : pk \in ByName(slug, k)
    THEN CHOOSE k \in Kinds : pk \in ByName(slug, k)
    ELSE None

\* The marker name of a slug is in use, by a provider other than but.
NameTaken(slug, but) ==
  \E pk \in PKs \ {but} : Exists(pk) /\ providers[pk].owner = slug

\* A provider belongs to one application at most.
Assigned(pk, but) ==
  \E s \in Slugs \ {but} : apps[s] # None /\ apps[s].provider = pk

\* The hosts the providers list of the embedded outpost asks it to serve.
Configured ==
  {providers[pk].host : pk \in {p \in members[Embedded] : Exists(p)}} \cap Hosts

\* Before aboard runs: nothing, or one application a person made, with or
\* without a provider, attached to the embedded outpost or not.
ServerInit ==
  \E h \in HandApps \cup {None} :
    LET made == h # None
        prov == made /\ h.kind # None
    IN /\ providers = [pk \in PKs |->
                         IF prov /\ pk = 1
                           THEN [owner |-> Hand, kind |-> h.kind, host |-> h.host]
                           ELSE None]
       /\ lastPK = IF prov THEN 1 ELSE 0
       /\ apps = [s \in Slugs |->
                    IF made /\ s = h.slug
                      THEN [provider |-> IF prov THEN 1 ELSE None,
                            title |-> h.title, mode |-> h.mode]
                      ELSE None]
       /\ bindings = [s \in Slugs |-> IF made /\ s = h.slug THEN h.gates ELSE {}]
       /\ members = [o \in Outposts |->
                       IF prov /\ h.attached /\ o = Embedded THEN {1} ELSE {}]
       /\ groups \in {Groups, {}}
       /\ served = Configured

-----------------------------------------------------------------------------
\* The calls that change the server.  A call that Authentik refuses (a name
\* taken, a pk that does not exist) is not enabled: its caller gets an error.

CreateProvider(slug, kind, host) ==
  /\ lastPK < MaxPK
  /\ ~NameTaken(slug, None)
  /\ lastPK' = lastPK + 1
  /\ providers' = [providers EXCEPT ![lastPK + 1] =
                     [owner |-> slug, kind |-> kind, host |-> host]]
  /\ UNCHANGED <<apps, bindings, members, groups, served>>

\* The full-body PATCH on the endpoint of a kind: name and shape in one call.
PatchProvider(pk, slug, kind, host) ==
  /\ Exists(pk)
  /\ providers[pk].kind = kind
  /\ ~NameTaken(slug, pk)
  /\ providers' = [providers EXCEPT ![pk] =
                     [owner |-> slug, kind |-> kind, host |-> host]]
  /\ UNCHANGED <<lastPK, apps, bindings, members, groups, served>>

CreateApp(slug, pk, title, mode) ==
  /\ apps[slug] = None
  /\ Exists(pk) /\ ~Assigned(pk, slug)
  /\ apps' = [apps EXCEPT ![slug] =
                [provider |-> pk, title |-> title, mode |-> mode]]
  /\ UNCHANGED <<providers, lastPK, bindings, members, groups, served>>

PatchApp(slug, pk, title, mode) ==
  /\ apps[slug] # None
  /\ Exists(pk) /\ ~Assigned(pk, slug)
  /\ apps' = [apps EXCEPT ![slug] =
                [provider |-> pk, title |-> title, mode |-> mode]]
  /\ UNCHANGED <<providers, lastPK, bindings, members, groups, served>>

\* Deleting a provider takes it off its application and out of every outpost.
DeleteProvider(pk) ==
  /\ Exists(pk)
  /\ providers' = [providers EXCEPT ![pk] = None]
  /\ apps' = [s \in Slugs |-> IF apps[s] # None /\ apps[s].provider = pk
                                 THEN [apps[s] EXCEPT !.provider = None]
                                 ELSE apps[s]]
  /\ members' = [o \in Outposts |-> members[o] \ {pk}]
  /\ UNCHANGED <<lastPK, bindings, groups, served>>

\* Deleting an application deletes its bindings and leaves its provider.
DeleteApp(slug) ==
  /\ apps[slug] # None
  /\ apps' = [apps EXCEPT ![slug] = None]
  /\ bindings' = [bindings EXCEPT ![slug] = {}]
  /\ UNCHANGED <<providers, lastPK, members, groups, served>>

CreateBinding(slug, g) ==
  /\ apps[slug] # None
  /\ bindings' = [bindings EXCEPT ![slug] = @ \cup {g}]
  /\ UNCHANGED <<providers, lastPK, apps, members, groups, served>>

DeleteBinding(slug, g) ==
  /\ g \in bindings[slug]
  /\ bindings' = [bindings EXCEPT ![slug] = @ \ {g}]
  /\ UNCHANGED <<providers, lastPK, apps, members, groups, served>>

CreateGroup(g) ==
  /\ groups' = groups \cup {g}
  /\ UNCHANGED <<objects, served>>

\* PatchOutpostProviders: the list is replaced by the one given.
PatchOutpost(o, pks) ==
  /\ o \in Outposts
  /\ \A pk \in pks : Exists(pk)
  /\ members' = [members EXCEPT ![o] = pks]
  /\ UNCHANGED <<providers, lastPK, apps, bindings, groups, served>>

\* The embedded outpost takes its new configuration, in its own time ("~80s
\* measured live").
Reload ==
  /\ served # Configured
  /\ served' = Configured
  /\ UNCHANGED <<objects, groups>>
=============================================================================
