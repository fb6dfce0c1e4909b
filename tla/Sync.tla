-------------------------------- MODULE Sync ---------------------------------
(***************************************************************************)
(* daemon/sync.go and the state it keeps: what the worker does with a full *)
(* pass and with a sync of one service, while containers come and go, the  *)
(* runtime and Authentik fail at any call, and aboard prune deletes.  Which*)
(* run comes when is SerialWork's to say, which Pipeline implements; what a*)
(* reconcile does inside is Reconcile's, here it succeeds or fails.        *)
(***************************************************************************)
EXTENDS Naturals, FiniteSets

CONSTANTS
  Slugs,
  Codes,         \* the codes of the errors that discovery finds in labels
  ApiError,      \* a reconcile's error
  NoCallback,    \* the wiring audit's: a mixed host without a callback router
  Specs,         \* the containers tried: identity, opt-in, errors, routers
  MaxIds,        \* bound on the containers that are created
  ListsStopped,  \* the runtime's listing includes containers that do not run
  FullPass,
  None

Keys == {s.key : s \in Specs}

\* slug is None without aboard.enable=true, self marks Authentik and aboard.
Spec == [key: Keys, slug: Slugs \cup {None}, errors: SUBSET Codes,
         needs: BOOLEAN, catchall: BOOLEAN, self: BOOLEAN]

ASSUME SpecsAssumption == Specs \subseteq Spec /\ FullPass \notin Keys
ASSUME NoneAssumption == None \notin Slugs \cup Keys \cup {FullPass}
ASSUME MaxIdsAssumption == MaxIds \in Nat
ASSUME FlagAssumption == ListsStopped \in BOOLEAN

VARIABLES
  containers,     \* what the runtime has
  created,        \* the ids it has given
  owned,          \* the slugs aboard has objects for in Authentik
  owed, running,  \* SerialWork: the keys to be run, the one that is
  heard,          \* the ids each owed key has been heard of with
  step,           \* where the running job is
  id,             \* the container a sync was started for
  todo,           \* the containers still to be processed
  enabled,        \* the slugs the listing found enabled
  sticky,         \* stickySet: the codes that stand for each slug
  slugByKey,      \* Daemon.slugByKey
  orphans,        \* Daemon.orphans
  fleetCallback,  \* Daemon.fleetCallback
  applied,        \* Daemon.applied: what the recorded run did
  sure,           \* no event, listing or scan has failed since the last listing
  told            \* the orphans an alert was sent for, as long as they are

world == <<containers, created, owned>>
schedule == <<owed, running, heard>>
job == <<step, id, todo, enabled>>
memory == <<sticky, slugByKey, orphans, fleetCallback, applied>>
vars == <<world, schedule, job, memory, sure, told>>

Schedule == INSTANCE SerialWork
              WITH Work <- Keys \cup {FullPass}, Boot <- FullPass, phase <- "up"

Ids == 1..MaxIds
Container == [id: Ids, spec: Specs, up: BOOLEAN]
AllCodes == Codes \cup {ApiError, NoCallback}

SyncTypeOK ==
  /\ containers \subseteq Container
  /\ created \in 0..MaxIds
  /\ owned \subseteq Slugs
  /\ owed \subseteq Keys \cup {FullPass}
  /\ running \in Keys \cup {FullPass, None}
  /\ heard \in [Keys -> SUBSET Ids]
  /\ step \in {"idle", "list", "inspect", "each", "relist", "refresh", "scan"}
  /\ id \in 0..MaxIds
  /\ todo \subseteq Container
  /\ enabled \subseteq Slugs
  /\ sticky \in [Slugs -> SUBSET AllCodes]
  /\ slugByKey \in [Keys -> Slugs \cup {None}]
  /\ orphans \subseteq Slugs
  /\ fleetCallback \in BOOLEAN
  /\ applied \in [Slugs -> {None, "wrote", "unwritten"}]
  /\ sure \in BOOLEAN
  /\ told \subseteq Slugs

Init ==
  /\ containers = {}
  /\ created = 0
  /\ owned = {}
  /\ Schedule!Init
  /\ heard = [k \in Keys |-> {}]
  /\ step = "idle"
  /\ id = 0
  /\ todo = {}
  /\ enabled = {}
  /\ sticky = [s \in Slugs |-> {}]
  /\ slugByKey = [k \in Keys |-> None]
  /\ orphans = {}
  /\ fleetCallback = FALSE
  /\ applied = [s \in Slugs |-> None]
  /\ sure = TRUE
  /\ told = {}

-----------------------------------------------------------------------------
\* The runtime.

Listed == {c \in containers : c.up \/ ListsStopped}

\* detectFleetCallback: any container's router will do, an excluded one's too.
HasCatchall(cs) == \E c \in cs : c.spec.catchall

\* A container counts as enabled unless it is Authentik's or aboard's own.
EnabledIn(cs) == {c.spec.slug : c \in {x \in cs : ~x.spec.self}} \ {None}

\* The event of a change: it is heard, or falls into the pause between two
\* subscriptions of the watch.
Event(k, i) ==
  \/ /\ Schedule!Mark(k)
     /\ heard' = [heard EXCEPT ![k] = @ \cup {i}]
     /\ UNCHANGED sure
  \/ /\ sure' = FALSE
     /\ UNCHANGED schedule

Creates(spec) ==
  /\ created < MaxIds
  /\ created' = created + 1
  /\ containers' = containers \cup {[id |-> created + 1, spec |-> spec, up |-> TRUE]}
  /\ Event(spec.key, created + 1)
  /\ told' = told \ {spec.slug}
  /\ UNCHANGED <<owned, job, memory>>

Starts(c) ==
  /\ c \in containers
  /\ ~c.up
  /\ containers' = (containers \ {c}) \cup {[c EXCEPT !.up = TRUE]}
  /\ Event(c.spec.key, c.id)
  /\ told' = told \ {c.spec.slug}
  /\ UNCHANGED <<created, owned, job, memory>>

Stops(c) ==
  /\ c \in containers
  /\ c.up
  /\ containers' = (containers \ {c}) \cup {[c EXCEPT !.up = FALSE]}
  /\ Event(c.spec.key, c.id)
  /\ UNCHANGED <<created, owned, job, memory, told>>

Removes(c) ==
  /\ c \in containers
  /\ containers' = containers \ {c}
  /\ Event(c.spec.key, c.id)
  /\ UNCHANGED <<created, owned, job, memory, told>>

\* Another process: aboard prune.
Pruned(s) ==
  /\ s \in owned
  /\ owned' = owned \ {s}
  /\ told' = told \ {s}
  /\ UNCHANGED <<containers, created, schedule, job, memory, sure>>

-----------------------------------------------------------------------------
\* The job.

\* Two goroutines may push two ids of a key in either order, so what is inspected
\* need not be what was heard last.
StartJob(k) ==
  /\ Schedule!Start(k)
  /\ IF k = FullPass
       THEN step' = "list" /\ UNCHANGED <<id, heard>>
       ELSE /\ step' = "inspect"
            /\ id' \in heard[k]
            /\ heard' = [heard EXCEPT ![k] = IF k \in owed' THEN @ ELSE {}]
  /\ enabled' = {}
  /\ UNCHANGED <<world, todo, memory, sure, told>>

Finish ==
  /\ Schedule!Finish
  /\ step' = "idle"
  /\ id' = 0
  /\ todo' = {}
  /\ enabled' = {}
  /\ UNCHANGED heard

\* stickySet.clearSlug and forgetSlug, for the slug the key last stood for.
Retire(k) ==
  /\ sticky' = IF slugByKey[k] = None THEN sticky
               ELSE [sticky EXCEPT ![slugByKey[k]] = {}]
  /\ slugByKey' = [slugByKey EXCEPT ![k] = None]

\* A failed listing, alerted and not retried.
ListFails ==
  /\ step \in {"list", "relist"}
  /\ Finish
  /\ sure' = FALSE
  /\ UNCHANGED <<world, memory, told>>

ListAll ==
  /\ step = "list"
  /\ todo' = Listed
  /\ fleetCallback' = HasCatchall(Listed)
  /\ step' = IF Listed = {} THEN "refresh" ELSE "each"
  /\ sure' = TRUE
  /\ UNCHANGED <<world, schedule, id, enabled, sticky, slugByKey, orphans, applied, told>>

InspectFinds ==
  /\ step = "inspect"
  /\ \E c \in containers : c.id = id /\ todo' = {c}
  /\ step' = "each"
  /\ UNCHANGED <<world, schedule, id, enabled, memory, sure, told>>

InspectFails ==
  /\ step = "inspect"
  /\ Retire(running)
  /\ step' = "relist"
  /\ UNCHANGED <<world, schedule, id, todo, enabled, orphans, fleetCallback, applied, sure, told>>

\* processContainer for one that is not opted in, or not to be touched.
PassOver(c) ==
  /\ c.spec.self \/ c.spec.slug = None
  /\ IF c.spec.self THEN UNCHANGED <<sticky, slugByKey>> ELSE Retire(c.spec.key)
  /\ UNCHANGED <<owned, orphans, fleetCallback, applied, enabled>>

\* replaceSlug and rememberSlug: what was found is all that stands.
Findings(c, found) ==
  /\ sticky' = [sticky EXCEPT ![c.spec.slug] = found]
  /\ slugByKey' = [slugByKey EXCEPT ![c.spec.key] = c.spec.slug]
  /\ enabled' = IF running = FullPass THEN enabled \cup {c.spec.slug} ELSE enabled
  /\ UNCHANGED <<orphans, fleetCallback>>

\* A container with an error in its labels is skipped and alerted.
Skip(c) ==
  /\ ~c.spec.self
  /\ c.spec.slug # None
  /\ c.spec.errors # {}
  /\ Findings(c, c.spec.errors)
  /\ UNCHANGED <<owned, applied>>

\* The audit judges by the catch-all of the last listing.
Audit(c) == IF c.spec.needs /\ ~fleetCallback THEN {NoCallback} ELSE {}

\* A reconcile of whatever has no errors, opted in or not.
ConvergeUngated(c, failed, wrote) ==
  /\ ~c.spec.self
  /\ c.spec.errors = {}
  /\ wrote
  /\ owned' = owned \cup {c.spec.slug}
  /\ UNCHANGED applied
  /\ Findings(c, IF failed THEN {ApiError} ELSE {})

\* A run may fail before it has written anything, or half-way; one that finds its
\* objects as they should be need not write.
Converge(c, failed, wrote) ==
  /\ ~c.spec.self
  /\ c.spec.slug # None
  /\ c.spec.errors = {}
  /\ wrote \/ failed \/ c.spec.slug \in owned
  /\ owned' \in (IF wrote THEN {owned \cup {c.spec.slug}} ELSE {})
                \cup (IF failed \/ ~wrote THEN {owned} ELSE {})
  /\ applied' = [applied EXCEPT ![c.spec.slug] = IF wrote THEN "wrote" ELSE "unwritten"]
  /\ Findings(c, Audit(c) \cup IF failed THEN {ApiError} ELSE {})

ProcessContainer(c) ==
  /\ step = "each"
  /\ c \in todo
  /\ PassOver(c) \/ Skip(c) \/ \E failed, wrote \in BOOLEAN : Converge(c, failed, wrote)
  /\ todo' = todo \ {c}
  /\ step' = IF todo # {c} THEN "each"
             ELSE IF running = FullPass THEN "refresh" ELSE "relist"
  /\ UNCHANGED <<containers, created, schedule, id, sure, told>>

\* A refresh that counts only the containers without errors as enabled.
RelistClean ==
  /\ step = "relist"
  /\ enabled' = EnabledIn({c \in Listed : c.spec.errors = {}})
  /\ fleetCallback' = HasCatchall(Listed)
  /\ step' = "refresh"
  /\ sure' = TRUE
  /\ UNCHANGED <<world, schedule, id, todo, sticky, slugByKey, orphans, applied, told>>

\* refreshFromList
Relist ==
  /\ step = "relist"
  /\ enabled' = EnabledIn(Listed)
  /\ fleetCallback' = HasCatchall(Listed)
  /\ step' = "refresh"
  /\ sure' = TRUE
  /\ UNCHANGED <<world, schedule, id, todo, sticky, slugByKey, orphans, applied, told>>

\* A retention that keeps the errors of the slugs that are gone.
RetainAll ==
  /\ step = "refresh"
  /\ step' = "scan"
  /\ UNCHANGED <<world, schedule, id, todo, enabled, memory, sure, told>>

\* refreshOrphans, before the scan: retainSlugs.
Retain ==
  /\ step = "refresh"
  /\ sticky' = [s \in Slugs |-> IF s \in enabled THEN sticky[s] ELSE {}]
  /\ step' = "scan"
  /\ UNCHANGED <<world, schedule, id, todo, enabled, slugByKey, orphans, fleetCallback,
                 applied, sure, told>>

\* A failed scan that forgets the orphans there were.
ScanFailsEmpty ==
  /\ step = "scan"
  /\ orphans' = {}
  /\ Finish
  /\ sure' = FALSE
  /\ UNCHANGED <<world, sticky, slugByKey, fleetCallback, applied, told>>

\* refreshOrphans, when Authentik cannot be asked.
ScanFails ==
  /\ step = "scan"
  /\ Finish
  /\ sure' = FALSE
  /\ UNCHANGED <<world, memory, told>>

\* alertNewOrphans: those that were not known.
NewOrphans == (owned \ enabled) \ orphans

\* The orphans are known by slug: those of one slug are one here, kind:pk:slug in
\* the code, and those of no application (listed with an empty slug) are left out.
RefreshOrphans ==
  /\ step = "scan"
  /\ orphans' = owned \ enabled
  /\ told' = told \cup (NewOrphans \ EnabledIn(Listed))
  /\ Finish
  /\ UNCHANGED <<world, sticky, slugByKey, fleetCallback, applied, sure>>

Next ==
  \/ \E s \in Specs : Creates(s)
  \/ \E c \in containers : Starts(c) \/ Stops(c) \/ Removes(c)
  \/ \E s \in Slugs : Pruned(s)
  \/ \E k \in owed : StartJob(k)
  \/ ListFails
  \/ ListAll
  \/ InspectFinds
  \/ InspectFails
  \/ \E c \in todo : ProcessContainer(c)
  \/ Relist
  \/ Retain
  \/ ScanFails
  \/ RefreshOrphans

SyncSpec == Init /\ [][Next]_vars

-----------------------------------------------------------------------------
\* "Either way it ends by recomputing the orphan set from a fresh listing" (syncKey):
\* once every change that was heard has been seen to, and unless an event, a listing
\* or a scan has failed since, the daemon's picture is the world's: an owned slug
\* that no container enables is an orphan, an enabled one is none, errors stand for
\* enabled slugs only, and the catch-all is known.
Settled == running = None /\ owed = {}

SettledIsTrue ==
  Settled /\ sure =>
    /\ owned \ EnabledIn(Listed) \subseteq orphans
    /\ orphans \cap EnabledIn(Listed) = {}
    /\ \A s \in Slugs : sticky[s] # {} => s \in EnabledIn(Listed)
    /\ fleetCallback = HasCatchall(Listed)

\* The labels of c still have the error, and it no longer stands.
Drops(c, code) ==
  /\ c \in Listed /\ c \in Listed' /\ ~c.spec.self /\ c.spec.slug # None
  /\ code \in c.spec.errors
  /\ code \in sticky[c.spec.slug] /\ code \notin sticky'[c.spec.slug]

\* "One security-affecting error held until it is fixed" (stickyEntry), as far as the
\* code keeps it: an error in the labels of a container that runs is dropped only
\* while a change of that service is still on its way or was missed, by a sync
\* whose Inspect failed, or by the processing of another container.
DroppedByOthersOnly ==
  [][\A c \in Listed : \A code \in c.spec.errors : Drops(c, code) =>
       \/ c.spec.key \in owed \/ ~sure
       \/ step = "inspect"
       \/ step = "each" /\ c \notin todo \ todo']_vars

\* "The daemon alerts a newly-appeared orphan once rather than on every scan"
\* (Orphan.Key): no second alert for what has been an orphan ever since the first,
\* whatever has failed in between.
AlertedOnce ==
  [][step = "scan" /\ orphans' # orphans => NewOrphans \cap told = {}]_vars
=============================================================================
