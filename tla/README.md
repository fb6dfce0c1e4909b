# aboard, modelled in TLA+

aboard is a single Go program that keeps an Authentik server in step with the
labels of running containers: for every container that carries
`aboard.enable=true` it converges a provider, an application, the application's
access bindings and, for forward-auth, the membership of an outpost. It runs as a
daemon that watches the container runtime (berm, docker or podman through one
interface), or as one-shot commands (`prune`, `status`, `validate`, `render`, `groups`,
`version`). This directory holds the specifications of its core logic, the
configurations TLC checks them with, and the proofs TLAPS checks.

## 1. Inventory

| Part | Source | State it keeps | Operations | Talks to |
|---|---|---|---|---|
| debouncer | `daemon/debounce.go` | `pending` (key to latest container id), `timers`, `stopped`, under a mutex | `observe`, `fire` (each in a goroutine of its own), `flushNow`, `stop` | calls `onFlush`, which pushes onto the queue |
| work queue, worker | `daemon/worker.go` | `order`, `pending` (key to job), `closed`, a condition variable; the size-1 `jobDone` channel | `push`, `pop`, `close`, `runWorker`, `signalJobDone` | runs `fullPass` and `syncKey` one at a time |
| control loop | `daemon/daemon.go` `Run`, `daemon/watch.go` | the phase `Run` is in, the worker's context | boot pass, watch with back-off, shutdown: flush, stop, close, drain under a watchdog | debouncer, queue, runtime |
| sync | `daemon/sync.go`, `state.go`, `fleet.go`, `digest.go` | sticky errors by slug, key-to-slug index, orphan set, fleet catch-all, applied view | `fullPass`, `syncKey`, `processContainer`, `refreshOrphans`, `alertNewOrphans`, digest | runtime (List, Inspect), discovery, reconciler, notifier |
| reconciler | `reconcile/reconcile.go`, `adoption.go`, `ownership.go` | none between runs; everything lives in Authentik | `Reconcile`: resolve, gate, provider, application, bindings, attach, verify | Authentik client, one REST call at a time |
| orphans, prune | `reconcile/orphans.go`, `cli/prune.go` | none | `Orphans`, `Teardown`, `runPrune` with its confirmation | Authentik client, **concurrently with the daemon**: it is another process |
| Authentik client | `authentik/*.go` | none | typed REST calls, pagination, no retries, 30 s per request | the server (external) |
| discovery | `discovery/*.go`, `spec/spec.go` | none | labels to a `Spec` and issues | pure |
| traefik | `traefik/*.go` | none | render router labels, verify them | pure |
| config, secrets, blueprint, cli | `config`, `secret`, `blueprint`, `cli` | read once at start | parsing, printing, templates | - |

What is hard in it:

* **Interleavings.** Every expired debounce timer is a goroutine that first waits
  for the mutex and, after releasing it, pushes: `Run`, the worker and any number of
  those goroutines interleave, and a shutdown can begin between any two of their steps.
* **Failures half-way.** `Reconcile` is a dozen REST calls with no transaction: an
  error, a timeout, a cancelled context or a crash can stop it after any of them (and
  after a write whose answer is lost), and the next run, possibly for other labels,
  starts from what is there.
* **Read-modify-write and stale reads.** The outpost's providers list is sent back
  whole; the application is read once at the start and acted on many calls later;
  `prune` acts on an orphan set a person has been looking at.
* **Timeouts.** The drain is guarded by a stall timer that progress resets and a
  ceiling that nothing resets; the embedded outpost reloads in its own time while
  `pollGoLive` waits.

What makes each part correct:

* debouncer and queue: a change that was observed is never stranded (an entry without a
  timer), never doubled, and is run; runs never overlap; only the shutdown may forget,
  and only where the code lets it.
* drain: always ends, never cuts a healthy backlog, cuts a hang promptly.
* reconciler: nothing hand-made is touched without consent; no two owned providers ever
  claim one host; nothing is attached before its application and its gates are in place; the
  outpost loses nobody; a reported success is a full convergence whatever came before; a
  refused application is not written to; a failure never opens an application.
* sync: the sticky errors and the orphan set reflect the containers there are; each orphan
  is alerted once.
* discovery: no label is overlooked, what is acted on is complete, what is not acted on is announced.
* digest: what is in trouble is named.
* client: a listing is whole.
* traefik: a clean audit means a gated app and a callback that lands; what is printed passes the audit.
* prune: takes nothing from what was enabled, what it reports pruned is gone, and a teardown strips no provider that stays.

Every hazard, with its line and the properties that watch it, is in `PROJECT.json`.

## 2. Modules

| Module | Models | How it corresponds to the code |
|---|---|---|
| `Changes` | the vocabulary | an event's number stands for the container id it carries and for the timer it arms |
| `Debouncer` | `debounce.go` | `pending`, `timers`, `stopped` are the struct's fields. `timer[e]` is a runtime timer (armed, expired and waiting for the lock, gone), `flight[e]` is what its goroutine holds between `fire`'s unlock and the end of `onFlush`. `Observe`, `Fire`, `FlushTake`, `Stop` are the critical sections, one action each |
| `WorkQueue` | `worker.go` `workQueue` | `order`, `jobs` (the field `pending`), `closed`; `Push`, `Pop`, `Exhausted`, `Close` |
| `Pipeline` | `Run`, `runWorker`, `handleEvent` over the two above | `main` is where `Run` is; `flushing` is `flushNow`'s local copy; `worker` and `running` are `runWorker`; `jobDone` is the channel |
| `SerialWork` | nothing: the abstract promise | `owed`, `running`, `phase` |
| `PipelineProofs`, `DrainProofs`, `ReconcileProofs`, `FleetProofs`, `SyncProofs`, `DiscoveryProofs`, `WiringProofs`, `PagesProofs` | the theorems about the module of that name (`SyncProofs`: about `Digest` too) | each invariant that is proved is a conjunction of named parts, one lemma per action shows that it is kept |
| `Drain` | the watchdog at the end of `Run`, with a clock | `stallLeft`, `ceilLeft` are the two timers, 0 meaning that the channel is ready; `backlog` is what the worker has left to do |
| `Authentik` | the server as the client uses it (`authentik/*.go`) | one operator per mutating call, disabled where the server refuses it; `ByName` and friends are the lookups |
| `Reconcile` | `reconcile.Reconcile` and all it calls | `step` is the program counter, one action per REST call; `local` is its variables; `Fails` ends a run before any call |
| `Prune` | `cli/prune.go` `runPrune`, `reconcile/orphans.go` | `pstep` is where the command is, `spared` the enabled slugs it listed, `shown` the orphans it showed, `plan` those still to be torn down, `target` what `Teardown` has read; one action per REST call |
| `Fleet` | the two processes that write to one server, and the containers | `Reconcile` and `Prune` share the variables of `Authentik` and nothing else; `containers` are the enabled containers, which start and stop at any time |
| `Sync` | `daemon/sync.go`, and the state of `state.go` and `fleet.go` | `sticky`, `slugByKey`, `orphans`, `fleetCallback`, `applied` are the daemon's fields; `step`, `id`, `todo`, `enabled` are the locals of `fullPass` and `syncKey`; `sure` and `told` belong to the properties |
| `Wiring` | `traefik/verify.go`, `router.go`, `render.go`, `discovery/host.go` | a router is a record of what the code parses from its labels; `Verify` and what it is made of are operators of the same shape; `Audit`, `Render` and `Paste` are the daemon, the command and the operator; `Serving` is Traefik |
| `Digest` | `daemon/digest.go`, beside `Sync` | `reading` says that `SendDigest` is between its two reads; `unnamed` and `missed` belong to the property: the slugs in trouble that the first read did not return, and those that a whole digest did not. `DaemonStep` is any step of `Sync` |
| `Discovery` | `discovery/*.go`, the fields of `spec.go`, and `processContainer` around them | `labels` are the container's, under both prefixes; every `...Errors` operator is the parse function of that name, as the set of codes it appends; `PassOver`, `Skip`, `Act` are the three ways out of `processContainer`; `live` is the last spec that was reconciled |
| `Pages` | `ListAllProviders`, `ListProxyProviders`, `ListGroups`: one walk | `page` and `got` are the walk's locals, one action per request; `list` is the server's, which others change between two of them |
| `MCReconcile`, `MCFleet`, `MCSync`, `MCWiring`, `MCDiscovery` | TLC instances: the labels, the containers and the hand-made applications tried | |

`Pipeline` EXTENDS `Debouncer` and `WorkQueue`, each of its actions being theirs
with the rest of the daemon unchanged; it INSTANCEs `SerialWork` with `owed <-
Outstanding`, the keys that are in their quiet window, in a goroutine's hands, in
`flushNow`'s hands or queued. `Reconcile` and `Prune` EXTEND `Authentik`, `Fleet` EXTENDS
both: each process's action leaves the other's variables alone. `Sync` INSTANCEs
`SerialWork` too, for the order of its runs: what `Pipeline` implements, `Sync` builds on, and
a reconcile is to `Sync` one step that succeeds or fails, having written or not. The halves
meet in one fact: the worker runs one job at a time (proved: `Pipeline` implements
`SerialWork`), which is why `Reconcile` has runs that follow one another and `Sync` one job. `Digest` EXTENDS
`Sync` and reads its variables. `Discovery` is what `Sync`, `Reconcile` and `Wiring` take for granted: the
errors and the specs they are given as sets are what it makes of labels. `Pages` stands
apart: what it shows of a listing is why the other modules may take one as a set, and where they may not.

Operators such as `ObserveWithoutArming`, `CloseBeforeFlush` or `AttachAlone` are not
used by any specification. Each is a wrong version of the definition below it, kept to
show that the property watching that definition notices.

## 3. Runs

| Run | Configuration | What it shows |
|---|---|---|
| `pipeline` | 2 services, 3 events, every interleaving, shutdown at any moment | type invariant; every pending change has a live timer (`PendingHasTimer`); the inductive invariant of the proofs, of which it is a part that queue and map agree and that the latest id wins; a clean exit leaves nothing queued (`DrainedAtExit`); nothing is lost but by a goroutine that finds the queue closed (`LostOnlyInFlight`); refinement of `SerialWork`; under the fairness below a shutdown ends, hung job or not (`ShutdownTerminates`), and while jobs return, what is owed is run (`OwedIsRun`) |
| `drain` | backlogs of 0-4 jobs of 0 to 4 ticks or hung; stall 3, ceiling 7 | a healthy backlog drains in full, a hang is cut within the stall window of the last completion, never past the ceiling, and `Run` returns |
| `reconcile` | 3 runs over 2 slugs, 2 hosts, 2 groups, 2 outposts, 6 labels, 4 hand-made applications or none | `OneProviderPerHost`, `ConvergedOnSuccess`, `RefusedBeforeWriting`, `HandMadeUntouched`, `GatedBeforeAttach`, `OutpostKeepsAll` |
| `fleet` | 2 reconciles and 2 prunes at any moment of each other, a slug that moves between outposts and one that changes kind, a hand-made application | a prune takes nothing from a slug that was enabled when it looked (`SparedIsSpared`); a list sent back loses only who joined after it was read (`DetachKeepsWhatItSaw`); of a prune without a failure nothing that it showed is left, dangling providers included (`PrunedIsGone`); a provider of aboard's that stays keeps its application, but for one the daemon put there between a teardown's two deletes (`KeepsItsApplication`) |
| `sync` | 2 containers, started, stopped and removed at any time, of a service that is broken, mended and opted out and of Authentik itself; every listing, inspection, reconcile and scan may fail, every event may be missed; the digest is sent at any moment | once all that was heard is seen to, the daemon's picture is the world's (`SettledIsTrue`); a standing error is dropped only while a change is on its way, by a failed inspection or by another container (`DroppedByOthersOnly`); no orphan is alerted twice, whatever fails in between (`AlertedOnce`); a slug that is in trouble all along is missed by one digest at most (`MissedAtMostOnce`) |
| `wiring` | every container with up to two routers of its own and a callback router, of 21 shapes, 3 sets of protected names, host explicit or inferred, catch-all coming and going | with nothing left public by name a clean audit means a gated app (`CleanIsGated`); on a mixed host it means that the login's callback is served and by no public router (`CallbackLands`); what render prints is all the audit asks for (`RenderedIsClean`), opens nothing that was gated and keeps the inferred host (`PasteKeepsGates`) |
| `discovery` | 4 containers to start from (forward-auth, OIDC, SAML, bare), 2 edits of any of 30 suffixes under 2 prefixes, 1-5 values each, rules with one, no or several hosts, either proxy | what Authentik is told is complete for its provider and has nothing of another's (`LiveIsComplete`); an application is made of all the labels there are, each meaning what `docs/LABELS.md` says (`EveryLabelCounts`); a container that declares anything is acted on or announced (`NothingSilent`) |
| `pages` | up to 5 rows, pages of 2, rows created and deleted at any place between two requests | a walk misses only rows that deletions moved behind it, one for each, and is refused only by a list that shrank (`MissedByDeletionOnly`); it ends (`WalkEnds`) |
| `fleet_overlap` | violated | the instance of `fleet`, for `AttachedHasApplication`: a container that starts during a prune is reconciled between the teardown's two deletes and ends attached without its application |
| `reconcile_failed_open` | violated | a group change that fails between delete and create leaves a live application without a gate |
| `wiring_blind` | violated | a router whose hosts are a pattern, under an explicit `aboard.host`, is open and the audit clean |
| `discovery_conflict` | violated | two prefixes that disagree about `enable`: the container is passed over, and nobody is told |

The violated runs state what a comment of the code promises; `PROJECT.json` quotes the
line (findings).

Other places where the models follow the code and not its comments, without a run of their own:
a healthy job longer than the stall window is cut (against `DefaultShutdownStall`'s comment); a fire that
waited for the lock flushes a newer id before its own window is over; a refused adoption leaves the
groups that were created for it; a reconcile that failed, or had nothing to write, is recorded with
the time of a write (against `recordApplied`'s comment); the alert on labels declared but not armed
is sent once and not held, where `docs/LABELS.md` calls it sticky. Further:

* A settled change in the hands of a `fire` goroutine, between its unlock and its push, is dropped by a
  shutdown that closes the queue first (`worker.go:59-61`), against "so a settled change is reconciled rather
  than dropped" (`daemon.go:333-334`). `LostOnlyInFlight` allows this door and no other.
* A provider the daemon attaches between the detach's read of the outpost's list and its write falls
  off the outpost, against "leaving every other provider in place" (`orphans.go:162-163`).
  `DetachKeepsWhatItSaw` says that nothing else does.
* A dangling provider (made by a run that failed before its application) is listed by every prune and removed by none, as
  `Teardown` is keyed on the application; such a prune reports a failure (`PrunedIsGone`).
* A teardown that fails between its two deletes leaves an application without a provider, which no later
  orphan scan lists and `Teardown` refuses as hand-made, against "the worst outcome is the
  pre-existing state" (`orphans.go:115`).
* Removing one of two replicas clears the error that stands for the other, and no refresh brings it back,
  against "one security-affecting error held until it is fixed" (`state.go:13`). It is one of the
  exceptions of `DroppedByOthersOnly`.
* A digest names no slug that moves from the orphans to the sticky errors between its two
  reads, against "re-emits the sticky errors and the orphan set until they are fixed" (`digest.go:19-20`).
* A present but empty `aboard.groups` (`""` or `","`) is `none`: open to any authenticated user.
  `Means` has it so, as a list of nothing.
* `aboard.enable=TRUE`, alone, is not armed and draws no warning; `aboard.adopt=yes` is silently false.
* `aboard.oidc.redirect.1` and `.01` are one index, and one of the two values is dropped without a word.
* A name without a letter or digit gives the slug `""`, which is not validated (`LiveIsComplete` allows it).
* A binding that a person has disabled or negated counts as present (`reconcile.go:1091`).

**Bounds.** *Pipeline*: three events are what it takes for one key to be observed, to
fire, to be observed again while the first fire waits or carries, and for a second key
to be queued between. The theorems below hold for any number of both. *Drain*: with a stall of 3 a
backlog of four jobs can reach the ceiling of 7 with and without a single job reaching the stall; a job of 3 ticks
completes as the stall timer fires, a last one of 1 as the ceiling does, and the select takes either. *Reconcile*: `MaxRuns` = 3 lets a host be taken, given up half-way and
taken by the other slug; `MaxPK` = 3 is a provider for each slug and one made by hand. A
create beyond `MaxPK` can only fail, which every call may do anyway. The labels are chosen so
that hosts are contested, gates and modes change, a slug changes kind, one consents to
adopting and one differs in title. *Fleet*: a prune needs an
orphan, hence a container that was reconciled and stopped; `MaxRuns` = 2 leaves
one more reconcile to run beside it, for the same slug or the other, and two prunes are one that was broken off and its
successor. *Sync*: `MaxIds` = 2
gives two containers side by side, or one and its successor; the second may carry the first
one's slug, another slug under the same key, or the catch-all. *Wiring*: two routers are a
public one beside a protected one; the priorities tried lie below, between and above the lengths
of the rules, so that ties and every order occur. *Discovery*: `MaxEdits` = 2; every rule is about one suffix, or
about two of them given the provider, and the four blocks supply what a provider requires, so two edits
reach both sides of each; a value is of every kind that a rule tells apart. *Digest* is checked in
the run of `Sync`: a slug moves from orphan to error when its container comes back and the catch-all it needs is
not there, and back by way of `Retain` only. *Pages*: five rows in pages of
two are a first, a middle and a short last page; deleting two or three of them makes the page
asked for vanish. `CHECK_DEADLOCK FALSE` for
`Reconcile`, `Fleet`, `Sync` (with `Digest`), `Discovery` and `Pages` only: they stop when their runs, ids, edits or rows
are used up.

**Fairness.** In `Pipeline` the Go runtime starts every expired timer and schedules every
goroutine that can run (weak fairness of the timers' steps, of the worker's own steps and
of each step of the shutdown), and the ceiling timer always comes (`Cut`). A job is only
assumed to return once its context is cancelled, since every request carries
that context; `OwedIsRun` adds the hypothesis that jobs keep returning. Nothing makes
containers change or the daemon stop. In `Drain`, weak fairness of `Next`: time goes on.
In `Pages`, weak fairness of the walk's own step: every request has an answer or fails (30 s per request), and the client asks for
the next page at once; nobody has to create or delete. `Reconcile`, `Fleet`, `Sync`, `Digest`, `Discovery` and `Wiring` have no
fairness; their properties are safety.

## 4. Assumptions

* Authentik: provider names are unique, a provider has one application at most, primary
  keys are not reused, a PATCH of a list with a primary key that does not exist is refused, a call
  takes effect completely or not at all. The embedded outpost reloads at any time or never.
  These are the behaviours the code's comments record of version 2025.6.4 or rely on.
* Deleting a provider takes it off its application and off every outpost, deleting an
  application takes its bindings with it. `orphans.go` relies on the first ("orphaned from its
  application") and never detaches from a named outpost.
* `Outposts` are those there are. A run whose label names another fails; if the embedded one is missing, a
  teardown has nothing to detach from (`Attached`).
* `None` stands for what is missing and is none of the things that are not; the labels, hand-made
  applications and routers tried are of the shapes the code parses (`NoneAssumption`, `LabelsAssumption`,
  `HandAppsAssumption`, `LabelledAssumption`), and a container has finitely many routers of finitely many hosts.
* Nothing keeps the daemon and a prune apart, in the code or in `Fleet`: prune may list at any moment, a
  container may start while a person reads the list, and a run may begin or end between any two calls of a
  teardown. What then still holds is what the run `fleet` checks and `FleetProofs` proves; what does not is
  `fleet_overlap`.
* A failure is modelled before a call. A write whose answer is lost is the write
  followed by `Fails`; a crash is the same, as a run keeps nothing.
* The reads that one gate makes (the three lookups of `resolveOwnership`, the provider and
  the bindings in `adoptionGate`) are taken at one moment: in `Reconcile` no one else writes.
* Bindings are sets of gates. Their `order`, `enabled` and `negate` fields, and the fields
  of a provider and an application that no decision reads (scopes, certificates, redirect URIs,
  icon, description) are left out. Missing bindings are created in any order, a superset of
  the label's order. Flow, scope, certificate and secret lookups write nothing and are
  part of the failures.
* In `Pipeline` a worker that waits for a key can pop as soon as there is one: that `push` and `close` signal the condition
  variable is taken for granted.
* In `Sync` the orphans are a set of slugs; the code's are keyed by kind, pk and slug and include dangling providers, with an
  empty slug (`orphans.go:86-95`), which only `Prune` has.
* In `Sync` the runtime lists what runs (`ListsStopped` = FALSE) and inspects what it has,
  running or not; an inspection may fail for a container that is there. A listing and a scan each see one moment. The groups header's check,
  the timestamps and the texts of the alerts are left out.
* In `Wiring` Traefik serves a request with the matching router of the highest priority, of equal
  ones with any. In the run `wiring` the hosts of the routers are literal, paths are matched and
  not negated, and `<slug>-outpost` is the name of a callback router if of any: `wiring_blind` shows what
  is behind the first; a rule that leaves the callback path *out* counts as a callback router too; a
  router of another purpose under the rendered name would be replaced. `CallbackLands` does not
  speak of hosts that rely on the fleet's catch-all: its priority of 100 is compared with nobody's.
* In `Discovery` a value is what discovery tells apart (`"abs"` is any absolute URL, `"one"` any rules with one
  literal host), and one label holds one element of a list or none. Suffixes that are recorded and break no
  rule are left out, but for one or two of each family. An edit changes one label; what a
  person changes at once is a sequence of edits of which the daemon need not see the middle. What a failed
  reconcile leaves is `Reconcile`'s, and the errors of several containers under one slug are `Sync`'s.
* In `Digest` the applied views, read under a third lock, are not part of what it names: they list what was
  reconciled, in trouble or not.
* In `Pages` a row keeps its place among the others, no row comes back, and the server answers a page
  that does not exist with 404, the first one excepted (Django REST; the comment in
  `ListAllProviders` records the 404 and the 0). The other modules take a listing at one moment: that
  is right as long as it fits a page of 100, and `MissedByDeletionOnly` says what is lost beyond.
* In `Drain` a tick is long against a goroutine switch. It begins when the completion channel has been cleared
  (`daemon.go:365`); a completion that comes before the timers are set is one at time 0.

## 5. Proofs

`PipelineProofs` proves, for every finite or infinite set of keys and every bound on the
events, from `KeysAssumption` (the full pass's key is no service's key, `None` is neither) and
`MaxEventsAssumption`:

* `PipelineInvariant`: `Spec => []PipelineInv`. The properties by themselves are not
  inductive. `PendingHasTimer` survives a `fire` that deletes a timer which is not
  its own only because the map's timer of a key is always a timer of that key and an observed
  event has a timer (`Bookkeeping`); `DrainedAtExit` needs to know which flags go with
  which phase of `Run` (`Phases`) and that a worker that left without being cancelled found the
  queue closed and empty (`WorkerSound`). `PipelineInv` is their conjunction with the types,
  `LatestWins` (what waits for a key is the last id observed) and `QueueWellFormed` (the queue's order and its map of
  jobs agree); the run `pipeline` checks it too.
* From it `TypeCorrect`, `PendingIsArmed`, `LatestIsKept`, `QueueIsWellFormed`, `ExitIsDrained`.
* `NothingElseIsLost`: `Spec => LostOnlyInFlight`, by following who holds a key's
  change (`Owed`) through each step: `FireHandsOver`, `LandSettles`, `FlushHandsOver`, `PopStarts`.
* `PipelineImplementsSerialWork`: the refinement, step by step (`PromiseOfStep`).

The proof of `Pipeline` is split as the code is: lemmas about the queue's and the debouncer's
operations alone, then one step per action of `Next`.

`DiscoveryProofs` proves, for any values tried for any of the suffixes of the grammar (`SuffixesAssumption`),
any labels to start from and any number of edits:

* `ToldOnlyWhatIsComplete`: `Spec => []LiveIsComplete`, inductive as it stands. It rests on
  `AcceptedIsComplete`, a fact about `Discover` alone: labels without an error make a complete
  spec. `ErrorFree` takes an empty set of errors apart into the checks that passed; one
  lemma per part of the spec (`SlugIsOne`, `HostIsThere`, `OIDCIsWhole`, `SAMLIsWhole`) follows each of them.
* `NoLabelIsOverlooked`: `Spec => []EveryLabelCounts`, by the invariant that what was acted on, the labels
  being as they were, is what the labels ask for (`ActedOn`), and `EachCounts`, one
  case per suffix: no conflict, so the merged map has each label's value (`NothingHidden`), no
  clash, so a list is what its labels say (`ListCounts`).
* `NothingIsPassedOverInSilence`: `Spec => []NothingSilent`.

`DrainProofs` proves, for any stall window, ceiling, backlog and effort of its jobs
(`DrainAssumption`), `DrainTypeCorrect`, `DrainIsSelfBounded` and `HangIsCutPromptly`. The bounds alone are not
inductive: a tick keeps them only because each timer and the time it has run add up to what it
was set to for as long as `Run` watches, and because the clock stands still afterwards (`Watch`); that
a tick happens only then is the lemma `TickMeansWatching`. `DrainInvariant` is their conjunction.
`HealthyIsDrained` proves `HealthyDrainsInFull`. Its invariant (`HealthyHolds`) counts the ticks of work
that wait, one by one (`WorkAfter`), so that a job taken takes its own off the count (`NextJobsWork`): time
gone by, work in progress and work waiting never exceed the whole, which fits the ceiling; and the job in progress ends
before the window its predecessor opened.

`ReconcileProofs` proves, for any slugs, hosts, kinds, gates, outposts and labels, any hand-made applications
to start from and any number of runs that fail anywhere, `ReconcileInvariant`: `ReconcileInv` is the types, what the server
holds (`ServerSound`: names are unique, primary keys fresh, an application's provider is there and no other
application's) and what a run knows at each of its steps (`RunSound`: what it read still holds, the adoption gate was
passed, the host is free of others, the provider is found or is its own, the
objects are in the order of the calls). None of the properties is
inductive without the last: `OneProviderPerHost` stands at the write because the collision check
came after the read (`HostFree`), `ConvergedOnSuccess` at the end because each step hands the next one
what it has made good (`InOrder`). From it

* `ReconcileTypeCorrect`, `HostsAreNeverShared`, `SuccessMeansConverged`, `RefusalsWriteNothing`, and the action properties
* `NoOutpostLosesAny` (the list sent back is the list read, with one more: `ListHolds`), `NothingJoinsUngated`
  and `HandMadeIsSafe`, by who points at what before and after each call.

`FleetProofs` proves about the daemon and a prune side by side:

* `FleetInvariant`: the types, `ServerSound`, and that what a run or a teardown has read
  or chosen is its own slug's or an orphan's (`OwnersPoint`, `ReadIsOwn`, `ChosenIsOwn`, `TargetIsOrphan`). `RunSound` of
  `Reconcile` is *not* kept here: a prune deletes under the run. From it `FleetTypeCorrect`, `EnabledIsSpared`, `ListsLoseLittle`.
* `RowsInvariant`: a row that prune has shown with an application still names that application's provider when
  its turn comes (`RowsHold`), a teardown is of one row (`ShownOnce`, `TargetShown`), and a row that is neither gone nor due has
  failed (`RowsDone`). The list is old by then and the daemon may be at work on the same slug; what saves it is that names
  are unique and a run acts on no provider but its own slug's, so that it can point the application only at the provider it
  has (`DaemonKeepsPointing`), and that no primary key is given out twice (`GoneStays`). From it `PrunedMeansGone` and
  `ApplicationsAreKept`.

No theorem assumes anything of how the two overlap.

`SyncProofs` proves, for any containers and any number of them, any slugs, keys and codes, whether the
runtime lists what is stopped or not, `SyncInvariant`: the types, which locals a job uses where (`JobSound`), what a listing in hand is still good
for once more has happened (`ListingHolds`), that errors are retained before the scan, that an alert stands
for a known orphan which no listing finds enabled (`AlertsStand`), and `SettledIsTrue`. From it `SyncTypeCorrect`, `SettledMeansTrue`,
`OneAlertPerOrphan`, `ErrorsHeld`; and `NeverMissedTwice` about the digest, by `MissedHaveErrors`: what one digest
missed had an error and was no orphan, so the next one reads it.

`WiringProofs` proves, for any routers and hosts and any lengths of rules, however often labels are audited, rendered
and pasted, `WiringInvariant`: what was found and printed is what the labels there are ask for (`FindingsHold`, `PrintedHolds`).
`MaxIsGreatest`, that finitely many priorities have a greatest one, is what both the audit's and Traefik's choice rest on (`HighestServes`).

* `CleanMeansGated`, where no rule is a pattern or leaves the callback path out (`NoPatterns`, `NoNegations`), and
  `CleanMeansCallbackLands`, where none leaves it out. The first hypothesis cannot go: the run `wiring_blind` violates it.
* `RenderedPasses` and `PastingKeepsGates`, where a router of the name `<slug>-outpost`, if there is one, is a callback
  router of the explicit host (`OwnIsOurs`). `PastedInvariant` adds to `WiringInv` that what was pasted is satisfied.

The labels of the run `wiring` meet all three hypotheses.

`PagesProofs` proves `PagesInvariant` and `NothingElseIsMissed`, for any rows and pages of any size. The property speaks of the end of a walk;
the invariant follows the rows that stand at the positions already read and were not got (`Behind`):
they are no more than were deleted there, as a deletion moves one row across the boundary at most and a
creation moves none behind it; and a page that is asked for exists, unless a row was deleted (`Found`).

Model-checked only: liveness (`ShutdownTerminates`, `OwedIsRun`, `DrainEnds`, `WalkEnds`), which is out
of the prover's reach, and the four violated runs. Every other property of a passing run is a theorem.

## 6. Plan

1. *(done)* `Pipeline` with its parts, its abstraction and its proofs; `Drain`; `Authentik`
   and `Reconcile`.
2. *(done)* `Prune` and `Fleet`.
3. *(done)* `Sync`, and `Digest` beside it.
4. The pure algorithms: *(done)* `Wiring`, render against verify against what Traefik does; *(done)* `Discovery`,
   the labels' grammar and their errors, with its proofs; *(done)* `Pages`, the pagination walk.
5. *(done)* Proofs of every safety property the runs check.
6. `enabled` and `negate` of bindings in `Reconcile`, with a person who sets them.

Not modelled, with the reason for each: see "components" in `PROJECT.json`.
