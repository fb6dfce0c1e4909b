----------------------------- MODULE SyncProofs ------------------------------
(***************************************************************************)
(* What the daemon knows of the containers and of Authentik, and what its  *)
(* digest says of it, for any containers, any number of them, and wherever *)
(* the runtime and Authentik fail.                                         *)
(***************************************************************************)
EXTENDS Digest, TLAPS

-----------------------------------------------------------------------------
\* The slugs the listing in hand has found enabled, or will have by the end of the pass.
Counted == enabled \cup IF running = FullPass THEN EnabledIn(todo) ELSE {}

\* Which locals a job uses where.
JobSound ==
  /\ running = None <=> step = "idle"
  /\ step = "list" => running = FullPass
  /\ step \in {"inspect", "relist"} => running # FullPass
  /\ step \in {"idle", "list", "inspect", "relist"} => enabled = {} /\ todo = {}
  /\ step = "each" /\ running # FullPass => enabled = {}
  /\ step \in {"refresh", "scan"} => todo = {}

\* A pass that has its listing, or a sync that has made its own at the end.
HasListing == (step = "each" /\ running = FullPass) \/ step \in {"refresh", "scan"}

\* A listing holds until something changes: then a key is owed, or the event was missed.
\* The slug of a container that runs was found unless a change of that very key is owed.
ListingHolds ==
  /\ HasListing /\ sure /\ owed = {} =>
       Counted = EnabledIn(Listed) /\ fleetCallback = HasCatchall(Listed)
  /\ HasListing /\ sure =>
       \A c \in Listed : ~c.spec.self /\ c.spec.slug # None /\ c.spec.key \notin owed =>
         c.spec.slug \in Counted

\* The retention comes right before the scan.
ErrorsRetained == step = "scan" => WithErrors \subseteq enabled

\* An alert stands for a known orphan, which no listing finds enabled.
AlertsStand ==
  /\ told \subseteq owned \cap orphans
  /\ told \cap (Counted \cup EnabledIn(Listed)) = {}

SyncInv ==
  /\ SyncTypeOK
  /\ JobSound
  /\ ListingHolds
  /\ ErrorsRetained
  /\ AlertsStand
  /\ SettledIsTrue

\* What a digest has missed had an error and was no orphan, so the next one reads its error.
MissedHaveErrors ==
  /\ unnamed \subseteq Trouble
  /\ missed \subseteq WithErrors \ orphans
  /\ reading => missed \cap unnamed = {}

-----------------------------------------------------------------------------
\* Types.

LEMMA SpecTyped ==
  ASSUME NEW s \in Specs
  PROVE  /\ s.key \in Keys /\ s.slug \in Slugs \cup {None} /\ s.errors \in SUBSET Codes
         /\ s.needs \in BOOLEAN /\ s.catchall \in BOOLEAN /\ s.self \in BOOLEAN
BY SpecsAssumption DEF Spec

LEMMA InitSound == Init => SyncInv
<1> SUFFICES ASSUME Init PROVE SyncInv
  OBVIOUS
<1>1. SyncTypeOK
  <2>1. /\ containers \subseteq Container /\ owned \subseteq Slugs /\ todo \subseteq Container
        /\ enabled \subseteq Slugs /\ orphans \subseteq Slugs /\ told \subseteq Slugs
        /\ owed \subseteq Keys \cup {FullPass}
    BY DEF Init, Schedule!Init
  <2>2. created \in 0..MaxIds /\ id \in 0..MaxIds
    BY MaxIdsAssumption DEF Init
  <2>3. /\ running \in Keys \cup {FullPass, None} /\ sure \in BOOLEAN /\ fleetCallback \in BOOLEAN
        /\ step \in {"idle", "list", "inspect", "each", "relist", "refresh", "scan"}
    BY Zenon DEF Init, Schedule!Init
  <2>4. /\ heard \in [Keys -> SUBSET Ids] /\ sticky \in [Slugs -> SUBSET AllCodes]
        /\ slugByKey \in [Keys -> Slugs \cup {None}]
        /\ applied \in [Slugs -> {None, "wrote", "unwritten"}]
    BY DEF Init
  <2> QED BY <2>1, <2>2, <2>3, <2>4 DEF SyncTypeOK
<1>2. running = None /\ step = "idle" /\ enabled = {} /\ todo = {} /\ Listed = {} /\ owed # {}
  BY DEF Init, Schedule!Init, Listed
<1>3. EnabledIn({}) = {}
  BY DEF EnabledIn
<1>4. AlertsStand
  BY <1>2, <1>3 DEF Init, AlertsStand
<1> QED BY <1>1, <1>2, <1>4 DEF SyncInv, JobSound, ListingHolds, HasListing, ErrorsRetained, SettledIsTrue, Settled

\* An event is heard or missed.
LEMMA EventTyped ==
  ASSUME SyncTypeOK, NEW k \in Keys, NEW i \in Ids, Event(k, i)
  PROVE  /\ running' = running
         /\ owed' \in SUBSET (Keys \cup {FullPass}) /\ heard' \in [Keys -> SUBSET Ids] /\ sure' \in BOOLEAN
         /\ (owed' = owed \cup {k} /\ sure' = sure) \/ ~sure'
BY DEF Event, SyncTypeOK, schedule, Schedule!Mark

\* What a container does: the only ones that are listed anew are of the key that changed,
\* and no alert stands for their slugs any more.
LEMMA ContainerChanges ==
  ASSUME SyncTypeOK,
         \/ \E s \in Specs : Creates(s)
         \/ \E c \in containers : Starts(c) \/ Stops(c) \/ Removes(c)
  PROVE  /\ SyncTypeOK'
         /\ UNCHANGED <<owned, running, job, memory>>
         /\ told' \subseteq told
         /\ \E k \in Keys :
              /\ (owed' = owed \cup {k} /\ sure' = sure) \/ ~sure'
              /\ \A c \in Listed' \ Listed : c.spec.key = k
         /\ \A c \in Listed' : c.spec.slug \in told' => \E x \in Listed : x.spec = c.spec
<1>1. ASSUME NEW s \in Specs, Creates(s)
      PROVE  /\ SyncTypeOK'
             /\ UNCHANGED <<owned, running, job, memory>>
             /\ told' \subseteq told
             /\ (owed' = owed \cup {s.key} /\ sure' = sure) \/ ~sure'
             /\ \A c \in Listed' \ Listed : c.spec.key = s.key
             /\ \A c \in Listed' : c.spec.slug \in told' => \E x \in Listed : x.spec = c.spec
  <2>1. created + 1 \in Ids /\ s.key \in Keys
    BY <1>1, SpecTyped, MaxIdsAssumption DEF Creates, SyncTypeOK, Ids
  <2>2. [id |-> created + 1, spec |-> s, up |-> TRUE] \in Container
    BY <2>1 DEF Container
  <2>3. /\ running' = running
        /\ owed' \in SUBSET (Keys \cup {FullPass}) /\ heard' \in [Keys -> SUBSET Ids] /\ sure' \in BOOLEAN
        /\ (owed' = owed \cup {s.key} /\ sure' = sure) \/ ~sure'
    BY <1>1, <2>1, EventTyped DEF Creates
  <2>4. SyncTypeOK'
    <3>1. created' \in 0..MaxIds /\ containers' \subseteq Container /\ told' \subseteq Slugs
      <4>1. created' = created + 1 /\ created' \in 0..MaxIds
        BY <1>1, <2>1, MaxIdsAssumption DEF Creates, Ids
      <4>2. containers \subseteq Container /\ told \subseteq Slugs
        BY DEF SyncTypeOK
      <4> QED BY <1>1, <2>2, <4>1, <4>2 DEF Creates
    <3>2. UNCHANGED <<owned, job, memory>>
      BY <1>1 DEF Creates
    <3> QED BY <2>3, <3>1, <3>2 DEF SyncTypeOK, job, memory
  <2> DEFINE n == [id |-> created + 1, spec |-> s, up |-> TRUE]
  <2>5. containers' = containers \cup {n} /\ n.spec = s
    BY <1>1 DEF Creates
  <2> HIDE DEF n
  <2>6. \A c \in Listed' \ Listed : c = n
    BY <2>5 DEF Listed
  <2> QED BY <1>1, <2>3, <2>4, <2>5, <2>6 DEF Creates, job, memory
<1>2. ASSUME NEW c \in containers, Starts(c) \/ Stops(c)
      PROVE  /\ SyncTypeOK'
             /\ UNCHANGED <<owned, running, job, memory>>
             /\ told' \subseteq told
             /\ (owed' = owed \cup {c.spec.key} /\ sure' = sure) \/ ~sure'
             /\ \A x \in Listed' \ Listed : x.spec.key = c.spec.key
             /\ \A x \in Listed' : x.spec.slug \in told' => \E y \in Listed : y.spec = x.spec
  <2>1. c \in Container /\ c.id \in Ids /\ c.spec \in Specs /\ c.spec.key \in Keys
    BY SpecTyped DEF SyncTypeOK, Container
  <2>2. PICK b \in BOOLEAN : containers' = (containers \ {c}) \cup {[c EXCEPT !.up = b]}
    BY <1>2 DEF Starts, Stops
  <2>3. [c EXCEPT !.up = b] \in Container /\ [c EXCEPT !.up = b].spec = c.spec
    BY <2>1 DEF Container
  <2>4. /\ running' = running
        /\ owed' \in SUBSET (Keys \cup {FullPass}) /\ heard' \in [Keys -> SUBSET Ids] /\ sure' \in BOOLEAN
        /\ (owed' = owed \cup {c.spec.key} /\ sure' = sure) \/ ~sure'
    BY <1>2, <2>1, EventTyped DEF Starts, Stops
  <2>5. SyncTypeOK'
    BY <1>2, <2>2, <2>3, <2>4 DEF Starts, Stops, SyncTypeOK, job, memory
  <2>6. \A x \in Listed' \ Listed : x.spec = c.spec
    BY <2>2, <2>3 DEF Listed
  <2>7. ASSUME NEW x \in Listed', x.spec.slug \in told'
        PROVE  \E y \in Listed : y.spec = x.spec
    BY <1>2, <2>6, <2>7 DEF Starts, Stops, Listed
  <2> QED BY <1>2, <2>4, <2>5, <2>6, <2>7 DEF Starts, Stops, job, memory
<1>3. ASSUME NEW c \in containers, Removes(c)
      PROVE  /\ SyncTypeOK'
             /\ UNCHANGED <<owned, running, job, memory>>
             /\ told' \subseteq told
             /\ (owed' = owed \cup {c.spec.key} /\ sure' = sure) \/ ~sure'
             /\ Listed' \subseteq Listed
  <2>1. c.id \in Ids /\ c.spec.key \in Keys
    BY SpecTyped DEF SyncTypeOK, Container
  <2>2. /\ running' = running
        /\ owed' \in SUBSET (Keys \cup {FullPass}) /\ heard' \in [Keys -> SUBSET Ids] /\ sure' \in BOOLEAN
        /\ (owed' = owed \cup {c.spec.key} /\ sure' = sure) \/ ~sure'
    BY <1>3, <2>1, EventTyped DEF Removes
  <2>3. SyncTypeOK'
    BY <1>3, <2>2 DEF Removes, SyncTypeOK, job, memory
  <2> QED BY <1>3, <2>2, <2>3 DEF Removes, Listed, job, memory
<1>4. \A c \in containers : c.spec.key \in Keys
  BY SpecTyped DEF SyncTypeOK, Container
<1> QED BY <1>1, <1>2, <1>3, <1>4, SpecTyped

\* Every step of a job keeps the types.
LEMMA JobTyped ==
  ASSUME SyncTypeOK,
         \/ \E k \in owed : StartJob(k)
         \/ ListFails \/ ListAll \/ InspectFinds \/ InspectFails
         \/ \E c \in todo : ProcessContainer(c)
         \/ Relist \/ Retain \/ ScanFails \/ RefreshOrphans
  PROVE  SyncTypeOK'
<1> USE DEF world, schedule, job, memory
<1>1. ASSUME NEW k \in owed, StartJob(k)
      PROVE  SyncTypeOK'
  <2>1. k \in Keys \cup {FullPass} /\ running' = k /\ owed' \subseteq owed
    BY <1>1 DEF StartJob, Schedule!Start, SyncTypeOK
  <2>2. k # FullPass => /\ id' \in 0..MaxIds
                        /\ heard' \in [Keys -> SUBSET Ids]
    BY <1>1, <2>1 DEF StartJob, SyncTypeOK, Ids
  <2> QED BY <1>1, <2>1, <2>2 DEF StartJob, SyncTypeOK
<1>2. CASE ListFails \/ ScanFails
  <2>1. UNCHANGED <<world, memory, told>> /\ Finish /\ sure' = FALSE
    BY <1>2 DEF ListFails, ScanFails
  <2>2. id' \in 0..MaxIds /\ running' \in Keys \cup {FullPass, None} /\ UNCHANGED <<owed, heard>>
    BY <2>1, MaxIdsAssumption DEF Finish, Schedule!Finish
  <2> QED BY <2>1, <2>2 DEF Finish, SyncTypeOK
<1>3. CASE ListAll \/ InspectFinds
  <2>1. CASE ListAll
    BY <2>1 DEF ListAll, Listed, HasCatchall, SyncTypeOK
  <2>2. CASE InspectFinds
    BY <2>2 DEF InspectFinds, SyncTypeOK
  <2> QED BY <1>3, <2>1, <2>2
<1>4. CASE InspectFails
  BY <1>4 DEF InspectFails, Retire, SyncTypeOK
<1>5. ASSUME NEW c \in todo, ProcessContainer(c)
      PROVE  SyncTypeOK'
  <2>1. /\ c.spec \in Specs /\ c.spec.key \in Keys /\ c.spec.slug \in Slugs \cup {None}
        /\ c.spec.errors \in SUBSET Codes
    BY SpecTyped DEF SyncTypeOK, Container
  <2>2. /\ step' \in {"each", "refresh", "relist"} /\ todo' \subseteq Container
        /\ UNCHANGED <<containers, created, schedule, id, sure, told>>
    BY <1>5 DEF ProcessContainer, SyncTypeOK
  <2>3. ASSUME NEW found \in SUBSET AllCodes, c.spec.slug # None, Findings(c, found)
        PROVE  /\ sticky' \in [Slugs -> SUBSET AllCodes]
               /\ slugByKey' \in [Keys -> Slugs \cup {None}]
               /\ enabled' \subseteq Slugs /\ UNCHANGED <<orphans, fleetCallback>>
    BY <2>1, <2>3 DEF Findings, SyncTypeOK
  <2>4. CASE PassOver(c)
    BY <2>1, <2>2, <2>4 DEF PassOver, Retire, SyncTypeOK
  <2>5. CASE Skip(c)
    BY <2>1, <2>2, <2>3, <2>5 DEF Skip, AllCodes, SyncTypeOK
  <2>6. ASSUME NEW failed \in BOOLEAN, NEW wrote \in BOOLEAN, Converge(c, failed, wrote)
        PROVE  SyncTypeOK'
    <3>1. Audit(c) \cup (IF failed THEN {ApiError} ELSE {}) \in SUBSET AllCodes
      BY DEF Audit, AllCodes
    <3>2. owned' \subseteq Slugs
      BY <2>1, <2>6 DEF Converge, SyncTypeOK
    <3>3. applied' \in [Slugs -> {None, "wrote", "unwritten"}]
      BY <2>1, <2>6 DEF Converge, SyncTypeOK
    <3>4. /\ sticky' \in [Slugs -> SUBSET AllCodes]
          /\ slugByKey' \in [Keys -> Slugs \cup {None}]
          /\ enabled' \subseteq Slugs /\ UNCHANGED <<orphans, fleetCallback>>
      BY <2>3, <2>6, <3>1 DEF Converge
    <3> QED BY <2>2, <3>2, <3>3, <3>4 DEF SyncTypeOK
  <2> QED BY <1>5, <2>4, <2>5, <2>6 DEF ProcessContainer
<1>6. CASE Relist
  <2>1. EnabledIn(Listed) \subseteq Slugs
    BY SpecTyped DEF EnabledIn, Listed, SyncTypeOK, Container
  <2> QED BY <1>6, <2>1 DEF Relist, HasCatchall, SyncTypeOK
<1>7. CASE Retain
  BY <1>7 DEF Retain, SyncTypeOK
<1>8. CASE RefreshOrphans
  BY <1>8, MaxIdsAssumption DEF RefreshOrphans, NewOrphans, Finish, Schedule!Finish, SyncTypeOK
<1> QED BY <1>1, <1>2, <1>3, <1>4, <1>5, <1>6, <1>7, <1>8

LEMMA PrunedTyped ==
  ASSUME SyncTypeOK, NEW s \in Slugs, Pruned(s)
  PROVE  SyncTypeOK'
BY DEF Pruned, schedule, job, memory, SyncTypeOK

-----------------------------------------------------------------------------
\* The steps, each with what it does to the parts of the invariant.

LEMMA NoneEnabled == EnabledIn({}) = {}
BY DEF EnabledIn

LEMMA EnabledInMembers ==
  ASSUME NEW cs, NEW s
  PROVE  s \in EnabledIn(cs) <=> s # None /\ \E c \in cs : ~c.spec.self /\ c.spec.slug = s
BY DEF EnabledIn

\* A container that changes is owed or missed, and an alert ends with what it is about.
LEMMA ContainersSound ==
  ASSUME SyncInv,
         \/ \E s \in Specs : Creates(s)
         \/ \E c \in containers : Starts(c) \/ Stops(c) \/ Removes(c)
  PROVE  SyncInv'
<1>1. /\ SyncTypeOK'
      /\ UNCHANGED <<owned, running, job, memory>>
      /\ told' \subseteq told
      /\ \A c \in Listed' : c.spec.slug \in told' => \E x \in Listed : x.spec = c.spec
  BY ContainerChanges DEF SyncInv
<1>2. PICK k \in Keys :
        /\ (owed' = owed \cup {k} /\ sure' = sure) \/ ~sure'
        /\ \A c \in Listed' \ Listed : c.spec.key = k
  BY ContainerChanges DEF SyncInv
<1>3. JobSound' /\ ErrorsRetained' /\ Counted' = Counted /\ (HasListing' <=> HasListing)
  BY <1>1 DEF SyncInv, JobSound, ErrorsRetained, WithErrors, Counted, EnabledIn, HasListing, job, memory
<1>4. sure' => owed' = owed \cup {k} /\ sure /\ owed' # {}
  BY <1>2
<1>5. ListingHolds'
  <2>1. ASSUME HasListing', sure', NEW c \in Listed', ~c.spec.self, c.spec.slug # None,
               c.spec.key \notin owed'
        PROVE  c.spec.slug \in Counted'
    BY <1>2, <1>3, <1>4, <2>1 DEF SyncInv, ListingHolds
  <2> QED BY <1>4, <2>1 DEF ListingHolds
<1>6. AlertsStand'
  <2>1. \A s \in told' : s \notin EnabledIn(Listed')
    <3>1. ASSUME NEW s \in told', s \in EnabledIn(Listed')
          PROVE  s \in EnabledIn(Listed)
      BY <1>1, <3>1, EnabledInMembers
    <3> QED BY <1>1, <3>1 DEF SyncInv, AlertsStand
  <2>2. EnabledIn(Listed)' = EnabledIn(Listed')
    BY DEF EnabledIn
  <2> QED BY <1>1, <1>3, <2>1, <2>2 DEF SyncInv, AlertsStand, memory
<1>7. SettledIsTrue'
  BY <1>4 DEF SettledIsTrue, Settled
<1> QED BY <1>1, <1>3, <1>5, <1>6, <1>7 DEF SyncInv

\* What aboard prune deletes is no orphan to be alerted any more.
LEMMA PrunedSound ==
  ASSUME SyncInv, NEW s \in Slugs, Pruned(s)
  PROVE  SyncInv'
<1>1. /\ UNCHANGED <<containers, owed, running, heard, job, memory, sure>>
      /\ owned' = owned \ {s} /\ told' = told \ {s}
  BY DEF Pruned, schedule
<1>2. SyncTypeOK'
  BY PrunedTyped DEF SyncInv
<1>3. /\ JobSound' /\ ErrorsRetained' /\ Counted' = Counted /\ (HasListing' <=> HasListing)
      /\ Listed' = Listed /\ EnabledIn(Listed)' = EnabledIn(Listed)
      /\ HasCatchall(Listed)' = HasCatchall(Listed)
  BY <1>1 DEF SyncInv, JobSound, ErrorsRetained, WithErrors, Counted, EnabledIn, HasCatchall,
       HasListing, Listed, job, memory
<1>4. ListingHolds' /\ AlertsStand' /\ SettledIsTrue'
  BY <1>1, <1>3 DEF SyncInv, ListingHolds, AlertsStand, SettledIsTrue, Settled, memory
<1> QED BY <1>2, <1>3, <1>4 DEF SyncInv

\* Between the jobs nothing is listed: a job starts with empty locals.
LEMMA StartSound ==
  ASSUME SyncInv, NEW k \in owed, StartJob(k)
  PROVE  SyncInv'
<1>1. SyncTypeOK'
  BY JobTyped DEF SyncInv
<1>2. /\ running = None /\ running' = k /\ k \in Keys \cup {FullPass}
      /\ step' = (IF k = FullPass THEN "list" ELSE "inspect")
      /\ enabled' = {} /\ todo' = todo /\ UNCHANGED <<containers, owned, memory, told>>
  BY DEF StartJob, Schedule!Start, SyncInv, SyncTypeOK, world
<1>3. todo = {} /\ k # None
  BY <1>2, NoneAssumption DEF SyncInv, JobSound
<1>4. JobSound' /\ ~HasListing' /\ ErrorsRetained' /\ ~Settled' /\ Counted' = {}
  BY <1>2, <1>3, NoneEnabled DEF JobSound, HasListing, ErrorsRetained, Settled, Counted
<1>5. AlertsStand'
  BY <1>2, <1>4 DEF SyncInv, AlertsStand, Listed, EnabledIn, memory
<1> QED BY <1>1, <1>4, <1>5 DEF SyncInv, ListingHolds, SettledIsTrue

\* A job that failed leaves the daemon unsure, and its alerts as they were.
LEMMA FailureSound ==
  ASSUME SyncInv, ListFails \/ ScanFails
  PROVE  SyncInv'
<1>1. SyncTypeOK'
  BY JobTyped DEF SyncInv
<1>2. /\ running' = None /\ step' = "idle" /\ enabled' = {} /\ todo' = {} /\ ~sure'
      /\ UNCHANGED <<containers, owned, memory, told>>
  BY DEF ListFails, ScanFails, Finish, Schedule!Finish, world
<1>3. JobSound' /\ ~HasListing' /\ ErrorsRetained' /\ Counted' = {}
  BY <1>2, NoneEnabled, NoneAssumption DEF JobSound, HasListing, ErrorsRetained, Counted
<1>4. AlertsStand'
  BY <1>2, <1>3 DEF SyncInv, AlertsStand, Listed, EnabledIn, memory
<1> QED BY <1>1, <1>2, <1>3, <1>4 DEF SyncInv, ListingHolds, SettledIsTrue

\* A listing is the world as it is.
LEMMA ListSound ==
  ASSUME SyncInv, ListAll \/ Relist
  PROVE  SyncInv'
<1>1. SyncTypeOK'
  BY JobTyped DEF SyncInv
<1>2. /\ UNCHANGED <<containers, owned, owed, running, sticky, orphans, told>>
      /\ fleetCallback' = HasCatchall(Listed)
  BY DEF ListAll, Relist, world, schedule
<1>3. /\ running' # None /\ Counted' = EnabledIn(Listed) /\ JobSound' /\ ErrorsRetained'
  <2>1. CASE ListAll
    <3>1. running' = FullPass /\ running' # None /\ enabled' = {} /\ todo' = Listed
      BY <2>1, <1>2, NoneAssumption DEF ListAll, SyncInv, JobSound
    <3>2. step' = (IF Listed = {} THEN "refresh" ELSE "each")
      BY <2>1 DEF ListAll
    <3> QED BY <3>1, <3>2 DEF Counted, EnabledIn, JobSound, ErrorsRetained
  <2>2. CASE Relist
    <3>1. /\ running' # FullPass /\ running' # None /\ enabled' = EnabledIn(Listed) /\ todo' = {}
          /\ step' = "refresh"
      BY <2>2, <1>2 DEF Relist, SyncInv, JobSound
    <3> QED BY <3>1 DEF Counted, JobSound, ErrorsRetained
  <2> QED BY <2>1, <2>2
<1>4. Listed' = Listed /\ EnabledIn(Listed)' = EnabledIn(Listed) /\ HasCatchall(Listed)' = HasCatchall(Listed)
  BY <1>2 DEF Listed, EnabledIn, HasCatchall
<1>5. ListingHolds'
  <2>1. \A c \in Listed : ~c.spec.self /\ c.spec.slug # None => c.spec.slug \in EnabledIn(Listed)
    BY EnabledInMembers
  <2> QED BY <1>2, <1>3, <1>4, <2>1 DEF ListingHolds
<1>6. AlertsStand'
  BY <1>2, <1>3, <1>4 DEF SyncInv, AlertsStand
<1> QED BY <1>1, <1>3, <1>5, <1>6 DEF SyncInv, SettledIsTrue, Settled

\* A sync of one service has no listing until its end.
LEMMA InspectSound ==
  ASSUME SyncInv, InspectFinds \/ InspectFails
  PROVE  SyncInv'
<1>1. SyncTypeOK'
  BY JobTyped DEF SyncInv
<1>2. /\ running # FullPass /\ running # None /\ enabled = {} /\ todo = {}
      /\ UNCHANGED <<containers, owned, owed, running, enabled, orphans, told>>
  BY DEF InspectFinds, InspectFails, SyncInv, JobSound, world, schedule, memory
<1>3. (step' = "each") \/ (step' = "relist" /\ todo' = todo)
  BY DEF InspectFinds, InspectFails
<1>4. JobSound' /\ ~HasListing' /\ ErrorsRetained' /\ ~Settled' /\ Counted' = {}
  BY <1>2, <1>3 DEF JobSound, HasListing, ErrorsRetained, Settled, Counted
<1>5. AlertsStand'
  BY <1>2, <1>4 DEF SyncInv, AlertsStand, Listed, EnabledIn
<1> QED BY <1>1, <1>4, <1>5 DEF SyncInv, ListingHolds, SettledIsTrue

\* A pass that moves a container from todo to enabled counts it all along.
LEMMA ProcessSound ==
  ASSUME SyncInv, NEW c \in todo, ProcessContainer(c)
  PROVE  SyncInv'
<1>1. SyncTypeOK'
  BY JobTyped DEF SyncInv
<1>2. /\ step = "each" /\ todo' = todo \ {c}
      /\ step' = (IF todo # {c} THEN "each" ELSE IF running = FullPass THEN "refresh" ELSE "relist")
      /\ UNCHANGED <<containers, owed, running, sure, told>>
  BY DEF ProcessContainer, schedule
<1>3. /\ owned \subseteq owned' /\ UNCHANGED <<orphans, fleetCallback>>
      /\ \/ enabled' = enabled /\ (c.spec.self \/ c.spec.slug = None)
         \/ /\ ~c.spec.self /\ c.spec.slug # None
            /\ enabled' = IF running = FullPass THEN enabled \cup {c.spec.slug} ELSE enabled
  BY Zenon DEF ProcessContainer, PassOver, Skip, Converge, Findings
<1>4. running' # None /\ (running # FullPass => enabled = {} /\ enabled' = {})
  BY <1>2, <1>3 DEF SyncInv, JobSound
<1>5. JobSound' /\ ErrorsRetained' /\ (HasListing' => HasListing)
  <2>1. step' # "each" => todo' = {}
    BY <1>2
  <2> QED BY <1>2, <1>4, <2>1 DEF JobSound, ErrorsRetained, HasListing
<1>6. Counted' = Counted
  <2>1. CASE running = FullPass
    <3>1. c.spec.self \/ c.spec.slug = None => EnabledIn(todo) = EnabledIn(todo \ {c})
      BY DEF EnabledIn
    <3>2. ~c.spec.self /\ c.spec.slug # None => EnabledIn(todo) = EnabledIn(todo \ {c}) \cup {c.spec.slug}
      BY DEF EnabledIn
    <3>3. EnabledIn(todo)' = EnabledIn(todo \ {c})
      BY <1>2 DEF EnabledIn
    <3> QED BY <1>2, <1>3, <2>1, <3>1, <3>2, <3>3 DEF Counted
  <2>2. CASE running # FullPass
    BY <1>2, <1>4, <2>2 DEF Counted
  <2> QED BY <2>1, <2>2
<1>7. Listed' = Listed /\ EnabledIn(Listed)' = EnabledIn(Listed) /\ HasCatchall(Listed)' = HasCatchall(Listed)
  BY <1>2 DEF Listed, EnabledIn, HasCatchall
<1>8. ListingHolds' /\ AlertsStand'
  BY <1>2, <1>3, <1>5, <1>6, <1>7 DEF SyncInv, ListingHolds, AlertsStand
<1> QED BY <1>1, <1>4, <1>5, <1>8 DEF SyncInv, SettledIsTrue, Settled

\* refreshOrphans: the errors of what is gone go first, and then the orphans are what
\* is owned and was not found.
LEMMA RefreshSound ==
  ASSUME SyncInv, Retain \/ RefreshOrphans
  PROVE  SyncInv'
<1>1. SyncTypeOK'
  BY JobTyped DEF SyncInv
<1>2. CASE Retain
  <2>1. /\ step = "refresh" /\ step' = "scan"
        /\ UNCHANGED <<containers, owned, owed, running, todo, enabled, orphans, fleetCallback, sure, told>>
    BY <1>2 DEF Retain, world, schedule
  <2>2. ErrorsRetained'
    BY <1>2 DEF Retain, ErrorsRetained, WithErrors
  <2>3. /\ JobSound' /\ Counted' = Counted /\ HasListing' /\ HasListing /\ running' # None
        /\ Listed' = Listed /\ EnabledIn(Listed)' = EnabledIn(Listed)
        /\ HasCatchall(Listed)' = HasCatchall(Listed)
    BY <2>1 DEF SyncInv, JobSound, Counted, EnabledIn, HasCatchall, HasListing, Listed
  <2> QED BY <1>1, <2>1, <2>2, <2>3 DEF SyncInv, ListingHolds, AlertsStand, SettledIsTrue, Settled
<1>3. CASE RefreshOrphans
  <2>1. /\ step = "scan" /\ step' = "idle" /\ running' = None /\ enabled' = {} /\ todo' = {}
        /\ orphans' = owned \ enabled /\ told' = told \cup (NewOrphans \ EnabledIn(Listed))
        /\ UNCHANGED <<containers, owned, owed, sticky, fleetCallback, sure>>
    BY <1>3 DEF RefreshOrphans, Finish, Schedule!Finish, world
  <2>2. Counted = enabled /\ HasListing
    BY <2>1, NoneEnabled DEF SyncInv, JobSound, Counted, HasListing
  <2>3. JobSound' /\ ~HasListing' /\ ErrorsRetained' /\ Counted' = {}
    BY <2>1, NoneEnabled, NoneAssumption DEF JobSound, HasListing, ErrorsRetained, Counted
  <2>4. Listed' = Listed /\ EnabledIn(Listed)' = EnabledIn(Listed) /\ HasCatchall(Listed)' = HasCatchall(Listed)
    BY <2>1 DEF Listed, EnabledIn, HasCatchall
  <2>5. AlertsStand'
    BY <2>1, <2>2, <2>3, <2>4 DEF SyncInv, AlertsStand, NewOrphans
  <2>6. SettledIsTrue'
    <3> SUFFICES ASSUME Settled', sure'
                 PROVE  /\ owned' \ EnabledIn(Listed) \subseteq orphans'
                        /\ orphans' \cap EnabledIn(Listed) = {}
                        /\ \A s \in Slugs : sticky'[s] # {} => s \in EnabledIn(Listed)
                        /\ fleetCallback' = HasCatchall(Listed)
      BY <2>4 DEF SettledIsTrue
    <3>1. enabled = EnabledIn(Listed) /\ fleetCallback = HasCatchall(Listed)
      BY <2>1, <2>2 DEF SyncInv, ListingHolds, Settled
    <3>2. WithErrors \subseteq enabled
      BY <2>1 DEF SyncInv, ErrorsRetained
    <3> QED BY <2>1, <3>1, <3>2 DEF WithErrors
  <2> QED BY <1>1, <2>3, <2>5, <2>6 DEF SyncInv, ListingHolds
<1> QED BY <1>2, <1>3

-----------------------------------------------------------------------------
\* Each disjunct of Next keeps the invariant.
LEMMA StepSound == SyncInv /\ [Next]_vars => SyncInv'
<1> SUFFICES ASSUME SyncInv, [Next]_vars PROVE SyncInv'
  OBVIOUS
<1>1. CASE UNCHANGED vars
  <2>1. UNCHANGED <<containers, created, owned, owed, running, heard, step, id, todo, enabled,
                    sticky, slugByKey, orphans, fleetCallback, applied, sure, told>>
    BY <1>1 DEF vars, world, schedule, job, memory
  <2>2. SyncTypeOK' /\ JobSound' /\ ErrorsRetained'
    BY <2>1 DEF SyncInv, SyncTypeOK, JobSound, ErrorsRetained, WithErrors
  <2>3. ListingHolds' /\ AlertsStand' /\ SettledIsTrue'
    BY <2>1 DEF SyncInv, ListingHolds, AlertsStand, SettledIsTrue, Settled, Counted, HasListing,
         Listed, EnabledIn, HasCatchall
  <2> QED BY <2>2, <2>3 DEF SyncInv
<1> QED BY <1>1, ContainersSound, PrunedSound, StartSound, FailureSound, ListSound, InspectSound,
           ProcessSound, RefreshSound DEF Next

\* In every state of the daemon's sync: the types, what each job uses of its locals, that
\* a listing holds until something changes, that errors stand for what was found
\* enabled, that alerts stand, and that a settled daemon knows the world.
THEOREM SyncInvariant == SyncSpec => []SyncInv
<1>1. Init => SyncInv
  BY InitSound
<1>2. SyncInv /\ [Next]_vars => SyncInv'
  BY StepSound
<1> QED BY <1>1, <1>2, PTL DEF SyncSpec

\* The types of what daemon/sync.go keeps.
THEOREM SyncTypeCorrect == SyncSpec => []SyncTypeOK
<1>1. SyncInv => SyncTypeOK
  BY DEF SyncInv
<1> QED BY <1>1, SyncInvariant, PTL

\* syncKey "ends by recomputing the orphan set from a fresh listing": once every change
\* that was heard has been seen to, and nothing has failed since the last listing, the
\* orphans, the errors and the catch-all are those of the world.
THEOREM SettledMeansTrue == SyncSpec => []SettledIsTrue
<1>1. SyncInv => SettledIsTrue
  BY DEF SyncInv
<1> QED BY <1>1, SyncInvariant, PTL

\* alertNewOrphans: a slug that was alerted, and has been an orphan ever since, is not
\* alerted again.
THEOREM OneAlertPerOrphan == SyncSpec => AlertedOnce
<1>1. SyncInv => NewOrphans \cap told = {}
  BY DEF SyncInv, AlertsStand, NewOrphans
<1>2. SyncInv /\ [Next]_vars => [step = "scan" /\ orphans' # orphans => NewOrphans \cap told = {}]_vars
  BY <1>1
<1> QED BY <1>2, SyncInvariant, PTL DEF SyncSpec, AlertedOnce

\* retainSlugs and replaceSlug: the error in the labels of a container that is listed is
\* dropped only while a change of its key is on its way or was missed, by a sync whose
\* Inspect failed, or by the processing of another container.
THEOREM ErrorsHeld == SyncSpec => DroppedByOthersOnly
<1> DEFINE Held == \A c \in Listed : \A code \in c.spec.errors : Drops(c, code) =>
                     \/ c.spec.key \in owed \/ ~sure
                     \/ step = "inspect"
                     \/ step = "each" /\ c \notin todo \ todo'
<1>1. SyncInv /\ Next => Held
  <2> SUFFICES ASSUME SyncInv, Next,
                      NEW c \in Listed, NEW code \in c.spec.errors, Drops(c, code),
                      c.spec.key \notin owed, sure, step # "inspect",
                      step = "each" => c \in todo \ todo'
               PROVE  FALSE
    OBVIOUS
  <2>1. c.spec \in Specs /\ c.spec.key \in Keys /\ c.spec.slug \in Slugs /\ ~c.spec.self
    BY SpecTyped DEF SyncInv, SyncTypeOK, Container, Listed, Drops
  <2>2. code \in sticky[c.spec.slug] /\ code \notin sticky'[c.spec.slug] /\ sticky' # sticky
    BY DEF Drops
  <2>3. Retain \/ \E x \in todo : ProcessContainer(x)
    <3>1. \/ \E s \in Specs : Creates(s)
          \/ \E x \in containers : Starts(x) \/ Stops(x) \/ Removes(x)
          \/ \E s \in Slugs : Pruned(s)
          \/ \E k \in owed : StartJob(k)
          \/ ListFails \/ ListAll \/ InspectFinds \/ Relist \/ ScanFails \/ RefreshOrphans
          => sticky' = sticky
      BY DEF Creates, Starts, Stops, Removes, Pruned, StartJob, ListFails, ListAll, InspectFinds,
           Relist, ScanFails, RefreshOrphans, memory
    <3>2. ~InspectFails
      BY DEF InspectFails
    <3> QED BY <2>2, <3>1, <3>2 DEF Next
  <2>4. CASE Retain
    <3>1. step = "refresh" /\ HasListing /\ todo = {}
      BY <2>4 DEF Retain, HasListing, SyncInv, JobSound
    <3>2. c.spec.slug \in Counted
      BY <2>1, <3>1 DEF SyncInv, ListingHolds, Drops
    <3>3. c.spec.slug \in enabled
      BY <3>1, <3>2, NoneEnabled DEF Counted
    <3> QED BY <2>1, <2>2, <2>4, <3>3 DEF Retain
  <2>5. ASSUME NEW x \in todo, ProcessContainer(x)
        PROVE  FALSE
    <3>1. step = "each" /\ todo' = todo \ {x}
      BY <2>5 DEF ProcessContainer
    <3>2. x = c
      BY <3>1
    <3>3. Skip(c)
      BY <2>1, <2>5, <3>2, NoneAssumption DEF ProcessContainer, PassOver, Converge
    <3>4. sticky'[c.spec.slug] = c.spec.errors
      BY <2>1, <3>3 DEF Skip, Findings, SyncInv, SyncTypeOK
    <3> QED BY <2>2, <3>4
  <2> QED BY <2>3, <2>4, <2>5
<1>2. SyncInv /\ [Next]_vars => [Held]_vars
  BY <1>1
<1> QED BY <1>2, SyncInvariant, PTL DEF SyncSpec, DroppedByOthersOnly

-----------------------------------------------------------------------------
\* The digest.

\* A scan finds no orphan that has an error: errors were retained for the enabled only.
LEMMA OrphansHaveNone ==
  ASSUME SyncInv, Next
  PROVE  orphans' \subseteq orphans \cup (Slugs \ WithErrors)
<1>1. RefreshOrphans \/ orphans' = orphans
  BY DEF Next, Creates, Starts, Stops, Removes, Pruned, StartJob, ListFails, ListAll, InspectFinds,
       InspectFails, ProcessContainer, PassOver, Skip, Converge, Findings, Relist, Retain, ScanFails, memory
<1>2. CASE RefreshOrphans
  BY <1>2 DEF RefreshOrphans, SyncInv, SyncTypeOK, ErrorsRetained
<1> QED BY <1>1, <1>2

\* What is in trouble and was no orphan is in trouble still only with an error.
LEMMA MissedKeep ==
  DigestSpec => [](SyncInv /\ MissedHaveErrors)
<1> DEFINE Inv == SyncInv /\ MissedHaveErrors
<1>1. DigestInit => Inv
  BY InitSound DEF DigestInit, MissedHaveErrors
<1>2. Inv /\ [DigestNext]_<<vars, digestVars>> => Inv'
  <2> SUFFICES ASSUME Inv, [DigestNext]_<<vars, digestVars>> PROVE Inv'
    OBVIOUS
  <2>1. SyncInv'
    BY StepSound DEF DigestNext, DaemonStep, ReadSticky, ReadOrphans
  <2>2. sticky' = sticky /\ orphans' = orphans => WithErrors' = WithErrors /\ Trouble' = Trouble
    BY DEF WithErrors, Trouble
  <2>3. UNCHANGED vars => sticky' = sticky /\ orphans' = orphans
    BY DEF vars, memory
  <2>4. CASE ReadSticky
    BY <2>1, <2>2, <2>3, <2>4 DEF ReadSticky, MissedHaveErrors
  <2>5. CASE ReadOrphans
    BY <2>1, <2>2, <2>3, <2>5 DEF ReadOrphans, MissedHaveErrors, Trouble
  <2>6. CASE DaemonStep
    <3>1. /\ unnamed' = unnamed \cap Trouble' /\ missed' = missed \cap Trouble'
          /\ reading' = reading
      BY <2>6 DEF DaemonStep
    <3>2. missed' \cap orphans' = {}
      BY <2>6, <3>1, OrphansHaveNone DEF DaemonStep, MissedHaveErrors
    <3> QED BY <2>1, <3>1, <3>2 DEF MissedHaveErrors, Trouble
  <2>7. CASE UNCHANGED <<vars, digestVars>>
    BY <2>1, <2>2, <2>3, <2>7 DEF digestVars, MissedHaveErrors
  <2> QED BY <2>1, <2>4, <2>5, <2>6, <2>7 DEF DigestNext
<1> QED BY <1>1, <1>2, PTL DEF DigestSpec

\* SendDigest reads the errors and the orphans under two locks: a slug in trouble that
\* moves between the two is in neither list, but not in two digests running.
THEOREM NeverMissedTwice == DigestSpec => MissedAtMostOnce
<1>1. MissedHaveErrors /\ [DigestNext]_<<vars, digestVars>>
        => [reading /\ ~reading' => missed \cap missed' = {}]_<<vars, digestVars>>
  BY DEF MissedHaveErrors, DigestNext, ReadSticky, ReadOrphans, DaemonStep
<1> QED BY <1>1, MissedKeep, PTL DEF DigestSpec, MissedAtMostOnce
=============================================================================
