---------------------------- MODULE WiringProofs -----------------------------
(***************************************************************************)
(* The audit of a container's routers and what render prints for it, for   *)
(* any routers, any hosts and any lengths of rules, however often the      *)
(* labels are audited, rendered and pasted and the catch-all comes and     *)
(* goes.                                                                   *)
(***************************************************************************)
EXTENDS Wiring, FiniteSetTheorems, WellFoundedInduction, TLAPS

-----------------------------------------------------------------------------
\* What some of the theorems ask of the containers tried.

\* The audit reads a HostRegexp and a negated path as if they were not there.
NoPatterns == \A l \in Labelled : \A n \in DOMAIN l.routers : ~l.routers[n].regexp
NoNegations == \A l \in Labelled : \A n \in DOMAIN l.routers : l.routers[n].path # "notcallback"

\* If there is a router of the name that render prints, it is a callback router of that host.
OwnAsPrinted(rs, e) ==
  Own \in DOMAIN rs =>
    /\ rs[Own].path = "callback"
    /\ ~rs[Own].regexp
    /\ e # NoHost => rs[Own].hosts \subseteq {e}

OwnIsOurs == \A l \in Labelled : OwnAsPrinted(l.routers, l.explicit)

-----------------------------------------------------------------------------
RoutersFinite ==
  /\ IsFiniteSet(DOMAIN routers)
  /\ \A n \in DOMAIN routers : IsFiniteSet(routers[n].hosts)

\* Findings that stand are those of the labels there are.
FindingsHold ==
  findings # Unaudited =>
    findings = IF SpecHost = NoHost THEN Finding("host", {Own}) ELSE Verify

\* What was printed is still what the labels ask for, with the catch-all as it was then.
PrintedHolds ==
  printed # Nothing =>
    /\ printed.protected = Protected
    /\ printed.host = SpecHost
    /\ printed.priority = CallbackPriority
    /\ printed.block <=> Required /\ ~printed.fleet /\ ~\E c \in Callbacks : Wins(c)

\* What was pasted has been printed for the fleet as it is.
PastedHolds ==
  pasted /\ SpecHost # NoHost => (\A n \in Protected : Wired(n)) /\ Satisfied

WiringInv == WiringTypeOK /\ RoutersFinite /\ FindingsHold /\ PrintedHolds

\* As long as the name that render prints is its own.
PastedInv == WiringInv /\ OwnAsPrinted(routers, explicit) /\ PastedHolds

-----------------------------------------------------------------------------
\* Priorities.

\* Of finitely many integers one is the greatest.
LEMMA MaxIsGreatest ==
  ASSUME NEW S \in SUBSET Int, IsFiniteSet(S), S # {}
  PROVE  Max(S) \in S /\ \A y \in S : Max(S) >= y
<1> DEFINE Above(x) == {y \in S : y > x}
           T == {Above(x) : x \in S}
           R == StrictSubsetOrdering(S)
<1>1. T \subseteq FiniteSubsetsOf(S)
  BY FS_Subset DEF FiniteSubsetsOf
<1>2. PICK U \in T : \A V \in T : <<V, U>> \notin R
  <2>1. T # {}
    OBVIOUS
  <2>2. IsWellFoundedOn(R, FiniteSubsetsOf(S))
    BY FS_StrictSubsetOrderingWellFounded
  <2> HIDE DEF T, R
  <2> QED BY <1>1, <2>1, <2>2, WFMin
<1>3. PICK x \in S : U = Above(x)
  OBVIOUS
<1>4. \A y \in S : x >= y
  <2> SUFFICES ASSUME NEW y \in S, y > x PROVE FALSE
    BY SMT
  <2>1. Above(y) \subseteq Above(x) /\ y \in Above(x) /\ y \notin Above(y)
    <3>1. x \in Int /\ y \in Int /\ \A z \in S : z \in Int
      OBVIOUS
    <3>2. \A z \in S : z > y => z > x
      BY <3>1
    <3>3. y \in Above(x) /\ ~(y > y)
      BY <3>1
    <3> QED BY <3>2, <3>3
  <2>2. <<Above(y), Above(x)>> \in R
    <3>1. <<Above(y), Above(x)>> \in (SUBSET S) \X (SUBSET S)
      OBVIOUS
    <3>2. Above(y) # Above(x)
      BY <2>1
    <3> QED BY <2>1, <3>1, <3>2 DEF StrictSubsetOrdering
  <2> QED BY <1>2, <1>3, <2>2
<1> QED BY <1>4 DEF Max

LEMMA PriorityTyped ==
  ASSUME NEW r \in Router, IsFiniteSet(r.hosts)
  PROVE  EffectivePriority(r) \in Nat
<1>1. Cardinality(r.hosts) \in Nat
  BY FS_CardinalityType
<1>2. RuleLength(r) \in Nat
  BY <1>1, LengthAssumption DEF RuleLength
<1> QED BY <1>2 DEF EffectivePriority, Router, Unset

\* A priority is not the middlewares' affair.
LEMMA PriorityOfRule ==
  ASSUME NEW r \in Router, NEW mws
  PROVE  EffectivePriority([r EXCEPT !.mws = mws]) = EffectivePriority(r)
BY DEF EffectivePriority, RuleLength, Router

\* maxEffectivePriority, of any routers.
LEMMA MaxPriorityIs ==
  ASSUME NEW rs, IsFiniteSet(DOMAIN rs),
         \A n \in DOMAIN rs : rs[n] \in Router /\ IsFiniteSet(rs[n].hosts),
         NEW ns \in SUBSET DOMAIN rs
  PROVE  LET m == Max({0} \cup {EffectivePriority(rs[n]) : n \in ns})
         IN  /\ m \in Nat
             /\ \A n \in ns : EffectivePriority(rs[n]) <= m
             /\ ns # {} => \E n \in ns : EffectivePriority(rs[n]) = m
<1> DEFINE P == {EffectivePriority(rs[n]) : n \in ns}
           S == {0} \cup P
<1>1. P \subseteq Nat
  BY PriorityTyped
<1>2. IsFiniteSet(P)
  <2> DEFINE f == [n \in ns |-> EffectivePriority(rs[n])]
  <2>1. f \in Surjection(ns, P)
    BY DEF Surjection
  <2>2. IsFiniteSet(ns)
    BY FS_Subset
  <2> QED BY <2>1, <2>2, FS_Surjection
<1>3. IsFiniteSet(S)
  BY <1>2, FS_Singleton, FS_Union
<1>4. S \in SUBSET Int /\ S # {}
  BY <1>1
<1>5. Max(S) \in S /\ \A y \in S : Max(S) >= y
  BY <1>3, <1>4, MaxIsGreatest
<1>6. Max(S) \in Nat /\ \A n \in ns : EffectivePriority(rs[n]) <= Max(S)
  BY <1>1, <1>5
<1>7. ASSUME NEW n \in ns
      PROVE  \E k \in ns : EffectivePriority(rs[k]) = Max(S)
  <2>1. CASE Max(S) \in P
    BY <2>1
  <2>2. CASE Max(S) = 0
    BY <1>1, <1>6, <2>2
  <2> QED BY <1>5, <2>1, <2>2
<1> QED BY <1>6, <1>7

-----------------------------------------------------------------------------
\* The audit.

LEMMA FindingIsEmpty ==
  ASSUME NEW code, NEW ns
  PROVE  /\ Finding(code, ns) = {} <=> ns = {}
         /\ \A f \in Finding(code, ns) : f.code = code
<1>1. ASSUME NEW n \in ns
      PROVE  [code |-> code, router |-> n] \in Finding(code, ns)
  BY DEF Finding
<1>2. \A f \in Finding(code, ns) : f.code = code /\ f.router \in ns
  BY DEF Finding
<1> QED BY <1>1, <1>2

\* No priority is below zero, and those compared are bounded.
LEMMA Priorities ==
  ASSUME WiringTypeOK, RoutersFinite, NEW ns \in SUBSET DOMAIN routers
  PROVE  /\ MaxPriority(ns) \in Nat
         /\ \A n \in ns : EffectivePriority(routers[n]) \in Nat
         /\ \A n \in ns : EffectivePriority(routers[n]) <= MaxPriority(ns)
         /\ ns # {} => \E n \in ns : EffectivePriority(routers[n]) = MaxPriority(ns)
BY MaxPriorityIs, PriorityTyped DEF WiringTypeOK, RoutersFinite, MaxPriority

\* Names of routers, whatever they are looked at for.
LEMMA NamesOfRouters ==
  ASSUME WiringTypeOK
  PROVE  /\ HostRouters \in SUBSET DOMAIN routers /\ Callbacks \subseteq HostRouters
         /\ Protected \in SUBSET DOMAIN routers /\ Public \in SUBSET DOMAIN routers
         /\ Protected \subseteq Names
BY DEF WiringTypeOK, HostRouters, Callbacks, Protected, Public

LEMMA HostTyped ==
  ASSUME WiringTypeOK
  PROVE  /\ SpecHost \in Hosts \cup {NoHost}
         /\ HostRouters # {} => SpecHost \in Hosts
<1>1. \A n \in DOMAIN routers : routers[n].hosts \subseteq Hosts
  BY DEF WiringTypeOK, Router
<1>2. LiteralHosts \subseteq Hosts
  BY <1>1 DEF LiteralHosts
<1>3. InferHost \in Hosts \cup {NoHost}
  <2>1. CASE LiteralHosts = {}
    BY <2>1, FS_EmptySet DEF InferHost
  <2>2. CASE LiteralHosts # {}
    BY <1>2, <2>2 DEF InferHost, Only
  <2> QED BY <2>1, <2>2
<1>4. SpecHost \in Hosts \cup {NoHost}
  BY <1>3 DEF SpecHost, WiringTypeOK
<1> QED BY <1>1, <1>4 DEF HostRouters

LEMMA VerifyTyped ==
  ASSUME WiringTypeOK
  PROVE  Verify \subseteq [code: {"router-unknown", "unwired-middleware", "missing-callback",
                                  "callback-priority", "host"}, router: Names]
BY NamesOfRouters, NamesAssumption DEF Verify, Finding, WiringTypeOK

\* A clean audit says that the host is known, every protected router wired and the
\* callback seen to.
LEMMA CleanSays ==
  ASSUME WiringInv, Clean
  PROVE  /\ SpecHost # NoHost
         /\ \A n \in Protected : Wired(n)
         /\ Satisfied
<1>1. IF SpecHost = NoHost THEN Finding("host", {Own}) = {} ELSE Verify = {}
  BY UnauditedAssumption DEF WiringInv, FindingsHold, Clean
<1>2. SpecHost # NoHost /\ Verify = {}
  BY <1>1, FindingIsEmpty
<1>3. \A n \in Protected : Wired(n)
  <2>1. Finding("unwired-middleware", {n \in Protected : ~Wired(n)}) \subseteq Verify
    BY DEF Verify
  <2>2. Finding("unwired-middleware", {n \in Protected : ~Wired(n)}) = {}
    BY <1>2, <2>1
  <2>3. {n \in Protected : ~Wired(n)} = {}
    BY <2>2, FindingIsEmpty
  <2> QED BY <2>3
<1>4. ASSUME ~Satisfied
      PROVE  FALSE
  <2> DEFINE code == IF Callbacks = {} THEN "missing-callback" ELSE "callback-priority"
  <2>1. Finding(code, {Own}) \subseteq Verify
    BY <1>4 DEF Verify
  <2>2. Finding(code, {Own}) # {}
    BY FindingIsEmpty
  <2> QED BY <1>2, <2>1, <2>2
<1> QED BY <1>2, <1>3, <1>4

-----------------------------------------------------------------------------
\* The steps.

\* What is read from the labels stays while they do.
LEMMA SameLabels ==
  ASSUME UNCHANGED <<routers, explicit, named>>
  PROVE  /\ SpecHost' = SpecHost /\ HostRouters' = HostRouters /\ Callbacks' = Callbacks
         /\ Protected' = Protected /\ CallbackPriority' = CallbackPriority
         /\ (\A n \in Protected : Wired(n))' = \A n \in Protected : Wired(n)
         /\ (Required /\ ~\E c \in Callbacks : Wins(c))'
              = (Required /\ ~\E c \in Callbacks : Wins(c))
         /\ fleet' = fleet => Verify' = Verify
<1>1. LiteralHosts' = LiteralHosts
  BY DEF LiteralHosts
<1>2. SpecHost' = SpecHost
  BY <1>1 DEF SpecHost, InferHost
<1>3. HostRouters' = HostRouters
  BY <1>2 DEF HostRouters
<1>4. Callbacks' = Callbacks
  BY <1>3 DEF Callbacks
<1>5. Protected' = Protected /\ Public' = Public
  BY <1>3, <1>4 DEF Protected, Public
<1>6. \A ns : MaxPriority(ns)' = MaxPriority(ns)
  BY DEF MaxPriority
<1>7. \A n : Wired(n)' = Wired(n) /\ Wins(n)' = Wins(n)
  BY <1>5, <1>6 DEF Wired, Wins
<1>8. (\A n \in Protected : Wired(n))' = \A n \in Protected : Wired(n)
  BY <1>5, <1>7
<1>9. (Required /\ ~\E c \in Callbacks : Wins(c))' = (Required /\ ~\E c \in Callbacks : Wins(c))
  BY <1>4, <1>5, <1>7 DEF Required
<1>10. CallbackPriority' = CallbackPriority
  BY <1>3, <1>6 DEF CallbackPriority
<1>11. ASSUME fleet' = fleet
       PROVE  Verify' = Verify
  <2>1. Satisfied' = Satisfied
    BY <1>4, <1>5, <1>7, <1>11 DEF Satisfied, Required
  <2>2. {n \in Protected : ~Wired(n)}' = {n \in Protected : ~Wired(n)}
    BY <1>5, <1>7
  <2> QED BY <1>4, <2>1, <2>2 DEF Verify
<1> QED BY <1>2, <1>3, <1>4, <1>5, <1>8, <1>9, <1>10, <1>11

LEMMA InitSound == Init => WiringInv
<1> SUFFICES ASSUME Init PROVE WiringInv
  OBVIOUS
<1>1. PICK l \in Labelled : routers = l.routers /\ explicit = l.explicit /\ named = l.named
  BY DEF Init
<1>2. WiringTypeOK /\ RoutersFinite
  BY <1>1, LabelledAssumption DEF Init, WiringTypeOK, RoutersFinite
<1>3. FindingsHold /\ PrintedHolds
  BY DEF Init, FindingsHold, PrintedHolds
<1> QED BY <1>2, <1>3 DEF WiringInv

LEMMA AuditSound ==
  ASSUME WiringInv, Audit
  PROVE  WiringInv'
<1>1. UNCHANGED <<routers, explicit, named, fleet, printed, pasted>>
      /\ findings' = IF SpecHost = NoHost THEN Finding("host", {Own}) ELSE Verify
  BY DEF Audit
<1>2. Finding("host", {Own}) \subseteq [code: {"host"}, router: Names]
  BY NamesAssumption DEF Finding
<1>3. WiringTypeOK'
  BY <1>1, <1>2, VerifyTyped DEF WiringInv, WiringTypeOK
<1>4. RoutersFinite' /\ FindingsHold' /\ PrintedHolds'
  BY <1>1, SameLabels DEF WiringInv, RoutersFinite, FindingsHold, PrintedHolds
<1> QED BY <1>3, <1>4 DEF WiringInv

LEMMA RenderSound ==
  ASSUME WiringInv, Render
  PROVE  WiringInv'
<1>1. UNCHANGED <<routers, explicit, named, fleet, findings, pasted>>
      /\ printed' = [protected |-> Protected, block |-> ~Satisfied, host |-> SpecHost,
                     priority |-> CallbackPriority, fleet |-> fleet]
  BY DEF Render
<1>2. /\ Protected \subseteq Names /\ SpecHost \in Hosts \cup {NoHost} /\ CallbackPriority \in Nat
      /\ fleet \in BOOLEAN
  BY NamesOfRouters, HostTyped, Priorities DEF WiringInv, CallbackPriority, WiringTypeOK
<1>3. WiringTypeOK'
  BY <1>1, <1>2 DEF WiringInv, WiringTypeOK
<1>4. RoutersFinite' /\ FindingsHold'
  BY <1>1, SameLabels DEF WiringInv, RoutersFinite, FindingsHold
<1>5. PrintedHolds'
  BY <1>1, SameLabels DEF PrintedHolds, Satisfied
<1> QED BY <1>3, <1>4, <1>5 DEF WiringInv

LEMMA FleetChangesSound ==
  ASSUME WiringInv, FleetChanges
  PROVE  WiringInv'
<1>1. UNCHANGED <<routers, explicit, named, printed>> /\ findings' = Unaudited /\ fleet' = ~fleet
      /\ pasted' = FALSE
  BY DEF FleetChanges
<1>2. WiringTypeOK' /\ RoutersFinite' /\ FindingsHold'
  BY <1>1 DEF WiringInv, WiringTypeOK, RoutersFinite, FindingsHold
<1>3. PrintedHolds'
  BY <1>1, SameLabels DEF WiringInv, PrintedHolds
<1> QED BY <1>2, <1>3 DEF WiringInv

\* What pasting does to each router: a protected one gets the middleware, the printed
\* one is new, and of the others nothing changes that the audit or Traefik reads.
LEMMA PasteRouters ==
  ASSUME WiringInv, Paste
  PROVE  /\ DOMAIN routers' = DOMAIN routers \cup {x \in {Own} : printed.block}
         /\ \A n \in DOMAIN routers : n # Own \/ ~printed.block =>
              /\ routers'[n] \in Router
              /\ routers'[n].hosts = routers[n].hosts
              /\ routers'[n].regexp = routers[n].regexp
              /\ routers'[n].path = routers[n].path
              /\ EffectivePriority(routers'[n]) = EffectivePriority(routers[n])
              /\ Wired(n) => Wired(n)'
              /\ n \in Protected => Wired(n)'
         /\ printed.block =>
              /\ SpecHost \in Hosts
              /\ routers'[Own] = Block(printed)
              /\ routers'[Own] \in Router
              /\ routers'[Own].hosts = {SpecHost}
              /\ ~routers'[Own].regexp
              /\ routers'[Own].path = "callback"
              /\ EffectivePriority(routers'[Own]) = MaxPriority(HostRouters) + 10
              /\ Wired(Own)'
<1> USE DEF WiringInv
<1>1. /\ printed # Nothing /\ printed.priority \in Nat /\ printed.block \in BOOLEAN
      /\ printed.protected = Protected /\ printed.host = SpecHost
      /\ printed.priority = MaxPriority(HostRouters) + 10
  BY DEF Paste, WiringTypeOK, PrintedHolds, CallbackPriority
<1>2. /\ DOMAIN routers' = DOMAIN routers \cup {x \in {Own} : printed.block}
      /\ \A n \in DOMAIN routers' :
           routers'[n] = IF n = Own /\ printed.block THEN Block(printed)
                         ELSE IF n \in Protected THEN [routers[n] EXCEPT !.mws = {Middleware}]
                         ELSE routers[n]
  BY <1>1 DEF Paste
<1>3. ASSUME NEW n \in DOMAIN routers, n # Own \/ ~printed.block
      PROVE  /\ routers'[n] \in Router
             /\ routers'[n].hosts = routers[n].hosts
             /\ routers'[n].regexp = routers[n].regexp
             /\ routers'[n].path = routers[n].path
             /\ EffectivePriority(routers'[n]) = EffectivePriority(routers[n])
             /\ Wired(n) => Wired(n)'
             /\ n \in Protected => Wired(n)'
  <2>1. routers[n] \in Router
    BY DEF WiringTypeOK
  <2>2. CASE n \in Protected
    <3>1. routers'[n] = [routers[n] EXCEPT !.mws = {Middleware}]
      BY <1>2, <1>3, <2>2
    <3>2. EffectivePriority(routers'[n]) = EffectivePriority(routers[n])
      BY <2>1, <3>1, PriorityOfRule
    <3> QED BY <2>1, <3>1, <3>2 DEF Router, Wired
  <2>3. CASE n \notin Protected
    <3>1. routers'[n] = routers[n]
      BY <1>2, <1>3, <2>3
    <3> QED BY <2>1, <2>3, <3>1 DEF Wired
  <2> QED BY <2>2, <2>3
<1>4. ASSUME printed.block
      PROVE  /\ SpecHost \in Hosts
             /\ routers'[Own] = Block(printed)
             /\ routers'[Own] \in Router
             /\ routers'[Own].hosts = {SpecHost}
             /\ ~routers'[Own].regexp
             /\ routers'[Own].path = "callback"
             /\ EffectivePriority(routers'[Own]) = MaxPriority(HostRouters) + 10
             /\ Wired(Own)'
  <2>1. Required
    BY <1>1, <1>4 DEF PrintedHolds
  <2>2. HostRouters # {}
    BY <2>1 DEF Required, Public
  <2>3. SpecHost \in Hosts
    BY <2>2, HostTyped
  <2>4. routers'[Own] = Block(printed)
    BY <1>2, <1>4
  <2>5. Block(printed) = [hosts |-> {SpecHost}, regexp |-> FALSE, path |-> "callback",
                          mws |-> {Middleware}, priority |-> printed.priority]
    BY <1>1 DEF Block
  <2>6. Block(printed) \in Router
    BY <1>1, <2>3, <2>5 DEF Router
  <2>7. EffectivePriority(Block(printed)) = printed.priority
    BY <1>1, <2>5 DEF EffectivePriority, Unset
  <2> QED BY <1>1, <2>3, <2>4, <2>5, <2>6, <2>7 DEF Wired
<1> QED BY <1>2, <1>3, <1>4

LEMMA PasteSound ==
  ASSUME WiringInv, Paste
  PROVE  WiringInv'
<1>1. /\ UNCHANGED <<explicit, named, fleet>> /\ findings' = Unaudited /\ printed' = Nothing
      /\ pasted' \in BOOLEAN
  BY DEF Paste
<1>2. DOMAIN routers' \subseteq Names /\ \A n \in DOMAIN routers' : routers'[n] \in Router
  <2>1. DOMAIN routers \subseteq Names
    BY DEF WiringInv, WiringTypeOK
  <2> QED BY <2>1, PasteRouters, NamesAssumption
<1>3. WiringTypeOK'
  BY <1>1, <1>2 DEF WiringInv, WiringTypeOK
<1>4. RoutersFinite'
  <2>1. IsFiniteSet(DOMAIN routers) /\ \A n \in DOMAIN routers : IsFiniteSet(routers[n].hosts)
    BY DEF WiringInv, RoutersFinite
  <2>2. IsFiniteSet({Own}) /\ \A h : IsFiniteSet({h})
    BY FS_Singleton
  <2>3. IsFiniteSet({x \in {Own} : printed.block})
    BY <2>2, FS_Subset
  <2>4. IsFiniteSet(DOMAIN routers')
    <3>1. IsFiniteSet(DOMAIN routers \cup {x \in {Own} : printed.block})
      BY <2>1, <2>3, FS_Union
    <3> QED BY <3>1, PasteRouters
  <2>5. ASSUME NEW n \in DOMAIN routers'
        PROVE  IsFiniteSet(routers'[n].hosts)
    BY <2>1, <2>2, <2>5, PasteRouters
  <2> QED BY <2>4, <2>5 DEF RoutersFinite
<1>5. FindingsHold' /\ PrintedHolds'
  BY <1>1 DEF FindingsHold, PrintedHolds
<1> QED BY <1>3, <1>4, <1>5 DEF WiringInv

LEMMA WiringStep == WiringInv /\ [Next]_vars => WiringInv'
<1> SUFFICES ASSUME WiringInv, [Next]_vars PROVE WiringInv'
  OBVIOUS
<1>1. CASE UNCHANGED vars
  <2>1. UNCHANGED <<routers, explicit, named, fleet, findings, printed, pasted>>
    BY <1>1 DEF vars
  <2> QED BY <2>1, SameLabels DEF WiringInv, WiringTypeOK, RoutersFinite, FindingsHold, PrintedHolds
<1> QED BY <1>1, AuditSound, RenderSound, PasteSound, FleetChangesSound DEF Next

\* The inductive invariant of the audit, the rendering and the pasting.
THEOREM WiringInvariant == WiringSpec => []WiringInv
BY InitSound, WiringStep, PTL DEF WiringSpec

\* Every variable, the routers that were pasted among them, has its type.
THEOREM WiringTypeCorrect == WiringSpec => []WiringTypeOK
<1>1. WiringInv => WiringTypeOK
  BY DEF WiringInv
<1> QED BY <1>1, WiringInvariant, PTL

-----------------------------------------------------------------------------
\* A clean audit.

\* Traefik serves a request by whoever of the matching has the highest priority.
ServedByHighest(h, p) ==
  /\ Matching(h, p) # {} => Serving(h, p) # {}
  /\ Serving(h, p) =
       {n \in Matching(h, p) : \A m \in Matching(h, p) :
          EffectivePriority(routers[n]) >= EffectivePriority(routers[m])}

LEMMA HighestServes == WiringInv => \A h, p : ServedByHighest(h, p)
<1> SUFFICES ASSUME WiringInv, NEW h, NEW p PROVE ServedByHighest(h, p)
  OBVIOUS
<1> DEFINE all == Matching(h, p)
<1>1. all \in SUBSET DOMAIN routers
  BY DEF Matching
<1>2. /\ MaxPriority(all) \in Nat
      /\ \A n \in all : EffectivePriority(routers[n]) \in Nat
      /\ \A n \in all : EffectivePriority(routers[n]) <= MaxPriority(all)
      /\ all # {} => \E n \in all : EffectivePriority(routers[n]) = MaxPriority(all)
  BY <1>1, Priorities DEF WiringInv
<1>3. Serving(h, p) = {n \in all : EffectivePriority(routers[n]) = MaxPriority(all)}
  BY DEF Serving
<1> QED BY <1>2, <1>3 DEF ServedByHighest

LEMMA HighestServesAfter == WiringInv' => (\A h, p : ServedByHighest(h, p))'
BY HighestServes, PTL

\* Rules stay as the labels tried had them, or as render prints them.
LEMMA RulesKept ==
  /\ WiringSpec /\ NoPatterns => [](\A n \in DOMAIN routers : ~routers[n].regexp)
  /\ WiringSpec /\ NoNegations => [](\A n \in DOMAIN routers : routers[n].path # "notcallback")
<1> DEFINE A == \A n \in DOMAIN routers : ~routers[n].regexp
           B == \A n \in DOMAIN routers : routers[n].path # "notcallback"
<1>1. /\ NoPatterns /\ Init => A
      /\ NoNegations /\ Init => B
  BY DEF NoPatterns, NoNegations, Init
<1>2. WiringInv /\ [Next]_vars => (A => A') /\ (B => B')
  <2> SUFFICES ASSUME WiringInv, [Next]_vars PROVE (A => A') /\ (B => B')
    OBVIOUS
  <2>1. CASE Paste
    BY <2>1, PasteRouters
  <2>2. CASE UNCHANGED routers
    BY <2>2
  <2> QED BY <2>1, <2>2 DEF Next, Audit, Render, FleetChanges, vars
<1> HIDE DEF A, B
<1>3. WiringSpec /\ NoPatterns => []A
  BY <1>1, <1>2, WiringInvariant, PTL DEF WiringSpec
<1>4. WiringSpec /\ NoNegations => []B
  BY <1>1, <1>2, WiringInvariant, PTL DEF WiringSpec
<1> QED BY <1>3, <1>4 DEF A, B

\* "Raises a sticky alert on a gap" (README.md:15): with no pattern and no negated path
\* among the rules, and nothing left public by name, whatever page of its host Traefik
\* serves from a container with a clean audit goes through the middleware.
THEOREM CleanMeansGated ==
  ASSUME NoPatterns, NoNegations
  PROVE  WiringSpec => []CleanIsGated
<1> DEFINE Literal == \A n \in DOMAIN routers : ~routers[n].regexp
           Positive == \A n \in DOMAIN routers : routers[n].path # "notcallback"
<1>1. WiringInv /\ Literal /\ Positive => CleanIsGated
  <2> SUFFICES ASSUME WiringInv, Literal, Positive, Clean, named = {},
                      NEW p \in {"page", "sub"}, Matching(SpecHost, p) # {}
               PROVE  Gated(SpecHost, p)
    BY DEF CleanIsGated
  <2>1. ASSUME NEW n \in Matching(SpecHost, p)
        PROVE  n \in HostRouters \ Callbacks
    <3>1. n \in DOMAIN routers /\ SpecHost \in routers[n].hosts /\ p \in Matched(routers[n].path)
      BY DEF Matching
    <3>2. routers[n].path \in {"any", "sub", "callback"}
      BY <3>1 DEF WiringInv, WiringTypeOK, Router
    <3>3. routers[n].path # "callback"
      BY <3>1 DEF Matched
    <3> QED BY <3>1, <3>2, <3>3 DEF HostRouters, Callbacks, IsCallback
  <2>2. \A n \in Matching(SpecHost, p) : Wired(n)
    BY <2>1, CleanSays DEF Protected
  <2> QED BY <2>2, HighestServes DEF ServedByHighest, Gated
<1>2. WiringSpec => []Literal /\ []Positive
  BY RulesKept
<1> QED BY <1>1, <1>2, WiringInvariant, PTL

\* "Or the unprotected router wins the callback path and the login loop stays open"
\* (Verify): with no negated path among the rules, after a clean audit of a host with
\* public routers and no catch-all, the login's callback is served, and by no public one.
THEOREM CleanMeansCallbackLands ==
  ASSUME NoNegations
  PROVE  WiringSpec => []CallbackLands
<1> DEFINE Positive == \A n \in DOMAIN routers : routers[n].path # "notcallback"
<1>1. WiringInv /\ Positive => CallbackLands
  <2> SUFFICES ASSUME WiringInv, Positive, Clean, Required, ~fleet
               PROVE  /\ Serving(SpecHost, "callback") # {}
                      /\ Serving(SpecHost, "callback") \cap Public = {}
    BY DEF CallbackLands
  <2>1. PICK c \in Callbacks : Wins(c)
    BY CleanSays DEF Satisfied
  <2>2. c \in Matching(SpecHost, "callback")
    BY DEF Callbacks, HostRouters, IsCallback, Matching, Matched
  <2>3. /\ Public \in SUBSET DOMAIN routers /\ c \in DOMAIN routers
        /\ MaxPriority(Public) \in Nat
        /\ EffectivePriority(routers[c]) > MaxPriority(Public)
        /\ \A n \in DOMAIN routers : EffectivePriority(routers[n]) \in Nat
        /\ \A n \in Public : EffectivePriority(routers[n]) <= MaxPriority(Public)
    BY <2>1, NamesOfRouters, Priorities DEF WiringInv, Wins
  <2>4. ASSUME NEW n \in Public, n \in Serving(SpecHost, "callback")
        PROVE  FALSE
    <3>1. EffectivePriority(routers[n]) >= EffectivePriority(routers[c])
      BY <2>2, <2>4, HighestServes DEF ServedByHighest
    <3> QED BY <2>3, <3>1
  <2> QED BY <2>2, <2>4, HighestServes DEF ServedByHighest
<1>2. WiringSpec => []Positive
  BY RulesKept
<1> QED BY <1>1, <1>2, WiringInvariant, PTL

-----------------------------------------------------------------------------
\* Pasting what was printed.

\* A host that was inferred is the only one there is.
LEMMA InferredIsOnly ==
  ASSUME WiringInv, explicit = NoHost, SpecHost \in Hosts
  PROVE  LiteralHosts = {SpecHost} /\ \A n \in DOMAIN routers : ~routers[n].regexp
<1>1. /\ Cardinality(LiteralHosts) = 1 /\ \A n \in DOMAIN routers : ~routers[n].regexp
      /\ SpecHost = Only(LiteralHosts)
  BY HostAssumption DEF SpecHost, InferHost
<1>2. IsFiniteSet(LiteralHosts)
  <2> DEFINE all == {routers[n].hosts : n \in DOMAIN routers}
             f == [n \in DOMAIN routers |-> routers[n].hosts]
  <2>1. f \in Surjection(DOMAIN routers, all)
    BY DEF Surjection
  <2>2. IsFiniteSet(all)
    BY <2>1, FS_Surjection DEF WiringInv, RoutersFinite
  <2>3. \A hs \in all : IsFiniteSet(hs)
    BY DEF WiringInv, RoutersFinite
  <2>4. LiteralHosts = UNION all
    BY DEF LiteralHosts
  <2> HIDE DEF all
  <2> QED BY <2>2, <2>3, <2>4, FS_UNION
<1>3. PICK h : LiteralHosts = {h}
  BY <1>1, <1>2, FS_Singleton
<1> QED BY <1>1, <1>3 DEF Only

LEMMA PasteKeepsHost ==
  ASSUME WiringInv, OwnAsPrinted(routers, explicit), Paste
  PROVE  SpecHost' = SpecHost /\ OwnAsPrinted(routers, explicit)'
<1>1. explicit' = explicit
  BY DEF Paste
<1>2. CASE ~printed.block
  <2>1. /\ DOMAIN routers' = DOMAIN routers
        /\ \A n \in DOMAIN routers : /\ routers'[n].hosts = routers[n].hosts
                                     /\ routers'[n].regexp = routers[n].regexp
                                     /\ routers'[n].path = routers[n].path
    BY <1>2, PasteRouters
  <2>2. LiteralHosts' = LiteralHosts
    BY <2>1 DEF LiteralHosts
  <2>3. SpecHost' = SpecHost
    BY <1>1, <2>1, <2>2 DEF SpecHost, InferHost
  <2> QED BY <1>1, <2>1, <2>3 DEF OwnAsPrinted
<1>3. CASE printed.block
  <2>1. /\ DOMAIN routers' = DOMAIN routers \cup {Own}
        /\ \A n \in DOMAIN routers \ {Own} : /\ routers'[n].hosts = routers[n].hosts
                                             /\ routers'[n].regexp = routers[n].regexp
        /\ routers'[Own].hosts = {SpecHost} /\ ~routers'[Own].regexp
        /\ routers'[Own].path = "callback" /\ SpecHost \in Hosts
    BY <1>3, PasteRouters
  <2>2. ASSUME explicit = NoHost
        PROVE  InferHost' = InferHost
    <3>1. LiteralHosts = {SpecHost} /\ \A n \in DOMAIN routers : ~routers[n].regexp
      BY <2>1, <2>2, InferredIsOnly
    <3>2. \A n \in DOMAIN routers : routers[n].hosts \subseteq {SpecHost}
      BY <3>1 DEF LiteralHosts
    <3>3. LiteralHosts' = LiteralHosts
      <4>1. \A n \in DOMAIN routers' : routers'[n].hosts \subseteq {SpecHost}
        BY <2>1, <3>2
      <4>2. SpecHost \in routers'[Own].hosts /\ Own \in DOMAIN routers'
        BY <2>1
      <4> QED BY <3>1, <4>1, <4>2 DEF LiteralHosts
    <3>4. \A n \in DOMAIN routers' : ~routers'[n].regexp
      BY <2>1, <3>1
    <3> QED BY <3>1, <3>3, <3>4 DEF InferHost
  <2>3. SpecHost' = SpecHost
    BY <1>1, <2>2 DEF SpecHost
  <2> QED BY <1>1, <2>1, <2>3 DEF OwnAsPrinted, SpecHost
<1> QED BY <1>2, <1>3

\* Where the printed router is aboard's own, the audit sees the same public routers after.
LEMMA PasteKeepsPublic ==
  ASSUME WiringInv, OwnAsPrinted(routers, explicit), Paste
  PROVE  /\ Public' = Public
         /\ \A n \in Protected' : n \in Protected \/ (n = Own /\ printed.block)
         /\ Callbacks \ {Own} \subseteq Callbacks'
         /\ printed.block => Own \in Callbacks'
         /\ ~printed.block => Callbacks' = Callbacks
<1>1. SpecHost' = SpecHost /\ named' = named
  BY PasteKeepsHost DEF Paste
<1>2. \A n \in DOMAIN routers : n # Own \/ ~printed.block =>
        /\ n \in DOMAIN routers'
        /\ n \in HostRouters' <=> n \in HostRouters
        /\ n \in Callbacks' <=> n \in Callbacks
  BY <1>1, PasteRouters DEF HostRouters, Callbacks, IsCallback
<1>3. printed.block => Own \in HostRouters' /\ Own \in Callbacks'
  BY <1>1, PasteRouters DEF HostRouters, Callbacks, IsCallback
<1>4. Own \notin HostRouters \ Callbacks
  BY DEF OwnAsPrinted, HostRouters, Callbacks, IsCallback
<1>5. HostRouters \subseteq DOMAIN routers /\ HostRouters' \subseteq DOMAIN routers'
      /\ Callbacks \subseteq HostRouters /\ Callbacks' \subseteq HostRouters'
  BY DEF HostRouters, Callbacks
<1>6. DOMAIN routers' = DOMAIN routers \cup {x \in {Own} : printed.block}
  BY PasteRouters
<1>7. (HostRouters \ Callbacks)' = HostRouters \ Callbacks
  BY <1>2, <1>3, <1>4, <1>5, <1>6
<1>8. \A n \in HostRouters \ Callbacks : n \in Protected' <=> n \in Protected
  BY <1>1, <1>4, <1>5, <1>6, <1>7 DEF Protected
<1>9. Public' = Public
  BY <1>7, <1>8 DEF Public
<1>10. \A n \in Protected' : n \in Protected \/ (n = Own /\ printed.block)
  BY <1>1, <1>6, <1>7 DEF Protected
<1> QED BY <1>2, <1>3, <1>5, <1>6, <1>9, <1>10

\* What is pasted of a rendering for the fleet as it is satisfies the audit.
LEMMA PasteSatisfies ==
  ASSUME WiringInv, OwnAsPrinted(routers, explicit), Paste
  PROVE  PastedHolds'
<1>1. /\ printed # Nothing /\ printed.block \in BOOLEAN /\ fleet' = fleet /\ fleet \in BOOLEAN
      /\ pasted' = (printed.fleet = fleet)
      /\ printed.block <=> Required /\ ~printed.fleet /\ ~\E c \in Callbacks : Wins(c)
  BY DEF Paste, WiringInv, WiringTypeOK, PrintedHolds
<1>2. \A n \in Protected' : Wired(n)'
  BY PasteKeepsPublic, PasteRouters, NamesOfRouters DEF WiringInv
<1>3. Public \in SUBSET DOMAIN routers /\ HostRouters \in SUBSET DOMAIN routers /\ Public \subseteq HostRouters
      /\ Own \notin HostRouters \ Callbacks
  BY NamesOfRouters DEF WiringInv, Public, OwnAsPrinted, HostRouters, Callbacks, IsCallback
<1>4. \A n \in Public : EffectivePriority(routers'[n]) = EffectivePriority(routers[n])
  <2>1. Own \notin Public
    BY <1>3 DEF Public
  <2> QED BY <1>3, <2>1, PasteRouters
<1>5. MaxPriority(Public)' = MaxPriority(Public)
  <2>1. {EffectivePriority(routers'[n]) : n \in Public} = {EffectivePriority(routers[n]) : n \in Public}
    BY <1>4
  <2>2. Public' = Public
    BY PasteKeepsPublic
  <2> QED BY <2>1, <2>2 DEF MaxPriority
<1>6. ASSUME pasted'
      PROVE  Satisfied'
  <2>1. CASE printed.block
    <3>1. /\ MaxPriority(HostRouters) \in Nat /\ MaxPriority(Public) \in Nat
          /\ \A n \in HostRouters : EffectivePriority(routers[n]) <= MaxPriority(HostRouters)
          /\ Public # {} => \E n \in Public : EffectivePriority(routers[n]) = MaxPriority(Public)
      BY <1>3, Priorities DEF WiringInv
    <3>2. Public # {}
      BY <1>1, <2>1 DEF Required
    <3>3. MaxPriority(Public) <= MaxPriority(HostRouters)
      BY <1>3, <3>1, <3>2
    <3>4. EffectivePriority(routers'[Own]) = MaxPriority(HostRouters) + 10 /\ Wired(Own)'
      BY <2>1, PasteRouters
    <3>5. EffectivePriority(routers'[Own]) > MaxPriority(Public)
      BY <3>1, <3>3, <3>4
    <3>6. Wins(Own)'
      BY <1>5, <3>4, <3>5 DEF Wins
    <3> QED BY <2>1, <3>6, PasteKeepsPublic DEF Satisfied
  <2>2. CASE ~printed.block
    <3>1. CASE ~Required
      BY <3>1, PasteKeepsPublic DEF Satisfied, Required
    <3>2. CASE fleet
      BY <1>1, <3>2 DEF Satisfied
    <3>3. CASE Required /\ ~fleet
      <4>1. PICK c \in Callbacks : Wins(c)
        BY <1>1, <1>6, <2>2, <3>3
      <4>2. c \in DOMAIN routers
        BY DEF Callbacks, HostRouters
      <4>3. Wired(c)' /\ EffectivePriority(routers'[c]) = EffectivePriority(routers[c])
        BY <2>2, <4>1, <4>2, PasteRouters DEF Wins
      <4>4. Wins(c)'
        BY <1>5, <4>1, <4>3 DEF Wins
      <4> QED BY <2>2, <4>4, PasteKeepsPublic DEF Satisfied
    <3> QED BY <3>1, <3>2, <3>3
  <2> QED BY <1>1, <2>1, <2>2
<1> QED BY <1>2, <1>6 DEF PastedHolds

\* The inductive invariant where the name that render prints is aboard's own.
THEOREM PastedInvariant ==
  ASSUME OwnIsOurs
  PROVE  WiringSpec => []PastedInv
<1>1. Init => PastedInv
  BY InitSound DEF PastedInv, Init, OwnIsOurs, PastedHolds
<1>2. PastedInv /\ [Next]_vars => PastedInv'
  <2> SUFFICES ASSUME PastedInv, [Next]_vars PROVE PastedInv'
    OBVIOUS
  <2>1. WiringInv'
    BY WiringStep DEF PastedInv
  <2>2. CASE Paste
    BY <2>1, <2>2, PasteKeepsHost, PasteSatisfies DEF PastedInv
  <2>3. CASE FleetChanges
    <3>1. UNCHANGED <<routers, explicit>> /\ ~pasted'
      BY <2>3 DEF FleetChanges
    <3> QED BY <2>1, <3>1 DEF PastedInv, OwnAsPrinted, PastedHolds
  <2>4. CASE UNCHANGED <<routers, explicit, named, fleet, pasted>>
    <3>1. PastedHolds' /\ OwnAsPrinted(routers, explicit)'
      BY <2>4, SameLabels DEF PastedInv, PastedHolds, OwnAsPrinted, Satisfied
    <3> QED BY <2>1, <3>1 DEF PastedInv
  <2> QED BY <2>2, <2>3, <2>4 DEF Next, Audit, Render, vars
<1> QED BY <1>1, <1>2, PTL DEF WiringSpec

\* "So render and verify agree" (RenderService): where the name that render prints is
\* aboard's own, what was pasted passes the audit, but for names that no router has and a
\* host that is not known.
THEOREM RenderedPasses ==
  ASSUME OwnIsOurs
  PROVE  WiringSpec => []RenderedIsClean
<1>1. PastedInv => RenderedIsClean
  <2> SUFFICES ASSUME PastedInv, pasted, findings # Unaudited, NEW f \in findings
               PROVE  f.code \in {"router-unknown", "host"}
    BY DEF RenderedIsClean
  <2>1. findings = IF SpecHost = NoHost THEN Finding("host", {Own}) ELSE Verify
    BY DEF PastedInv, WiringInv, FindingsHold
  <2>2. CASE SpecHost = NoHost
    BY <2>1, <2>2, FindingIsEmpty
  <2>3. CASE SpecHost # NoHost
    <3>1. (\A n \in Protected : Wired(n)) /\ Satisfied
      BY <2>3 DEF PastedInv, PastedHolds
    <3>2. {n \in Protected : ~Wired(n)} = {}
      BY <3>1
    <3>3. Finding("unwired-middleware", {n \in Protected : ~Wired(n)}) = {}
      BY <3>2, FindingIsEmpty
    <3>4. Verify = Finding("router-unknown", named \ DOMAIN routers)
      BY <3>1, <3>3 DEF Verify
    <3> QED BY <2>1, <2>3, <3>4, FindingIsEmpty
  <2> QED BY <2>2, <2>3
<1> QED BY <1>1, PastedInvariant, PTL

\* Who matches a request after the paste, and with which priority.
LEMMA PasteKeepsMatching ==
  ASSUME PastedInv, Paste, NEW h \in Hosts, NEW p \in Paths
  PROVE  /\ \A n : n # Own \/ ~printed.block =>
              /\ n \in Matching(h, p)' <=> n \in Matching(h, p)
              /\ n \in Matching(h, p) => EffectivePriority(routers'[n]) = EffectivePriority(routers[n])
         /\ printed.block /\ Own \in Matching(h, p) => Own \in Matching(h, p)' /\ h = SpecHost
<1> USE DEF PastedInv
<1>1. ASSUME NEW n, n # Own \/ ~printed.block
      PROVE  /\ n \in Matching(h, p)' <=> n \in Matching(h, p)
             /\ n \in Matching(h, p) => EffectivePriority(routers'[n]) = EffectivePriority(routers[n])
  <2>1. n \in DOMAIN routers' <=> n \in DOMAIN routers
    BY <1>1, PasteRouters
  <2>2. n \in DOMAIN routers => /\ routers'[n].hosts = routers[n].hosts
                                /\ routers'[n].regexp = routers[n].regexp
                                /\ routers'[n].path = routers[n].path
                                /\ EffectivePriority(routers'[n]) = EffectivePriority(routers[n])
    BY <1>1, PasteRouters
  <2> QED BY <2>1, <2>2 DEF Matching
<1>2. ASSUME printed.block, Own \in Matching(h, p)
      PROVE  Own \in Matching(h, p)' /\ h = SpecHost
  <2>1. Own \in DOMAIN routers /\ h \in routers[Own].hosts /\ p \in Matched("callback")
    BY <1>2 DEF OwnAsPrinted, Matching
  <2>2. SpecHost \in Hosts
    BY <1>2, PasteRouters
  <2>3. h = SpecHost
    <3>1. CASE explicit # NoHost
      BY <2>1, <3>1 DEF OwnAsPrinted, SpecHost
    <3>2. CASE explicit = NoHost
      <4>1. SpecHost \in LiteralHosts /\ \A x \in LiteralHosts : x = SpecHost
        BY <2>2, <3>2, InferredIsOnly
      <4> QED BY <2>1, <4>1 DEF LiteralHosts
    <3> QED BY <3>1, <3>2
  <2> QED BY <1>2, <2>1, <2>3, PasteRouters DEF Matching
<1> QED BY <1>1, <1>2

\* Pasting, even what was printed for another state of the fleet, takes no page of any
\* host from behind the middleware, and leaves the host that discovery infers.
THEOREM PastingKeepsGates ==
  ASSUME OwnIsOurs
  PROVE  WiringSpec => PasteKeepsGates
<1> DEFINE Kept == /\ \A h \in Hosts, p \in Paths : Gated(h, p) => Gated(h, p)'
                   /\ SpecHost' = SpecHost
<1>1. PastedInv /\ Paste => Kept
  <2> SUFFICES ASSUME PastedInv, Paste, NEW h \in Hosts, NEW p \in Paths, Gated(h, p)
               PROVE  Gated(h, p)'
    BY PasteKeepsHost DEF PastedInv
  <2>1. WiringInv /\ WiringInv'
    BY PasteSound DEF PastedInv
  <2>2. Matching(h, p)' # {}
    <3>1. Matching(h, p) # {}
      BY <2>1, HighestServes DEF ServedByHighest, Gated
    <3> QED BY <3>1, PasteKeepsMatching
  <2>3. Serving(h, p)' # {}
        /\ Serving(h, p)' = {n \in Matching(h, p)' : \A m \in Matching(h, p)' :
                               EffectivePriority(routers'[n]) >= EffectivePriority(routers'[m])}
    BY <2>1, <2>2, HighestServesAfter DEF ServedByHighest
  <2>4. ASSUME NEW n \in Serving(h, p)', n # Own \/ ~printed.block
        PROVE  Wired(n)'
    <3>1. n \in Matching(h, p)' /\ n \in Matching(h, p) /\ n \in DOMAIN routers
      BY <2>3, <2>4, PasteKeepsMatching DEF Matching
    <3>2. ASSUME NEW m \in Matching(h, p)
          PROVE  EffectivePriority(routers[n]) >= EffectivePriority(routers[m])
      <4>1. EffectivePriority(routers'[n]) = EffectivePriority(routers[n])
        BY <2>4, <3>1, PasteKeepsMatching
      <4>2. CASE m # Own \/ ~printed.block
        <5>1. m \in Matching(h, p)' /\ EffectivePriority(routers'[m]) = EffectivePriority(routers[m])
          BY <4>2, PasteKeepsMatching
        <5> QED BY <2>3, <4>1, <5>1
      <4>3. CASE m = Own /\ printed.block
        <5>1. Own \in Matching(h, p)' /\ h = SpecHost
          BY <4>3, PasteKeepsMatching
        <5>2. Own \in HostRouters
          BY <4>3, <5>1 DEF PastedInv, OwnAsPrinted, Matching, HostRouters
        <5>3. /\ MaxPriority(HostRouters) \in Nat
              /\ EffectivePriority(routers[Own]) <= MaxPriority(HostRouters)
              /\ EffectivePriority(routers[Own]) \in Nat
              /\ EffectivePriority(routers[n]) \in Nat
          BY <2>1, <3>1, <5>2, NamesOfRouters, Priorities DEF WiringInv
        <5>4. EffectivePriority(routers'[Own]) = MaxPriority(HostRouters) + 10
          BY <2>1, <4>3, PasteRouters
        <5>5. EffectivePriority(routers[n]) >= EffectivePriority(routers'[Own])
          BY <2>3, <4>1, <5>1
        <5> QED BY <4>3, <5>3, <5>4, <5>5
      <4> QED BY <4>2, <4>3
    <3>3. n \in Serving(h, p)
      BY <2>1, <3>1, <3>2, HighestServes DEF ServedByHighest
    <3> QED BY <2>1, <2>4, <3>1, <3>3, PasteRouters DEF Gated
  <2>5. printed.block => Wired(Own)'
    BY <2>1, PasteRouters
  <2> QED BY <2>3, <2>4, <2>5 DEF Gated
<1>2. PastedInv /\ [Next]_vars => [Paste => Kept]_vars
  BY <1>1
<1>3. WiringSpec => [][Paste => Kept]_vars
  BY <1>2, PastedInvariant, PTL DEF WiringSpec
<1> QED BY <1>3 DEF PasteKeepsGates
=============================================================================
