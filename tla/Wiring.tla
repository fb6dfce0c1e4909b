------------------------------- MODULE Wiring --------------------------------
(***************************************************************************)
(* traefik/router.go, verify.go and render.go, discovery/host.go: the audit*)
(* of a forward-auth container's Traefik labels and the labels that aboard *)
(* render prints for an operator to paste, judged by what Traefik does with*)
(* them.  A rule is the hosts it names, whether it has a HostRegexp, and   *)
(* the one path it matches or leaves out.                                  *)
(***************************************************************************)
EXTENDS Integers, FiniteSetsExt

CONSTANTS
  Names,       \* of routers
  Own,         \* the callback router that render prints: <slug>-outpost
  Hosts,
  Middleware,  \* the forward-auth middleware, cfg.Traefik.Middleware
  Others,      \* other middlewares
  HostLength, PathLength,  \* what a matcher adds to the length of a rule
  Labelled,    \* the routers, explicit hosts and protected names tried
  NoHost,
  Unaudited,
  Nothing

Unset == -1    \* priorityUnset
Router == [hosts: SUBSET Hosts, regexp: BOOLEAN,
           path: {"any", "sub", "callback", "notcallback"},
           mws: SUBSET (Others \cup {Middleware}), priority: Nat \cup {Unset}]

ASSUME NamesAssumption == Own \in Names
ASSUME HostAssumption == NoHost \notin Hosts
ASSUME UnauditedAssumption == Unaudited # {}
ASSUME LengthAssumption == {HostLength, PathLength} \subseteq Nat
ASSUME LabelledAssumption ==
  \A l \in Labelled :
    /\ DOMAIN l.routers \subseteq Names /\ IsFiniteSet(DOMAIN l.routers)
    /\ \A n \in DOMAIN l.routers :
         l.routers[n] \in Router /\ IsFiniteSet(l.routers[n].hosts)
    /\ l.explicit \in Hosts \cup {NoHost}
    /\ l.named \subseteq Names

VARIABLES
  routers,   \* the container's, by name
  explicit,  \* aboard.host
  named,     \* aboard.traefik.routers
  fleet,     \* authentik-server has the catch-all callback router
  findings,  \* of the last audit, if nothing has changed since
  printed,   \* the last rendering
  pasted     \* a rendering has been pasted, and nothing has changed since

vars == <<routers, explicit, named, fleet, findings, printed, pasted>>

Init ==
  /\ \E l \in Labelled :
       routers = l.routers /\ explicit = l.explicit /\ named = l.named
  /\ fleet \in BOOLEAN
  /\ findings = Unaudited
  /\ printed = Nothing
  /\ pasted = FALSE

-----------------------------------------------------------------------------
\* Discovery.

\* LiteralHosts, over all the rules.
LiteralHosts == UNION {routers[n].hosts : n \in DOMAIN routers}

Only(hosts) == CHOOSE h \in hosts : TRUE

\* inferHost: the one literal host, unless there is a HostRegexp.
InferHost ==
  IF Cardinality(LiteralHosts) = 1 /\ \A n \in DOMAIN routers : ~routers[n].regexp
    THEN Only(LiteralHosts)
    ELSE NoHost

\* aboard.host wins; NoHost stands for the error, which leaves the host empty.
SpecHost == IF explicit # NoHost THEN explicit ELSE InferHost

-----------------------------------------------------------------------------
\* Verify.

\* The default priority is the length of the rule.
RuleLength(r) ==
  HostLength * (Cardinality(r.hosts) + IF r.regexp THEN 1 ELSE 0)
    + IF r.path = "any" THEN 0 ELSE PathLength

EffectivePriority(r) == IF r.priority # Unset THEN r.priority ELSE RuleLength(r)

\* Any router with a path.
IsCallbackByPath(r) == r.path # "any"

\* isCallbackRule looks for the path, negated or not.
IsCallback(r) == r.path \in {"callback", "notcallback"}

Wired(n) == Middleware \in routers[n].mws

\* MatchesHost: the literal hosts only.
HostRouters == {n \in DOMAIN routers : SpecHost \in routers[n].hosts}
Callbacks == {n \in HostRouters : IsCallback(routers[n])}

\* resolveProtected
Protected ==
  IF named = {} THEN HostRouters \ Callbacks ELSE named \cap DOMAIN routers

Public == (HostRouters \ Callbacks) \ Protected
Required == Public # {}

MaxPriority(ns) == Max({0} \cup {EffectivePriority(routers[n]) : n \in ns})

\* A tie counts as won.
WinsTies(c) ==
  Wired(c) /\ EffectivePriority(routers[c]) >= MaxPriority(Public)

\* A callback router that outranks every public one.
Wins(c) ==
  Wired(c) /\ EffectivePriority(routers[c]) > MaxPriority(Public)

Satisfied == ~Required \/ fleet \/ \E c \in Callbacks : Wins(c)

Finding(code, ns) == [code: {code}, router: ns]

Verify ==
  Finding("router-unknown", named \ DOMAIN routers)
    \cup Finding("unwired-middleware", {n \in Protected : ~Wired(n)})
    \cup IF Satisfied THEN {}
         ELSE Finding(IF Callbacks = {} THEN "missing-callback" ELSE "callback-priority", {Own})

\* The daemon audits what discovery found no error in.
Audit ==
  /\ findings' = IF SpecHost = NoHost THEN Finding("host", {Own}) ELSE Verify
  /\ UNCHANGED <<routers, explicit, named, fleet, printed, pasted>>

-----------------------------------------------------------------------------
\* aboard render, and the operator.

\* The highest priority there is, none to spare.
PriorityOfHighest == MaxPriority(HostRouters)

\* The highest of the priorities' labels, the sentinel of the missing ones included.
PriorityOfLabels == Max({Unset} \cup {routers[n].priority : n \in HostRouters})

\* callbackPriorityAbove
CallbackPriority == MaxPriority(HostRouters) + 10

\* renderCallbackBlock, its middleware forgotten.
BlockBare(p) ==
  [hosts |-> {p.host}, regexp |-> FALSE, path |-> "callback",
   mws |-> {}, priority |-> p.priority]

\* renderCallbackBlock
Block(p) ==
  [hosts |-> {p.host}, regexp |-> FALSE, path |-> "callback",
   mws |-> {Middleware}, priority |-> p.priority]

\* RenderService, from the labels as they are, even if discovery found errors.
Render ==
  /\ printed' = [protected |-> Protected, block |-> ~Satisfied, host |-> SpecHost,
                 priority |-> CallbackPriority, fleet |-> fleet]
  /\ UNCHANGED <<routers, explicit, named, fleet, findings, pasted>>

\* The operator puts what was printed in place of the labels of those names.
Paste ==
  /\ printed # Nothing
  /\ routers' =
       [n \in DOMAIN routers \cup {x \in {Own} : printed.block} |->
          IF n = Own /\ printed.block THEN Block(printed)
          ELSE IF n \in printed.protected THEN [routers[n] EXCEPT !.mws = {Middleware}]
          ELSE routers[n]]
  /\ findings' = Unaudited
  /\ pasted' = (printed.fleet = fleet)
  /\ printed' = Nothing
  /\ UNCHANGED <<explicit, named, fleet>>

\* The catch-all appears on authentik-server or goes.
FleetChanges ==
  /\ fleet' = ~fleet
  /\ findings' = Unaudited
  /\ pasted' = FALSE
  /\ UNCHANGED <<routers, explicit, named, printed>>

Next == Audit \/ Render \/ Paste \/ FleetChanges

WiringSpec == Init /\ [][Next]_vars

-----------------------------------------------------------------------------
\* Traefik: of the routers that match a request the one with the highest priority
\* serves it, of equal ones any.

Paths == {"page", "sub", "callback"}

Matched(path) ==
  CASE path = "any" -> Paths
    [] path = "sub" -> {"sub"}
    [] path = "callback" -> {"callback"}
    [] path = "notcallback" -> Paths \ {"callback"}

Matching(host, p) ==
  {n \in DOMAIN routers :
     (host \in routers[n].hosts \/ routers[n].regexp) /\ p \in Matched(routers[n].path)}

Serving(host, p) ==
  LET all == Matching(host, p)
  IN  {n \in all : EffectivePriority(routers[n]) = MaxPriority(all)}

Gated(host, p) == Serving(host, p) # {} /\ \A n \in Serving(host, p) : Wired(n)

-----------------------------------------------------------------------------
Clean == findings = {}

WiringTypeOK ==
  /\ DOMAIN routers \subseteq Names
  /\ \A n \in DOMAIN routers : routers[n] \in Router
  /\ explicit \in Hosts \cup {NoHost}
  /\ named \subseteq Names
  /\ fleet \in BOOLEAN
  /\ findings = Unaudited
     \/ findings \subseteq [code: {"router-unknown", "unwired-middleware", "missing-callback",
                                   "callback-priority", "host"}, router: Names]
  /\ printed = Nothing
     \/ printed \in [protected: SUBSET Names, block: BOOLEAN, host: Hosts \cup {NoHost},
                     priority: Nat, fleet: BOOLEAN]
  /\ pasted \in BOOLEAN

\* aboard "raises a sticky alert on a gap" (README.md:15): where nothing was left
\* public by name, a clean audit means that whatever page of the declared host Traefik
\* serves from this container goes through the middleware.
CleanIsGated ==
  Clean /\ named = {} =>
    \A p \in {"page", "sub"} : Matching(SpecHost, p) # {} => Gated(SpecHost, p)

\* "Or the unprotected router wins the callback path and the login loop stays open"
\* (Verify): after a clean audit of a host with public routers, and no catch-all to
\* rely on, the login's callback is served, and by no public router.
CallbackLands ==
  Clean /\ Required /\ ~fleet =>
    /\ Serving(SpecHost, "callback") # {}
    /\ Serving(SpecHost, "callback") \cap Public = {}

\* "So render and verify agree" (RenderService): what is printed, once pasted, is all
\* that the audit asks for, but for names that no router has and an unknown host.
RenderedIsClean ==
  pasted /\ findings # Unaudited =>
    \A f \in findings : f.code \in {"router-unknown", "host"}

\* Pasting, even what was printed for another state of the fleet, never opens what
\* was gated, and does not change the host that discovery infers.
PasteKeepsGates ==
  [][Paste => /\ \A h \in Hosts, p \in Paths : Gated(h, p) => Gated(h, p)'
              /\ SpecHost' = SpecHost]_vars
=============================================================================
