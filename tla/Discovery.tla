------------------------------ MODULE Discovery ------------------------------
(***************************************************************************)
(* discovery/*.go: a container's labels, under either prefix, to the state *)
(* it asks for and the errors in them; and what the daemon does with the   *)
(* two (processContainer), while a person edits the labels.  A value is    *)
(* what discovery tells apart: "abs" and "abs2" are absolute URLs, "," a   *)
(* csv of nothing, "!" a name with no character fit for a slug, "web" and  *)
(* "api" slugs, and "made" the slug that is made of any other name.        *)
(***************************************************************************)
EXTENDS Naturals, FiniteSets

CONSTANTS
  Tried,        \* the values tried for each suffix
  Blocks,       \* the sets of labels to start from
  FleetGroups,  \* aboard.yml: defaults.groups
  MaxEdits,     \* bound on the labels that are edited
  Absent        \* a label that is not there, an application that was never made

Suffixes == DOMAIN Tried
Values == UNION {Tried[s] : s \in Suffixes}
Doors == {"aboard.", "tagwright.auth."}
Labels == [Doors -> [Suffixes -> Values \cup {Absent}]]
Hosts == {"one", "none", "several"}

ASSUME BlocksAssumption == Blocks \subseteq Labels
ASSUME BoundAssumption == MaxEdits \in Nat
ASSUME AbsentAssumption == Absent \notin Values

VARIABLES
  labels,     \* the container's, under both prefixes
  routers,    \* the literal hosts of its Traefik rules; a pattern is as good as several
  proxyNone,  \* aboard.yml: proxy: none
  edits,
  processed,  \* the daemon has seen the labels as they are
  outcome,    \* what it did then: "acted", "skipped" or "passed over"
  sticky,     \* the errors that stand for the container
  notices,    \* the warnings that were sent
  live        \* what Authentik was last told to be

vars == <<labels, routers, proxyNone, edits, processed, outcome, sticky, notices, live>>

-----------------------------------------------------------------------------
\* One grammar behind two prefixes.

First(l, s) == l["aboard."][s]
Second(l, s) == l["tagwright.auth."][s]

\* mergeNamespaces: in sorted order, so the first prefix's value is kept.
Norm(l) == [s \in Suffixes |-> IF First(l, s) # Absent THEN First(l, s) ELSE Second(l, s)]

\* A merge that keeps the first prefix's value without a word.
ConflictsNone(l) == {}

Conflicts(l) == {s \in Suffixes : /\ {First(l, s), Second(l, s)} \cap {Absent} = {}
                                  /\ First(l, s) # Second(l, s)}

Present(n) == {s \in Suffixes : n[s] # Absent}

\* An absent key of a Go map reads as "".
Has(n, s) == s \in Suffixes /\ n[s] # Absent
Value(n, s) == IF Has(n, s) THEN n[s] ELSE ""

\* firstNonEmpty
Or(v, default) == IF v = "" THEN default ELSE v

\* splitCSV: the value of a label is one element here, or a list of none.
List(v) == IF v \in {"", ","} THEN {} ELSE {v}

-----------------------------------------------------------------------------
\* route: which sub-namespace a suffix is counted for, and which it is no key of.

ExactKeys == {"enable", "name", "slug", "provider", "host", "groups", "groups.claim",
              "policies", "require"}
ForwardKeys == {"outpost", "forwardauth.public", "forwardauth.public.1",
                "forwardauth.public.01", "forwardauth.public.x", "traefik.routers"}
TraefikKeys == {"traefik.routers", "traefik.entrypoint"}
OIDCKeys == {"oidc.redirect", "oidc.redirect.1", "oidc.redirect.01", "oidc.redirect.x",
             "oidc.secret", "oidc.client", "oidc.audience"}
SAMLKeys == {"saml.acs", "saml.binding", "saml.secret"}
UnknownKeys == {"grops", "forwardauth.private", "traefik.entrypoint", "oidc.audience",
                "saml.secret"}
ReservedKeys == {"users", "caddy"}
BadIndexKeys == {"forwardauth.public.x", "oidc.redirect.x"}

ASSUME SuffixesAssumption ==
  Suffixes \subseteq ExactKeys \cup ForwardKeys \cup TraefikKeys \cup OIDCKeys \cup SAMLKeys
                       \cup UnknownKeys \cup ReservedKeys

\* collectIndexed: "01" and "1" are one index, and the later key has it.
Indexed(n, one, zeroOne) ==
  IF Has(n, one) THEN {n[one]} ELSE IF Has(n, zeroOne) THEN {n[zeroOne]} ELSE {}

PublicIndexed(n) == Indexed(n, "forwardauth.public.1", "forwardauth.public.01")
RedirectIndexed(n) == Indexed(n, "oidc.redirect.1", "oidc.redirect.01")

\* resolveList: the csv or the indexed form, and nothing of either when both are set.
Clash(csv, indexed) == csv # "" /\ indexed # {}
Resolve(csv, indexed) ==
  IF Clash(csv, indexed) THEN {} ELSE IF indexed # {} THEN indexed ELSE List(csv)

Keys(n, family) == Present(n) \cap family

-----------------------------------------------------------------------------
\* Discover.

\* An enum's value, or its default for one that it does not know.
Enum(v, default, members) == IF v \in members THEN v ELSE default

Provider(n) == Enum(Value(n, "provider"), "forwardauth", {"oidc", "saml"})
Client(n) == Enum(Value(n, "oidc.client"), "confidential", {"public"})

ValidSlug(v) == v \in {"web", "api", "made"}

\* sanitizeSlug, of a name that is a slug, of one without a letter, and of any other.
Sanitize(name) == IF ValidSlug(name) THEN name ELSE IF name = "!" THEN "" ELSE "made"

\* serviceName: without aboard.name it is the service's or the container's.
Slug(n) == IF Has(n, "slug") THEN n["slug"] ELSE Sanitize(Or(Value(n, "name"), "web"))

\* The host that is written, else the one that is inferred (see Wiring).
BareHost(v) == v = "app"
Host(n, rules) ==
  IF Provider(n) = "saml" THEN ""
  ELSE IF Has(n, "host") THEN (IF BareHost(n["host"]) THEN n["host"] ELSE "")
  ELSE IF rules = "one" THEN "inferred" ELSE ""

HostErrors(n, rules) ==
  CASE Provider(n) = "saml" -> {}
    [] Provider(n) # "saml" /\ Has(n, "host") ->
         IF BareHost(n["host"]) THEN {} ELSE {"host-invalid"}
    [] Provider(n) # "saml" /\ ~Has(n, "host") ->
         IF rules = "one" THEN {} ELSE IF rules = "none" THEN {"host-missing"}
         ELSE {"host-ambiguous"}

Redirect(n) == Resolve(Value(n, "oidc.redirect"), RedirectIndexed(n))
AbsoluteURL(v) == v \in {"abs", "abs2"}

When(condition, code) == IF condition THEN {code} ELSE {}

ForwardAuthErrors(n) ==
  When(Provider(n) # "forwardauth" /\ Keys(n, ForwardKeys) # {}, "wrong-provider")
  \cup When(proxyNone /\ Keys(n, TraefikKeys) # {}, "proxy-none-traefik")
  \cup When(Clash(Value(n, "forwardauth.public"), PublicIndexed(n)), "indexed-conflict")

\* The rules with the early return for other providers moved to the front.
OIDCErrorsOfClients(n) ==
  IF Provider(n) # "oidc" THEN {}
  ELSE When(\E r \in Redirect(n) : ~AbsoluteURL(r), "oidc-redirect-invalid")
       \cup When(Redirect(n) = {}, "oidc-redirect-missing")

OIDCErrors(n) ==
  LET oidc == Provider(n) = "oidc" IN
  When(~oidc /\ Keys(n, OIDCKeys) # {}, "wrong-provider")
  \cup When(Value(n, "oidc.client") \notin {"", "confidential", "public"}, "client-invalid")
  \cup When(Clash(Value(n, "oidc.redirect"), RedirectIndexed(n)), "indexed-conflict")
  \cup When(oidc /\ \E r \in Redirect(n) : ~AbsoluteURL(r), "oidc-redirect-invalid")
  \cup When(oidc /\ Redirect(n) = {}, "oidc-redirect-missing")
  \cup When(oidc /\ Client(n) = "confidential" /\ Value(n, "oidc.secret") = "",
            "oidc-secret-missing")
  \cup When(oidc /\ Client(n) = "public" /\ Value(n, "oidc.secret") # "",
            "oidc-secret-forbidden")

SAMLErrors(n) ==
  LET saml == Provider(n) = "saml" IN
  When(~saml /\ Keys(n, SAMLKeys) # {}, "wrong-provider")
  \cup When(Value(n, "saml.binding") \notin {"", "post", "redirect"}, "saml-binding-invalid")
  \cup When(saml /\ Value(n, "saml.acs") = "", "saml-acs-missing")
  \cup When(saml /\ Value(n, "saml.acs") # "" /\ ~AbsoluteURL(Value(n, "saml.acs")),
            "saml-acs-invalid")

AccessErrors(n) ==
  When(Has(n, "groups.claim") /\ n["groups.claim"] \notin {"true", "false"},
       "groups-claim-invalid")
  \cup When(Value(n, "require") \notin {"", "any", "all"}, "require-invalid")

\* Without the gate nothing but the conflicts is looked for.
Armed(n) == Value(n, "enable") = "true"

Errors(l, rules) ==
  LET n == Norm(l) IN
  When(Conflicts(l) # {}, "conflict")
  \cup IF ~Armed(n) THEN {} ELSE
       When(Keys(n, UnknownKeys) # {}, "unknown-suffix")
       \cup When(Keys(n, ReservedKeys) # {}, "reserved")
       \cup When(Keys(n, BadIndexKeys) # {}, "indexed-invalid")
       \cup When(Has(n, "slug") /\ ~ValidSlug(n["slug"]), "slug-invalid")
       \cup When(Value(n, "provider") \notin {"", "forwardauth", "oidc", "saml"},
                 "provider-invalid")
       \cup HostErrors(n, rules)
       \cup AccessErrors(n) \cup ForwardAuthErrors(n) \cup OIDCErrors(n) \cup SAMLErrors(n)

\* declaredButUnarmed
Unarmed(n) == ~Armed(n) /\ Present(n) \ {"enable"} # {}

\* The Spec, as far as it differs; effectiveGroups stands for its three-state groups.
EffectiveGroups(n) == IF Has(n, "groups")
                        THEN (IF n["groups"] = "none" THEN {} ELSE List(n["groups"]))
                        ELSE FleetGroups

SpecOf(n, rules) ==
  [slug |-> Slug(n), provider |-> Provider(n), host |-> Host(n, rules),
   groups |-> EffectiveGroups(n), policies |-> List(Value(n, "policies")),
   require |-> Enum(Value(n, "require"), "any", {"all"}),
   claim |-> Value(n, "groups.claim") # "false",
   outpost |-> Value(n, "outpost"), routers |-> List(Value(n, "traefik.routers")),
   public |-> Resolve(Value(n, "forwardauth.public"), PublicIndexed(n)),
   redirect |-> Redirect(n), client |-> Client(n), secret |-> Value(n, "oidc.secret"),
   acs |-> Value(n, "saml.acs"),
   binding |-> Enum(Value(n, "saml.binding"), "post", {"redirect"})]

-----------------------------------------------------------------------------
\* A person edits the labels, the daemon sees them.

Init ==
  /\ labels \in Blocks
  /\ routers \in Hosts
  /\ proxyNone \in BOOLEAN
  /\ edits = 0
  /\ processed = FALSE
  /\ outcome = "passed over"
  /\ sticky = {}
  /\ notices = {}
  /\ live = Absent

Edit(door, s, v) ==
  /\ edits < MaxEdits
  /\ v # labels[door][s]
  /\ labels' = [labels EXCEPT ![door][s] = v]
  /\ edits' = edits + 1
  /\ processed' = FALSE
  /\ UNCHANGED <<routers, proxyNone, outcome, sticky, notices, live>>

\* A warning only for labels without any enable: a written false is meant.
PassOverQuiet ==
  /\ ~Armed(Norm(labels))
  /\ outcome' = "passed over"
  /\ sticky' = {}
  /\ notices' = When(~Has(Norm(labels), "enable") /\ Unarmed(Norm(labels)), "unarmed")
  /\ UNCHANGED live

\* processContainer: not opted in; the errors are neither held nor sent.
PassOver ==
  /\ ~Armed(Norm(labels))
  /\ outcome' = "passed over"
  /\ sticky' = {}
  /\ notices' = When(Unarmed(Norm(labels)), "unarmed")
  /\ UNCHANGED live

Skip ==
  /\ Armed(Norm(labels))
  /\ Errors(labels, routers) # {}
  /\ outcome' = "skipped"
  /\ sticky' = Errors(labels, routers)
  /\ notices' = {}
  /\ UNCHANGED live

\* What becomes of a reconcile that fails is Sync's.
Act ==
  /\ Armed(Norm(labels))
  /\ Errors(labels, routers) = {}
  /\ outcome' = "acted"
  /\ sticky' = {}
  /\ notices' = {}
  /\ live' = SpecOf(Norm(labels), routers)

Process ==
  /\ ~processed
  /\ processed' = TRUE
  /\ PassOver \/ Skip \/ Act
  /\ UNCHANGED <<labels, routers, proxyNone, edits>>

Next ==
  \/ \E door \in Doors, s \in Suffixes : \E v \in Tried[s] \cup {Absent} : Edit(door, s, v)
  \/ Process

Spec == Init /\ [][Next]_vars

-----------------------------------------------------------------------------
\* "Its Spec is incomplete or unsafe to act on" (SeverityError): whatever is edited, what
\* Authentik is told is complete for the provider it is of and has nothing of another
\* one's.  A name that no slug can be made of leaves the slug empty (sanitizeSlug).
Complete(app) ==
  /\ ValidSlug(app.slug) \/ app.slug = ""
  /\ app.host # "" <=> app.provider # "saml"
  /\ app.provider # "forwardauth" => app.outpost = "" /\ app.public = {}
  /\ app.provider # "forwardauth" \/ proxyNone => app.routers = {}
  /\ IF app.provider = "oidc"
       THEN /\ app.redirect # {} /\ \A r \in app.redirect : AbsoluteURL(r)
            /\ (app.secret # "" <=> app.client = "confidential")
       ELSE app.redirect = {} /\ app.secret = ""
  /\ app.provider = "saml" <=> AbsoluteURL(app.acs)

LiveIsComplete == live # Absent => Complete(live)

\* docs/LABELS.md, read one label at a time: what a label that is there means for the
\* application.  A suffix that is not in its tables means nothing.
Means(app, s, v) ==
  CASE s \in {"enable", "name"} -> TRUE
    [] s = "slug" -> app.slug = v
    [] s = "provider" -> app.provider = Or(v, "forwardauth")
    [] s = "host" -> app.provider = "saml" \/ app.host = v
    [] s = "groups" -> app.groups = IF v = "none" THEN {} ELSE List(v)
    [] s = "policies" -> app.policies = List(v)
    [] s = "require" -> app.require = Or(v, "any")
    [] s = "groups.claim" -> app.claim <=> v = "true"
    [] s = "outpost" -> app.outpost = v
    [] s = "traefik.routers" -> app.routers = List(v)
    [] s = "forwardauth.public" -> v = "" \/ app.public = List(v)
    [] s = "forwardauth.public.1" -> v \in app.public
    [] s = "forwardauth.public.01" ->
         v \in app.public \/ \E d \in Doors : Has(labels[d], "forwardauth.public.1")
    [] s = "oidc.redirect" -> v = "" \/ app.redirect = List(v)
    [] s = "oidc.redirect.1" -> v \in app.redirect
    [] s = "oidc.redirect.01" ->
         v \in app.redirect \/ \E d \in Doors : Has(labels[d], "oidc.redirect.1")
    [] s = "oidc.secret" -> app.secret = v
    [] s = "oidc.client" -> app.client = Or(v, "confidential")
    [] s = "saml.acs" -> app.acs = v
    [] s = "saml.binding" -> app.binding = Or(v, "post")
    [] OTHER -> FALSE

\* "There is no silent precedence" and "unknown suffixes are errors" (docs/LABELS.md):
\* an application is made of all the labels there are, under either prefix, each meaning
\* what the reference says, and without a label of its own has the fleet's groups.  Of
\* the suffixes in Suffixes the one label that is lost is a second spelling of an index;
\* aboard.adopt, which is false for any value but "true", is not among them.
EveryLabelCounts ==
  outcome = "acted" /\ processed =>
    /\ \A d \in Doors, s \in Suffixes : labels[d][s] # Absent => Means(live, s, labels[d][s])
    /\ (\A d \in Doors : ~Has(labels[d], "groups")) => live.groups = FleetGroups

\* A container that declares anything is either made what it says, or somebody is told;
\* only one that carries nothing but enable is left alone in silence.
NothingSilent ==
  processed =>
    \/ outcome = "acted"
    \/ sticky # {}
    \/ notices # {}
    \/ \A d \in Doors, s \in Suffixes \ {"enable"} : labels[d][s] = Absent

\* "The same suffix under both prefixes with DIFFERENT values is a validation error, and
\* the container is skipped and alerted" (docs/LABELS.md).
ConflictAlerted == processed /\ Conflicts(labels) # {} => sticky # {} \/ notices # {}
=============================================================================
