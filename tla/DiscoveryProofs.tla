--------------------------- MODULE DiscoveryProofs ---------------------------
(***************************************************************************)
(* What discovery guarantees for any labels, of whatever values, and any   *)
(* number of edits: what is acted on is complete, every label of it counts,*)
(* and what is not acted on is announced.                                  *)
(***************************************************************************)
EXTENDS Discovery, TLAPS

-----------------------------------------------------------------------------
\* What it means that the checks found nothing.

\* A label of a family that has no member is not there.
LEMMA NoKeys ==
  ASSUME NEW n, NEW family, Keys(n, family) = {}, NEW s \in family
  PROVE  ~Has(n, s)
BY DEF Keys, Present, Has

\* The value of a label that is not there is "", and its list is empty.
LEMMA NotThere ==
  ASSUME NEW n, NEW s, ~Has(n, s)
  PROVE  Value(n, s) = "" /\ List(Value(n, s)) = {}
BY DEF Value, List

\* A container of which no error is reported passed every check of Discover.
LEMMA ErrorFree ==
  ASSUME NEW l, NEW rules, Armed(Norm(l)), Errors(l, rules) = {}
  PROVE  /\ Conflicts(l) = {}
         /\ Keys(Norm(l), UnknownKeys) = {}
         /\ Keys(Norm(l), ReservedKeys) = {}
         /\ Keys(Norm(l), BadIndexKeys) = {}
         /\ Has(Norm(l), "slug") => ValidSlug(Norm(l)["slug"])
         /\ Value(Norm(l), "provider") \in {"", "forwardauth", "oidc", "saml"}
         /\ HostErrors(Norm(l), rules) = {}
         /\ AccessErrors(Norm(l)) = {}
         /\ ForwardAuthErrors(Norm(l)) = {}
         /\ OIDCErrors(Norm(l)) = {}
         /\ SAMLErrors(Norm(l)) = {}
<1> DEFINE n == Norm(l)
<1>1. /\ When(Conflicts(l) # {}, "conflict") = {}
      /\ When(Keys(n, UnknownKeys) # {}, "unknown-suffix") = {}
      /\ When(Keys(n, ReservedKeys) # {}, "reserved") = {}
      /\ When(Keys(n, BadIndexKeys) # {}, "indexed-invalid") = {}
      /\ When(Has(n, "slug") /\ ~ValidSlug(n["slug"]), "slug-invalid") = {}
      /\ When(Value(n, "provider") \notin {"", "forwardauth", "oidc", "saml"},
              "provider-invalid") = {}
      /\ HostErrors(n, rules) = {}
      /\ AccessErrors(n) = {}
      /\ ForwardAuthErrors(n) = {}
      /\ OIDCErrors(n) = {}
      /\ SAMLErrors(n) = {}
  <2> HIDE DEF n
  <2>1. Armed(n) BY DEF n
  <2>2. Errors(l, rules) =
          When(Conflicts(l) # {}, "conflict")
          \cup (When(Keys(n, UnknownKeys) # {}, "unknown-suffix")
          \cup When(Keys(n, ReservedKeys) # {}, "reserved")
          \cup When(Keys(n, BadIndexKeys) # {}, "indexed-invalid")
          \cup When(Has(n, "slug") /\ ~ValidSlug(n["slug"]), "slug-invalid")
          \cup When(Value(n, "provider") \notin {"", "forwardauth", "oidc", "saml"},
                    "provider-invalid")
          \cup HostErrors(n, rules)
          \cup AccessErrors(n) \cup ForwardAuthErrors(n) \cup OIDCErrors(n) \cup SAMLErrors(n))
    BY <2>1, Zenon DEF Errors, n
  <2> QED BY <2>2
<1> QED BY <1>1 DEF When

\* Without a conflict a label that is there has its value in the merged map.
LEMMA NothingHidden ==
  ASSUME NEW l, Conflicts(l) = {}, NEW d \in Doors, NEW s \in Suffixes, l[d][s] # Absent
  PROVE  Norm(l)[s] = l[d][s] /\ Has(Norm(l), s)
<1>1. Norm(l)[s] = IF First(l, s) # Absent THEN First(l, s) ELSE Second(l, s)
  BY DEF Norm
<1>2. First(l, s) = Absent \/ Second(l, s) = Absent \/ First(l, s) = Second(l, s)
  BY DEF Conflicts
<1>3. l[d][s] = First(l, s) \/ l[d][s] = Second(l, s)
  BY DEF Doors, First, Second
<1> QED BY <1>1, <1>2, <1>3 DEF Has

\* A label that is in neither map is not in the merged one.
LEMMA NothingAdded ==
  ASSUME NEW l, NEW s, \A d \in Doors : ~Has(l[d], s)
  PROVE  ~Has(Norm(l), s)
<1>1. "aboard." \in Doors /\ "tagwright.auth." \in Doors
  BY DEF Doors
<1>2. CASE s \notin Suffixes
  BY <1>2 DEF Has
<1>3. CASE s \in Suffixes
  <2>1. First(l, s) = Absent /\ Second(l, s) = Absent
    BY <1>1, <1>3 DEF Has, First, Second
  <2> QED BY <2>1, <1>3 DEF Has, Norm
<1> QED BY <1>2, <1>3
-----------------------------------------------------------------------------
\* What is acted on is complete.

\* The sub-namespaces of the providers that were not chosen are empty.
LEMMA NothingOfAnother ==
  ASSUME NEW n, ForwardAuthErrors(n) = {}, OIDCErrors(n) = {}, SAMLErrors(n) = {}
  PROVE  /\ Provider(n) # "forwardauth" => Keys(n, ForwardKeys) = {}
         /\ proxyNone => Keys(n, TraefikKeys) = {}
         /\ Provider(n) # "oidc" => Keys(n, OIDCKeys) = {}
         /\ Provider(n) # "saml" => Keys(n, SAMLKeys) = {}
<1>1. When(Provider(n) # "forwardauth" /\ Keys(n, ForwardKeys) # {}, "wrong-provider") = {}
      /\ When(proxyNone /\ Keys(n, TraefikKeys) # {}, "proxy-none-traefik") = {}
  BY DEF ForwardAuthErrors
<1>2. When(~(Provider(n) = "oidc") /\ Keys(n, OIDCKeys) # {}, "wrong-provider") = {}
  BY DEF OIDCErrors
<1>3. When(~(Provider(n) = "saml") /\ Keys(n, SAMLKeys) # {}, "wrong-provider") = {}
  BY DEF SAMLErrors
<1> QED BY <1>1, <1>2, <1>3 DEF When

\* An index, or a list, that was not written is empty.
LEMMA ListNotThere ==
  ASSUME NEW n, NEW csv, NEW one, NEW zeroOne, ~Has(n, csv), ~Has(n, one), ~Has(n, zeroOne)
  PROVE  Resolve(Value(n, csv), Indexed(n, one, zeroOne)) = {}
<1>1. Value(n, csv) = "" /\ List(Value(n, csv)) = {}
  BY NotThere
<1>2. Indexed(n, one, zeroOne) = {}
  BY DEF Indexed
<1> QED BY <1>1, <1>2 DEF Resolve, Clash

\* The slug is one, or none can be made of the name (sanitizeSlug).
LEMMA SlugIsOne ==
  ASSUME NEW n, Has(n, "slug") => ValidSlug(n["slug"])
  PROVE  ValidSlug(Slug(n)) \/ Slug(n) = ""
<1>1. CASE Has(n, "slug")
  BY <1>1 DEF Slug
<1>2. CASE ~Has(n, "slug")
  <2>1. \A v : ValidSlug(Sanitize(v)) \/ Sanitize(v) = ""
    BY DEF Sanitize, ValidSlug
  <2> QED BY <1>2, <2>1 DEF Slug
<1> QED BY <1>1, <1>2

\* There is a host, but for a SAML provider, which needs none.
LEMMA HostIsThere ==
  ASSUME NEW n, NEW rules, HostErrors(n, rules) = {}
  PROVE  Host(n, rules) # "" <=> Provider(n) # "saml"
<1>1. CASE Provider(n) = "saml"
  BY <1>1 DEF Host
<1>2. CASE Provider(n) # "saml" /\ Has(n, "host")
  <2>1. BareHost(n["host"])
    BY <1>2 DEF HostErrors
  <2> QED BY <1>2, <2>1 DEF Host, BareHost
<1>3. CASE Provider(n) # "saml" /\ ~Has(n, "host")
  <2>1. rules = "one"
    BY <1>3 DEF HostErrors
  <2> QED BY <1>3, <2>1 DEF Host
<1> QED BY <1>1, <1>2, <1>3

\* An OIDC client has its redirects and its secret, and another provider neither.
LEMMA OIDCIsWhole ==
  ASSUME NEW n, OIDCErrors(n) = {}, Provider(n) # "oidc" => Keys(n, OIDCKeys) = {}
  PROVE  IF Provider(n) = "oidc"
           THEN /\ Redirect(n) # {} /\ \A r \in Redirect(n) : AbsoluteURL(r)
                /\ (Value(n, "oidc.secret") # "" <=> Client(n) = "confidential")
           ELSE Redirect(n) = {} /\ Value(n, "oidc.secret") = ""
<1>1. CASE Provider(n) = "oidc"
  <2>1. /\ When(\E r \in Redirect(n) : ~AbsoluteURL(r), "oidc-redirect-invalid") = {}
        /\ When(Redirect(n) = {}, "oidc-redirect-missing") = {}
        /\ When(Client(n) = "confidential" /\ Value(n, "oidc.secret") = "",
                "oidc-secret-missing") = {}
        /\ When(Client(n) = "public" /\ Value(n, "oidc.secret") # "",
                "oidc-secret-forbidden") = {}
    BY <1>1 DEF OIDCErrors
  <2>2. Client(n) \in {"public", "confidential"}
    BY DEF Client, Enum
  <2> QED BY <1>1, <2>1, <2>2 DEF When
<1>2. CASE Provider(n) # "oidc"
  <2>1. \A s \in OIDCKeys : ~Has(n, s)
    BY <1>2, NoKeys
  <2>2. Redirect(n) = {}
    BY <2>1, ListNotThere DEF OIDCKeys, Redirect, RedirectIndexed
  <2>3. Value(n, "oidc.secret") = ""
    BY <2>1, NotThere DEF OIDCKeys
  <2> QED BY <1>2, <2>2, <2>3
<1> QED BY <1>1, <1>2

\* A SAML provider has its consumer's URL, and another one none.
LEMMA SAMLIsWhole ==
  ASSUME NEW n, SAMLErrors(n) = {}, Provider(n) # "saml" => Keys(n, SAMLKeys) = {}
  PROVE  Provider(n) = "saml" <=> AbsoluteURL(Value(n, "saml.acs"))
<1>1. CASE Provider(n) = "saml"
  <2>1. /\ When(Value(n, "saml.acs") = "", "saml-acs-missing") = {}
        /\ When(Value(n, "saml.acs") # "" /\ ~AbsoluteURL(Value(n, "saml.acs")),
                "saml-acs-invalid") = {}
    BY <1>1 DEF SAMLErrors
  <2> QED BY <1>1, <2>1 DEF When, AbsoluteURL
<1>2. CASE Provider(n) # "saml"
  <2>1. ~Has(n, "saml.acs")
    BY <1>2, NoKeys DEF SAMLKeys
  <2>2. Value(n, "saml.acs") = ""
    BY <2>1, NotThere
  <2>3. ~AbsoluteURL(Value(n, "saml.acs"))
    BY <2>2 DEF AbsoluteURL
  <2> QED BY <1>2, <2>3
<1> QED BY <1>1, <1>2

\* What discovery reports no error of is complete.
LEMMA AcceptedIsComplete ==
  ASSUME NEW l, NEW rules, Armed(Norm(l)), Errors(l, rules) = {}
  PROVE  Complete(SpecOf(Norm(l), rules))
<1> DEFINE n == Norm(l)
           app == SpecOf(n, rules)
<1> HIDE DEF n, app
<1>1. /\ Has(n, "slug") => ValidSlug(n["slug"])
      /\ HostErrors(n, rules) = {}
      /\ ForwardAuthErrors(n) = {} /\ OIDCErrors(n) = {} /\ SAMLErrors(n) = {}
  BY ErrorFree DEF n
<1>2. /\ Provider(n) # "forwardauth" => Keys(n, ForwardKeys) = {}
      /\ proxyNone => Keys(n, TraefikKeys) = {}
      /\ Provider(n) # "oidc" => Keys(n, OIDCKeys) = {}
      /\ Provider(n) # "saml" => Keys(n, SAMLKeys) = {}
  BY <1>1, NothingOfAnother
<1>3. ValidSlug(app.slug) \/ app.slug = ""
  BY <1>1, SlugIsOne DEF app, SpecOf
<1>4. app.host # "" <=> app.provider # "saml"
  BY <1>1, HostIsThere DEF app, SpecOf
<1>5. app.provider # "forwardauth" => app.outpost = "" /\ app.public = {}
  <2>1. SUFFICES ASSUME Provider(n) # "forwardauth"
                 PROVE  Value(n, "outpost") = ""
                        /\ Resolve(Value(n, "forwardauth.public"), PublicIndexed(n)) = {}
    BY DEF app, SpecOf
  <2>2. \A s \in ForwardKeys : ~Has(n, s)
    BY <1>2, <2>1, NoKeys
  <2> QED BY <2>2, NotThere, ListNotThere DEF ForwardKeys, PublicIndexed
<1>6. app.provider # "forwardauth" \/ proxyNone => app.routers = {}
  <2>1. SUFFICES ASSUME Provider(n) # "forwardauth" \/ proxyNone
                 PROVE  List(Value(n, "traefik.routers")) = {}
    BY DEF app, SpecOf
  <2>2. ~Has(n, "traefik.routers")
    BY <1>2, <2>1, NoKeys DEF ForwardKeys, TraefikKeys
  <2> QED BY <2>2, NotThere
<1>7. IF app.provider = "oidc"
        THEN /\ app.redirect # {} /\ \A r \in app.redirect : AbsoluteURL(r)
             /\ (app.secret # "" <=> app.client = "confidential")
        ELSE app.redirect = {} /\ app.secret = ""
  BY <1>1, <1>2, OIDCIsWhole DEF app, SpecOf
<1>8. app.provider = "saml" <=> AbsoluteURL(app.acs)
  BY <1>1, <1>2, SAMLIsWhole DEF app, SpecOf
<1> QED BY <1>3, <1>4, <1>5, <1>6, <1>7, <1>8 DEF Complete, app, n

\* What Authentik is told is complete for the provider it is of and has nothing of
\* another one's, whatever the labels were and are (processContainer, parseForwardAuth,
\* parseOIDC, parseSAML).
THEOREM ToldOnlyWhatIsComplete == Spec => []LiveIsComplete
<1>1. Init => LiveIsComplete
  BY DEF Init, LiveIsComplete
<1>2. LiveIsComplete /\ [Next]_vars => LiveIsComplete'
  <2> SUFFICES ASSUME LiveIsComplete, [Next]_vars
               PROVE  LiveIsComplete'
    OBVIOUS
  <2>1. CASE UNCHANGED <<live, proxyNone>>
    BY <2>1 DEF LiveIsComplete, Complete
  <2>2. CASE Process /\ Act
    <3>1. Complete(SpecOf(Norm(labels), routers))
      BY <2>2, AcceptedIsComplete DEF Act
    <3> QED BY <2>2, <3>1 DEF Process, Act, LiveIsComplete, Complete
  <2>3. CASE Process /\ (PassOver \/ Skip)
    BY <2>1, <2>3 DEF Process, PassOver, Skip
  <2>4. ASSUME NEW door, NEW s, NEW v, Edit(door, s, v)
        PROVE  LiveIsComplete'
    BY <2>1, <2>4 DEF Edit
  <2>5. CASE UNCHANGED vars
    BY <2>1, <2>5 DEF vars
  <2> QED BY <2>2, <2>3, <2>4, <2>5 DEF Next, Process
<1> QED BY <1>1, <1>2, PTL DEF Spec
-----------------------------------------------------------------------------
\* Every label counts.

\* A value that is there is the one that is read.
LEMMA ValueIsRead ==
  ASSUME NEW n, NEW s, Has(n, s)
  PROVE  Value(n, s) = n[s]
BY DEF Value

\* A list is what its label, or the labels of its indices, say: the csv form unless it
\* is empty, and every index but a second spelling of another (resolveList).
LEMMA ListCounts ==
  ASSUME NEW n, NEW csv, NEW one, NEW zeroOne,
         ~Clash(Value(n, csv), Indexed(n, one, zeroOne))
  PROVE  LET list == Resolve(Value(n, csv), Indexed(n, one, zeroOne)) IN
         /\ Has(n, csv) => n[csv] = "" \/ list = List(n[csv])
         /\ Has(n, one) => n[one] \in list
         /\ Has(n, zeroOne) => n[zeroOne] \in list \/ Has(n, one)
<1> DEFINE indexed == Indexed(n, one, zeroOne)
           list == Resolve(Value(n, csv), indexed)
<1>1. list = IF indexed # {} THEN indexed ELSE List(Value(n, csv))
  BY DEF Resolve
<1>2. Has(n, csv) => n[csv] = "" \/ list = List(n[csv])
  BY <1>1, ValueIsRead DEF Clash
<1>3. Has(n, one) => indexed = {n[one]}
  BY DEF Indexed
<1>4. Has(n, zeroOne) /\ ~Has(n, one) => indexed = {n[zeroOne]}
  BY DEF Indexed
<1> HIDE DEF indexed, list
<1>5. /\ Has(n, one) => n[one] \in list
      /\ Has(n, zeroOne) => n[zeroOne] \in list \/ Has(n, one)
  BY <1>1, <1>3, <1>4
<1> QED BY <1>2, <1>5 DEF indexed, list

\* A label that no error was reported of means what the reference says.
LEMMA EachCounts ==
  ASSUME Armed(Norm(labels)), Errors(labels, routers) = {},
         NEW d \in Doors, NEW s \in Suffixes, labels[d][s] # Absent
  PROVE  Means(SpecOf(Norm(labels), routers), s, labels[d][s])
<1> DEFINE n == Norm(labels)
           app == SpecOf(n, routers)
           v == labels[d][s]
<1> HIDE DEF n, app, v
<1>1. /\ Keys(n, UnknownKeys) = {} /\ Keys(n, ReservedKeys) = {} /\ Keys(n, BadIndexKeys) = {}
      /\ Value(n, "provider") \in {"", "forwardauth", "oidc", "saml"}
      /\ HostErrors(n, routers) = {} /\ AccessErrors(n) = {}
      /\ ForwardAuthErrors(n) = {} /\ OIDCErrors(n) = {} /\ SAMLErrors(n) = {}
  BY ErrorFree DEF n
<1>2. Has(n, s) /\ n[s] = v /\ Value(n, s) = v
  <2>1. Conflicts(labels) = {}
    BY ErrorFree
  <2>2. n[s] = v /\ Has(n, s)
    BY <2>1, NothingHidden DEF n, v
  <2> QED BY <2>2, ValueIsRead
<1>3. s \notin UnknownKeys \cup ReservedKeys \cup BadIndexKeys
  BY <1>1, <1>2, NoKeys
<1>4. CASE s \in ExactKeys
  <2>1. CASE s = "enable" \/ s = "name"
    BY <2>1 DEF Means
  <2>2. CASE s = "slug"
    <3>1. app.slug = v BY <1>2, <2>2 DEF app, SpecOf, Slug
    <3> QED BY <2>2, <3>1 DEF Means, app, n, v
  <2>3. CASE s = "provider"
    <3>1. app.provider = Or(v, "forwardauth")
      BY <1>1, <1>2, <2>3 DEF app, SpecOf, Provider, Enum, Or
    <3> QED BY <2>3, <3>1 DEF Means, app, n, v
  <2>4. CASE s = "host"
    <3>1. Provider(n) = "saml" \/ BareHost(v)
      BY <1>1, <1>2, <2>4 DEF HostErrors
    <3>2. app.provider = "saml" \/ app.host = v
      BY <1>2, <2>4, <3>1 DEF app, SpecOf, Host
    <3> QED BY <2>4, <3>2 DEF Means, app, n, v
  <2>5. CASE s = "groups"
    <3>1. app.groups = IF v = "none" THEN {} ELSE List(v)
      BY <1>2, <2>5 DEF app, SpecOf, EffectiveGroups
    <3> QED BY <2>5, <3>1 DEF Means, app, n, v
  <2>6. CASE s = "policies"
    <3>1. app.policies = List(v) BY <1>2, <2>6 DEF app, SpecOf
    <3> QED BY <2>6, <3>1 DEF Means, app, n, v
  <2>7. CASE s = "groups.claim"
    <3>1. v \in {"true", "false"}
      BY <1>1, <1>2, <2>7 DEF AccessErrors, When
    <3>2. app.claim <=> v # "false"
      BY <1>2, <2>7 DEF app, SpecOf
    <3>3. app.claim <=> v = "true"
      BY <3>1, <3>2
    <3> QED BY <2>7, <3>3 DEF Means, app, n, v
  <2>8. CASE s = "require"
    <3>1. v \in {"", "any", "all"}
      BY <1>1, <1>2, <2>8 DEF AccessErrors, When
    <3>2. app.require = Or(v, "any")
      BY <1>2, <2>8, <3>1 DEF app, SpecOf, Enum, Or
    <3> QED BY <2>8, <3>2 DEF Means, app, n, v
  <2> QED BY <1>4, <2>1, <2>2, <2>3, <2>4, <2>5, <2>6, <2>7, <2>8 DEF ExactKeys
<1>5. CASE s \in ForwardKeys \cup TraefikKeys
  <2>1. ~Clash(Value(n, "forwardauth.public"), PublicIndexed(n))
    BY <1>1 DEF ForwardAuthErrors, When
  <2>2. /\ Has(n, "forwardauth.public") =>
             n["forwardauth.public"] = "" \/ app.public = List(n["forwardauth.public"])
        /\ Has(n, "forwardauth.public.1") => n["forwardauth.public.1"] \in app.public
        /\ Has(n, "forwardauth.public.01") =>
             n["forwardauth.public.01"] \in app.public \/ Has(n, "forwardauth.public.1")
    BY <2>1, ListCounts DEF PublicIndexed, app, SpecOf
  <2>3. CASE s = "outpost"
    <3>1. app.outpost = v BY <1>2, <2>3 DEF app, SpecOf
    <3> QED BY <2>3, <3>1 DEF Means, app, n, v
  <2>4. CASE s = "traefik.routers"
    <3>1. app.routers = List(v) BY <1>2, <2>4 DEF app, SpecOf
    <3> QED BY <2>4, <3>1 DEF Means, app, n, v
  <2>5. CASE s = "forwardauth.public"
    <3>1. v = "" \/ app.public = List(v) BY <1>2, <2>2, <2>5
    <3> QED BY <2>5, <3>1 DEF Means, app, n, v
  <2>6. CASE s = "forwardauth.public.1"
    <3>1. v \in app.public BY <1>2, <2>2, <2>6
    <3> QED BY <2>6, <3>1 DEF Means, app, n, v
  <2>7. CASE s = "forwardauth.public.01"
    <3>1. v \in app.public \/ \E door \in Doors : Has(labels[door], "forwardauth.public.1")
      BY <1>2, <2>2, <2>7, NothingAdded DEF n
    <3> QED BY <2>7, <3>1 DEF Means, app, n, v
  <2> QED
    BY <1>3, <1>5, <2>3, <2>4, <2>5, <2>6, <2>7
       DEF ForwardKeys, TraefikKeys, UnknownKeys, BadIndexKeys
<1>6. CASE s \in OIDCKeys
  <2>1. /\ ~Clash(Value(n, "oidc.redirect"), RedirectIndexed(n))
        /\ Value(n, "oidc.client") \in {"", "confidential", "public"}
    BY <1>1 DEF OIDCErrors, When
  <2>2. /\ Has(n, "oidc.redirect") =>
             n["oidc.redirect"] = "" \/ app.redirect = List(n["oidc.redirect"])
        /\ Has(n, "oidc.redirect.1") => n["oidc.redirect.1"] \in app.redirect
        /\ Has(n, "oidc.redirect.01") =>
             n["oidc.redirect.01"] \in app.redirect \/ Has(n, "oidc.redirect.1")
    BY <2>1, ListCounts DEF RedirectIndexed, Redirect, app, SpecOf
  <2>3. CASE s = "oidc.redirect"
    <3>1. v = "" \/ app.redirect = List(v) BY <1>2, <2>2, <2>3
    <3> QED BY <2>3, <3>1 DEF Means, app, n, v
  <2>4. CASE s = "oidc.redirect.1"
    <3>1. v \in app.redirect BY <1>2, <2>2, <2>4
    <3> QED BY <2>4, <3>1 DEF Means, app, n, v
  <2>5. CASE s = "oidc.redirect.01"
    <3>1. v \in app.redirect \/ \E door \in Doors : Has(labels[door], "oidc.redirect.1")
      BY <1>2, <2>2, <2>5, NothingAdded DEF n
    <3> QED BY <2>5, <3>1 DEF Means, app, n, v
  <2>6. CASE s = "oidc.secret"
    <3>1. app.secret = v BY <1>2, <2>6 DEF app, SpecOf
    <3> QED BY <2>6, <3>1 DEF Means, app, n, v
  <2>7. CASE s = "oidc.client"
    <3>1. app.client = Or(v, "confidential")
      BY <1>2, <2>1, <2>7 DEF app, SpecOf, Client, Enum, Or
    <3> QED BY <2>7, <3>1 DEF Means, app, n, v
  <2> QED
    BY <1>3, <1>6, <2>3, <2>4, <2>5, <2>6, <2>7 DEF OIDCKeys, UnknownKeys, BadIndexKeys
<1>7. CASE s \in SAMLKeys
  <2>1. CASE s = "saml.acs"
    <3>1. app.acs = v BY <1>2, <2>1 DEF app, SpecOf
    <3> QED BY <2>1, <3>1 DEF Means, app, n, v
  <2>2. CASE s = "saml.binding"
    <3>1. v \in {"", "post", "redirect"}
      BY <1>1, <1>2, <2>2 DEF SAMLErrors, When
    <3>2. app.binding = Or(v, "post")
      BY <1>2, <2>2, <3>1 DEF app, SpecOf, Enum, Or
    <3> QED BY <2>2, <3>2 DEF Means, app, n, v
  <2> QED BY <1>3, <1>7, <2>1, <2>2 DEF SAMLKeys, UnknownKeys
<1> QED BY <1>3, <1>4, <1>5, <1>6, <1>7, SuffixesAssumption

\* Without a label of its own an application has the fleet's groups.
LEMMA FleetsGroups ==
  ASSUME \A d \in Doors : ~Has(labels[d], "groups")
  PROVE  SpecOf(Norm(labels), routers).groups = FleetGroups
<1>1. ~Has(Norm(labels), "groups")
  BY NothingAdded
<1> QED BY <1>1 DEF SpecOf, EffectiveGroups

\* What was acted on when the labels were as they are.
ActedOn ==
  outcome = "acted" /\ processed =>
    /\ Armed(Norm(labels))
    /\ Errors(labels, routers) = {}
    /\ live = SpecOf(Norm(labels), routers)

\* The application that is made of the labels there are is made of all of them, under
\* either prefix, each meaning what docs/LABELS.md says (mergeNamespaces, route).
THEOREM NoLabelIsOverlooked == Spec => []EveryLabelCounts
<1>1. Init => ActedOn
  BY DEF Init, ActedOn
<1>2. ActedOn /\ [Next]_vars => ActedOn'
  <2> SUFFICES ASSUME ActedOn, [Next]_vars
               PROVE  ActedOn'
    OBVIOUS
  <2>1. CASE Process /\ Act
    <3>1. /\ Norm(labels)' = Norm(labels)
          /\ Errors(labels, routers)' = Errors(labels, routers)
          /\ Armed(Norm(labels))' = Armed(Norm(labels))
          /\ SpecOf(Norm(labels), routers)' = SpecOf(Norm(labels), routers)
      BY <2>1 DEF Process, Norm, First, Second, Errors, Conflicts, ForwardAuthErrors, Armed
    <3> QED BY <2>1, <3>1 DEF Act, ActedOn
  <2>2. CASE Process /\ (PassOver \/ Skip)
    BY <2>2 DEF PassOver, Skip, ActedOn
  <2>3. ASSUME NEW door, NEW s, NEW v, Edit(door, s, v)
        PROVE  ActedOn'
    BY <2>3 DEF Edit, ActedOn
  <2>4. CASE UNCHANGED vars
    <3>1. /\ Norm(labels)' = Norm(labels)
          /\ Errors(labels, routers)' = Errors(labels, routers)
          /\ Armed(Norm(labels))' = Armed(Norm(labels))
          /\ SpecOf(Norm(labels), routers)' = SpecOf(Norm(labels), routers)
      BY <2>4 DEF vars, Norm, First, Second, Errors, Conflicts, ForwardAuthErrors, Armed
    <3> QED BY <2>4, <3>1 DEF vars, ActedOn
  <2> QED BY <2>1, <2>2, <2>3, <2>4 DEF Next, Process
<1>3. ActedOn => EveryLabelCounts
  <2> SUFFICES ASSUME ActedOn, outcome = "acted", processed
               PROVE  /\ \A d \in Doors, s \in Suffixes :
                           labels[d][s] # Absent => Means(live, s, labels[d][s])
                      /\ (\A d \in Doors : ~Has(labels[d], "groups")) =>
                           live.groups = FleetGroups
    BY DEF EveryLabelCounts
  <2>1. /\ Armed(Norm(labels))
        /\ Errors(labels, routers) = {}
        /\ live = SpecOf(Norm(labels), routers)
    BY DEF ActedOn
  <2> QED BY <2>1, EachCounts, FleetsGroups
<1> QED BY <1>1, <1>2, <1>3, PTL DEF Spec

-----------------------------------------------------------------------------
\* What is not acted on is announced.

\* Where declaredButUnarmed sees nothing, neither prefix carries anything but enable.
LEMMA UndeclaredIsBare ==
  ASSUME NEW l, ~Armed(Norm(l)), ~Unarmed(Norm(l)),
         NEW d \in Doors, NEW s \in Suffixes \ {"enable"}
  PROVE  l[d][s] = Absent
<1>1. Norm(l)[s] = Absent
  BY DEF Unarmed, Present
<1>2. First(l, s) = Absent /\ Second(l, s) = Absent
  BY <1>1 DEF Norm
<1> QED BY <1>2 DEF Doors, First, Second

\* A container that declares anything is made what it says, or an error stands for it,
\* or a warning was sent (processContainer).
THEOREM NothingIsPassedOverInSilence == Spec => []NothingSilent
<1>1. Init => NothingSilent
  BY DEF Init, NothingSilent
<1>2. NothingSilent /\ [Next]_vars => NothingSilent'
  <2> SUFFICES ASSUME NothingSilent, [Next]_vars
               PROVE  NothingSilent'
    OBVIOUS
  <2>1. CASE Process /\ PassOver
    <3>1. CASE Unarmed(Norm(labels))
      <4>1. notices' # {}
        BY <2>1, <3>1 DEF PassOver, When
      <4> QED BY <4>1 DEF NothingSilent
    <3>2. CASE ~Unarmed(Norm(labels))
      <4>1. \A d \in Doors, s \in Suffixes \ {"enable"} : labels[d][s] = Absent
        BY <2>1, <3>2, UndeclaredIsBare DEF PassOver
      <4> QED BY <2>1, <4>1 DEF Process, NothingSilent
    <3> QED BY <3>1, <3>2
  <2>2. CASE Process /\ Skip
    BY <2>2 DEF Skip, NothingSilent
  <2>3. CASE Process /\ Act
    BY <2>3 DEF Act, NothingSilent
  <2>4. ASSUME NEW door, NEW s, NEW v, Edit(door, s, v)
        PROVE  NothingSilent'
    BY <2>4 DEF Edit, NothingSilent
  <2>5. CASE UNCHANGED vars
    BY <2>5 DEF vars, NothingSilent
  <2> QED BY <2>1, <2>2, <2>3, <2>4, <2>5 DEF Next, Process
<1> QED BY <1>1, <1>2, PTL DEF Spec
=============================================================================
