---------------------------- MODULE MCDiscovery ------------------------------
(***************************************************************************)
(* Discovery for TLC: a forward-auth, an OIDC and a SAML container that are*)
(* as they should be, and one that carries nothing; every label of every   *)
(* value under either prefix, edited two at a time.                        *)
(***************************************************************************)
EXTENDS Discovery, TLC

MCTried ==
  "enable" :> {"true", "false"} @@ "name" :> {"", "!", "Web 1"} @@ "slug" :> {"", "api", "A_b"}
  @@ "provider" :> {"", "forwardauth", "oidc", "saml", "ldap"}
  @@ "host" :> {"app", "https://app"}
  @@ "groups" :> {"none", "", ",", "staff", "admins"} @@ "policies" :> {"mfa"}
  @@ "groups.claim" :> {"true", "false", "yes"} @@ "require" :> {"any", "all", "some"}
  @@ "outpost" :> {"edge"} @@ "traefik.routers" :> {"web"} @@ "traefik.entrypoint" :> {"web"}
  @@ "forwardauth.public" :> {"", "/health"} @@ "forwardauth.public.1" :> {"/hook"}
  @@ "forwardauth.public.01" :> {"/old"}
  @@ "forwardauth.public.x" :> {"/hook"} @@ "forwardauth.private" :> {"/health"}
  @@ "oidc.redirect" :> {"", "abs", "rel"} @@ "oidc.redirect.1" :> {"abs2", "rel"}
  @@ "oidc.redirect.01" :> {"abs", "rel"} @@ "oidc.redirect.x" :> {"abs"}
  @@ "oidc.secret" :> {"", "key"} @@ "oidc.client" :> {"public", "confidential", "secret"}
  @@ "oidc.audience" :> {"abs"}
  @@ "saml.acs" :> {"", "abs", "rel"} @@ "saml.binding" :> {"post", "redirect", "get"}
  @@ "saml.secret" :> {"key"}
  @@ "grops" :> {"staff"} @@ "users" :> {"ann"} @@ "caddy" :> {"web"}

Bare == [s \in DOMAIN MCTried |-> Absent]

MCBlocks ==
  {[d \in {"aboard.", "tagwright.auth."} |-> IF d = "aboard." THEN block @@ Bare ELSE Bare] :
     block \in {"enable" :> "true",
                "enable" :> "true" @@ "provider" :> "oidc" @@ "oidc.redirect" :> "abs"
                  @@ "oidc.secret" :> "key",
                "enable" :> "true" @@ "provider" :> "saml" @@ "saml.acs" :> "abs",
                Bare}}
=============================================================================
