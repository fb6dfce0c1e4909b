------------------------------ MODULE MCWiring -------------------------------
(***************************************************************************)
(* Wiring for TLC: every container with up to two routers of its own and a *)
(* callback router, of one host or with one of another host, wired or not, *)
(* with a priority or without.                                             *)
(***************************************************************************)
EXTENDS Wiring, TLC

CONSTANTS admin, site, h, g, other

Shape(hosts, regexp, path, mws, priority) ==
  [hosts |-> hosts, regexp |-> regexp, path |-> path, mws |-> mws, priority |-> priority]

\* Of every kind that the audit reads by its literal hosts and paths.
Literal ==
  {Shape({h}, FALSE, path, mws, p) :
     path \in {"any", "sub", "callback"}, mws \in {{}, {Middleware}}, p \in {Unset, 1, 30}}
  \cup {Shape({g}, FALSE, "any", {}, Unset), Shape({h, g}, FALSE, "any", {}, Unset),
        Shape({h}, FALSE, "any", {other, Middleware}, 30)}

OwnCallbacks ==
  {Shape({h}, FALSE, "callback", mws, p) : mws \in {{}, {Middleware}}, p \in {Unset, 30}}

\* The functions that give each name a router of the set, or none.
Maybe(name, rs) == {<<>>} \cup {(name :> r) : r \in rs}

MCLabelled ==
  {[routers |-> (a @@ s @@ o), explicit |-> e, named |-> ns] :
     a \in Maybe(admin, Literal), s \in Maybe(site, Literal), o \in Maybe(Own, OwnCallbacks),
     e \in {NoHost, h}, ns \in {{}, {admin}, {site, Own}}}

\* A router whose hosts are a pattern, for which discovery asks for aboard.host.
MCPatterns ==
  {[routers |-> (admin :> Shape({}, TRUE, path, mws, Unset)), explicit |-> h, named |-> {}] :
     path \in {"any", "sub"}, mws \in {{}, {Middleware}}}
=============================================================================
