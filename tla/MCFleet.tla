------------------------------- MODULE MCFleet -------------------------------
(***************************************************************************)
(* Fleet for TLC: two slugs whose labels change: the host and the outpost   *)
(* of a, the kind of b.                                                    *)
(***************************************************************************)
EXTENDS Fleet

CONSTANTS a, b, h1, h2, g1, g2, user, t1, t2, embedded, edge

FwdLabel(slug, host) ==
  [slug |-> slug, kind |-> "proxy", host |-> host, gates |-> {g1},
   title |-> t1, mode |-> "any", adopt |-> FALSE, outpost |-> embedded]

MCLabels ==
  {FwdLabel(a, h1),
   [FwdLabel(a, h2) EXCEPT !.outpost = edge],
   FwdLabel(b, h2),
   [FwdLabel(b, None) EXCEPT !.kind = "oauth2", !.outpost = None]}

MCHandApps ==
  {[slug |-> b, kind |-> "proxy", host |-> h2, title |-> t1, mode |-> "any",
    gates |-> {g1}, attached |-> TRUE]}
=============================================================================
