----------------------------- MODULE MCReconcile -----------------------------
(***************************************************************************)
(* Reconcile for TLC.  Two containers whose labels change: the gates and   *)
(* the host of a, the consent of b to take over what a person made under   *)
(* its slug, and hosts the two of them can fight over.                     *)
(***************************************************************************)
EXTENDS Reconcile

CONSTANTS a, b, h1, h2, g1, g2, user, t1, t2, embedded, edge

FwdLabel(slug, host, gates, adopt) ==
  [slug |-> slug, kind |-> "proxy", host |-> host, gates |-> gates,
   title |-> t1, mode |-> "any", adopt |-> adopt, outpost |-> embedded]

MCLabels ==
  {FwdLabel(a, h1, {g1}, FALSE),
   [FwdLabel(a, h2, {g2}, FALSE) EXCEPT !.mode = "all"],
   FwdLabel(b, h1, {g1, g2}, FALSE),
   [FwdLabel(b, h2, {}, TRUE) EXCEPT !.outpost = edge],
   [FwdLabel(b, None, {g2}, FALSE) EXCEPT !.kind = "oauth2", !.outpost = None],
   [FwdLabel(b, h2, {g2}, TRUE) EXCEPT !.title = t2, !.outpost = None]}

\* One container whose group changes.
MCGatedLabels == {FwdLabel(a, h1, {g1}, FALSE), FwdLabel(a, h1, {g2}, FALSE)}

MCHandApps ==
  {[slug |-> b, kind |-> "proxy", host |-> h1, title |-> t1, mode |-> "any",
    gates |-> {g1, user}, attached |-> TRUE],
   [slug |-> b, kind |-> "oauth2", host |-> None, title |-> t1, mode |-> "any",
    gates |-> {g2}, attached |-> FALSE],
   [slug |-> b, kind |-> None, host |-> None, title |-> t2, mode |-> "any",
    gates |-> {}, attached |-> FALSE],
   [slug |-> b, kind |-> "other", host |-> None, title |-> t2, mode |-> "any",
    gates |-> {g2}, attached |-> FALSE]}
=============================================================================
