------------------------------- MODULE MCSync --------------------------------
(***************************************************************************)
(* Sync for TLC, and the digest beside it: a service with an error in its  *)
(* labels, mended under a new slug and in need of the catch-all, and opted *)
(* out; and Authentik itself, with the catch-all on it.                    *)
(***************************************************************************)
EXTENDS Digest

CONSTANTS web, idp, s1, s2, bad

Plain(key, slug) ==
  [key |-> key, slug |-> slug, errors |-> {}, needs |-> FALSE,
   catchall |-> FALSE, self |-> FALSE]

MCSpecs ==
  {[Plain(web, s1) EXCEPT !.errors = {bad}],
   [Plain(web, s2) EXCEPT !.needs = TRUE],
   Plain(web, None),
   [Plain(idp, s1) EXCEPT !.self = TRUE, !.catchall = TRUE]}
=============================================================================
