------------------------- MODULE MC_FrontendIdentity -------------------------
(* A small instance of FrontendIdentity for TLC.                           *)
EXTENDS FrontendIdentity, TLC

CONSTANTS s1, s2, t1, t2

SmallMemberships == s1 :> {t1, t2} @@ s2 :> {t2}
=============================================================================
