-------------------------- MODULE MC_CanonicalSync --------------------------
(* A small instance of CanonicalSync for TLC; values are in the .cfg file. *)
EXTENDS CanonicalSync, TLC

CONSTANTS u1, u2, e1, e2, s1, s2

\* The initial states up to a renaming of users, emails and subjects:
\* liveness rules a SYMMETRY out.
InitUpToNames ==
    /\ Init
    /\ email[u1] \in {e1, NoEmail} /\ email[u2] \in {e2, NoEmail}
    /\ Exists(u2) => Exists(u1)
    /\ Live(s2) => Live(s1) /\ address[s1] = e1

MCSpec == InitUpToNames /\ [][Next]_vars /\ Fairness
=============================================================================
