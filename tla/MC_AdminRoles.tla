---------------------------- MODULE MC_AdminRoles ----------------------------
(* A small instance of AdminRoles for TLC; values are in the .cfg file.    *)
EXTENDS AdminRoles, TLC

CONSTANTS a, b, d1, d2, x1, x2

\* The initial states up to a renaming, with one role or two, a permission.
InitUpToNames ==
    /\ Init
    /\ \A i \in Ids \ {d1, d2, x1} : ~Exists(i)
    /\ name[d1] = a /\ name[d2] \in {b, NoName} /\ name[x1] = a
    /\ \A r \in Roles : mapped[r] = IF r = d1 THEN {x1} ELSE {}

MCSpec == InitUpToNames /\ [][Next]_vars /\ Fairness
=============================================================================
