-------------------------- MODULE MC_IdentityCache --------------------------
(* Small instances of IdentityCache for TLC; values are in the .cfg files. *)
EXTENDS IdentityCache, TLC

CONSTANTS u1, r1, s1

\* Names have no meaning: for runs that check safety only.
Symmetry ==
    Permutations(Keys) \cup Permutations(Users) \cup Permutations(Readers)
        \cup Permutations(Subscribers)

\* For liveness, which rules symmetry out: of the states that differ in names
\* alone (with one key, two readers and two subscribers), one.  The key is
\* linked to u1, or to nobody and u1 is the first that a commit is about; of two
\* idle readers r1 is the first to be asked, of two subscribers in the same state
\* s1 is the first to move.
InitUpToNames == Init /\ \A k \in Keys : link[k] \in {u1, NoUser}
NextUpToNames ==
    /\ commits = 0 /\ (\A k \in Keys : link[k] = NoUser) =>
          version' = version \/ version'[u1] # version[u1]
    /\ (\A r \in Readers : reader[r] = Idle) => \A r \in Readers \ {r1} : reader'[r] = Idle
    /\ \A s \in Subscribers \ {s1} : handler[s] = handler[s1] /\ inbox[s] = inbox[s1] =>
          handler'[s] = handler[s] /\ Len(inbox'[s]) >= Len(inbox[s])

MCSpec == InitUpToNames /\ [][Next /\ NextUpToNames]_vars /\ Fairness
=============================================================================
