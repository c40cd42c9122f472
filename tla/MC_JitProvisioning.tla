------------------------- MODULE MC_JitProvisioning -------------------------
(* Small instances of JitProvisioning for TLC; values are in the .cfg files. *)
EXTENDS JitProvisioning, TLC

CONSTANTS r1, u1, u2, s1, s2, e1, e2

\* Names have no meaning: of the states that differ in names alone, one is an
\* initial state, r1 is the first to log in, and u1 the first to be created.
InitUpToNames ==
    /\ email \in [Users -> {NoEmail, e1, e2}]
    /\ email[u1] # e2 /\ email[u2] # e1 /\ (Exists(u2) => Exists(u1))
    /\ link \in [Subjects -> Users \cup {NoUser}]
    /\ link[s1] # u2 /\ link[s2] # u1 /\ (link[s2] # NoUser => link[s1] # NoUser)
    /\ Init
NextUpToNames ==
    /\ (\A r \in Requests : req[r] = Idle) /\ admin = admin' => req'[r1] # Idle
    /\ Fresh(u1) /\ Fresh(u2) =>
          ~Exists(u2)' /\ \A r \in Requests : req'[r].user # u2

\* Bound: a request that was answered does not log in again (the initial rows
\* are any that earlier logins may have left).
OneLoginEach ==
    \A r \in Requests :
        req[r].pc \notin {"lookup", "idle"} => req'[r].pc # "lookup"

\* Bound: a login without a verified email, which touches no row, is the only
\* one at work.
NoEmailAlone ==
    (\E r \in Requests : req'[r].pc = "lookup" /\ req'[r].email = NoEmail)
        => \A r \in Requests \ {r1} : req'[r] = Idle

MCSpec ==
    /\ InitUpToNames /\ [][Next /\ NextUpToNames /\ OneLoginEach /\ NoEmailAlone]_vars
    /\ \A r \in Requests : SF_vars(Step(r))
=============================================================================
