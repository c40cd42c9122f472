----------------------------- MODULE MC_Admission -----------------------------
(* A small instance of Admission for TLC; values are in the .cfg file.      *)
EXTENDS Admission, TLC

CONSTANTS t1, t2, s1, k1

\* A session token of Descope for an admin of one tenant, and the others as
\* they differ from it.
Session == [iss |-> "pid", aud |-> Absent, drn |-> "DS", signer |-> "Descope", exp |-> 1,
            sub |-> s1, dct |-> t1, member |-> {t1}, grants |-> {<<t1, "admin">>}]
OfOry == [Session EXCEPT !.iss = "ory", !.aud = "ory", !.drn = Absent, !.signer = "Ory",
                         !.dct = Absent, !.member = {}, !.grants = {}]
\* One that grants nothing, and others that are judged differently.
Plain == [Session EXCEPT !.dct = Absent, !.member = {}, !.grants = {}]
SmallTokens ==
    {Session,
     [Session EXCEPT !.dct = Absent],
     [Session EXCEPT !.iss = "url", !.aud = "pid",
                     !.member = {t1, t2}, !.dct = t2, !.grants = {<<t2, "owner">>, <<t1, "admin">>}],
     [Plain EXCEPT !.drn = "DSR"],
     [Plain EXCEPT !.iss = Absent],
     [Plain EXCEPT !.iss = Junk],
     [Plain EXCEPT !.iss = "other"],
     [Plain EXCEPT !.iss = "app", !.aud = "other"],
     [Plain EXCEPT !.signer = "stranger"],
     [Plain EXCEPT !.exp = Absent],
     [Plain EXCEPT !.exp = Junk],
     OfOry,
     [OfOry EXCEPT !.dct = t1],
     [OfOry EXCEPT !.dct = Junk],
     [OfOry EXCEPT !.aud = Absent],
     [OfOry EXCEPT !.sub = Absent]}

\* Ory beside Descope, its audience known and not required, or nobody.  (What
\* Descope signs is judged alike with and without Ory.)
Usual ==
    /\ config.oryAudience = config.ory /\ ~config.oryRequired
    /\ config.ory = config.descope

\* One key of t1, made in the console, and one to be created; an active user,
\* or none.
MCInit ==
    /\ config \in Configs
    /\ status \in [Subjects -> {"active", "absent"}]
    /\ grants \in [Subjects -> {{}, {<<t1, "admin">>}, {<<t1, "owner">>, <<t2, "admin">>}}]
    /\ status[s1] = "active" <=> grants[s1] # {}
    /\ keys = [k \in Keys |-> [state |-> IF k = k1 THEN "active" ELSE "none", roles |-> {},
                               tenant |-> IF k = k1 THEN t1 ELSE NoTenant, exp |-> Never]]
    /\ Init

\* Bound: in the other configurations tokens are judged, nothing happens.
MCSpec == MCInit /\ [][Next /\ (Usual \/ events' = events)]_vars
=============================================================================
