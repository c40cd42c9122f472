----------------------------- MODULE FirstLogin -----------------------------
(***************************************************************************)
(* What just-in-time provisioning promises: each login of an external      *)
(* subject is answered, in one step, with the user that owns the subject   *)
(* from then on, or with nobody.  How many logins run at once, what they   *)
(* insert and roll back and how often they try again is not visible here.  *)
(***************************************************************************)
CONSTANTS
    Requests,   \* concurrent logins
    Subjects,   \* external subjects of one provider
    Users,
    NoUser,
    NoSubject

VARIABLES
    owner,      \* owner[s]: the user that subject s is linked to
    asked,      \* asked[r]: the subject that logs in with request r
    answer      \* answer[r]: the user that the last login of r was answered with

vars == <<owner, asked, answer>>

Free(u) == \A s \in Subjects : owner[s] # u

Init ==
    /\ owner \in [Subjects -> Users \cup {NoUser}]
    /\ asked = [r \in Requests |-> NoSubject]
    /\ answer = [r \in Requests |-> NoUser]

Ask(r, s) ==
    /\ asked[r] = NoSubject
    /\ asked' = [asked EXCEPT ![r] = s]
    /\ answer' = [answer EXCEPT ![r] = NoUser]
    /\ UNCHANGED owner

Reply(r, u) ==
    /\ asked' = [asked EXCEPT ![r] = NoSubject]
    /\ answer' = [answer EXCEPT ![r] = u]

\* The subject has an owner already, or gets one that had no subject.
Answer(r, s, u) ==
    /\ asked[r] = s
    /\ \/ owner[s] = u /\ UNCHANGED owner
       \/ owner[s] = NoUser /\ Free(u) /\ owner' = [owner EXCEPT ![s] = u]
    /\ Reply(r, u)

Refuse(r) ==
    /\ asked[r] # NoSubject
    /\ Reply(r, NoUser)
    /\ UNCHANGED owner

\* The administration links and unlinks subjects as well.
Assign(s, u) ==
    /\ owner[s] = NoUser /\ Free(u)
    /\ owner' = [owner EXCEPT ![s] = u]
    /\ UNCHANGED <<asked, answer>>

Withdraw(s) ==
    /\ owner[s] # NoUser
    /\ owner' = [owner EXCEPT ![s] = NoUser]
    /\ UNCHANGED <<asked, answer>>

Next ==
    \/ \E r \in Requests :
          \/ \E s \in Subjects :
                Ask(r, s) \/ \E u \in Users : Answer(r, s, u)
          \/ Refuse(r)
    \/ \E s \in Subjects : Withdraw(s) \/ \E u \in Users : Assign(s, u)

Spec == Init /\ [][Next]_vars
=============================================================================
