-------------------------- MODULE FrontendIdentity --------------------------
(***************************************************************************)
(* The identity the single page application shows: IdentityProvider loads  *)
(* it for the subject that is logged in, useApiClient renews the token on  *)
(* a 401 and tries once more.  Subjects log in, expire and change in the   *)
(* same tab while loads of earlier ones are still under way.               *)
(*                                                                         *)
(* A change of state is rendered at once, what is shown being a function   *)
(* of it; effects run later, but before the session or the route change    *)
(* again (React runs them before it renders anew).  useNavigate gives a    *)
(* new function on every route, so the effect depends on the route too.    *)
(***************************************************************************)
EXTENDS Naturals, FiniteSets

CONSTANTS
    Subjects, Tenants, Routes,
    Memberships,    \* Memberships[s]: tenants of subject s
    NoSubject, NoTenant,
    MaxChanges      \* bound: changes of the session, the route, the tenant

ASSUME ConstantsAssumption ==
    /\ NoSubject \notin Subjects /\ NoTenant \notin Tenants
    /\ Memberships \in [Subjects -> SUBSET Tenants]
    /\ MaxChanges \in Nat

VARIABLES
    session,    \* auth.isAuthenticated, and auth.user.profile.sub
    route,
    effect,     \* session and route the effect last ran for
    loads,      \* loadIdentity calls under way
    fetched,    \* fetchedIdentity, fetchedSubject, fetchError, fetchLoading
    selected,   \* selectedTenantId
    changes

vars == <<session, route, effect, loads, fetched, selected, changes>>

Sessions == [authenticated : BOOLEAN, subject : Subjects \cup {NoSubject}]
LoggedOut == [authenticated |-> FALSE, subject |-> NoSubject]
LoggedIn(s) == [authenticated |-> TRUE, subject |-> s]

\* "subject" is the one the load was started for, "token" whose token it sent
\* (none once it was refused for good).
LoadStates == [subject : Subjects, token : Subjects \cup {NoSubject}, retried : BOOLEAN, cancelled : BOOLEAN]

TypeOK ==
    /\ session \in Sessions
    /\ session.authenticated => session.subject # NoSubject
    /\ route \in Routes
    /\ effect \in [session : Sessions, route : Routes]
    /\ loads \in SUBSET LoadStates
    /\ fetched \in [identity : Subjects \cup {NoSubject}, subject : Subjects \cup {NoSubject},
                    error : BOOLEAN, loading : BOOLEAN]
    /\ selected \in Tenants \cup {NoTenant}
    /\ changes \in Nat

-----------------------------------------------------------------------------
(* What is rendered.                                                       *)

\* Mutant of CacheMatches: what was fetched is shown to whoever is logged in.
CacheMatchesAlways == TRUE

CacheMatches == fetched.subject = session.subject

Identity == IF session.authenticated /\ CacheMatches THEN fetched.identity ELSE NoSubject
Failed == session.authenticated /\ CacheMatches /\ fetched.error

\* Mutant of Resolved: only an identity ends the waiting.
ResolvedByIdentity == CacheMatches /\ fetched.identity # NoSubject

Resolved == CacheMatches /\ (fetched.identity # NoSubject \/ fetched.error)
Loading == session.authenticated /\ (fetched.loading \/ ~Resolved)

\* The stored selection while it is a membership, or the first membership.
Memberships_ == IF Identity = NoSubject THEN {} ELSE Memberships[Identity]
CurrentTenants == IF selected \in Memberships_ THEN {selected} ELSE Memberships_

Init ==
    /\ session \in {LoggedOut} \cup {LoggedIn(s) : s \in Subjects}
    /\ route \in Routes
    /\ effect = [session |-> LoggedOut, route |-> route]
    /\ loads = {}
    /\ fetched = [identity |-> NoSubject, subject |-> NoSubject, error |-> FALSE,
                  loading |-> FALSE]
    /\ selected \in Tenants \cup {NoTenant}
    /\ changes = 0

-----------------------------------------------------------------------------
Pending == effect # [session |-> session, route |-> route]
Spend == changes < MaxChanges /\ changes' = changes + 1

\* Logged in or out, expired, renewed by the timer, as the same or another.
ChangeSession(to) ==
    /\ ~Pending /\ to # session
    /\ session' = to
    /\ Spend
    /\ UNCHANGED <<route, effect, loads, fetched, selected>>

Login(s) == ChangeSession(LoggedIn(s))
Logout == ChangeSession(LoggedOut)
Expire == session.authenticated /\ ChangeSession([session EXCEPT !.authenticated = FALSE])

Navigate(to) ==
    /\ ~Pending /\ to # route
    /\ route' = to
    /\ Spend
    /\ UNCHANGED <<session, effect, loads, fetched, selected>>

SelectTenant(t) ==
    /\ t \in Memberships_ /\ t # selected
    /\ selected' = t
    /\ Spend
    /\ UNCHANGED <<session, route, effect, loads, fetched>>

\* Mutant of Cancelled: the loads of earlier effects go on.
CancelledNone == loads

Cancelled == {[l EXCEPT !.cancelled = TRUE] : l \in loads}

\* Mutant of Loads: a load is begun though nobody is logged in.
LoadsAlways ==
    Cancelled \cup {[subject |-> session.subject, token |-> session.subject,
                     retried |-> FALSE, cancelled |-> FALSE]}

\* Mutant of Loads: what was fetched for the subject before is thought to do.
LoadsUnlessFetched ==
    IF session.authenticated /\ ~CacheMatches
    THEN Cancelled \cup {[subject |-> session.subject, token |-> session.subject,
                          retried |-> FALSE, cancelled |-> FALSE]}
    ELSE Cancelled

\* The loads there are once the effect has been cleaned up and run.
Loads ==
    IF session.authenticated
    THEN Cancelled \cup {[subject |-> session.subject, token |-> session.subject,
                          retried |-> FALSE, cancelled |-> FALSE]}
    ELSE Cancelled

RunEffect ==
    /\ Pending
    /\ loads' = Loads
    /\ fetched' = IF session.authenticated
                  THEN [fetched EXCEPT !.identity = NoSubject, !.error = FALSE, !.loading = TRUE]
                  ELSE fetched
    /\ effect' = [session |-> session, route |-> route]
    /\ UNCHANGED <<session, route, selected, changes>>

-----------------------------------------------------------------------------
(* loadIdentity and apiFetch.                                              *)

\* The load ends: its answer counts unless it was cancelled.
End(l, identity) ==
    /\ loads' = loads \ {l}
    /\ fetched' = IF l.cancelled THEN fetched
                  ELSE [identity |-> identity, subject |-> l.subject,
                        error |-> identity = NoSubject, loading |-> FALSE]

Succeed(l) ==
    /\ l.token # NoSubject
    /\ End(l, l.token)
    /\ UNCHANGED <<session, route, effect, selected, changes>>

\* Another status, no connection, or a second 401.
Fail(l) == End(l, NoSubject) /\ UNCHANGED <<session, route, effect, selected, changes>>

\* 401: signinSilent logs in whoever the provider knows, who may be another
\* (counted as a change of the session then).
Renew(l, s) ==
    /\ ~l.retried /\ ~Pending
    /\ session' = LoggedIn(s)
    /\ IF s = session.subject THEN UNCHANGED changes ELSE Spend
    /\ loads' = (loads \ {l}) \cup {[l EXCEPT !.token = s, !.retried = TRUE]}
    /\ UNCHANGED <<route, effect, fetched, selected>>

\* 401 and no renewal: whoever is logged in now is logged out; the load has
\* still to fail.
GiveUp(l, to) ==
    /\ ~l.retried /\ ~Pending
    /\ session' = LoggedOut
    /\ route' = to
    /\ loads' = (loads \ {l}) \cup {[l EXCEPT !.token = NoSubject, !.retried = TRUE]}
    /\ UNCHANGED <<effect, fetched, selected, changes>>

Answer(l) == Succeed(l) \/ Fail(l) \/ (\E s \in Subjects : Renew(l, s))
             \/ (\E to \in Routes : GiveUp(l, to))

Next ==
    \/ \E s \in Subjects : Login(s)
    \/ Logout \/ Expire
    \/ \E to \in Routes : Navigate(to)
    \/ \E t \in Tenants : SelectTenant(t)
    \/ RunEffect
    \/ \E l \in loads : Answer(l)

Spec == Init /\ [][Next]_vars

\* Effects run, and each request is answered or fails.
Fairness ==
    /\ WF_vars(RunEffect)
    /\ \A l \in LoadStates : WF_vars(l \in loads /\ Answer(l))
FairSpec == Spec /\ Fairness

-----------------------------------------------------------------------------
(* Properties.                                                             *)

\* The identity shown, and the tenant with it, are those of the subject that
\* is logged in, though answers to earlier ones may arrive at any time (the
\* gate on fetchedSubject in IdentityProvider).
OwnIdentityOnly ==
    Identity # NoSubject =>
        /\ Identity = session.subject
        /\ CurrentTenants \subseteq Memberships[session.subject]

\* At most one load can still decide what is shown, and once the effect has
\* run it is one for the subject that is logged in (the cancelled flag).
OneLoadCounts ==
    /\ \A l, k \in loads : ~l.cancelled /\ ~k.cancelled => l = k
    /\ \A l \in loads : ~l.cancelled => l.subject = effect.session.subject

\* Once the effect has run for whoever is logged in, the page waits exactly
\* while a load that counts is under way for this subject: it neither waits for
\* an answer that nobody has asked for, as after a load that was cancelled or
\* that failed, nor shows what the load will replace (fetchLoading, the gate on
\* fetchedSubject and the cancelled flag together).
WaitsForItsLoad ==
    session.authenticated /\ ~Pending =>
        (Loading <=> \E l \in loads : ~l.cancelled /\ l.subject = session.subject)

\* Whoever is logged in does not wait for ever: the identity comes, or an
\* error, whatever earlier loads still answer.
LoadingEnds == Loading ~> ~Loading
=============================================================================
