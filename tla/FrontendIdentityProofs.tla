----------------------- MODULE FrontendIdentityProofs -----------------------
(***************************************************************************)
(* Proofs about FrontendIdentity for any number of subjects, routes and    *)
(* changes.                                                                *)
(*                                                                         *)
(* A load that was renewed as another subject, and what it fetched, are    *)
(* about somebody the load was not started for.  Honest says that this is  *)
(* only so while the effect has still to run for the new session: until    *)
(* then the gate hides what was fetched, and then it is dropped.  Fetching *)
(* relates the loads to what they have fetched: there is either a load     *)
(* that counts or an answer to the last one that did.                      *)
(***************************************************************************)
EXTENDS FrontendIdentity, TLAPS

\* The session is another subject's than x, and the effect has still to run.
Superseded(x) == Pending /\ session.authenticated /\ session.subject # x

Honest ==
    /\ fetched.identity \notin {NoSubject, fetched.subject} => Superseded(fetched.subject)
    /\ \A l \in loads :
         ~l.cancelled /\ l.token \notin {NoSubject, l.subject} => Superseded(l.subject)

Fetching ==
    effect.session.authenticated =>
        IF \E l \in loads : ~l.cancelled THEN fetched.loading
        ELSE /\ ~fetched.loading /\ fetched.subject = effect.session.subject
             /\ fetched.identity # NoSubject \/ fetched.error

IInv == TypeOK /\ OneLoadCounts /\ Honest /\ Fetching

USE ConstantsAssumption DEF Sessions, LoggedOut, LoggedIn

-----------------------------------------------------------------------------
(* Loads keep their type.                                                  *)

LEMMA NewLoadType ==
    ASSUME NEW s \in Subjects
    PROVE  [subject |-> s, token |-> s, retried |-> FALSE, cancelled |-> FALSE] \in LoadStates
  BY DEF LoadStates

LEMMA LoadFields ==
    ASSUME NEW l \in LoadStates
    PROVE  /\ l.subject \in Subjects /\ l.token \in Subjects \cup {NoSubject}
           /\ l.retried \in BOOLEAN /\ l.cancelled \in BOOLEAN
  BY DEF LoadStates

LEMMA CancelType ==
    ASSUME NEW l \in LoadStates
    PROVE  /\ [l EXCEPT !.cancelled = TRUE] \in LoadStates
           /\ [l EXCEPT !.cancelled = TRUE].cancelled
  BY DEF LoadStates

LEMMA RetryType ==
    ASSUME NEW l \in LoadStates, NEW s \in Subjects \cup {NoSubject}
    PROVE  LET k == [l EXCEPT !.token = s, !.retried = TRUE] IN
           /\ k \in LoadStates /\ k.subject = l.subject /\ k.token = s
           /\ k.cancelled = l.cancelled
  BY DEF LoadStates

LEMMA InitInv == Init => IInv
<1> SUFFICES ASSUME Init PROVE IInv OBVIOUS
<1>1. TypeOK
  <2>1. LoggedOut \in Sessions /\ \A s \in Subjects : LoggedIn(s) \in Sessions OBVIOUS
  <2>2. /\ session \in Sessions
        /\ session.authenticated => session.subject # NoSubject
    <3>1. CASE session = LoggedOut BY <3>1
    <3>2. ASSUME NEW s \in Subjects, session = LoggedIn(s)
          PROVE  session \in Sessions /\ session.subject # NoSubject
      BY <2>1, <3>2
    <3> QED BY <3>1, <3>2, <2>1 DEF Init
  <2>3. effect \in [session : Sessions, route : Routes] BY <2>1 DEF Init
  <2>4. /\ fetched \in [identity : Subjects \cup {NoSubject},
                         subject : Subjects \cup {NoSubject},
                         error : BOOLEAN, loading : BOOLEAN]
        /\ loads \in SUBSET LoadStates
    BY DEF Init
  <2> QED BY <2>2, <2>3, <2>4 DEF Init, TypeOK
<1>2. OneLoadCounts BY DEF Init, OneLoadCounts
<1>3. Honest BY DEF Init, Honest
<1>4. Fetching BY DEF Init, Fetching
<1> QED BY <1>1, <1>2, <1>3, <1>4 DEF IInv

\* The session or the route changes; no effect was pending.
LEMMA ChangeStep ==
    ASSUME IInv, ~Pending,
           session' \in Sessions, session'.authenticated => session'.subject # NoSubject,
           route' \in Routes, changes' \in Nat,
           UNCHANGED <<effect, loads, fetched, selected>>
    PROVE  IInv'
<1>1. TypeOK' BY DEF IInv, TypeOK
<1>2. OneLoadCounts' BY DEF IInv, OneLoadCounts
<1>3. Honest' BY DEF IInv, Honest, Superseded
<1>4. Fetching' BY DEF IInv, Fetching
<1> QED BY <1>1, <1>2, <1>3, <1>4 DEF IInv

LEMMA SpendType == ASSUME IInv, Spend PROVE changes' \in Nat
  BY DEF IInv, TypeOK, Spend

LEMMA SessionStep ==
    ASSUME IInv, NEW to \in Sessions, to.authenticated => to.subject # NoSubject,
           ChangeSession(to)
    PROVE  IInv'
  BY ChangeStep, SpendType DEF ChangeSession, IInv, TypeOK

LEMMA LoginStep == ASSUME IInv, NEW s \in Subjects, Login(s) PROVE IInv'
  BY SessionStep DEF Login

LEMMA LogoutStep == ASSUME IInv, Logout PROVE IInv'
  BY SessionStep DEF Logout

LEMMA ExpireStep == ASSUME IInv, Expire PROVE IInv'
<1> DEFINE to == [session EXCEPT !.authenticated = FALSE]
<1>1. to \in Sessions /\ ~to.authenticated BY DEF IInv, TypeOK
<1> QED BY <1>1, SessionStep DEF Expire

LEMMA NavigateStep == ASSUME IInv, NEW to \in Routes, Navigate(to) PROVE IInv'
  BY ChangeStep, SpendType DEF Navigate, IInv, TypeOK

LEMMA SelectStep == ASSUME IInv, NEW t \in Tenants, SelectTenant(t) PROVE IInv'
<1>1. UNCHANGED <<session, route, effect, loads, fetched>> /\ selected' = t
  BY DEF SelectTenant
<1>2. TypeOK' BY <1>1, SpendType DEF SelectTenant, IInv, TypeOK
<1>3. OneLoadCounts' BY <1>1 DEF IInv, OneLoadCounts
<1>4. Honest' BY <1>1 DEF IInv, Honest, Superseded, Pending
<1>5. Fetching' BY <1>1 DEF IInv, Fetching
<1> QED BY <1>2, <1>3, <1>4, <1>5 DEF IInv

\* The loads after the effect: the earlier ones are cancelled, and there is
\* one for whoever is logged in.
LEMMA LoadsAfterEffect ==
    ASSUME IInv
    PROVE  \A l \in Loads :
             /\ l \in LoadStates
             /\ ~l.cancelled =>
                  /\ session.authenticated
                  /\ l = [subject |-> session.subject, token |-> session.subject,
                          retried |-> FALSE, cancelled |-> FALSE]
<1>1. \A l \in Cancelled : l \in LoadStates /\ l.cancelled
  <2> SUFFICES ASSUME NEW k \in loads
               PROVE  /\ [k EXCEPT !.cancelled = TRUE] \in LoadStates
                      /\ [k EXCEPT !.cancelled = TRUE].cancelled
    BY DEF Cancelled
  <2>1. k \in LoadStates BY DEF IInv, TypeOK
  <2> QED BY <2>1, CancelType
<1>2. session.authenticated => session.subject \in Subjects
  BY DEF IInv, TypeOK
<1> QED BY <1>1, <1>2, NewLoadType DEF Loads

LEMMA EffectStep == ASSUME IInv, RunEffect PROVE IInv'
<1>1. /\ loads' = Loads /\ effect' = [session |-> session, route |-> route]
      /\ UNCHANGED <<session, route, selected, changes>>
  BY DEF RunEffect
<1>2. /\ fetched' \in [identity : Subjects \cup {NoSubject}, subject : Subjects \cup {NoSubject},
                       error : BOOLEAN, loading : BOOLEAN]
      /\ session.authenticated => fetched'.identity = NoSubject
      /\ ~session.authenticated => fetched' = fetched
  BY DEF RunEffect, IInv, TypeOK
<1>3. TypeOK' BY <1>1, <1>2, LoadsAfterEffect DEF IInv, TypeOK
<1>4. OneLoadCounts'
  <2>1. \A l \in loads' :
          ~l.cancelled =>
             /\ l = [subject |-> session.subject, token |-> session.subject,
                     retried |-> FALSE, cancelled |-> FALSE]
             /\ l.subject = effect'.session.subject
    BY <1>1, LoadsAfterEffect
  <2> QED BY <2>1 DEF OneLoadCounts
<1>5. Honest'
  <2>1. fetched'.identity \in {NoSubject, fetched'.subject}
    BY <1>2 DEF IInv, Honest, Superseded
  <2>2. \A l \in loads' : ~l.cancelled => l.token = l.subject
    BY <1>1, LoadsAfterEffect
  <2> QED BY <2>1, <2>2 DEF Honest
<1>6. Fetching'
  <2> SUFFICES ASSUME session.authenticated
               PROVE  (\E l \in loads' : ~l.cancelled) /\ fetched'.loading
    BY <1>1 DEF Fetching
  <2>1. fetched'.loading BY DEF RunEffect, IInv, TypeOK
  <2>2. \E l \in Loads : ~l.cancelled
    <3> DEFINE new == [subject |-> session.subject, token |-> session.subject,
                       retried |-> FALSE, cancelled |-> FALSE]
    <3>1. new \in Loads BY DEF Loads
    <3>2. ~new.cancelled OBVIOUS
    <3> QED BY <3>1, <3>2
  <2> QED BY <1>1, <2>1, <2>2
<1> QED BY <1>3, <1>4, <1>5, <1>6 DEF IInv

\* A load ends, for whom its token was or for nobody.
LEMMA EndStep ==
    ASSUME IInv, NEW l \in loads, NEW x \in {l.token, NoSubject}, End(l, x),
           UNCHANGED <<session, route, effect, selected, changes>>
    PROVE  IInv'
<1>1. l \in LoadStates /\ loads' = loads \ {l} BY DEF IInv, TypeOK, End
<1>2. fetched' = IF l.cancelled THEN fetched
                 ELSE [identity |-> x, subject |-> l.subject,
                       error |-> x = NoSubject, loading |-> FALSE]
  BY DEF End
<1>3. TypeOK' BY <1>1, <1>2, LoadFields DEF IInv, TypeOK
<1>4. OneLoadCounts' BY <1>1 DEF IInv, OneLoadCounts
<1>5. \A y : Superseded(y)' <=> Superseded(y) BY DEF Superseded, Pending
<1>6. Honest' BY <1>1, <1>2, <1>5 DEF IInv, Honest
<1>7. Fetching'
  <2> USE DEF IInv, Fetching
  <2>1. CASE l.cancelled
    <3>1. (\E k \in loads' : ~k.cancelled) <=> (\E k \in loads : ~k.cancelled) BY <1>1, <2>1
    <3> QED BY <1>2, <2>1, <3>1
  <2>2. CASE ~l.cancelled
    <3>1. \A k \in loads' : k.cancelled BY <1>1, <2>2 DEF OneLoadCounts
    <3>2. l.subject = effect.session.subject BY <2>2 DEF OneLoadCounts
    <3> QED BY <1>2, <2>2, <3>1, <3>2
  <2> QED BY <2>1, <2>2
<1> QED BY <1>3, <1>4, <1>6, <1>7 DEF IInv

\* A load goes on with another token, in a session that is new.
LEMMA RetryStep ==
    ASSUME IInv, NEW l \in loads, ~Pending, NEW s \in Subjects \cup {NoSubject},
           loads' = (loads \ {l}) \cup {[l EXCEPT !.token = s, !.retried = TRUE]},
           session' = IF s = NoSubject THEN LoggedOut ELSE LoggedIn(s),
           route' \in Routes, changes' \in Nat,
           UNCHANGED <<effect, fetched, selected>>
    PROVE  IInv'
<1> DEFINE k == [l EXCEPT !.token = s, !.retried = TRUE]
<1>1. l \in LoadStates BY DEF IInv, TypeOK
<1>2. k \in LoadStates /\ k.subject = l.subject /\ k.token = s /\ k.cancelled = l.cancelled
  BY <1>1, RetryType
<1> HIDE DEF k
<1>3. loads' = (loads \ {l}) \cup {k} BY DEF k
<1>4. TypeOK' BY <1>2, <1>3 DEF IInv, TypeOK
<1>5. OneLoadCounts' BY <1>2, <1>3 DEF IInv, OneLoadCounts
<1>6. ASSUME ~k.cancelled, s \notin {NoSubject, k.subject} PROVE Superseded(k.subject)'
  <2>1. effect.session.subject = k.subject BY <1>2, <1>6 DEF IInv, OneLoadCounts
  <2>2. session' = [authenticated |-> TRUE, subject |-> s] BY <1>6
  <2> QED BY <2>1, <2>2, <1>6 DEF Superseded, Pending
<1>7. fetched.identity \in {NoSubject, fetched.subject}
      /\ \A j \in loads : ~j.cancelled => j.token \in {NoSubject, j.subject}
  BY DEF IInv, Honest, Superseded
<1>8. Honest' BY <1>2, <1>3, <1>6, <1>7 DEF Honest
<1>9. Fetching'
  <2>1. (\E j \in loads' : ~j.cancelled) <=> (\E j \in loads : ~j.cancelled) BY <1>2, <1>3
  <2> QED BY <2>1 DEF IInv, Fetching
<1> QED BY <1>4, <1>5, <1>8, <1>9 DEF IInv

LEMMA AnswerStep == ASSUME IInv, NEW l \in loads, Answer(l) PROVE IInv'
<1>1. CASE Succeed(l) BY <1>1, EndStep DEF Succeed
<1>2. CASE Fail(l) BY <1>2, EndStep DEF Fail
<1>3. ASSUME NEW s \in Subjects, Renew(l, s) PROVE IInv'
  <2>1. changes' \in Nat BY <1>3, SpendType DEF Renew, IInv, TypeOK
  <2>2. route' \in Routes BY <1>3 DEF Renew, IInv, TypeOK
  <2> QED BY <1>3, <2>1, <2>2, RetryStep DEF Renew
<1>4. ASSUME NEW to \in Routes, GiveUp(l, to) PROVE IInv'
  <2>1. changes' \in Nat BY <1>4 DEF GiveUp, IInv, TypeOK
  <2> QED BY <1>4, <2>1, RetryStep DEF GiveUp
<1> QED BY <1>1, <1>2, <1>3, <1>4 DEF Answer

LEMMA StutterStep == ASSUME IInv, UNCHANGED vars PROVE IInv'
  BY DEF IInv, TypeOK, OneLoadCounts, Honest, Fetching, Superseded, Pending, vars

LEMMA NextInv == IInv /\ [Next]_vars => IInv'
<1> SUFFICES ASSUME IInv, [Next]_vars PROVE IInv' OBVIOUS
<1>1. CASE UNCHANGED vars BY <1>1, StutterStep
<1>2. CASE Next
  BY <1>2, LoginStep, LogoutStep, ExpireStep, NavigateStep, SelectStep, EffectStep,
     AnswerStep DEF Next
<1> QED BY <1>1, <1>2

THEOREM Invariance == Spec => []IInv
  BY InitInv, NextInv, PTL DEF Spec

-----------------------------------------------------------------------------
(* The theorems.                                                           *)

\* Every reachable state is well typed (IdentityProvider and useApiClient).
THEOREM TypeCorrect == Spec => []TypeOK
<1>1. IInv => TypeOK BY DEF IInv
<1> QED BY <1>1, Invariance, PTL

\* The identity shown, and its tenant, are those of the subject that is logged
\* in, whatever loads are under way (the gate on fetchedSubject).
THEOREM IdentityIsOwn == Spec => []OwnIdentityOnly
<1>1. ASSUME IInv, Identity # NoSubject PROVE Identity = session.subject
  BY <1>1 DEF IInv, Honest, Superseded, Identity, CacheMatches
<1>2. ASSUME IInv, Identity # NoSubject PROVE CurrentTenants \subseteq Memberships[Identity]
  BY <1>2 DEF CurrentTenants, Memberships_
<1>3. IInv => OwnIdentityOnly BY <1>1, <1>2 DEF OwnIdentityOnly
<1> QED BY <1>3, Invariance, PTL

\* At most one load counts, and it is one for the session the effect last ran
\* for (the cancelled flag of the effect).
THEOREM OneLoadAlwaysCounts == Spec => []OneLoadCounts
<1>1. IInv => OneLoadCounts BY DEF IInv
<1> QED BY <1>1, Invariance, PTL

\* The page waits exactly while a load that counts is under way: no answer that
\* comes late, is cancelled or is an error leaves it waiting for nothing.
THEOREM AlwaysWaitsForItsLoad == Spec => []WaitsForItsLoad
<1>1. ASSUME IInv, session.authenticated, ~Pending
      PROVE  Loading <=> \E l \in loads : ~l.cancelled /\ l.subject = session.subject
  <2>1. effect.session = session BY <1>1 DEF Pending
  <2>2. \A l \in loads : ~l.cancelled => l.subject = session.subject
    BY <1>1, <2>1 DEF IInv, OneLoadCounts
  <2>3. (\E l \in loads : ~l.cancelled) <=> Loading
    BY <1>1, <2>1 DEF IInv, Fetching, Loading, Resolved, CacheMatches
  <2> QED BY <2>2, <2>3
<1>2. IInv => WaitsForItsLoad BY <1>1 DEF WaitsForItsLoad
<1> QED BY <1>2, Invariance, PTL
=============================================================================
