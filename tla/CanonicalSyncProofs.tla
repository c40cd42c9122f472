------------------------ MODULE CanonicalSyncProofs ------------------------
(***************************************************************************)
(* Proofs about CanonicalSync for any number of users, accounts, requests  *)
(* and events.                                                             *)
(*                                                                         *)
(* The inductive invariant says what each flow knows of the others.        *)
(* Formed, Fresh, Rooted and Tied are what a request holds on to between   *)
(* its read and its write, or its write and its push; Snapshot is what a   *)
(* reconciliation may still rely on of what it fetched and loaded;         *)
(* Addressed keeps the logins of live accounts apart, as OneIdentity does  *)
(* the rows.  Caused sharpens DriftHasCause: the push that excuses a drift *)
(* is of what the row holds.  Offboarded sharpens ZombieHasCause to        *)
(* deleted accounts without a link, which may be linked later, and Aware   *)
(* says that whoever found the user inactive hears of a reinstatement.     *)
(***************************************************************************)
EXTENDS CanonicalSync, TLAPS

\* A pending push, or a remove that has still to store, rests on its row.
Relies(q) == q.phase = "push" \/ (q.phase = "store" /\ q.op = "remove")
Stores(q) == q.phase = "store"

\* What each operation was begun with.
Formed(q) ==
    /\ q \in RequestStates
    /\ Relies(q) => q.user \in Users
    /\ q.op = "offboard" =>
         /\ Stores(q) /\ q.sub \in Subjects
         /\ q.want.email = q.seen.email /\ q.want.status = "inactive"
    /\ Stores(q) /\ q.op # "remove" => ~q.overtaken /\ q.want.email \in Emails
    /\ Stores(q) /\ q.op = "link" => q.sub \in Subjects
    /\ Stores(q) /\ q.op \in {"update", "inbound", "offboard"} => q.user \in Users
    /\ Stores(q) /\ q.op = "update" => q.want.status \in {q.seen.status, "active", "inactive"}
    /\ Stores(q) /\ q.op = "inbound" => q.want.status = q.seen.status

Fresh(q) ==
    Relies(q) /\ ~q.overtaken => /\ email[q.user] = q.seen.email
                                 /\ status[q.user] = q.seen.status
Rooted(q) ==
    /\ Relies(q) => Exists(q.user)
    /\ Stores(q) /\ q.op \in {"update", "inbound", "offboard"} => Exists(q.user)
    /\ Stores(q) /\ q.op = "link" /\ q.user # NoUser => Exists(q.user)
Tied(q) == q.op = "offboard" => link[q.sub] = q.user /\ account[q.sub] = "deleted"

RequestsFit ==
    \A r \in Requests : /\ Formed(req[r]) /\ Fresh(req[r])
                        /\ Rooted(req[r]) /\ Tied(req[r])

Addressed ==
    /\ \A s \in Subjects : Live(s) => address[s] \in Emails
    /\ \A s, t \in Subjects : Live(s) /\ Live(t) /\ address[s] = address[t] => s = t

Truthful == \A h \in hooks : h.verb = "deleted" => account[h.sub] = "deleted"

Snapshot ==
    /\ recon.phase # "idle" =>
         /\ \A s \in Subjects : Fetched(s) => recon.address[s] \in Emails
         /\ \A s, t \in Subjects :
              Fetched(s) /\ Fetched(t) /\ recon.address[s] = recon.address[t] => s = t
         /\ \A s \in Subjects \ recon.stale :
              recon.account[s] = account[s] /\ recon.address[s] = address[s]
    /\ recon.phase = "loaded" =>
         /\ \A u \in Users \ recon.moved : recon.rows[u] = Row(u)
         /\ \A u \in Users : recon.rows[u].email # NoEmail => Exists(u)
         /\ \A u, v \in Users :
              recon.rows[u].email # NoEmail /\ recon.rows[u].email = recon.rows[v].email => u = v

\* What the row of u holds is about to be pushed.
Awaiting(u) ==
    \E r \in Requests : req[r].phase = "push" /\ req[r].user = u /\ ~req[r].overtaken
Caused == \A u \in Users : Drifts(u) => cause[u] # "none" \/ Awaiting(u)

Down(s) == link[s] # NoUser /\ status[link[s]] = "inactive"
Offboarded ==
    \A s \in Subjects :
        account[s] = "deleted" => Offboarding(s) \/ s \in overruled \/ Down(s)
Aware ==
    \A r \in Requests :
        req[r].op = "offboard" /\ req[r].seen.status = "inactive"
        => Down(req[r].sub) \/ req[r].sub \in overruled

IInv ==
    /\ TypeOK /\ OneIdentity /\ Addressed /\ Truthful /\ Snapshot
    /\ RequestsFit /\ Caused /\ Offboarded /\ Aware

-----------------------------------------------------------------------------
(* What the steps have in common.                                          *)

\* Users, links and deletions are for ever.
Grows ==
    /\ \A u \in Users : Exists(u) => Exists(u)'
    /\ \A s \in Subjects : link[s] # NoUser => link'[s] = link[s]
    /\ \A s \in Subjects : account[s] = "deleted" => account'[s] = "deleted"

OnlyRows(U) == \A u \in Users \ U : email'[u] = email[u] /\ status'[u] = status[u]

\* Who was offboarded is, unless somebody has overruled it.
Heard ==
    \A s \in Subjects :
        account[s] = "deleted" /\ (s \in overruled \/ Down(s)) => s \in overruled' \/ Down(s)'

USE ConstantsAssumption

LEMMA RowType ==
    ASSUME TypeOK, NEW u \in Users
    PROVE  Row(u) \in Rows /\ Row(u).email = email[u] /\ Row(u).status = status[u]
  BY DEF TypeOK, Row, Rows

LEMMA RequestType ==
    ASSUME NEW q \in RequestStates
    PROVE  /\ q.op \in Operations /\ q.phase \in {"idle", "store", "push"}
           /\ q.user \in Users \cup {NoUser} /\ q.sub \in Subjects \cup {NoSubject}
           /\ q.seen \in Rows /\ q.want \in Rows /\ q.overtaken \in BOOLEAN
           /\ q.seen.email \in Emails \cup {NoEmail} /\ q.seen.status \in Statuses
           /\ q.want.email \in Emails \cup {NoEmail} /\ q.want.status \in Statuses
  BY DEF RequestStates, Rows

LEMMA IdleFits ==
    /\ Formed(Idle) /\ ~Relies(Idle) /\ ~Stores(Idle) /\ Idle.op = "update"
    /\ Idle.phase = "idle" /\ Idle.user = NoUser /\ Idle.overtaken = FALSE
  BY DEF Formed, Relies, Stores, Idle, NoRow, RequestStates, Rows, Operations, Statuses

\* A request that others overtake keeps all but its freshness.
LEMMA OvertakenFits ==
    ASSUME NEW q, Formed(q), Relies(q)
    PROVE  LET k == [q EXCEPT !.overtaken = TRUE] IN
           /\ Formed(k) /\ Relies(k) /\ k.overtaken = TRUE
           /\ k.op = q.op /\ k.phase = q.phase /\ k.user = q.user /\ k.sub = q.sub
           /\ k.seen = q.seen /\ k.want = q.want
<1> DEFINE k == [q EXCEPT !.overtaken = TRUE]
<1>1. q \in RequestStates BY DEF Formed
<1>2. /\ k \in RequestStates /\ k.overtaken = TRUE
      /\ k.op = q.op /\ k.phase = q.phase /\ k.user = q.user /\ k.sub = q.sub
      /\ k.seen = q.seen /\ k.want = q.want
  BY <1>1 DEF RequestStates
<1> HIDE DEF k
<1>3. Formed(k) /\ Relies(k) BY <1>2 DEF Formed, Relies, Stores
<1> QED BY <1>2, <1>3 DEF k

\* What becomes of a request when the rows of U change.
Struck(p, U) == IF Overtaken(p, U) THEN [req[p] EXCEPT !.overtaken = TRUE] ELSE req[p]

LEMMA StruckFits ==
    ASSUME RequestsFit, NEW p \in Requests, NEW U
    PROVE  /\ Formed(Struck(p, U))
           /\ Struck(p, U).op = req[p].op /\ Struck(p, U).phase = req[p].phase
           /\ Struck(p, U).user = req[p].user /\ Struck(p, U).sub = req[p].sub
           /\ Struck(p, U).seen = req[p].seen /\ Struck(p, U).want = req[p].want
           /\ req[p].user \notin U => Struck(p, U) = req[p]
           /\ Relies(req[p]) /\ req[p].user \in U => Struck(p, U).overtaken = TRUE
           /\ Relies(Struck(p, U)) <=> Relies(req[p])
           /\ Stores(Struck(p, U)) <=> Stores(req[p])
<1>1. Formed(req[p]) BY DEF RequestsFit
<1>2. CASE Overtaken(p, U)
  <2>1. Relies(req[p]) /\ req[p].user \in U BY <1>2 DEF Overtaken, Relies
  <2>2. Struck(p, U) = [req[p] EXCEPT !.overtaken = TRUE] BY <1>2 DEF Struck
  <2> QED BY <2>1, <2>2, <1>1, OvertakenFits DEF Relies, Stores
<1>3. CASE ~Overtaken(p, U)
  <2>1. Struck(p, U) = req[p] BY <1>3 DEF Struck
  <2>2. ~(Relies(req[p]) /\ req[p].user \in U) BY <1>3 DEF Overtaken, Relies
  <2> QED BY <2>1, <2>2, <1>1
<1> QED BY <1>2, <1>3

\* The requests that only notice what happens still fit.
LEMMA OthersFit ==
    ASSUME IInv, Grows, NEW U, OnlyRows(U),
           NEW p \in Requests, req'[p] = Struck(p, U)
    PROVE  /\ Formed(req'[p]) /\ Fresh(req[p])' /\ Rooted(req[p])' /\ Tied(req[p])'
<1>1. RequestsFit /\ TypeOK BY DEF IInv
<1>2. Formed(req'[p]) BY <1>1, StruckFits
<1>3. Fresh(req[p])'
  <2> SUFFICES ASSUME Relies(req'[p]), ~req'[p].overtaken
               PROVE  /\ email'[req'[p].user] = req'[p].seen.email
                      /\ status'[req'[p].user] = req'[p].seen.status
    BY DEF Fresh, Relies
  <2>1. Relies(req[p]) /\ req[p].user \notin U /\ req'[p] = req[p] BY <1>1, StruckFits
  <2>2. req[p].user \in Users BY <1>1, <2>1 DEF RequestsFit, Formed
  <2> QED BY <1>1, <2>1, <2>2 DEF RequestsFit, Fresh, OnlyRows
<1>4. /\ req'[p].op = req[p].op /\ req'[p].phase = req[p].phase
      /\ req'[p].user = req[p].user /\ req'[p].sub = req[p].sub
  <2>1. /\ Struck(p, U).op = req[p].op /\ Struck(p, U).phase = req[p].phase
        /\ Struck(p, U).user = req[p].user /\ Struck(p, U).sub = req[p].sub
    BY <1>1, StruckFits
  <2> QED BY <2>1
<1>5. Formed(req[p]) /\ Rooted(req[p]) /\ Tied(req[p]) BY <1>1 DEF RequestsFit
<1>6. Rooted(req[p])'
  <2>1. Exists(req[p].user) /\ req[p].user \in Users => email'[req'[p].user] # NoEmail
    BY <1>4 DEF Grows, Exists
  <2>2. req[p].user \in Users \cup {NoUser} BY <1>5, RequestType DEF Formed
  <2> QED BY <1>4, <1>5, <2>1, <2>2 DEF Rooted, Relies, Stores, Formed, Exists
<1>7. Tied(req[p])' 
  BY <1>1, <1>4, <1>5 DEF Tied, Formed, Grows, Rooted, Stores
<1> QED BY <1>2, <1>3, <1>6, <1>7

LEMMA BecomeIs ==
    ASSUME TypeOK, NEW r \in Requests, NEW q, NEW U, Become(r, q, U)
    PROVE  /\ req'[r] = q
           /\ \A p \in Requests \ {r} : req'[p] = Struck(p, U)
           /\ req' = [p \in Requests |-> req'[p]]
  BY DEF Become, Struck

LEMMA BecomeFits ==
    ASSUME IInv, Grows, NEW U, OnlyRows(U), NEW r \in Requests, NEW q, Become(r, q, U),
           Formed(q), Fresh(req[r])', Rooted(req[r])', Tied(req[r])'
    PROVE  RequestsFit' /\ req' \in [Requests -> RequestStates]
<1>1. /\ req'[r] = q
      /\ \A p \in Requests \ {r} : req'[p] = Struck(p, U)
      /\ req' = [p \in Requests |-> req'[p]]
  BY BecomeIs DEF IInv
<1>2. \A p \in Requests : /\ Formed(req'[p]) /\ Fresh(req[p])'
                          /\ Rooted(req[p])' /\ Tied(req[p])'
  <2> SUFFICES ASSUME NEW p \in Requests, p # r
               PROVE  /\ Formed(req'[p]) /\ Fresh(req[p])'
                      /\ Rooted(req[p])' /\ Tied(req[p])'
    BY <1>1
  <2>1. req'[p] = Struck(p, U) BY <1>1
  <2> QED BY <2>1, OthersFit
<1>3. \A p \in Requests : req'[p] \in RequestStates BY <1>2 DEF Formed
<1> QED BY <1>1, <1>2, <1>3 DEF RequestsFit

\* A request that is over fits.
LEMMA FinishFits ==
    ASSUME IInv, Grows, NEW U, OnlyRows(U), NEW r \in Requests, Become(r, Idle, U)
    PROVE  /\ RequestsFit' /\ req' \in [Requests -> RequestStates]
           /\ req'[r] = Idle
<1>1. req'[r] = Idle BY BecomeIs DEF IInv
<1>2. Fresh(req[r])' /\ Rooted(req[r])' /\ Tied(req[r])'
  BY <1>1, IdleFits DEF Fresh, Rooted, Tied, Relies, Stores
<1> QED BY <1>1, <1>2, IdleFits, BecomeFits

LEMMA AwaitingKept ==
    ASSUME IInv, NEW U, NEW r \in Requests, NEW q, Become(r, q, U),
           NEW u \in Users \ U, Awaiting(u),
           req[r].phase = "push" => req[r].user # u \/ req[r].overtaken
    PROVE  Awaiting(u)'
<1>1. PICK p \in Requests :
        req[p].phase = "push" /\ req[p].user = u /\ ~req[p].overtaken
  BY DEF Awaiting
<1>2. p # r BY <1>1
<1>3. req'[p] = Struck(p, U) BY <1>2, BecomeIs DEF IInv
<1>4. Struck(p, U) = req[p] BY <1>1, StruckFits DEF IInv
<1> QED BY <1>1, <1>3, <1>4 DEF Awaiting

LEMMA DriftsKept ==
    ASSUME UNCHANGED descope, NEW u \in Users,
           email'[u] = email[u], status'[u] = status[u]
    PROVE  Drifts(u)' <=> Drifts(u)
  BY DEF descope, Drifts, Exists, Live

LEMMA BlameType ==
    ASSUME NEW why \in Causes, NEW U, Blame(why, U), TypeOK
    PROVE  cause' \in [Users -> Causes]
<1>1. "none" \in Causes BY DEF Causes
<1> QED BY <1>1 DEF Blame, TypeOK

\* Drifts that are not blamed on a step were there before, with their cause.
LEMMA CausedStep ==
    ASSUME IInv, NEW U, NEW why, Blame(why, U), U # {} => why # "none",
           \A u \in Users : Drifts(u)' => \/ u \in U \/ Awaiting(u)'
                                          \/ Drifts(u) /\ (Awaiting(u) => Awaiting(u)')
    PROVE  Caused'
<1> SUFFICES ASSUME NEW u \in Users, Drifts(u)', ~Awaiting(u)'
             PROVE  cause'[u] # "none"
  BY DEF Caused
<1>1. cause'[u] = IF u \in U THEN why ELSE cause[u] BY DEF Blame
<1>2. CASE u \in U BY <1>1, <1>2
<1>3. CASE u \notin U
  <2>1. Drifts(u) /\ ~Awaiting(u) BY <1>3
  <2>2. cause[u] # "none" BY <2>1 DEF IInv, Caused
  <2> QED BY <2>2, <1>1, <1>3
<1> QED BY <1>2, <1>3

-----------------------------------------------------------------------------
(* The reconciliation's snapshot, and what is known of deleted accounts.   *)

LEMMA SnapshotSame ==
    ASSUME Snapshot, UNCHANGED <<store, descope, recon>>
    PROVE  Snapshot'
  BY DEF Snapshot, store, descope, Fetched, Row, Exists

LEMMA SnapshotRows ==
    ASSUME IInv, Grows, NEW U \in SUBSET Users, OnlyRows(U), RowsMoved(U), UNCHANGED descope
    PROVE  Snapshot' /\ recon' \in ReconStates
<1>1. recon \in ReconStates BY DEF IInv, TypeOK
<1>2. CASE recon.phase # "loaded"
  <2>1. recon' = recon BY <1>2 DEF RowsMoved
  <2> QED BY <1>1, <1>2, <2>1 DEF IInv, Snapshot, descope, Fetched
<1>3. CASE recon.phase = "loaded"
  <2>1. recon' = [recon EXCEPT !.moved = @ \cup U] BY <1>3 DEF RowsMoved
  <2>2. /\ recon' \in ReconStates
        /\ recon'.phase = recon.phase /\ recon'.account = recon.account
        /\ recon'.address = recon.address /\ recon'.rows = recon.rows
        /\ recon'.stale = recon.stale /\ recon'.moved = recon.moved \cup U
    BY <1>1, <2>1 DEF ReconStates
  <2>3. \A u \in Users \ recon'.moved : recon'.rows[u] = Row(u)'
    BY <1>3, <2>2 DEF IInv, Snapshot, OnlyRows, Row
  <2>4. \A u \in Users : recon'.rows[u].email # NoEmail => Exists(u)'
    BY <1>3, <2>2 DEF IInv, Snapshot, Grows
  <2> QED BY <1>3, <2>2, <2>3, <2>4 DEF IInv, Snapshot, descope, Fetched
<1> QED BY <1>2, <1>3

LEMMA SnapshotAccount ==
    ASSUME IInv, NEW s \in Subjects, AccountMoved(s), UNCHANGED store,
           \A t \in Subjects \ {s} : account'[t] = account[t] /\ address'[t] = address[t]
    PROVE  Snapshot' /\ recon' \in ReconStates
<1>1. recon \in ReconStates BY DEF IInv, TypeOK
<1>2. CASE recon.phase = "idle"
  <2>1. recon' = recon BY <1>2 DEF AccountMoved
  <2> QED BY <1>1, <1>2, <2>1 DEF Snapshot
<1>3. CASE recon.phase # "idle"
  <2>1. recon' = [recon EXCEPT !.stale = @ \cup {s}] BY <1>3 DEF AccountMoved
  <2>2. /\ recon' \in ReconStates
        /\ recon'.phase = recon.phase /\ recon'.account = recon.account
        /\ recon'.address = recon.address /\ recon'.rows = recon.rows
        /\ recon'.stale = recon.stale \cup {s} /\ recon'.moved = recon.moved
    BY <1>1, <2>1 DEF ReconStates
  <2>3. \A t \in Subjects \ recon'.stale :
          recon'.account[t] = account'[t] /\ recon'.address[t] = address'[t]
    BY <1>3, <2>2 DEF IInv, Snapshot
  <2>4. recon'.phase = "loaded" =>
          /\ \A u \in Users \ recon'.moved : recon'.rows[u] = Row(u)'
          /\ \A u \in Users : recon'.rows[u].email # NoEmail => Exists(u)'
    BY <2>2 DEF IInv, Snapshot, store, Row, Exists
  <2> QED BY <1>3, <2>2, <2>3, <2>4 DEF IInv, Snapshot, Fetched
<1> QED BY <1>2, <1>3

LEMMA HeardSame ==
    ASSUME IInv, Grows, UNCHANGED overruled, \A u \in Users : Exists(u) => status'[u] = status[u]
    PROVE  Heard
<1>1. \A s \in Subjects : link[s] # NoUser => link[s] \in Users /\ Exists(link[s])
  BY DEF IInv, OneIdentity, TypeOK
<1> QED BY <1>1 DEF Heard, Down, Grows

LEMMA HeardOverrule ==
    ASSUME IInv, Grows, NEW done, NEW lost, Overrule(done, lost),
           \A s \in done : account[s] = "deleted" => Down(s)'
    PROVE  Heard
<1> SUFFICES ASSUME NEW s \in Subjects, account[s] = "deleted", s \in overruled \/ Down(s)
             PROVE  s \in overruled' \/ Down(s)'
  BY DEF Heard
<1>1. overruled' = (overruled \ done) \cup lost
                   \cup {t \in Subjects : account[t] = "deleted" /\ link[t] \in Reinstated}
  BY DEF Overrule
<1>2. CASE s \in overruled BY <1>1, <1>2
<1>3. CASE Down(s)
  <2>1. link[s] \in Users /\ link'[s] = link[s] /\ link[s] # NoUser
        /\ status[link[s]] = "inactive"
    BY <1>3 DEF Down, Grows, IInv, TypeOK
  <2>2. CASE link[s] \in Reinstated BY <1>1, <2>2
  <2>3. CASE link[s] \notin Reinstated BY <2>1, <2>3 DEF Reinstated, Down
  <2> QED BY <2>2, <2>3
<1> QED BY <1>2, <1>3

LEMMA OverruleType ==
    ASSUME TypeOK, NEW done, NEW lost \in SUBSET Subjects, Overrule(done, lost)
    PROVE  overruled' \in SUBSET Subjects
  BY DEF TypeOK, Overrule

LEMMA OffboardedStep ==
    ASSUME IInv, Grows, Heard,
           \A s \in Subjects : account'[s] = "deleted" =>
               \/ Offboarding(s)'
               \/ account[s] = "deleted" /\ (Offboarding(s) => s \in overruled' \/ Down(s)')
    PROVE  Offboarded'
<1> SUFFICES ASSUME NEW s \in Subjects, account'[s] = "deleted"
             PROVE  Offboarding(s)' \/ s \in overruled' \/ Down(s)'
  BY DEF Offboarded
<1>1. CASE Offboarding(s)' BY <1>1
<1>2. CASE account[s] = "deleted" /\ (Offboarding(s) => s \in overruled' \/ Down(s)')
  BY <1>2 DEF IInv, Offboarded, Heard
<1> QED BY <1>1, <1>2

LEMMA OffboardingKept ==
    ASSUME IInv, NEW U, NEW r \in Requests, NEW q, Become(r, q, U),
           NEW s \in Subjects, Offboarding(s),
           req[r].op = "offboard" => req[r].sub # s,
           \A h \in hooks : h.verb = "deleted" /\ h.sub = s => h \in hooks'
    PROVE  Offboarding(s)'
<1>1. CASE \E h \in hooks : h.verb = "deleted" /\ h.sub = s BY <1>1 DEF Offboarding
<1>2. ASSUME NEW p \in Requests, req[p].op = "offboard", req[p].sub = s
      PROVE  Offboarding(s)'
  <2>1. req'[p] = Struck(p, U) BY <1>2, BecomeIs DEF IInv
  <2>2. Struck(p, U).op = "offboard" /\ Struck(p, U).sub = s BY <1>2, StruckFits DEF IInv
  <2> QED BY <2>1, <2>2 DEF Offboarding
<1> QED BY <1>1, <1>2 DEF Offboarding

LEMMA AwareStep ==
    ASSUME IInv, Grows, Heard, NEW U, NEW r \in Requests, NEW q, Become(r, q, U),
           q.op = "offboard" /\ q.seen.status = "inactive"
               => Down(q.sub)' \/ q.sub \in overruled'
    PROVE  Aware'
<1>1. req'[r] = q BY BecomeIs DEF IInv
<1>2. ASSUME NEW p \in Requests, p # r, req'[p].op = "offboard",
             req'[p].seen.status = "inactive"
      PROVE  Down(req[p].sub)' \/ req'[p].sub \in overruled'
  <2>1. req'[p] = Struck(p, U) BY <1>2, BecomeIs DEF IInv
  <2>2. /\ Struck(p, U).op = req[p].op /\ Struck(p, U).sub = req[p].sub
        /\ Struck(p, U).seen = req[p].seen
    BY StruckFits DEF IInv
  <2>3. /\ req[p].op = "offboard" /\ req[p].seen.status = "inactive"
        /\ req'[p].sub = req[p].sub
    BY <1>2, <2>1, <2>2
  <2>4. Formed(req[p]) /\ Tied(req[p]) BY DEF IInv, RequestsFit
  <2>5. req[p].sub \in Subjects /\ account[req[p].sub] = "deleted"
    BY <2>3, <2>4 DEF Formed, Tied
  <2>6. req[p].sub \in overruled \/ Down(req[p].sub) BY <2>3 DEF IInv, Aware
  <2> QED BY <2>3, <2>5, <2>6 DEF Heard, Down
<1>3. Down(q.sub)' => Down(req[r].sub)' BY <1>1 DEF Down
<1> QED BY <1>1, <1>2, <1>3 DEF Aware

-----------------------------------------------------------------------------
(* Steps that change neither rows nor accounts.                            *)

Still == UNCHANGED <<store, descope>>

LEMMA StillGrows == ASSUME Still PROVE Grows /\ OnlyRows({})
  BY DEF Still, store, descope, Grows, OnlyRows, Exists

LEMMA StillDrifts == ASSUME Still, NEW u \in Users PROVE Drifts(u)' <=> Drifts(u)
  BY DriftsKept DEF Still, store, descope

LEMMA StillParts ==
    ASSUME IInv, Still, hooks' \in SUBSET hooks
    PROVE  OneIdentity' /\ Addressed' /\ Truthful'
<1>1. OneIdentity' BY DEF IInv, Still, store, OneIdentity, Exists
<1>2. Addressed' BY DEF IInv, Still, descope, Addressed, Live
<1>3. Truthful' BY DEF IInv, Still, descope, Truthful
<1> QED BY <1>1, <1>2, <1>3

\* A request that is not pushing goes on, or is over.
LEMMA StillStep ==
    ASSUME IInv, Still, UNCHANGED <<recon, cause>>, events' \in Nat,
           NEW r \in Requests, NEW q, Become(r, q, {}), req[r].phase # "push",
           RequestsFit', req' \in [Requests -> RequestStates],
           hooks' \in SUBSET hooks, overruled' \in SUBSET Subjects, Heard,
           q.op = "offboard" /\ q.seen.status = "inactive"
               => Down(q.sub)' \/ q.sub \in overruled',
           \A s \in Subjects : account[s] = "deleted" /\ Offboarding(s)
               => Offboarding(s)' \/ s \in overruled'
    PROVE  IInv'
<1>1. Grows BY StillGrows
<1>2. TypeOK' BY DEF IInv, TypeOK, Still, store, descope
<1>3. OneIdentity' /\ Addressed' /\ Truthful' BY StillParts
<1>4. Snapshot' BY SnapshotSame DEF IInv, Still
<1>5. Caused'
  <2> SUFFICES ASSUME NEW u \in Users, Drifts(u)' PROVE cause'[u] # "none" \/ Awaiting(u)'
    BY DEF Caused
  <2>1. Drifts(u) BY StillDrifts
  <2>2. Awaiting(u) => Awaiting(u)' BY AwaitingKept
  <2> QED BY <2>1, <2>2 DEF IInv, Caused
<1>6. Offboarded'
  <2>1. \A s \in Subjects : account'[s] = account[s] BY DEF Still, descope
  <2> QED BY <1>1, <2>1, OffboardedStep
<1>7. Aware' BY <1>1, AwareStep
<1> QED BY <1>2, <1>3, <1>4, <1>5, <1>6, <1>7 DEF IInv

LEMMA SpendType == ASSUME IInv, NEW n \in Nat, Spend(n) PROVE events' \in Nat
  BY DEF IInv, TypeOK, Spend

\* A request begins; it may have taken a webhook.
LEMMA BeginStep ==
    ASSUME IInv, NEW r \in Requests, NEW op, NEW u, NEW s, NEW seen, NEW want,
           Begin(r, op, u, s, seen, want), events' \in Nat,
           Formed([op |-> op, phase |-> "store", user |-> u, sub |-> s,
                   seen |-> seen, want |-> want, overtaken |-> FALSE]),
           op = "remove" => email[u] = seen.email /\ status[u] = seen.status,
           op \in {"remove", "update", "inbound", "offboard"} => email[u] # NoEmail,
           op = "link" /\ u # NoUser => email[u] # NoEmail,
           op = "offboard" => link[s] = u /\ account[s] = "deleted",
           hooks' \in SUBSET hooks, overruled' \in SUBSET Subjects, Heard,
           op = "offboard" /\ seen.status = "inactive" => Down(s)' \/ s \in overruled',
           \A h \in hooks : h.verb = "deleted" => h \in hooks' \/ (op = "offboard" /\ h.sub = s)
    PROVE  IInv'
<1> DEFINE q == [op |-> op, phase |-> "store", user |-> u, sub |-> s,
                 seen |-> seen, want |-> want, overtaken |-> FALSE]
<1>1. /\ Still /\ UNCHANGED <<recon, cause>> /\ Become(r, q, {}) /\ req[r].phase = "idle"
  BY DEF Begin, Still
<1>2. /\ q.op = op /\ q.sub = s /\ q.seen = seen /\ q.user = u /\ Stores(q) /\ Formed(q)
      /\ Relies(q) => op = "remove"
  BY DEF Stores, Relies
<1> HIDE DEF q
<1>3. req'[r] = q BY <1>1, BecomeIs DEF IInv
<1>4. Fresh(req[r])' /\ Rooted(req[r])' /\ Tied(req[r])'
  BY <1>1, <1>2, <1>3 DEF Fresh, Rooted, Tied, Exists, Still, store, descope, Relies, Stores
<1>5. RequestsFit' /\ req' \in [Requests -> RequestStates]
  BY <1>1, <1>2, <1>4, StillGrows, BecomeFits
<1>6. req[r].op # "offboard"
  <2>1. Formed(req[r]) BY DEF IInv, RequestsFit
  <2> QED BY <1>1, <2>1 DEF Formed, Stores
<1>7. ASSUME NEW x \in Subjects, Offboarding(x) PROVE Offboarding(x)'
  <2>1. CASE \A h \in hooks : h.verb = "deleted" /\ h.sub = x => h \in hooks'
    BY <1>1, <1>6, <1>7, <2>1, OffboardingKept
  <2>2. CASE op = "offboard" /\ x = s BY <1>2, <1>3, <2>2 DEF Offboarding
  <2> QED BY <2>1, <2>2
<1> QED BY <1>1, <1>2, <1>5, <1>7, StillStep

LEMMA CallStep ==
    ASSUME IInv, NEW r \in Requests, ApiCall(r)
    PROVE  IInv'
<1>1. ASSUME NEW op, NEW u, NEW want, Call(r, op, u, want),
             op \in {"create", "update", "remove"},
             want \in Rows, want.email \in Emails \/ op = "remove",
             op = "create" => u = NoUser,
             op # "create" => u \in Users /\ Exists(u),
             op = "update" => want.status \in {status[u], "active", "inactive"}
      PROVE  IInv'
  <2> DEFINE seen == IF u = NoUser THEN NoRow ELSE Row(u)
  <2>1. /\ Begin(r, op, u, NoSubject, seen, want) /\ Spend(1)
        /\ UNCHANGED <<hooks, overruled>>
    BY <1>1 DEF Call
  <2>2. /\ seen \in Rows
        /\ op # "create" => seen.email = email[u] /\ seen.status = status[u]
    BY <1>1, RowType DEF IInv, NoRow, Rows, Statuses
  <2> HIDE DEF seen
  <2>3. Formed([op |-> op, phase |-> "store", user |-> u, sub |-> NoSubject,
                seen |-> seen, want |-> want, overtaken |-> FALSE])
    BY <1>1, <2>2 DEF Formed, RequestStates, Operations, Relies, Stores
  <2>4. events' \in Nat BY <2>1, SpendType
  <2>5. Heard BY <2>1, HeardSame, StillGrows DEF Begin, Still, store
  <2>6. overruled' \in SUBSET Subjects /\ hooks' \in SUBSET hooks BY <2>1 DEF IInv, TypeOK
  <2> QED BY <1>1, <2>1, <2>2, <2>3, <2>4, <2>5, <2>6, BeginStep DEF Exists
<1>2. ASSUME NEW e \in Emails, CreateUser(r, e) PROVE IInv'
  <2> DEFINE want == [email |-> e, status |-> "active"]
  <2>1. want \in Rows /\ want.email = e BY DEF Rows, Statuses
  <2>2. Call(r, "create", NoUser, want) BY <1>2 DEF CreateUser
  <2> QED BY <2>1, <2>2, <1>1
<1>3. ASSUME NEW e \in Emails, NEW u \in Users, UpdateUser(r, u, e) PROVE IInv'
  <2> DEFINE want == [Row(u) EXCEPT !.email = e]
  <2>1. want \in Rows /\ want.email = e /\ want.status = status[u]
    BY RowType DEF IInv, Rows
  <2>2. Call(r, "update", u, want) /\ Exists(u) BY <1>3 DEF UpdateUser
  <2> HIDE DEF want
  <2> QED BY <2>1, <2>2, <1>1
<1>4. ASSUME NEW u \in Users, RemoveFromTenant(r, u) PROVE IInv'
  <2>1. Row(u) \in Rows BY RowType DEF IInv
  <2>2. Call(r, "remove", u, Row(u)) /\ Exists(u) BY <1>4 DEF RemoveFromTenant
  <2> QED BY <2>1, <2>2, <1>1
<1>5. ASSUME NEW u \in Users, NEW st \in {"active", "inactive"}, SetStatus(r, u, st) PROVE IInv'
  <2> DEFINE want == [Row(u) EXCEPT !.status = st]
  <2>1. want \in Rows /\ want.email = email[u] /\ want.status = st
    BY RowType DEF IInv, Rows, Statuses
  <2>2. Call(r, "update", u, want) /\ Exists(u) BY <1>5 DEF SetStatus
  <2>3. want.email \in Emails BY <2>1, <2>2 DEF IInv, TypeOK, Exists
  <2> HIDE DEF want
  <2> QED BY <2>1, <2>2, <2>3, <1>1
<1> QED BY <1>2, <1>3, <1>4, <1>5 DEF ApiCall

LEMMA TakeIs ==
    ASSUME IInv, NEW h, Take(h)
    PROVE  /\ h \in Hooks /\ h.sub \in Subjects /\ h.addr \in Emails
           /\ hooks' \in SUBSET hooks /\ events' \in Nat
           /\ \A k \in hooks : k \in hooks' \/ k = h
  BY SpendType DEF Take, IInv, TypeOK, Hooks

LEMMA OverruleNone ==
    ASSUME IInv, Still, Overrule({}, {})
    PROVE  Heard /\ overruled' \in SUBSET Subjects
  BY StillGrows, HeardOverrule, OverruleType DEF IInv

LEMMA DeliverStep ==
    ASSUME IInv, NEW r \in Requests, Deliver(r)
    PROVE  IInv'
<1>1. PICK h \in hooks : TakeLinked(r, h) \/ TakeCreated(r, h) \/ TakeDeleted(r, h)
  BY DEF Deliver
<1>2. Take(h) /\ Overrule({}, {}) /\ Still
  BY <1>1 DEF TakeLinked, TakeCreated, TakeDeleted, Begin, Still
<1>3. /\ h.sub \in Subjects /\ h.addr \in Emails
      /\ hooks' \in SUBSET hooks /\ events' \in Nat
      /\ \A k \in hooks : k \in hooks' \/ k = h
      /\ Heard /\ overruled' \in SUBSET Subjects
  BY <1>2, TakeIs, OverruleNone
<1> DEFINE u == link[h.sub]
<1>4. u # NoUser => /\ u \in Users /\ email[u] # NoEmail /\ email[u] \in Emails
                    /\ Row(u) \in Rows /\ Row(u).email = email[u] /\ Row(u).status = status[u]
  BY <1>3, RowType DEF IInv, TypeOK, OneIdentity, Exists
<1> HIDE DEF u
<1>5. CASE TakeLinked(r, h)
  <2> DEFINE want == [Row(u) EXCEPT !.email = h.addr]
  <2>1. h.verb # "deleted" /\ u # NoUser /\ Begin(r, "inbound", u, h.sub, Row(u), want)
    BY <1>5 DEF TakeLinked, u
  <2>2. want \in Rows /\ want.email = h.addr /\ want.status = Row(u).status
    BY <1>3, <1>4, <2>1 DEF Rows
  <2> HIDE DEF want
  <2>3. Formed([op |-> "inbound", phase |-> "store", user |-> u, sub |-> h.sub,
                seen |-> Row(u), want |-> want, overtaken |-> FALSE])
    BY <1>3, <1>4, <2>1, <2>2 DEF Formed, RequestStates, Operations, Relies, Stores
  <2> QED BY <1>3, <1>4, <2>1, <2>3, BeginStep
<1>6. CASE TakeCreated(r, h)
  <2> DEFINE want == [email |-> h.addr, status |-> "active"]
  <2>1. PICK v \in Users \cup {NoUser} :
          /\ IF v = NoUser THEN ~HasEmail(h.addr) ELSE email[v] = h.addr
          /\ Begin(r, "link", v, h.sub, NoRow, want)
    BY <1>6 DEF TakeCreated
  <2>2. want \in Rows /\ want.email = h.addr /\ NoRow \in Rows
    BY <1>3 DEF Rows, NoRow, Statuses
  <2>3. h.verb # "deleted" /\ (v # NoUser => email[v] # NoEmail)
    BY <1>3, <1>6, <2>1 DEF TakeCreated
  <2> HIDE DEF want
  <2>4. Formed([op |-> "link", phase |-> "store", user |-> v, sub |-> h.sub,
                seen |-> NoRow, want |-> want, overtaken |-> FALSE])
    BY <1>3, <2>2 DEF Formed, RequestStates, Operations, Relies, Stores
  <2> QED BY <1>3, <2>1, <2>3, <2>4, BeginStep
<1>7. CASE TakeDeleted(r, h)
  <2> DEFINE want == [Row(u) EXCEPT !.status = "inactive"]
  <2>1. h.verb = "deleted" /\ u # NoUser /\ Begin(r, "offboard", u, h.sub, Row(u), want)
    BY <1>7 DEF TakeDeleted, u
  <2>2. want \in Rows /\ want.email = Row(u).email /\ want.status = "inactive"
        /\ want.email \in Emails
    BY <1>4, <2>1 DEF Rows, Statuses
  <2> HIDE DEF want
  <2>3. Formed([op |-> "offboard", phase |-> "store", user |-> u, sub |-> h.sub,
                seen |-> Row(u), want |-> want, overtaken |-> FALSE])
    BY <1>3, <1>4, <2>1, <2>2 DEF Formed, RequestStates, Operations, Relies, Stores
  <2>4. account[h.sub] = "deleted" /\ link[h.sub] = u BY <2>1 DEF IInv, Truthful, u
  <2>5. Row(u).status = "inactive" => Down(h.sub)'
    BY <1>2, <1>4, <2>1, <2>4 DEF Still, store, Down
  <2> QED BY <1>3, <1>4, <2>1, <2>3, <2>4, <2>5, BeginStep
<1> QED BY <1>1, <1>5, <1>6, <1>7

\* A request that was storing is over.
LEMMA OverStep ==
    ASSUME IInv, Still, UNCHANGED <<recon, cause, hooks>>, events' \in Nat,
           NEW r \in Requests, Finish(r), req[r].phase = "store",
           overruled' \in SUBSET Subjects, Heard,
           req[r].op = "offboard" => req[r].sub \in overruled'
    PROVE  IInv'
<1>1. Become(r, Idle, {}) BY DEF Finish
<1>2. RequestsFit' /\ req' \in [Requests -> RequestStates]
  BY <1>1, StillGrows, FinishFits
<1>3. ASSUME NEW s \in Subjects, Offboarding(s) PROVE Offboarding(s)' \/ s \in overruled'
  BY <1>1, <1>3, OffboardingKept
<1> QED BY <1>1, <1>2, <1>3, IdleFits, StillStep

LEMMA ConflictStep == ASSUME IInv, NEW r \in Requests, Conflict(r) PROVE IInv'
<1>1. /\ Still /\ UNCHANGED <<recon, cause, hooks, overruled, events>>
      /\ Finish(r) /\ req[r].phase = "store" /\ Clashes(r)
  BY DEF Conflict, Still
<1>2. events' \in Nat /\ overruled' \in SUBSET Subjects BY <1>1 DEF IInv, TypeOK
<1>3. Heard BY <1>1, HeardSame, StillGrows DEF Still, store
<1>4. req[r].op # "offboard"
  <2> SUFFICES ASSUME req[r].op = "offboard" PROVE FALSE OBVIOUS
  <2>1. Formed(req[r]) BY DEF IInv, RequestsFit
  <2>2. req[r].want.email = req[r].seen.email BY <2>1 DEF Formed
  <2>3. Merged(r).email = email[req[r].user] BY <2>2 DEF Merged
  <2> QED BY <1>1, <2>3 DEF Clashes
<1> QED BY <1>1, <1>2, <1>3, <1>4, OverStep

LEMMA AbortStep == ASSUME IInv, NEW r \in Requests, Abort(r) PROVE IInv'
<1>1. /\ Still /\ UNCHANGED <<recon, cause, hooks>> /\ Spend(1)
      /\ Finish(r) /\ req[r].phase = "store"
      /\ Overrule({}, {req[r].sub} \ {NoSubject})
  BY DEF Abort, Still
<1>2. Formed(req[r]) BY DEF IInv, RequestsFit
<1>3. /\ {req[r].sub} \ {NoSubject} \in SUBSET Subjects
      /\ req[r].op = "offboard" => req[r].sub \in {req[r].sub} \ {NoSubject}
  BY <1>2, RequestType DEF Formed
<1>4. Heard /\ overruled' \in SUBSET Subjects
  BY <1>1, <1>3, HeardOverrule, StillGrows, OverruleType DEF IInv
<1>5. req[r].op = "offboard" => req[r].sub \in overruled' BY <1>1, <1>3 DEF Overrule
<1> QED BY <1>1, <1>4, <1>5, SpendType, OverStep

LEMMA StoreRemoveStep == ASSUME IInv, NEW r \in Requests, StoreRemove(r) PROVE IInv'
<1> DEFINE q == [req[r] EXCEPT !.phase = "push"]
<1>1. /\ Still /\ UNCHANGED <<recon, cause, hooks, overruled, events>>
      /\ req[r].phase = "store" /\ req[r].op = "remove"
      /\ req' = [req EXCEPT ![r] = q]
  BY DEF StoreRemove, Still
<1>2. Formed(req[r]) /\ Fresh(req[r]) /\ Rooted(req[r]) BY DEF IInv, RequestsFit
<1>3. /\ q \in RequestStates /\ q.op = "remove" /\ q.phase = "push" /\ q.user = req[r].user
      /\ q.seen = req[r].seen /\ q.overtaken = req[r].overtaken
  BY <1>1, <1>2 DEF Formed, RequestStates
<1> HIDE DEF q
<1>4. Relies(req[r]) BY <1>1 DEF Relies
<1>5. Formed(q) BY <1>2, <1>3, <1>4 DEF Formed, Relies, Stores
<1>6. req \in [Requests -> RequestStates] BY DEF IInv, TypeOK
<1>7. Become(r, q, {}) BY <1>1, <1>6 DEF Become, Overtaken
<1>8. req'[r] = q BY <1>7, BecomeIs DEF IInv
<1>9. Fresh(req[r])' /\ Rooted(req[r])' /\ Tied(req[r])'
  BY <1>1, <1>2, <1>3, <1>4, <1>8 DEF Fresh, Rooted, Tied, Relies, Stores, Exists, Still, store
<1>10. RequestsFit' /\ req' \in [Requests -> RequestStates]
  BY <1>1, <1>5, <1>7, <1>9, StillGrows, BecomeFits
<1>11. Heard BY <1>1, HeardSame, StillGrows DEF Still, store
<1>12. \A s \in Subjects : Offboarding(s) => Offboarding(s)' BY <1>1, <1>7, OffboardingKept
<1>13. events' \in Nat /\ overruled' \in SUBSET Subjects BY <1>1 DEF IInv, TypeOK
<1> QED BY <1>1, <1>3, <1>7, <1>10, <1>11, <1>12, <1>13, StillStep

\* Steps that no request takes and none notices.
LEMMA UnnoticedFits ==
    ASSUME IInv, Grows, UNCHANGED <<store, req>>
    PROVE  RequestsFit'
<1>1. \A r \in Requests : Formed(req'[r]) /\ Fresh(req[r])' /\ Rooted(req[r])'
  BY DEF IInv, RequestsFit, Fresh, Rooted, Exists, store
<1>2. \A r \in Requests : Tied(req[r])'
  <2> SUFFICES ASSUME NEW r \in Requests, req[r].op = "offboard"
               PROVE  link[req[r].sub] = req[r].user /\ account'[req[r].sub] = "deleted"
    BY DEF Tied, store
  <2>1. Formed(req[r]) /\ Tied(req[r]) BY DEF IInv, RequestsFit
  <2> QED BY <2>1 DEF Formed, Tied, Grows
<1> QED BY <1>1, <1>2 DEF RequestsFit

LEMMA UnnoticedAware ==
    ASSUME IInv, Heard, UNCHANGED req
    PROVE  Aware'
<1> SUFFICES ASSUME NEW r \in Requests, req[r].op = "offboard", req[r].seen.status = "inactive"
             PROVE  Down(req[r].sub)' \/ req[r].sub \in overruled'
  BY DEF Aware, Down
<1>1. Formed(req[r]) /\ Tied(req[r]) BY DEF IInv, RequestsFit
<1>2. req[r].sub \in Subjects /\ account[req[r].sub] = "deleted" BY <1>1 DEF Formed, Tied
<1>3. Down(req[r].sub) \/ req[r].sub \in overruled BY DEF IInv, Aware
<1> QED BY <1>2, <1>3 DEF Heard, Down

LEMMA HookStep ==
    ASSUME IInv, Still, UNCHANGED <<req, recon, cause>>, events' \in Nat, NEW h \in hooks,
           hooks' \in SUBSET hooks, \A k \in hooks : k \in hooks' \/ k = h,
           Overrule({}, IF h.verb = "deleted" THEN {h.sub} ELSE {})
    PROVE  IInv'
<1>1. Grows BY StillGrows
<1>2. h.sub \in Subjects BY DEF IInv, TypeOK, Hooks
<1>3. Heard /\ overruled' \in SUBSET Subjects
  BY <1>1, <1>2, HeardOverrule, OverruleType DEF IInv
<1>4. h.verb = "deleted" => h.sub \in overruled' BY DEF Overrule
<1>5. TypeOK' BY <1>3 DEF IInv, TypeOK, Still, store, descope
<1>6. OneIdentity' /\ Addressed' /\ Truthful' BY StillParts
<1>7. Snapshot' BY SnapshotSame DEF IInv, Still
<1>8. RequestsFit' BY <1>1, UnnoticedFits DEF Still
<1>9. Caused'
  <2>1. \A u \in Users : Drifts(u)' <=> Drifts(u) BY StillDrifts
  <2> QED BY <2>1 DEF IInv, Caused, Awaiting
<1>10. Offboarded'
  <2>1. ASSUME NEW s \in Subjects, Offboarding(s) PROVE Offboarding(s)' \/ s \in overruled'
    BY <1>4, <2>1 DEF Offboarding
  <2>2. \A s \in Subjects : account'[s] = account[s] BY DEF Still, descope
  <2> QED BY <1>1, <1>3, <2>1, <2>2, OffboardedStep
<1>11. Aware' BY <1>3, UnnoticedAware
<1> QED BY <1>5, <1>6, <1>7, <1>8, <1>9, <1>10, <1>11 DEF IInv

LEMMA TakeUnknownStep == ASSUME IInv, NEW h \in hooks, TakeUnknown(h) PROVE IInv'
  BY HookStep, TakeIs DEF TakeUnknown, Still

LEMMA LoseHookStep == ASSUME IInv, NEW h \in hooks, LoseHook(h) PROVE IInv'
  BY HookStep, SpendType DEF LoseHook, Still

-----------------------------------------------------------------------------
(* Steps that push, and steps in Descope.                                  *)

LEMMA PushingIs ==
    ASSUME IInv, NEW r \in Requests, req[r].phase = "push"
    PROVE  /\ req[r].user \in Users /\ Exists(req[r].user) /\ req[r].op # "offboard"
           /\ ~req[r].overtaken => /\ email[req[r].user] = req[r].seen.email
                                   /\ status[req[r].user] = req[r].seen.status
<1>1. Relies(req[r]) /\ ~Stores(req[r]) BY DEF Relies, Stores
<1>2. Formed(req[r]) /\ Fresh(req[r]) /\ Rooted(req[r]) BY DEF IInv, RequestsFit
<1> QED BY <1>1, <1>2 DEF Formed, Fresh, Rooted

LEMMA PushFailsStep == ASSUME IInv, NEW r \in Requests, PushFails(r) PROVE IInv'
<1>1. /\ Still /\ UNCHANGED <<recon, hooks, overruled>> /\ req[r].phase = "push"
      /\ Become(r, Idle, {}) /\ Blame("unpushed", {req[r].user})
      /\ Spend(IF HasAddress(req[r].seen.email) THEN 1 ELSE 0)
  BY DEF PushFails, Still, Finish
<1>2. RequestsFit' /\ req' \in [Requests -> RequestStates]
  BY <1>1, StillGrows, FinishFits
<1>3. Grows BY <1>1, StillGrows
<1>4. TypeOK'
  <2>1. events' \in Nat BY <1>1, SpendType
  <2>2. cause' \in [Users -> Causes]
    <3>1. "unpushed" \in Causes BY DEF Causes
    <3> QED BY <1>1, <3>1, BlameType DEF IInv
  <2> QED BY <1>1, <1>2, <2>1, <2>2 DEF IInv, TypeOK, Still, store, descope
<1>5. OneIdentity' /\ Addressed' /\ Truthful' BY <1>1, StillParts
<1>6. Snapshot' BY <1>1, SnapshotSame DEF IInv, Still
<1>7. Caused'
  <2>1. ASSUME NEW u \in Users, Drifts(u)', u # req[r].user
        PROVE  Drifts(u) /\ (Awaiting(u) => Awaiting(u)')
    BY <1>1, <2>1, StillDrifts, AwaitingKept
  <2> QED BY <1>1, <2>1, CausedStep
<1>8. Heard BY <1>1, <1>3, HeardSame DEF Still, store
<1>9. Offboarded'
  <2>1. \A s \in Subjects : account'[s] = account[s] BY <1>1 DEF Still, descope
  <2>2. req[r].op # "offboard" BY <1>1, PushingIs
  <2>3. \A s \in Subjects : Offboarding(s) => Offboarding(s)'
    BY <1>1, <2>2, OffboardingKept
  <2> QED BY <1>3, <1>8, <2>1, <2>3, OffboardedStep
<1>10. Aware' BY <1>1, <1>3, <1>8, AwareStep, IdleFits
<1> QED BY <1>2, <1>4, <1>5, <1>6, <1>7, <1>8, <1>9, <1>10 DEF IInv

\* Something happens to the account of s only.
AccountStep(s) ==
    /\ UNCHANGED store /\ AccountMoved(s) /\ Addressed'
    /\ account' \in [Subjects -> Accounts] /\ address' \in [Subjects -> Emails \cup {NoEmail}]
    /\ \A t \in Subjects \ {s} : account'[t] = account[t] /\ address'[t] = address[t]
    /\ account[s] # "deleted"

LEMMA AccountGrows ==
    ASSUME IInv, NEW s \in Subjects, AccountStep(s)
    PROVE  /\ Grows /\ OnlyRows({}) /\ OneIdentity'
           /\ Snapshot' /\ recon' \in ReconStates
<1>1. Grows /\ OnlyRows({}) /\ OneIdentity'
  BY DEF AccountStep, Grows, OnlyRows, store, Exists, IInv, OneIdentity
<1>2. Snapshot' /\ recon' \in ReconStates BY SnapshotAccount DEF AccountStep
<1> QED BY <1>1, <1>2

\* A drift that the step did not make was there before.
LEMMA AccountDrifts ==
    ASSUME IInv, NEW s \in Subjects, AccountStep(s), NEW u \in Users, Drifts(u)'
    PROVE  Drifts(u) \/ (/\ Live(s)' /\ address'[s] = email[u]
                         /\ ~Agree(status[u], account'[s]))
<1>1. PICK t \in Subjects : Live(t)' /\ address'[t] = email[u] /\ ~Agree(status[u], account'[t])
  BY DEF Drifts, AccountStep, store, Agree, ToDescope, FromDescope
<1>2. CASE t = s BY <1>1, <1>2
<1>3. CASE t # s
  <2>1. Live(t) /\ address[t] = email[u] /\ ~Agree(status[u], account[t])
    BY <1>1, <1>3 DEF AccountStep, Live
  <2>2. Exists(u) BY DEF Drifts, AccountStep, store, Exists
  <2> QED BY <2>1, <2>2 DEF Drifts
<1> QED BY <1>2, <1>3

LEMMA LandStep == ASSUME IInv, NEW r \in Requests, Land(r) PROVE IInv'
<1>1. PICK s \in Subjects :
        /\ Live(s) /\ address[s] = req[r].seen.email
        /\ account' = [account EXCEPT ![s] = ToDescope(req[r].seen.status)]
        /\ AccountMoved(s)
  BY DEF Land
<1> DEFINE U == IF req[r].overtaken THEN {u \in Users : email[u] = req[r].seen.email} ELSE {}
<1>2. /\ req[r].phase = "push" /\ Become(r, Idle, {})
      /\ UNCHANGED <<store, address, hooks, overruled, events>> /\ Blame("overtaken", U)
  BY DEF Land, Finish
<1> HIDE DEF U
<1>3. /\ account'[s] = ToDescope(req[r].seen.status) /\ account'[s] \in {"enabled", "disabled"}
      /\ \A t \in Subjects \ {s} : account'[t] = account[t]
      /\ account' \in [Subjects -> Accounts]
  BY <1>1 DEF IInv, TypeOK, ToDescope, Accounts
<1>4. \A t \in Subjects : Live(t)' <=> Live(t) BY <1>1, <1>3 DEF Live
<1>5. Addressed' BY <1>2, <1>4 DEF IInv, Addressed
<1>6. AccountStep(s)
  BY <1>1, <1>2, <1>3, <1>5 DEF AccountStep, Live, IInv, TypeOK
<1>7. Grows /\ OnlyRows({}) /\ OneIdentity' /\ Snapshot' /\ recon' \in ReconStates
  BY <1>6, AccountGrows
<1>8. RequestsFit' /\ req' \in [Requests -> RequestStates] BY <1>2, <1>7, FinishFits
<1>9. TypeOK'
  <2>1. "overtaken" \in Causes BY DEF Causes
  <2>2. cause' \in [Users -> Causes] BY <1>2, <2>1, BlameType DEF IInv
  <2> QED BY <1>2, <1>3, <1>7, <1>8, <2>2 DEF IInv, TypeOK, store
<1>10. Truthful' BY <1>2, <1>7 DEF IInv, Truthful, TypeOK, Hooks, Grows
<1>11. Caused'
  <2>1. ASSUME NEW u \in Users, Drifts(u)', u \notin U
        PROVE  Drifts(u) /\ (Awaiting(u) => Awaiting(u)')
    <3>1. req[r].overtaken => email[u] # req[r].seen.email BY <2>1 DEF U
    <3>2. ASSUME address[s] = email[u] PROVE Agree(status[u], account'[s])
      <4>1. ~req[r].overtaken /\ email[u] = req[r].seen.email BY <1>1, <3>1, <3>2
      <4>2. email[u] = email[req[r].user] /\ req[r].user \in Users /\ Exists(req[r].user)
            /\ status[req[r].user] = req[r].seen.status
        BY <1>2, <4>1, PushingIs
      <4>3. u = req[r].user BY <4>2 DEF IInv, OneIdentity
      <4> QED BY <1>3, <4>2, <4>3 DEF Agree
    <3>3. Drifts(u) BY <1>2, <1>6, <2>1, <3>2, AccountDrifts
    <3>4. req[r].user = u => req[r].overtaken
      <4>1. ASSUME req[r].user = u, ~req[r].overtaken PROVE address[s] = email[u]
        BY <1>1, <1>2, <4>1, PushingIs
      <4>2. ASSUME address[s] = email[u] PROVE ~Drifts(u)'
        <5>1. \A t \in Subjects : Live(t)' /\ address'[t] = email[u] => t = s
          BY <1>1, <1>2, <1>4, <4>2 DEF IInv, Addressed
        <5>2. email'[u] = email[u] /\ status'[u] = status[u] BY <1>2 DEF store
        <5> QED BY <5>1, <5>2, <3>2, <4>2 DEF Drifts, Agree, ToDescope, FromDescope
      <4> QED BY <2>1, <4>1, <4>2
    <3> QED BY <1>2, <3>3, <3>4, AwaitingKept
  <2> QED BY <1>2, <2>1, CausedStep
<1>12. Heard BY <1>2, <1>7, HeardSame DEF store
<1>13. Offboarded'
  <2>1. \A t \in Subjects : account'[t] = "deleted" => account[t] = "deleted" BY <1>3
  <2>2. req[r].op # "offboard" BY <1>2, PushingIs
  <2>3. \A t \in Subjects : Offboarding(t) => Offboarding(t)'
    BY <1>2, <2>2, OffboardingKept
  <2> QED BY <1>7, <1>12, <2>1, <2>3, OffboardedStep
<1>14. Aware' BY <1>2, <1>7, <1>12, AwareStep, IdleFits
<1> QED BY <1>5, <1>7, <1>8, <1>9, <1>10, <1>11, <1>13, <1>14 DEF IInv

\* Something happens in Descope, and may be posted.
LEMMA OutsideStep ==
    ASSUME IInv, NEW s \in Subjects, NEW posts \in SUBSET Hooks,
           AccountStep(s), Outside(s, posts),
           \A h \in posts : h.verb = "deleted" => account'[h.sub] = "deleted",
           account'[s] = "deleted" => \E h \in posts : h.verb = "deleted" /\ h.sub = s
    PROVE  IInv'
<1>1. /\ UNCHANGED <<store, req, overruled>> /\ hooks' = hooks \cup posts /\ Spend(1)
      /\ Blame("outside", {u \in Users : email[u] = address'[s]})
  BY DEF Outside
<1>2. Grows /\ OneIdentity' /\ Snapshot' /\ recon' \in ReconStates /\ Addressed'
  BY AccountGrows DEF AccountStep
<1>3. TypeOK'
  <2>1. "outside" \in Causes BY DEF Causes
  <2>2. cause' \in [Users -> Causes] BY <1>1, <2>1, BlameType DEF IInv
  <2>3. events' \in Nat BY <1>1, SpendType
  <2> QED BY <1>1, <1>2, <2>2, <2>3 DEF IInv, TypeOK, store, AccountStep
<1>4. Truthful' BY <1>1, <1>2 DEF IInv, Truthful, TypeOK, Hooks, Grows
<1>5. RequestsFit' BY <1>1, <1>2, UnnoticedFits
<1>6. Caused'
  <2> DEFINE U == {u \in Users : email[u] = address'[s]}
  <2>1. \A u \in Users : Drifts(u)' => u \in U \/ Drifts(u) BY AccountDrifts
  <2>2. \A u \in Users : Awaiting(u) => Awaiting(u)' BY <1>1 DEF Awaiting
  <2> HIDE DEF U
  <2>3. Blame("outside", U) BY <1>1 DEF U
  <2> QED BY <2>1, <2>2, <2>3, CausedStep
<1>7. Heard BY <1>1, <1>2, HeardSame DEF store
<1>8. Offboarded'
  <2>1. \A t \in Subjects : Offboarding(t) => Offboarding(t)' BY <1>1 DEF Offboarding
  <2>2. \A t \in Subjects : account'[t] = "deleted" => account[t] = "deleted" \/ Offboarding(t)'
    BY <1>1 DEF AccountStep, Offboarding
  <2> QED BY <1>2, <1>7, <2>1, <2>2, OffboardedStep
<1>9. Aware' BY <1>1, <1>7, UnnoticedAware
<1> QED BY <1>2, <1>3, <1>4, <1>5, <1>6, <1>8, <1>9 DEF IInv

LEMMA AppearStep ==
    ASSUME IInv, NEW s \in Subjects, NEW e \in Emails, NEW acc \in {"enabled", "invited"},
           Appear(s, e, acc)
    PROVE  IInv'
<1> DEFINE h == [verb |-> "created", sub |-> s, addr |-> e]
<1>1. /\ account[s] = "none" /\ ~HasAddress(e) /\ Outside(s, {h})
      /\ account' = [account EXCEPT ![s] = acc] /\ address' = [address EXCEPT ![s] = e]
  BY DEF Appear
<1>2. h \in Hooks /\ h.verb # "deleted" BY DEF Hooks
<1> HIDE DEF h
<1>3. /\ account' \in [Subjects -> Accounts] /\ address' \in [Subjects -> Emails \cup {NoEmail}]
      /\ account'[s] = acc /\ address'[s] = e
      /\ \A t \in Subjects \ {s} : account'[t] = account[t] /\ address'[t] = address[t]
  BY <1>1 DEF IInv, TypeOK, Accounts
<1>4. Addressed' BY <1>1, <1>3 DEF IInv, Addressed, Live, HasAddress
<1>5. AccountStep(s) BY <1>1, <1>3, <1>4 DEF AccountStep, Outside
<1> QED BY <1>1, <1>2, <1>3, <1>5, OutsideStep

LEMMA SetMemberStep ==
    ASSUME IInv, NEW s \in Subjects, NEW acc \in Accounts, SetMember(s, acc)
    PROVE  IInv'
<1>1. /\ Live(s) /\ acc \in {"enabled", "disabled"} /\ Outside(s, {})
      /\ account' = [account EXCEPT ![s] = acc] /\ address' = address
  BY DEF SetMember
<1>2. /\ account' \in [Subjects -> Accounts] /\ account'[s] = acc
      /\ \A t \in Subjects \ {s} : account'[t] = account[t]
  BY <1>1 DEF IInv, TypeOK
<1>3. Addressed' BY <1>1, <1>2 DEF IInv, Addressed, Live
<1>4. AccountStep(s) BY <1>1, <1>2, <1>3 DEF AccountStep, Outside, Live, IInv, TypeOK
<1> QED BY <1>1, <1>2, <1>4, OutsideStep

LEMMA ChangeAddressStep ==
    ASSUME IInv, NEW s \in Subjects, NEW e \in Emails, ChangeAddress(s, e)
    PROVE  IInv'
<1> DEFINE h == [verb |-> "updated", sub |-> s, addr |-> e]
<1>1. /\ Live(s) /\ ~HasAddress(e) /\ Outside(s, {h})
      /\ account' = account /\ address' = [address EXCEPT ![s] = e]
  BY DEF ChangeAddress
<1>2. h \in Hooks /\ h.verb # "deleted" BY DEF Hooks
<1> HIDE DEF h
<1>3. /\ address' \in [Subjects -> Emails \cup {NoEmail}] /\ address'[s] = e
      /\ \A t \in Subjects \ {s} : address'[t] = address[t]
  BY <1>1 DEF IInv, TypeOK
<1>4. Addressed' BY <1>1, <1>3 DEF IInv, Addressed, Live, HasAddress
<1>5. AccountStep(s) BY <1>1, <1>3, <1>4 DEF AccountStep, Outside, Live, IInv, TypeOK
<1>6. account'[s] # "deleted" BY <1>1 DEF Live
<1> QED BY <1>1, <1>2, <1>5, <1>6, OutsideStep

LEMMA DeleteAccountStep ==
    ASSUME IInv, NEW s \in Subjects, DeleteAccount(s)
    PROVE  IInv'
<1> DEFINE h == [verb |-> "deleted", sub |-> s, addr |-> address[s]]
<1>1. /\ Live(s) /\ Outside(s, {h})
      /\ account' = [account EXCEPT ![s] = "deleted"]
      /\ address' = [address EXCEPT ![s] = NoEmail]
  BY DEF DeleteAccount
<1>2. h \in Hooks /\ h.verb = "deleted" /\ h.sub = s
  BY <1>1 DEF Hooks, IInv, Addressed
<1> HIDE DEF h
<1>3. /\ account' \in [Subjects -> Accounts] /\ address' \in [Subjects -> Emails \cup {NoEmail}]
      /\ account'[s] = "deleted"
      /\ \A t \in Subjects \ {s} : account'[t] = account[t] /\ address'[t] = address[t]
  BY <1>1 DEF IInv, TypeOK, Accounts
<1>4. Addressed' BY <1>3 DEF IInv, Addressed, Live
<1>5. AccountStep(s) BY <1>1, <1>3, <1>4 DEF AccountStep, Outside, Live
<1> QED BY <1>1, <1>2, <1>3, <1>5, OutsideStep

LEMMA DescopeStepInv == ASSUME IInv, DescopeStep PROVE IInv'
<1>1. ASSUME NEW s \in Subjects, NEW e \in Emails, SignUp(s, e) PROVE IInv'
  BY <1>1, AppearStep DEF SignUp
<1>2. ASSUME NEW s \in Subjects, NEW e \in Emails, InviteMember(s, e) PROVE IInv'
  BY <1>2, AppearStep DEF InviteMember
<1> QED BY <1>1, <1>2, ChangeAddressStep, SetMemberStep, DeleteAccountStep DEF DescopeStep

-----------------------------------------------------------------------------
(* Steps that store.                                                       *)

\* What is written into the row of u, and that no other row has its email.
RowStep(u, row) ==
    /\ StoreRow(u, row)
    /\ row \in Rows /\ row.email \in Emails
    /\ \A v \in Users \ {u} : email[v] # row.email

LEMMA RowStepParts ==
    ASSUME IInv, NEW u \in Users, NEW row, RowStep(u, row), NEW U \in SUBSET Users,
           U \in {Changed(u, row), {u}},
           \A s \in Subjects : link[s] # NoUser => link'[s] = link[s],
           link' \in [Subjects -> Users \cup {NoUser}]
    PROVE  /\ email' \in [Users -> Emails \cup {NoEmail}] /\ status' \in [Users -> Statuses]
           /\ email'[u] = row.email /\ status'[u] = row.status
           /\ \A v \in Users \ {u} : email'[v] = email[v] /\ status'[v] = status[v]
           /\ Grows /\ OnlyRows(U)
           /\ \A v, w \in Users : Exists(v)' /\ email'[v] = email'[w] => v = w
           /\ Snapshot' /\ recon' \in ReconStates
           /\ Addressed' /\ Truthful' /\ hooks' \in SUBSET Hooks /\ events' \in Nat
<1>1. /\ email' = [email EXCEPT ![u] = row.email] /\ status' = [status EXCEPT ![u] = row.status]
      /\ RowsMoved(Changed(u, row)) /\ UNCHANGED <<descope, hooks, events>>
      /\ row \in Rows /\ row.email \in Emails /\ \A v \in Users \ {u} : email[v] # row.email
  BY DEF RowStep, StoreRow
<1>2. /\ row.email \in Emails \cup {NoEmail} /\ row.status \in Statuses
      /\ row = [email |-> row.email, status |-> row.status]
  BY <1>1 DEF Rows
<1>3. /\ email' \in [Users -> Emails \cup {NoEmail}] /\ status' \in [Users -> Statuses]
      /\ email'[u] = row.email /\ status'[u] = row.status
      /\ \A v \in Users \ {u} : email'[v] = email[v] /\ status'[v] = status[v]
  BY <1>1, <1>2 DEF IInv, TypeOK
<1>4. Grows BY <1>1, <1>3 DEF Grows, Exists, descope
<1>5. OnlyRows(Changed(u, row))
  <2>1. ASSUME row = Row(u) PROVE row.email = email[u] /\ row.status = status[u]
    BY <2>1 DEF Row
  <2> QED BY <1>3, <2>1 DEF OnlyRows, Changed
<1>6. OnlyRows(U) BY <1>3, <1>5 DEF OnlyRows, Changed
<1>7. \A v, w \in Users : Exists(v)' /\ email'[v] = email'[w] => v = w
  BY <1>1, <1>3 DEF IInv, OneIdentity, Exists
<1>8. Changed(u, row) \in SUBSET Users BY DEF Changed
<1>9. Snapshot' /\ recon' \in ReconStates BY <1>1, <1>4, <1>5, <1>8, SnapshotRows
<1>10. Addressed' BY <1>1 DEF IInv, Addressed, Live, descope
<1>11. Truthful' BY <1>1 DEF IInv, Truthful, descope
<1> QED BY <1>1, <1>3, <1>4, <1>6, <1>7, <1>9, <1>10, <1>11 DEF IInv, TypeOK

\* What the rest of a storing step comes to.
LEMMA RowStepInv ==
    ASSUME IInv, NEW u \in Users, NEW row, RowStep(u, row), NEW U \in SUBSET Users,
           U \in {Changed(u, row), {u}},
           \A s \in Subjects : link[s] # NoUser => link'[s] = link[s],
           link' \in [Subjects -> Users \cup {NoUser}],
           \A s \in Subjects : link'[s] # NoUser => Exists(link[s])',
           \A s, t \in Subjects : link'[s] # NoUser /\ link'[s] = link'[t] => s = t,
           NEW r \in Requests, NEW q, Become(r, q, U), req[r].phase = "store",
           RequestsFit', req' \in [Requests -> RequestStates],
           q.op # "offboard",
           NEW why \in Causes, NEW B, Blame(why, B), B # {} => why # "none",
           Drifts(u)' => u \in B \/ Awaiting(u)' \/ U = {},
           overruled' \in SUBSET Subjects, Heard,
           \A s \in Subjects : req[r].op = "offboard" /\ req[r].sub = s
               => s \in overruled' \/ Down(s)'
    PROVE  IInv'
<1>1. /\ \A v \in Users \ {u} : email'[v] = email[v] /\ status'[v] = status[v]
      /\ Grows /\ OnlyRows(U) /\ UNCHANGED <<descope, hooks>>
  BY RowStepParts DEF RowStep, StoreRow
<1>2. TypeOK'
  <2>1. cause' \in [Users -> Causes] BY BlameType DEF IInv
  <2>2. /\ email' \in [Users -> Emails \cup {NoEmail}] /\ status' \in [Users -> Statuses]
        /\ recon' \in ReconStates /\ events' \in Nat
    BY RowStepParts
  <2> QED BY <1>1, <2>1, <2>2 DEF TypeOK, IInv, descope
<1>3. OneIdentity'
  <2>1. \A v, w \in Users : Exists(v)' /\ email'[v] = email'[w] => v = w BY RowStepParts
  <2>2. \A s \in Subjects : link'[s] # NoUser => email'[link'[s]] # NoEmail BY DEF Exists
  <2> QED BY <2>1, <2>2 DEF OneIdentity, Exists
<1>4. Addressed' /\ Truthful' /\ Snapshot' BY RowStepParts
<1>5. Caused'
  <2>1. ASSUME NEW v \in Users, v # u, Drifts(v)'
        PROVE  Drifts(v) /\ (Awaiting(v) => Awaiting(v)')
    <3>1. Drifts(v) BY <1>1, <2>1, DriftsKept
    <3>2. v \notin U BY <2>1 DEF Changed
    <3> QED BY <3>1, <3>2, AwaitingKept
  <2>2. ASSUME U = {}, Drifts(u)'
        PROVE  Drifts(u) /\ (Awaiting(u) => Awaiting(u)')
    <3>1. row = Row(u) BY <2>2 DEF Changed
    <3>2. email'[u] = row.email /\ status'[u] = row.status BY RowStepParts
    <3>3. row.email = email[u] /\ row.status = status[u] BY <3>1 DEF Row
    <3>4. Drifts(u) BY <1>1, <2>2, <3>2, <3>3, DriftsKept
    <3> QED BY <2>2, <3>4, AwaitingKept
  <2>3. \A v \in Users : Drifts(v)' => \/ v \in B \/ Awaiting(v)'
                                       \/ Drifts(v) /\ (Awaiting(v) => Awaiting(v)')
    <3> SUFFICES ASSUME NEW v \in Users, Drifts(v)'
                 PROVE  \/ v \in B \/ Awaiting(v)'
                        \/ Drifts(v) /\ (Awaiting(v) => Awaiting(v)')
      OBVIOUS
    <3>1. CASE v = u BY <3>1, <2>2
    <3> QED BY <3>1, <2>1
  <2> QED BY <2>3, CausedStep
<1>6. Offboarded'
  <2>1. \A s \in Subjects : account'[s] = account[s] BY <1>1 DEF descope
  <2>2. \A s \in Subjects : Offboarding(s) => Offboarding(s)' \/ s \in overruled' \/ Down(s)'
    BY <1>1, OffboardingKept
  <2> QED BY <1>1, <2>1, <2>2, OffboardedStep
<1>7. Aware' BY <1>1, AwareStep
<1> QED BY <1>2, <1>3, <1>4, <1>5, <1>6, <1>7 DEF IInv

LEMMA LinksKept ==
    ASSUME IInv, UNCHANGED link, Grows
    PROVE  /\ \A s \in Subjects : link[s] # NoUser => link'[s] = link[s]
           /\ link' \in [Subjects -> Users \cup {NoUser}]
           /\ \A s \in Subjects : link'[s] # NoUser => Exists(link[s])'
           /\ \A s, t \in Subjects : link'[s] # NoUser /\ link'[s] = link'[t] => s = t
<1>1. link \in [Subjects -> Users \cup {NoUser}] /\ OneIdentity BY DEF IInv, TypeOK
<1>2. \A s \in Subjects : link[s] # NoUser => email'[link[s]] # NoEmail
  BY <1>1 DEF OneIdentity, Grows, Exists
<1> QED BY <1>1, <1>2 DEF OneIdentity, Exists

LEMMA CauseTypes == {"none", "inbound", "renamed"} \subseteq Causes
  BY DEF Causes

LEMMA StoreNewStep == ASSUME IInv, NEW r \in Requests, StoreNew(r) PROVE IInv'
<1>1. req[r].phase = "store" /\ req[r].op = "create" /\ ~Clashes(r) /\ UNCHANGED <<link, overruled>>
      /\ Blame("none", {})
  BY DEF StoreNew
<1>2. PICK u \in Users :
        /\ ~Exists(u) /\ StoreRow(u, req[r].want)
        /\ Become(r, [req[r] EXCEPT !.phase = "push", !.user = u, !.seen = req[r].want], {u})
  BY DEF StoreNew
<1>3. Formed(req[r]) BY DEF IInv, RequestsFit
<1>4. /\ req[r] \in RequestStates /\ ~req[r].overtaken
      /\ req[r].want \in Rows /\ req[r].want.email \in Emails
  BY <1>1, <1>3, RequestType DEF Formed, Stores
<1> DEFINE q == [req[r] EXCEPT !.phase = "push", !.user = u, !.seen = req[r].want]
<1>5. /\ Formed(q) /\ q.phase = "push" /\ q.user = u /\ q.seen = req[r].want
      /\ ~q.overtaken /\ q.op # "offboard"
  <2>1. /\ q \in RequestStates /\ q.phase = "push" /\ q.user = u /\ q.seen = req[r].want
        /\ q.overtaken = req[r].overtaken /\ q.op = "create"
    BY <1>1, <1>4 DEF RequestStates
  <2> HIDE DEF q
  <2> QED BY <1>4, <2>1 DEF Formed, Relies, Stores
<1>6. Become(r, q, {u}) BY <1>2
<1> HIDE DEF q
<1>7. RowStep(u, req[r].want)
  <2>1. \A v \in Users : email[v] # req[r].want.email BY <1>1 DEF Clashes, HasEmail
  <2> QED BY <1>2, <1>4, <2>1 DEF RowStep
<1>8. link' = link /\ link \in [Subjects -> Users \cup {NoUser}] BY <1>1 DEF IInv, TypeOK
<1>9. /\ Grows /\ OnlyRows({u})
      /\ email'[u] = req[r].want.email /\ status'[u] = req[r].want.status
      /\ \A v \in Users \ {u} : email'[v] = email[v] /\ status'[v] = status[v]
  BY <1>7, <1>8, RowStepParts
<1>10. req'[r] = q BY <1>6, BecomeIs DEF IInv
<1>11. Fresh(req[r])' /\ Rooted(req[r])' /\ Tied(req[r])'
  BY <1>4, <1>5, <1>9, <1>10 DEF Fresh, Rooted, Tied, Relies, Stores, Exists
<1>12. RequestsFit' /\ req' \in [Requests -> RequestStates]
  BY <1>5, <1>6, <1>9, <1>11, BecomeFits
<1>13. Awaiting(u)' BY <1>5, <1>10 DEF Awaiting
<1>14. Heard BY <1>1, <1>2, <1>9, HeardSame
<1>15. overruled' \in SUBSET Subjects BY <1>1 DEF IInv, TypeOK
<1>16. /\ \A s \in Subjects : link[s] # NoUser => link'[s] = link[s]
       /\ link' \in [Subjects -> Users \cup {NoUser}]
       /\ \A s \in Subjects : link'[s] # NoUser => Exists(link[s])'
       /\ \A s, t \in Subjects : link'[s] # NoUser /\ link'[s] = link'[t] => s = t
  BY <1>1, <1>9, LinksKept
<1> QED BY <1>1, <1>5, <1>6, <1>7, <1>12, <1>13, <1>14, <1>15, <1>16, CauseTypes, RowStepInv

\* What an update writes.
LEMMA MergedIs ==
    ASSUME IInv, NEW r \in Requests, req[r].phase = "store",
           req[r].op \in {"update", "inbound", "offboard"}, ~Clashes(r)
    PROVE  /\ req[r].user \in Users /\ Exists(req[r].user)
           /\ Merged(r) \in Rows /\ Merged(r).email \in Emails
           /\ \A v \in Users \ {req[r].user} : email[v] # Merged(r).email
<1>1. Formed(req[r]) /\ Rooted(req[r]) BY DEF IInv, RequestsFit
<1>2. /\ req[r].user \in Users /\ Exists(req[r].user) /\ req[r].want.email \in Emails
      /\ req[r].want.status \in Statuses
  BY <1>1, RequestType DEF Formed, Rooted, Stores
<1>3. /\ Merged(r) \in Rows /\ Merged(r).email \in Emails
  BY <1>2 DEF Merged, Rows, IInv, TypeOK, Exists
<1>4. Merged(r).email = email[req[r].user] \/ ~HasEmail(Merged(r).email) BY DEF Clashes
<1>5. \A v \in Users \ {req[r].user} : email[v] # Merged(r).email
  BY <1>2, <1>4 DEF HasEmail, IInv, OneIdentity, Exists
<1> QED BY <1>2, <1>3, <1>5

LEMMA StoreUpdateStep == ASSUME IInv, NEW r \in Requests, StoreUpdate(r) PROVE IInv'
<1>0. PICK u \in Users : u = req[r].user
  <2>1. req[r].user \in Users BY MergedIs DEF StoreUpdate
  <2> QED BY <2>1
<1> DEFINE row == Merged(r)
           U == Changed(u, row)
           q == [req[r] EXCEPT !.phase = "push", !.seen = row]
           B == IF row.email = email[u] THEN {} ELSE {u}
<1>1. /\ req[r].phase = "store" /\ req[r].op = "update" /\ ~Clashes(r) /\ UNCHANGED link
      /\ StoreRow(u, row) /\ Become(r, q, U) /\ Blame("renamed", B) /\ Overrule({}, {})
  BY <1>0 DEF StoreUpdate, Refreshed
<1>2. /\ u \in Users /\ Exists(u) /\ row \in Rows /\ row.email \in Emails
      /\ \A v \in Users \ {u} : email[v] # row.email
  BY <1>0, <1>1, MergedIs
<1>3. req[r] \in RequestStates /\ ~req[r].overtaken
  <2>1. Formed(req[r]) BY DEF IInv, RequestsFit
  <2> QED BY <1>1, <2>1 DEF Formed, Stores
<1>4. /\ Formed(q) /\ q.phase = "push" /\ q.user = u /\ q.seen = row
      /\ ~q.overtaken /\ q.op # "offboard"
  <2> HIDE DEF row
  <2>1. /\ q \in RequestStates /\ q.phase = "push" /\ q.user = u /\ q.seen = row
        /\ q.overtaken = req[r].overtaken /\ q.op = "update"
    BY <1>0, <1>1, <1>2, <1>3 DEF RequestStates
  <2> HIDE DEF q
  <2> QED BY <1>3, <2>1 DEF Formed, Relies, Stores
<1> HIDE DEF q, row
<1>5. RowStep(u, row) BY <1>1, <1>2 DEF RowStep
<1>6. U \in SUBSET Users BY <1>2 DEF Changed
<1> HIDE DEF U, B
<1>7. link' = link /\ link \in [Subjects -> Users \cup {NoUser}] BY <1>1 DEF IInv, TypeOK
<1>8. /\ Grows /\ OnlyRows(U) /\ email'[u] = row.email /\ status'[u] = row.status
  BY <1>2, <1>5, <1>6, <1>7, RowStepParts DEF U
<1>9. req'[r] = q BY <1>1, BecomeIs DEF IInv
<1>10. Fresh(req[r])' /\ Rooted(req[r])' /\ Tied(req[r])'
  BY <1>2, <1>4, <1>8, <1>9 DEF Fresh, Rooted, Tied, Relies, Stores, Exists
<1>11. RequestsFit' /\ req' \in [Requests -> RequestStates]
  BY <1>1, <1>4, <1>8, <1>10, BecomeFits
<1>12. Awaiting(u)' BY <1>4, <1>9 DEF Awaiting
<1>13. Heard /\ overruled' \in SUBSET Subjects
  BY <1>1, <1>8, HeardOverrule, OverruleType DEF IInv
<1>14. /\ \A s \in Subjects : link[s] # NoUser => link'[s] = link[s]
       /\ link' \in [Subjects -> Users \cup {NoUser}]
       /\ \A s \in Subjects : link'[s] # NoUser => Exists(link[s])'
       /\ \A s, t \in Subjects : link'[s] # NoUser /\ link'[s] = link'[t] => s = t
  BY <1>1, <1>8, LinksKept
<1>15. U \in {Changed(u, row), {u}} BY DEF U
<1> QED BY <1>1, <1>2, <1>4, <1>5, <1>6, <1>11, <1>12, <1>13, <1>14, <1>15, CauseTypes, RowStepInv

LEMMA StoreInboundStep == ASSUME IInv, NEW r \in Requests, StoreInbound(r) PROVE IInv'
<1>1. /\ req[r].phase = "store" /\ req[r].op \in {"inbound", "offboard"} /\ ~Clashes(r)
      /\ UNCHANGED link
  BY DEF StoreInbound
<1>2. PICK u \in Users : u = req[r].user BY <1>1, MergedIs
<1> DEFINE row == Merged(r)
           U == Changed(u, row)
           done == IF req[r].op = "offboard" /\ row.status = "inactive"
                   THEN {req[r].sub} ELSE {}
<1>3. /\ StoreRow(u, row) /\ Become(r, Idle, U) /\ Blame("inbound", {u}) /\ Overrule(done, {})
  BY <1>2 DEF StoreInbound
<1>4. /\ Exists(u) /\ row \in Rows /\ row.email \in Emails
      /\ \A v \in Users \ {u} : email[v] # row.email
  BY <1>1, <1>2, MergedIs
<1>5. /\ req[r].op = "offboard" => /\ link[req[r].sub] = u /\ req[r].sub \in Subjects
                                   /\ account[req[r].sub] = "deleted"
                                   /\ row.status # "inactive" => req[r].seen.status = "inactive"
                                                                 /\ status[u] # "inactive"
  <2>1. Formed(req[r]) /\ Tied(req[r]) BY DEF IInv, RequestsFit
  <2> QED BY <1>2, <2>1 DEF Formed, Tied, Merged
<1> HIDE DEF row
<1>6. RowStep(u, row) BY <1>3, <1>4 DEF RowStep
<1>7. U \in SUBSET Users /\ U \in {Changed(u, row), {u}} BY DEF Changed
<1> HIDE DEF U
<1>8. link' = link /\ link \in [Subjects -> Users \cup {NoUser}] BY <1>1 DEF IInv, TypeOK
<1>9. /\ Grows /\ OnlyRows(U) /\ status'[u] = row.status
  BY <1>6, <1>7, <1>8, RowStepParts
<1>10. RequestsFit' /\ req' \in [Requests -> RequestStates]
  BY <1>3, <1>9, FinishFits
<1>11. \A s \in done : s \in Subjects /\ Down(s)'
  BY <1>1, <1>5, <1>9 DEF Down
<1>12. Heard /\ overruled' \in SUBSET Subjects
  BY <1>3, <1>9, <1>11, HeardOverrule, OverruleType DEF IInv
<1>13. ASSUME NEW s \in Subjects, req[r].op = "offboard", req[r].sub = s
       PROVE  s \in overruled' \/ Down(s)'
  <2>1. CASE row.status = "inactive" BY <1>11, <1>13, <2>1
  <2>2. CASE row.status # "inactive"
    <3>1. s \in overruled \/ Down(s) BY <1>5, <1>13, <2>2 DEF IInv, Aware
    <3> QED BY <1>5, <1>12, <1>13, <3>1 DEF Heard
  <2> QED BY <2>1, <2>2
<1>14. /\ \A s \in Subjects : link[s] # NoUser => link'[s] = link[s]
       /\ link' \in [Subjects -> Users \cup {NoUser}]
       /\ \A s \in Subjects : link'[s] # NoUser => Exists(link[s])'
       /\ \A s, t \in Subjects : link'[s] # NoUser /\ link'[s] = link'[t] => s = t
  BY <1>1, <1>9, LinksKept
<1>15. Idle.op # "offboard" BY IdleFits
<1> HIDE DEF done
<1> QED BY <1>1, <1>3, <1>6, <1>7, <1>10, <1>12, <1>13, <1>14, <1>15, CauseTypes, RowStepInv

LEMMA StoreLinkStep == ASSUME IInv, NEW r \in Requests, StoreLink(r) PROVE IInv'
<1>1. /\ req[r].phase = "store" /\ req[r].op = "link" /\ ~Clashes(r) /\ UNCHANGED overruled
  BY DEF StoreLink
<1>2. PICK u \in Users :
        /\ IF req[r].user = NoUser THEN ~Exists(u) ELSE u = req[r].user
        /\ StoreRow(u, IF req[r].user = NoUser THEN req[r].want ELSE Row(u))
        /\ link' = [link EXCEPT ![req[r].sub] = u]
        /\ Become(r, Idle, IF req[r].user = NoUser THEN {u} ELSE {})
        /\ Blame("inbound", IF req[r].user = NoUser THEN {u} ELSE {})
  BY DEF StoreLink
<1> DEFINE row == IF req[r].user = NoUser THEN req[r].want ELSE Row(u)
           U == IF req[r].user = NoUser THEN {u} ELSE {}
<1>3. Formed(req[r]) /\ Rooted(req[r]) BY DEF IInv, RequestsFit
<1>4. /\ req[r].sub \in Subjects /\ req[r].want \in Rows /\ req[r].want.email \in Emails
      /\ req[r].user # NoUser => Exists(req[r].user)
  BY <1>1, <1>3, RequestType DEF Formed, Rooted, Stores
<1>5. /\ row \in Rows /\ row.email \in Emails
      /\ \A v \in Users \ {u} : email[v] # row.email
  <2>1. CASE req[r].user = NoUser
    <3>1. row = req[r].want BY <2>1
    <3>2. ~HasEmail(req[r].want.email) BY <1>1, <2>1 DEF Clashes
    <3> QED BY <1>4, <3>1, <3>2 DEF HasEmail
  <2>2. CASE req[r].user # NoUser
    <3>1. row = Row(u) /\ Exists(u) BY <1>2, <1>4, <2>2
    <3>2. row \in Rows /\ row.email = email[u] BY <3>1, RowType DEF IInv
    <3> QED BY <3>1, <3>2 DEF IInv, OneIdentity, TypeOK, Exists
  <2> QED BY <2>1, <2>2
<1>6. StoreRow(u, row) /\ Become(r, Idle, U) /\ Blame("inbound", U) BY <1>2
<1>7. U \in SUBSET Users /\ U \in {Changed(u, row), {u}}
  BY DEF Changed
<1>8. req[r].user # NoUser => u = req[r].user /\ Exists(u) BY <1>2, <1>4
<1>9. req[r].user = NoUser => ~Exists(u) BY <1>2
<1>10. U = {} => req[r].user # NoUser OBVIOUS
<1>11. U # {} => req[r].user = NoUser /\ U = {u} OBVIOUS
<1> HIDE DEF row, U
<1>12. RowStep(u, row) BY <1>5, <1>6 DEF RowStep
<1>13. link[req[r].sub] = NoUser /\ ~Linked(u)
  <2>1. link[req[r].sub] = NoUser BY <1>1 DEF Clashes
  <2>2. req[r].user # NoUser => ~Linked(u) BY <1>1, <1>8 DEF Clashes
  <2>3. req[r].user = NoUser => ~Linked(u) BY <1>9 DEF Linked, IInv, OneIdentity
  <2> QED BY <2>1, <2>2, <2>3
<1>14. /\ link' \in [Subjects -> Users \cup {NoUser}] /\ link'[req[r].sub] = u
       /\ \A s \in Subjects \ {req[r].sub} : link'[s] = link[s]
       /\ \A s \in Subjects : link[s] # NoUser => link'[s] = link[s]
  BY <1>2, <1>4, <1>13 DEF IInv, TypeOK
<1>15. /\ Grows /\ OnlyRows(U) /\ email'[u] = row.email
       /\ \A v \in Users \ {u} : email'[v] = email[v] /\ status'[v] = status[v]
  BY <1>7, <1>12, <1>14, RowStepParts
<1>16. \A s \in Subjects : link'[s] # NoUser => email'[link'[s]] # NoEmail
  BY <1>5, <1>14, <1>15 DEF Grows, Exists, IInv, OneIdentity, TypeOK
<1>17. \A s \in Subjects : link'[s] # NoUser => Exists(link[s])' BY <1>16 DEF Exists
<1>18. \A s, t \in Subjects : link'[s] # NoUser /\ link'[s] = link'[t] => s = t
  BY <1>13, <1>14 DEF IInv, OneIdentity, Linked
<1>19. RequestsFit' /\ req' \in [Requests -> RequestStates] BY <1>6, <1>15, FinishFits
<1>20. ASSUME NEW v \in Users, Exists(v) PROVE status'[v] = status[v]
  <2>1. CASE v # u BY <1>15, <2>1
  <2>2. CASE v = u
    <3>1. U = {} BY <1>9, <1>11, <1>20, <2>2
    <3>2. Changed(u, row) = {} BY <1>7, <3>1
    <3>3. row.status = status[u] BY <3>2 DEF Changed, Row
    <3>4. status'[u] = row.status BY <1>7, <1>12, <1>14, RowStepParts
    <3> QED BY <2>2, <3>3, <3>4
  <2> QED BY <2>1, <2>2
<1>21. Heard BY <1>1, <1>15, <1>20, HeardSame
<1>22. overruled' \in SUBSET Subjects BY <1>1 DEF IInv, TypeOK
<1>23. Drifts(u)' => u \in U \/ Awaiting(u)' \/ U = {} BY <1>11
<1>24. Idle.op # "offboard" BY IdleFits
<1> QED BY <1>1, <1>6, <1>7, <1>12, <1>14, <1>17, <1>18, <1>19, <1>21, <1>22, <1>23, <1>24,
          CauseTypes, RowStepInv

-----------------------------------------------------------------------------
(* The steps of a reconciliation.                                          *)

LEMMA ReconOnlyStep ==
    ASSUME IInv, ReconOnly, recon' \in ReconStates, Snapshot', events' \in Nat
    PROVE  IInv'
<1>1. /\ Still /\ UNCHANGED <<store, req, cause, hooks, overruled>>
  BY DEF ReconOnly, Still
<1>2. Grows BY <1>1, StillGrows
<1>3. TypeOK' BY <1>1 DEF IInv, TypeOK, Still, store, descope
<1>4. OneIdentity' /\ Addressed' /\ Truthful' BY <1>1, StillParts
<1>5. RequestsFit' BY <1>1, <1>2, UnnoticedFits
<1>6. Caused'
  <2>1. \A u \in Users : Drifts(u)' <=> Drifts(u) BY <1>1, StillDrifts
  <2> QED BY <1>1, <2>1 DEF IInv, Caused, Awaiting
<1>7. Heard BY <1>1, <1>2, HeardSame DEF store
<1>8. Offboarded' BY <1>1 DEF IInv, Offboarded, Offboarding, Down, Still, store, descope
<1>9. Aware' BY <1>1, <1>7, UnnoticedAware
<1> QED BY <1>3, <1>4, <1>5, <1>6, <1>8, <1>9 DEF IInv

LEMMA FetchStep == ASSUME IInv, Fetch PROVE IInv'
<1>1. /\ recon' = [recon EXCEPT !.phase = "fetched", !.account = account, !.address = address]
      /\ ReconOnly /\ events' = events
  BY DEF Fetch
<1>2. /\ recon \in ReconStates /\ account \in [Subjects -> Accounts]
      /\ address \in [Subjects -> Emails \cup {NoEmail}] /\ events' \in Nat
  BY <1>1 DEF IInv, TypeOK
<1>3. /\ recon' \in ReconStates /\ recon'.phase = "fetched"
      /\ recon'.account = account /\ recon'.address = address
  BY <1>1, <1>2 DEF ReconStates
<1>4. UNCHANGED descope BY <1>1 DEF ReconOnly
<1>5. Snapshot'
  BY <1>3, <1>4 DEF IInv, Addressed, Live, Snapshot, Fetched, descope
<1> QED BY <1>1, <1>2, <1>3, <1>5, ReconOnlyStep

LEMMA LoadStep == ASSUME IInv, Load PROVE IInv'
<1> DEFINE rows == [u \in Users |-> Row(u)]
<1>1. /\ recon' = [recon EXCEPT !.phase = "loaded", !.rows = rows]
      /\ ReconOnly /\ events' = events /\ recon.phase = "fetched"
  BY DEF Load
<1>2. recon \in ReconStates /\ rows \in [Users -> Rows] /\ events' \in Nat
  BY <1>1, RowType DEF IInv, TypeOK
<1>3. \A u \in Users : rows[u] = Row(u) /\ rows[u].email = email[u]
  BY RowType DEF IInv
<1> HIDE DEF rows
<1>4. /\ recon' \in ReconStates /\ recon'.phase = "loaded" /\ recon'.rows = rows
      /\ recon'.account = recon.account /\ recon'.address = recon.address
      /\ recon'.stale = recon.stale
  BY <1>1, <1>2 DEF ReconStates
<1>5. UNCHANGED <<store, descope>> BY <1>1 DEF ReconOnly
<1>6. Snapshot'
  <2>1. \A u \in Users : recon'.rows[u] = Row(u)' BY <1>3, <1>4, <1>5 DEF store, Row
  <2>2. \A u \in Users : recon'.rows[u].email = email[u] /\ (Exists(u)' <=> email[u] # NoEmail)
    BY <1>3, <1>4, <1>5 DEF store, Exists
  <2>3. \A u, v \in Users : email[u] # NoEmail /\ email[u] = email[v] => u = v
    BY DEF IInv, OneIdentity, Exists
  <2>4. \A s \in Subjects : Fetched(s)' <=> Fetched(s) BY <1>4 DEF Fetched
  <2>5. /\ \A s \in Subjects : Fetched(s)' => recon'.address[s] \in Emails
        /\ \A s, t \in Subjects :
             Fetched(s)' /\ Fetched(t)' /\ recon'.address[s] = recon'.address[t] => s = t
        /\ \A s \in Subjects \ recon'.stale :
             recon'.account[s] = account'[s] /\ recon'.address[s] = address'[s]
    BY <1>1, <1>4, <1>5, <2>4 DEF IInv, Snapshot, descope
  <2> QED BY <1>4, <2>1, <2>2, <2>3, <2>5 DEF Snapshot
<1> QED BY <1>1, <1>2, <1>4, <1>6, ReconOnlyStep

LEMMA AtRestIs == AtRest \in ReconStates /\ AtRest.phase = "idle"
  BY DEF AtRest, ReconStates, Accounts, Rows, NoRow, Statuses

LEMMA GiveUpStep == ASSUME IInv, GiveUp PROVE IInv'
<1>1. recon' = AtRest /\ ReconOnly /\ Spend(1) BY DEF GiveUp
<1>2. Snapshot' BY <1>1, AtRestIs DEF Snapshot
<1> QED BY <1>1, <1>2, AtRestIs, SpendType, ReconOnlyStep

\* An account matches one user at most, and a user one account.
LEMMA MatchesUnique ==
    ASSUME IInv, recon.phase = "loaded"
    PROVE  /\ \A s \in Subjects, u \in Users : Matches(s, u) => Exists(u)
           /\ \A s, t \in Subjects, u \in Users : Matches(s, u) /\ Matches(t, u) => s = t
           /\ \A s \in Subjects, u, v \in Users : Matches(s, u) /\ Matches(s, v) => u = v
  BY DEF IInv, Snapshot, Matches

\* What Reconcile writes, with the users it creates.
New(new) ==
    /\ new \in [Unmatched -> {u \in Users : ~Exists(u)}]
    /\ \A s, t \in Unmatched : new[s] = new[t] => s = t
    /\ WriteBack(new)

LEMMA UnmatchedIs ==
    ASSUME IInv, recon.phase = "loaded", NEW s \in Unmatched
    PROVE  /\ s \in Subjects /\ Fetched(s) /\ recon.address[s] \in Emails
           /\ \A u \in Users : email[u] # recon.address[s] /\ ~Matches(s, u)
  BY DEF Unmatched, HasEmail, IInv, Snapshot

LEMMA MappedType == \A s : Mapped(s) \in Statuses
  BY DEF Mapped, FromDescope, Statuses

LEMMA WrittenNew ==
    ASSUME IInv, recon.phase = "loaded", NEW new, New(new), NEW s \in Unmatched
    PROVE  /\ new[s] \in Users /\ ~Exists(new[s])
           /\ email'[new[s]] = recon.address[s] /\ status'[new[s]] = Mapped(s)
<1>1. new[s] \in Users /\ ~Exists(new[s]) BY DEF New
<1>2. (CHOOSE t \in Unmatched : new[t] = new[s]) = s
  <2>1. \A t \in Unmatched : new[t] = new[s] => t = s BY DEF New
  <2> QED BY <2>1
<1>3. email'[new[s]] = recon.address[CHOOSE t \in Unmatched : new[t] = new[s]]
  BY <1>1 DEF New, WriteBack
<1>4. status'[new[s]] = Mapped(CHOOSE t \in Unmatched : new[t] = new[s])
  BY <1>1 DEF New, WriteBack
<1> QED BY <1>1, <1>2, <1>3, <1>4

LEMMA WrittenOld ==
    ASSUME IInv, recon.phase = "loaded", NEW new, New(new), NEW u \in Users,
           \A s \in Unmatched : new[s] # u
    PROVE  /\ email'[u] = email[u]
           /\ \/ status'[u] = status[u] /\ \A s \in Subjects : ~(Matches(s, u) /\ Resolved(s, u))
              \/ \E s \in Subjects : Matches(s, u) /\ Resolved(s, u) /\ status'[u] = Mapped(s)
<1>1. email'[u] = email[u] BY DEF New, WriteBack
<1>2. CASE \E s \in Subjects : Matches(s, u) /\ Resolved(s, u)
  <2>1. PICK s \in Subjects : Matches(s, u) /\ Resolved(s, u) BY <1>2
  <2>2. (CHOOSE t \in Subjects : Matches(t, u)) = s BY <2>1, MatchesUnique
  <2>3. status'[u] = Mapped(CHOOSE t \in Subjects : Matches(t, u))
    BY <1>2 DEF New, WriteBack
  <2> QED BY <1>1, <2>1, <2>2, <2>3
<1>3. CASE ~\E s \in Subjects : Matches(s, u) /\ Resolved(s, u)
  <2>1. status'[u] = status[u] BY <1>3 DEF New, WriteBack
  <2> QED BY <1>1, <1>3, <2>1
<1> QED BY <1>2, <1>3

LEMMA WrittenGrows ==
    ASSUME IInv, recon.phase = "loaded", NEW new, New(new), UNCHANGED descope
    PROVE  /\ Grows
           /\ email' \in [Users -> Emails \cup {NoEmail}] /\ status' \in [Users -> Statuses]
           /\ \A u, v \in Users : Exists(u)' /\ email'[u] = email'[v] => u = v
<1> DEFINE Old(u) == \A s \in Unmatched : new[s] # u
<1>1. \A u \in Users : Old(u) =>
        /\ email'[u] = email[u]
        /\ status'[u] \in Statuses
  <2>1. \A u \in Users : status[u] \in Statuses BY DEF IInv, TypeOK
  <2> QED BY <2>1, WrittenOld, MappedType
<1>2. \A u \in Users : ~Old(u) => \E s \in Unmatched :
        /\ u = new[s] /\ ~Exists(u)
        /\ email'[u] = recon.address[s] /\ email'[u] \in Emails
        /\ \A v \in Users : email[v] # recon.address[s]
        /\ status'[u] \in Statuses /\ s \in Subjects /\ Fetched(s)
  BY WrittenNew, UnmatchedIs, MappedType
<1> HIDE DEF Old
<1>3. DOMAIN email' = Users /\ DOMAIN status' = Users
      /\ email' = [u \in Users |-> email'[u]] /\ status' = [u \in Users |-> status'[u]]
  BY DEF New, WriteBack
<1>4. \A u \in Users : email'[u] \in Emails \cup {NoEmail} /\ status'[u] \in Statuses
  <2>1. \A u \in Users : email[u] \in Emails \cup {NoEmail} BY DEF IInv, TypeOK
  <2> QED BY <1>1, <1>2, <2>1
<1>5. \A u \in Users : Exists(u) => email'[u] # NoEmail BY <1>1, <1>2 DEF Exists
<1>6. \A s \in Subjects : link[s] # NoUser => link'[s] = link[s]
  BY DEF New, WriteBack
<1>7. Grows BY <1>5, <1>6 DEF Grows, Exists, descope
<1>8. ASSUME NEW u \in Users, NEW v \in Users, Exists(u)', email'[u] = email'[v]
      PROVE  u = v
  <2>1. CASE Old(u) /\ Old(v) BY <1>1, <1>8, <2>1 DEF Exists, IInv, OneIdentity
  <2>2. CASE Old(u) /\ ~Old(v) BY <1>1, <1>2, <1>8, <2>2
  <2>3. CASE ~Old(u) /\ Old(v) BY <1>1, <1>2, <1>8, <2>3
  <2>4. CASE ~Old(u) /\ ~Old(v)
    <3>1. PICK s \in Unmatched : u = new[s] /\ email'[u] = recon.address[s]
                                 /\ s \in Subjects /\ Fetched(s) /\ email'[u] \in Emails
      BY <1>2, <2>4
    <3>2. PICK t \in Unmatched : v = new[t] /\ email'[v] = recon.address[t]
                                 /\ t \in Subjects /\ Fetched(t)
      BY <1>2, <2>4
    <3>3. s = t BY <1>8, <3>1, <3>2 DEF IInv, Snapshot
    <3> QED BY <3>1, <3>2, <3>3
  <2> QED BY <2>1, <2>2, <2>3, <2>4
<1> QED BY <1>3, <1>4, <1>7, <1>8

LEMMA WrittenLinks ==
    ASSUME IInv, recon.phase = "loaded", NEW new, New(new), UNCHANGED descope
    PROVE  /\ link' \in [Subjects -> Users \cup {NoUser}]
           /\ \A s \in Subjects : link'[s] # NoUser => Exists(link[s])'
           /\ \A s, t \in Subjects : link'[s] # NoUser /\ link'[s] = link'[t] => s = t
<1> DEFINE owner(s, u) == IF s \in Unmatched THEN new[s] = u ELSE Matches(s, u)
           Gets(s) == link[s] = NoUser /\ \E u \in Users : owner(s, u) /\ ~Linked(u)
<1>1. link' = [s \in Subjects |-> IF Gets(s) THEN CHOOSE u \in Users : owner(s, u) ELSE link[s]]
  BY DEF New, WriteBack
<1>2. \A s \in Subjects, u, v \in Users : owner(s, u) /\ owner(s, v) => u = v
  BY MatchesUnique
<1>3. \A s, t \in Subjects, u \in Users : owner(s, u) /\ owner(t, u) => s = t
  <2> SUFFICES ASSUME NEW s \in Subjects, NEW t \in Subjects, NEW u \in Users,
                      owner(s, u), owner(t, u)
               PROVE  s = t
    OBVIOUS
  <2>1. CASE s \in Unmatched /\ t \in Unmatched BY <2>1 DEF New
  <2>2. CASE s \notin Unmatched /\ t \notin Unmatched BY <2>2, MatchesUnique
  <2>3. CASE s \in Unmatched /\ t \notin Unmatched
    <3>1. ~Exists(u) BY <2>3 DEF New
    <3>2. Exists(u) BY <2>3, MatchesUnique
    <3> QED BY <3>1, <3>2
  <2>4. CASE s \notin Unmatched /\ t \in Unmatched
    <3>1. ~Exists(u) BY <2>4 DEF New
    <3>2. Exists(u) BY <2>4, MatchesUnique
    <3> QED BY <3>1, <3>2
  <2> QED BY <2>1, <2>2, <2>3, <2>4
<1>4. \A s \in Subjects, u \in Users : owner(s, u) => email'[u] # NoEmail
  <2> SUFFICES ASSUME NEW s \in Subjects, NEW u \in Users, owner(s, u)
               PROVE  email'[u] # NoEmail
    OBVIOUS
  <2>1. CASE s \in Unmatched
    <3>1. email'[u] = recon.address[s] /\ recon.address[s] \in Emails
      BY <2>1, WrittenNew, UnmatchedIs
    <3> QED BY <3>1
  <2>2. CASE s \notin Unmatched
    <3>1. Exists(u) BY <2>2, MatchesUnique
    <3> QED BY <3>1, WrittenGrows DEF Grows, Exists
  <2> QED BY <2>1, <2>2
<1>5. \A s \in Subjects : Gets(s) => \E u \in Users : owner(s, u) /\ ~Linked(u) /\ link'[s] = u
  <2> SUFFICES ASSUME NEW s \in Subjects, Gets(s)
               PROVE  \E u \in Users : owner(s, u) /\ ~Linked(u) /\ link'[s] = u
    OBVIOUS
  <2>1. PICK u \in Users : owner(s, u) /\ ~Linked(u) OBVIOUS
  <2> HIDE DEF owner
  <2>2. (CHOOSE v \in Users : owner(s, v)) = u BY <1>2, <2>1
  <2>3. link'[s] = CHOOSE v \in Users : owner(s, v) BY <1>1
  <2> QED BY <2>1, <2>2, <2>3
<1>6. \A s \in Subjects : ~Gets(s) => link'[s] = link[s] BY <1>1
<1> HIDE DEF Gets, owner
<1>7. link \in [Subjects -> Users \cup {NoUser}] BY DEF IInv, TypeOK
<1>8. link' \in [Subjects -> Users \cup {NoUser}]
  <2>1. \A s \in Subjects : link'[s] \in Users \cup {NoUser} BY <1>5, <1>6, <1>7
  <2>2. link' = [s \in Subjects |-> link'[s]] BY <1>1
  <2> QED BY <2>1, <2>2
<1>9. \A s \in Subjects : link[s] # NoUser => email'[link[s]] # NoEmail
  BY <1>7, WrittenGrows DEF Grows, Exists, IInv, OneIdentity
<1>10. \A s \in Subjects : link'[s] # NoUser => Exists(link[s])'
  BY <1>4, <1>5, <1>6, <1>9 DEF Exists
<1>11. ASSUME NEW s \in Subjects, NEW t \in Subjects, link'[s] # NoUser, link'[s] = link'[t]
       PROVE  s = t
  <2>1. CASE Gets(s) /\ Gets(t) BY <1>3, <1>5, <1>11, <2>1
  <2>2. CASE ~Gets(s) /\ ~Gets(t) BY <1>6, <1>11, <2>2 DEF IInv, OneIdentity
  <2>3. CASE Gets(s) /\ ~Gets(t) BY <1>5, <1>6, <1>11, <2>3 DEF Linked
  <2>4. CASE ~Gets(s) /\ Gets(t) BY <1>5, <1>6, <1>11, <2>4 DEF Linked
  <2> QED BY <2>1, <2>2, <2>3, <2>4
<1> QED BY <1>8, <1>10, <1>11

\* The row of u agrees with its account, if neither has changed meanwhile.
LEMMA WrittenAgrees ==
    ASSUME IInv, recon.phase = "loaded", NEW new, New(new), UNCHANGED descope,
           NEW u \in Users, u \notin recon.moved,
           \A s \in recon.stale : address[s] # email'[u]
    PROVE  ~Drifts(u)'
<1> SUFFICES ASSUME NEW t \in Subjects, Live(t)', address'[t] = email'[u]
             PROVE  Agree(status'[u], account'[t])
  BY DEF Drifts, Agree, ToDescope, FromDescope
<1>1. account'[t] = account[t] /\ address'[t] = address[t] BY DEF descope
<1>2. t \notin recon.stale BY <1>1
<1>3. recon.account[t] = account[t] /\ recon.address[t] = address[t] /\ Fetched(t)
  BY <1>1, <1>2 DEF IInv, Snapshot, Live, Fetched
<1>4. status'[u] = Mapped(t)
  <2>1. ASSUME NEW s \in Unmatched, new[s] = u PROVE status'[u] = Mapped(t)
    <3>1. email'[u] = recon.address[s] /\ status'[u] = Mapped(s) BY <2>1, WrittenNew
    <3>2. s = t
      <4>1. s \in Subjects /\ Fetched(s) BY UnmatchedIs
      <4>2. \A x, y \in Subjects :
              Fetched(x) /\ Fetched(y) /\ recon.address[x] = recon.address[y] => x = y
        BY DEF IInv, Snapshot
      <4> QED BY <1>1, <1>3, <3>1, <4>1, <4>2
    <3> QED BY <3>1, <3>2
  <2>2. ASSUME \A s \in Unmatched : new[s] # u PROVE status'[u] = Mapped(t)
    <3>1. email'[u] = email[u] BY <2>2, WrittenOld
    <3>2. recon.rows[u].email = email[u] /\ recon.rows[u].status = status[u]
      <4>1. recon.rows[u] = Row(u) BY DEF IInv, Snapshot
      <4> QED BY <4>1, RowType DEF IInv
    <3>3. Matches(t, u) BY <1>1, <1>3, <3>1, <3>2 DEF Matches
    <3>4. CASE Resolved(t, u)
      <4>1. PICK s \in Subjects : Matches(s, u) /\ status'[u] = Mapped(s)
        BY <2>2, <3>3, <3>4, WrittenOld
      <4>2. s = t BY <3>3, <4>1, MatchesUnique
      <4> QED BY <4>1, <4>2
    <3>5. CASE ~Resolved(t, u)
      <4>1. \A s \in Subjects : Matches(s, u) => s = t BY <3>3, MatchesUnique
      <4>2. status'[u] = status[u] BY <2>2, <3>5, <4>1, WrittenOld
      <4> QED BY <3>2, <3>5, <4>2 DEF Resolved
    <3> QED BY <3>4, <3>5
  <2> QED BY <2>1, <2>2
<1> QED BY <1>1, <1>3, <1>4 DEF Mapped, Agree

LEMMA ReconcileStep == ASSUME IInv, Reconcile PROVE IInv'
<1>1. /\ recon.phase = "loaded" /\ recon' = AtRest /\ UNCHANGED <<descope, hooks, events>>
      /\ Overrule({}, {})
  BY DEF Reconcile
<1>2. PICK new : New(new) BY DEF Reconcile, New
<1>3. PICK U : U = {u \in Users : Row(u) # Row(u)'} OBVIOUS
<1>4. OnlyRows(U) BY <1>3 DEF OnlyRows, Row
<1>5. /\ \A p \in Requests : req'[p] = Struck(p, U)
      /\ req' = [p \in Requests |-> req'[p]]
  BY <1>2, <1>3 DEF New, WriteBack, Struck
<1>6. /\ Grows
      /\ email' \in [Users -> Emails \cup {NoEmail}] /\ status' \in [Users -> Statuses]
      /\ \A u, v \in Users : Exists(u)' /\ email'[u] = email'[v] => u = v
  BY <1>1, <1>2, WrittenGrows
<1>7. /\ link' \in [Subjects -> Users \cup {NoUser}]
      /\ \A s \in Subjects : link'[s] # NoUser => Exists(link[s])'
      /\ \A s, t \in Subjects : link'[s] # NoUser /\ link'[s] = link'[t] => s = t
  BY <1>1, <1>2, WrittenLinks
<1>8. \A p \in Requests : Formed(req'[p]) /\ Fresh(req[p])' /\ Rooted(req[p])' /\ Tied(req[p])'
  BY <1>4, <1>5, <1>6, OthersFit
<1>9. RequestsFit' BY <1>8 DEF RequestsFit
<1>10. Heard /\ overruled' \in SUBSET Subjects
  BY <1>1, <1>6, HeardOverrule, OverruleType DEF IInv
<1>11. cause' = [u \in Users |->
          IF Drifts(u)' /\ (u \in recon.moved
                            \/ \E s \in recon.stale : address[s] = email'[u])
          THEN "stale" ELSE "none"]
  BY DEF Reconcile
<1>12. TypeOK'
  <2>1. cause' \in [Users -> Causes] BY <1>11 DEF Causes
  <2>2. req' \in [Requests -> RequestStates]
    <3>1. \A p \in Requests : req'[p] \in RequestStates BY <1>8 DEF Formed
    <3> QED BY <1>5, <3>1
  <2> QED BY <1>1, <1>6, <1>7, <1>10, <2>1, <2>2, AtRestIs DEF IInv, TypeOK, descope
<1>13. OneIdentity'
  <2>1. \A s \in Subjects : link'[s] # NoUser => email'[link'[s]] # NoEmail
    BY <1>7 DEF Exists
  <2> QED BY <1>6, <1>7, <2>1 DEF OneIdentity, Exists
<1>14. Addressed' /\ Truthful' /\ Snapshot'
  BY <1>1, AtRestIs DEF IInv, Addressed, Truthful, Snapshot, descope, Live
<1>15. Caused'
  <2> SUFFICES ASSUME NEW u \in Users, Drifts(u)', cause'[u] = "none" PROVE FALSE
    BY DEF Caused
  <2>1. u \notin recon.moved /\ \A s \in recon.stale : address[s] # email'[u]
    BY <1>11
  <2> QED BY <1>1, <1>2, <2>1, WrittenAgrees
<1>16. Offboarded'
  <2>1. ASSUME NEW s \in Subjects, Offboarding(s) PROVE Offboarding(s)'
    <3>1. \A p \in Requests : req'[p].op = req[p].op /\ req'[p].sub = req[p].sub
      <4>1. \A p \in Requests : Struck(p, U).op = req[p].op /\ Struck(p, U).sub = req[p].sub
        BY StruckFits DEF IInv
      <4> QED BY <1>5, <4>1
    <3> QED BY <1>1, <2>1, <3>1 DEF Offboarding
  <2>2. \A s \in Subjects : account'[s] = account[s] BY <1>1 DEF descope
  <2> QED BY <1>6, <1>10, <2>1, <2>2, OffboardedStep
<1>17. Aware'
  <2> SUFFICES ASSUME NEW p \in Requests, req'[p].op = "offboard",
                      req'[p].seen.status = "inactive"
               PROVE  Down(req[p].sub)' \/ req'[p].sub \in overruled'
    BY DEF Aware
  <2>1. /\ Struck(p, U).op = req[p].op /\ Struck(p, U).sub = req[p].sub
        /\ Struck(p, U).seen = req[p].seen
    BY StruckFits DEF IInv
  <2>2. /\ req[p].op = "offboard" /\ req[p].seen.status = "inactive"
        /\ req'[p].sub = req[p].sub
    BY <1>5, <2>1
  <2>3. Formed(req[p]) /\ Tied(req[p]) BY DEF IInv, RequestsFit
  <2>4. req[p].sub \in Subjects /\ account[req[p].sub] = "deleted"
    BY <2>2, <2>3 DEF Formed, Tied
  <2>5. req[p].sub \in overruled \/ Down(req[p].sub) BY <2>2 DEF IInv, Aware
  <2> QED BY <1>10, <2>2, <2>4, <2>5 DEF Heard, Down
<1> QED BY <1>9, <1>12, <1>13, <1>14, <1>15, <1>16, <1>17 DEF IInv

-----------------------------------------------------------------------------
LEMMA InitInv == Init => IInv
<1> SUFFICES ASSUME Init PROVE IInv OBVIOUS
<1>1. \A s \in Subjects : address[s] \in Emails \cup {NoEmail} BY DEF Init
<1>2. TypeOK
  <2>1. account \in [Subjects -> Accounts] BY DEF Init, Accounts
  <2>2. req \in [Requests -> RequestStates] BY IdleFits DEF Init, Formed
  <2>3. cause \in [Users -> Causes] /\ events \in Nat BY CauseTypes DEF Init
  <2> QED BY <2>1, <2>2, <2>3, AtRestIs DEF Init, TypeOK
<1>3. OneIdentity
  <2>1. \A u, v \in Users : Exists(u) /\ email[u] = email[v] => u = v BY DEF Init
  <2>2. \A s \in Subjects : link[s] # NoUser =>
          address[s] # NoEmail /\ email[link[s]] = address[s]
    BY DEF Init
  <2>3. \A s, t \in Subjects : address[s] # NoEmail /\ address[s] = address[t] => s = t
    BY DEF Init
  <2> QED BY <2>1, <2>2, <2>3 DEF OneIdentity, Exists
<1>4. Addressed
  <2>1. \A s \in Subjects : Live(s) => address[s] # NoEmail BY DEF Init
  <2> QED BY <1>1, <2>1 DEF Addressed, Init
<1>5. Truthful /\ Snapshot BY AtRestIs DEF Init, Truthful, Snapshot
<1>6. RequestsFit
  BY IdleFits DEF Init, RequestsFit, Fresh, Rooted, Tied, Relies, Stores
<1>7. Caused
  <2>1. ASSUME NEW u \in Users PROVE ~Drifts(u)
    <3> SUFFICES ASSUME NEW s \in Subjects, Exists(u), Live(s), address[s] = email[u]
                 PROVE  Agree(status[u], account[s])
      BY DEF Drifts
    <3>1. PICK v \in Users : email[v] = address[s] /\ status[v] = FromDescope(account[s])
      BY DEF Init
    <3>2. v = u BY <1>3, <3>1 DEF OneIdentity, Exists
    <3> QED BY <3>1, <3>2 DEF Agree
  <2> QED BY <2>1 DEF Caused
<1>8. Offboarded BY DEF Init, Offboarded
<1>9. Aware BY IdleFits DEF Init, Aware
<1> QED BY <1>2, <1>3, <1>4, <1>5, <1>6, <1>7, <1>8, <1>9 DEF IInv

LEMMA StutterStep == ASSUME IInv, UNCHANGED vars PROVE IInv'
<1>1. Still /\ UNCHANGED <<hooks, req, recon, cause, overruled, events>>
  BY DEF vars, Still, store, descope
<1>2. recon' \in ReconStates /\ events' \in Nat BY <1>1 DEF IInv, TypeOK
<1>3. Snapshot' BY <1>1, SnapshotSame DEF IInv, Still
<1>4. ReconOnly BY <1>1 DEF Still, ReconOnly
<1> QED BY <1>2, <1>3, <1>4, ReconOnlyStep

LEMMA NextInv == IInv /\ [Next]_vars => IInv'
<1> SUFFICES ASSUME IInv, [Next]_vars PROVE IInv' OBVIOUS
<1>1. CASE UNCHANGED vars BY <1>1, StutterStep
<1>2. ASSUME NEW r \in Requests, Commit(r) PROVE IInv'
  BY <1>2, StoreNewStep, StoreUpdateStep, StoreRemoveStep, StoreInboundStep,
     StoreLinkStep, ConflictStep DEF Commit
<1>3. ASSUME NEW r \in Requests, Push(r) PROVE IInv'
  BY <1>3, LandStep, PushFailsStep DEF Push
<1>4. ASSUME NEW r \in Requests, ApiCall(r) \/ Deliver(r) \/ Abort(r) PROVE IInv'
  BY <1>4, CallStep, DeliverStep, AbortStep
<1>5. ASSUME NEW h \in hooks, TakeUnknown(h) \/ LoseHook(h) PROVE IInv'
  BY <1>5, TakeUnknownStep, LoseHookStep
<1>6. CASE ReconStep \/ GiveUp
  BY <1>6, FetchStep, LoadStep, ReconcileStep, GiveUpStep DEF ReconStep
<1>7. CASE DescopeStep BY <1>7, DescopeStepInv
<1> QED BY <1>1, <1>2, <1>3, <1>4, <1>5, <1>6, <1>7 DEF Next

THEOREM Invariance == Spec => []IInv
  BY InitInv, NextInv, PTL DEF Spec

-----------------------------------------------------------------------------
(* The theorems.                                                           *)

\* Every reachable state is well typed (UserService, InboundSyncService and
\* ReconciliationService).
THEOREM TypeCorrect == Spec => []TypeOK
<1>1. IInv => TypeOK BY DEF IInv
<1> QED BY <1>1, Invariance, PTL

\* Emails are unique, and a user and a subject keep to one another, whoever
\* creates rows and links at the same time (the unique constraints that
\* StoreNew, StoreInbound, StoreLink and Reconcile rely on).
THEOREM IdentityIsOne == Spec => []OneIdentity
<1>1. IInv => OneIdentity BY DEF IInv
<1> QED BY <1>1, Invariance, PTL

\* A row and its account differ only for a reason that is known: a push is
\* under way, or one of the causes is (UserService, ReconciliationService.run).
THEOREM DriftAlwaysHasCause == Spec => []DriftHasCause
<1>1. IInv => DriftHasCause
  <2>1. \A u \in Users : Awaiting(u) => Pushing(u) BY DEF Awaiting, Pushing
  <2> QED BY <2>1 DEF IInv, Caused, DriftHasCause
<1> QED BY <1>1, Invariance, PTL

\* The user of a deleted account is deactivated, unless the webhook is under
\* way or somebody has overruled it (_handle_user_deleted).
THEOREM ZombieAlwaysHasCause == Spec => []ZombieHasCause
<1>1. IInv => ZombieHasCause BY DEF IInv, Offboarded, Down, ZombieHasCause
<1> QED BY <1>1, Invariance, PTL

\* What a step reinstates, it was asked to, or a reconciliation does it.
LEMMA ReinstatedBy ==
    ASSUME IInv, [Next]_vars, NEW u \in Users, Exists(u), status[u] = "inactive",
           status'[u] # "inactive"
    PROVE  \/ recon.phase = "loaded" /\ recon'.phase = "idle"
           \/ \E r \in Requests : /\ req[r].user = u /\ req[r].phase = "store"
                                  /\ req[r].want.status = "active"
                                  /\ req[r].seen.status # "active"
<1>1. status' # status OBVIOUS
<1>2. status \in [Users -> Statuses] BY DEF IInv, TypeOK
<1>3. ASSUME NEW r \in Requests, StoreUpdate(r) \/ StoreInbound(r)
      PROVE  /\ req[r].user = u /\ req[r].phase = "store"
             /\ req[r].want.status = "active" /\ req[r].seen.status # "active"
  <2>1. /\ req[r].phase = "store" /\ req[r].op \in {"update", "inbound", "offboard"}
        /\ status' = [status EXCEPT ![req[r].user] = Merged(r).status]
    BY <1>3 DEF StoreUpdate, StoreInbound, StoreRow
  <2>2. req[r].user = u /\ Merged(r).status # "inactive" BY <1>2, <2>1
  <2>3. req[r].want.status # req[r].seen.status /\ req[r].want.status # "inactive"
    BY <2>2 DEF Merged
  <2>4. Formed(req[r]) BY DEF IInv, RequestsFit
  <2> QED BY <2>1, <2>2, <2>3, <2>4 DEF Formed, Stores
<1>4. ASSUME NEW r \in Requests, StoreNew(r) PROVE FALSE
  <2>1. PICK v \in Users : ~Exists(v) /\ StoreRow(v, req[r].want) BY <1>4 DEF StoreNew
  <2> QED BY <1>2, <2>1 DEF StoreRow
<1>5. ASSUME NEW r \in Requests, StoreLink(r) PROVE FALSE
  <2>1. PICK v \in Users :
          /\ IF req[r].user = NoUser THEN ~Exists(v) ELSE v = req[r].user
          /\ StoreRow(v, IF req[r].user = NoUser THEN req[r].want ELSE Row(v))
    BY <1>5 DEF StoreLink
  <2>2. CASE req[r].user = NoUser BY <1>2, <2>1, <2>2 DEF StoreRow
  <2>3. CASE req[r].user # NoUser
    <3>1. status' = [status EXCEPT ![v] = Row(v).status] BY <2>1, <2>3 DEF StoreRow
    <3>2. Row(v).status = status[v] BY RowType DEF IInv
    <3> QED BY <1>1, <1>2, <3>1, <3>2
  <2> QED BY <2>2, <2>3
<1>6. CASE Reconcile BY <1>6, AtRestIs DEF Reconcile
<1>7. CASE UNCHANGED status BY <1>1, <1>7
<1>8. ASSUME NEW r \in Requests, ApiCall(r) \/ Deliver(r) \/ Abort(r) \/ Push(r)
             \/ StoreRemove(r) \/ Conflict(r)
      PROVE  UNCHANGED status
  BY <1>8 DEF ApiCall, CreateUser, UpdateUser, SetStatus, RemoveFromTenant, Call, Deliver,
     TakeLinked, TakeCreated, TakeDeleted, Begin, Abort, Push, Land, PushFails, StoreRemove,
     Conflict, store
<1>9. ASSUME NEW h \in hooks, TakeUnknown(h) \/ LoseHook(h) PROVE UNCHANGED status
  BY <1>9 DEF TakeUnknown, LoseHook, store
<1>10. CASE DescopeStep
  BY <1>7, <1>10 DEF DescopeStep, SignUp, InviteMember, ChangeAddress, SetMember,
     DeleteAccount, Appear, Outside, store
<1>11. CASE Fetch \/ Load \/ GiveUp
  BY <1>7, <1>11 DEF Fetch, Load, GiveUp, ReconOnly, store
<1>12. CASE UNCHANGED vars BY <1>7, <1>12 DEF vars, store
<1> QED BY <1>3, <1>4, <1>5, <1>6, <1>7, <1>8, <1>9, <1>10, <1>11, <1>12
        DEF Next, Commit, ReconStep

\* A deactivated user comes back only by an activation or a reconciliation: no
\* late write of something else carries an old status along (UPDATE sets what
\* differs from what was read).
THEOREM OnlyDecisionsEverReinstate == Spec => OnlyDecisionsReinstate
<1>1. IInv /\ [Next]_vars =>
        [\A u \in Users :
           Exists(u) /\ status[u] = "inactive" /\ status'[u] # "inactive"
           => \/ recon.phase = "loaded" /\ recon'.phase = "idle"
              \/ \E r \in Requests : /\ req[r].user = u /\ req[r].phase = "store"
                                     /\ req[r].want.status = "active"
                                     /\ req[r].seen.status # "active"]_vars
  BY ReinstatedBy
<1> QED BY <1>1, Invariance, PTL DEF Spec, OnlyDecisionsReinstate

\* The user whose row had or has the email of an account that stood still: what
\* is written to it, unless it has changed.
LEMMA SettledBy ==
    ASSUME IInv, recon.phase = "loaded", NEW new, New(new), UNCHANGED descope,
           NEW s \in Subjects \ recon.stale, Live(s),
           NEW u \in Users, IF s \in Unmatched THEN u = new[s] ELSE Matches(s, u)
    PROVE  \/ u \in recon.moved /\ address[s] = recon.rows[u].email
           \/ email'[u] = address[s] /\ status'[u] = FromDescope(account[s])
<1>1. recon.account[s] = account[s] /\ recon.address[s] = address[s] /\ Fetched(s)
  BY DEF IInv, Snapshot, Live, Fetched
<1>2. Mapped(s) = FromDescope(account[s]) BY <1>1 DEF Mapped
<1>3. CASE s \in Unmatched BY <1>1, <1>2, <1>3, WrittenNew
<1>4. CASE s \notin Unmatched /\ u \in recon.moved BY <1>1, <1>4 DEF Matches
<1>5. CASE s \notin Unmatched /\ u \notin recon.moved
  <2>1. Matches(s, u) BY <1>5
  <2>2. recon.rows[u].email = email[u] /\ recon.rows[u].status = status[u]
    <3>1. recon.rows[u] = Row(u) BY <1>5 DEF IInv, Snapshot
    <3> QED BY <3>1, RowType DEF IInv
  <2>3. \A t \in Unmatched : new[t] # u
    <3>1. Exists(u) BY <2>1, MatchesUnique
    <3> QED BY <3>1, WrittenNew
  <2>4. email'[u] = address[s] BY <1>1, <2>1, <2>2, <2>3, WrittenOld DEF Matches
  <2>5. \A t \in Subjects : Matches(t, u) => t = s BY <2>1, MatchesUnique
  <2>6. status'[u] = Mapped(s)
    <3>1. CASE Resolved(s, u) BY <2>1, <2>3, <2>5, <3>1, WrittenOld
    <3>2. CASE ~Resolved(s, u)
      <4>1. status'[u] = status[u] BY <2>3, <2>5, <3>2, WrittenOld
      <4> QED BY <2>2, <3>2, <4>1 DEF Resolved
    <3> QED BY <3>1, <3>2
  <2> QED BY <1>2, <2>4, <2>6
<1> QED BY <1>3, <1>4, <1>5

\* The account of this user has a link afterwards, or the user has one.
LEMMA LinkedBy ==
    ASSUME IInv, recon.phase = "loaded", NEW new, New(new), UNCHANGED descope,
           NEW s \in Subjects,
           NEW u \in Users, IF s \in Unmatched THEN u = new[s] ELSE Matches(s, u)
    PROVE  link'[s] # NoUser \/ \E t \in Subjects : link'[t] = u
<1> DEFINE owner(t, v) == IF t \in Unmatched THEN new[t] = v ELSE Matches(t, v)
<1>1. Grows BY WrittenGrows
<1>2. CASE link[s] # NoUser BY <1>1, <1>2 DEF Grows
<1>3. CASE Linked(u) BY <1>1, <1>3 DEF Linked, Grows
<1>4. CASE link[s] = NoUser /\ ~Linked(u)
  <2>1. owner(s, u) OBVIOUS
  <2>2. link'[s] = CHOOSE v \in Users : owner(s, v)
    BY <1>4, <2>1 DEF New, WriteBack
  <2> HIDE DEF owner
  <2>3. link'[s] \in Users BY <2>1, <2>2
  <2> QED BY <2>3
<1> QED BY <1>2, <1>3, <1>4

LEMMA ReconcileMends ==
    ASSUME IInv, Reconcile, NEW s \in Subjects \ recon.stale, Live(s)
    PROVE  \E u \in Users :
              \/ u \in recon.moved /\ address[s] \in {recon.rows[u].email, email[u]}
              \/ /\ email'[u] = address[s] /\ status'[u] = FromDescope(account[s])
                 /\ link'[s] # NoUser \/ \E t \in Subjects : link'[t] = u
<1>1. recon.phase = "loaded" /\ UNCHANGED descope BY DEF Reconcile
<1>2. PICK new : New(new) BY DEF Reconcile, New
<1>3. recon.address[s] = address[s] /\ Fetched(s)
  BY <1>1 DEF IInv, Snapshot, Live, Fetched
<1>4. ASSUME NEW u \in Users, IF s \in Unmatched THEN u = new[s] ELSE Matches(s, u)
      PROVE  \/ u \in recon.moved /\ address[s] = recon.rows[u].email
             \/ /\ email'[u] = address[s] /\ status'[u] = FromDescope(account[s])
                /\ link'[s] # NoUser \/ \E t \in Subjects : link'[t] = u
  BY <1>1, <1>2, <1>4, SettledBy, LinkedBy
<1>5. CASE s \in Unmatched
  <2>1. new[s] \in Users BY <1>1, <1>2, <1>5, WrittenNew
  <2> QED BY <1>4, <1>5, <2>1
<1>6. ASSUME s \notin Unmatched, NEW u \in Users, Matches(s, u) PROVE \E v \in Users : v = u
      /\ (\/ u \in recon.moved /\ address[s] = recon.rows[u].email
          \/ /\ email'[u] = address[s] /\ status'[u] = FromDescope(account[s])
             /\ link'[s] # NoUser \/ \E t \in Subjects : link'[t] = u)
  BY <1>4, <1>6
<1>7. ASSUME s \notin Unmatched, \A u \in Users : ~Matches(s, u)
      PROVE  \E u \in Users : u \in recon.moved /\ address[s] = email[u]
  <2>1. PICK u \in Users : email[u] = address[s] BY <1>3, <1>7 DEF Unmatched, HasEmail
  <2>2. recon.rows[u].email # email[u] BY <1>3, <1>7, <2>1 DEF Matches
  <2>3. recon.rows[u] # Row(u) BY <2>2, RowType DEF IInv
  <2>4. u \in recon.moved BY <1>1, <2>3 DEF IInv, Snapshot
  <2> QED BY <2>1, <2>4
<1> QED BY <1>4, <1>5, <1>6, <1>7

\* A commit of a reconciliation settles every account that has not changed
\* since it was fetched, unless the user with its email has changed since it was
\* loaded (ReconciliationService.run among all other writers).
THEOREM ReconcileAlwaysSettles == Spec => ReconcileSettles
<1>1. ASSUME IInv, [Next]_vars, recon.phase = "loaded", recon'.phase = "idle",
             events' = events
      PROVE  Reconcile
  <2>1. recon' # recon BY <1>1
  <2>2. Next BY <1>1, <2>1 DEF vars
  <2>3. ASSUME NEW U, RowsMoved(U) PROVE FALSE
    BY <1>1, <2>3 DEF RowsMoved, IInv, TypeOK, ReconStates
  <2>4. ASSUME NEW s, AccountMoved(s) PROVE FALSE
    BY <1>1, <2>4 DEF AccountMoved, IInv, TypeOK, ReconStates
  <2>5. ~GiveUp BY <1>1 DEF GiveUp, Spend, IInv, TypeOK
  <2>6. ~Fetch /\ ~Load
    BY <1>1 DEF Fetch, Load, IInv, TypeOK, ReconStates
  <2>7. ASSUME NEW r \in Requests PROVE ~(ApiCall(r) \/ Deliver(r))
    BY <2>1 DEF ApiCall, Deliver, CreateUser, UpdateUser, RemoveFromTenant, SetStatus,
       Call, Begin, TakeLinked, TakeCreated, TakeDeleted
  <2>8. ASSUME NEW r \in Requests PROVE ~(Conflict(r) \/ Abort(r) \/ StoreRemove(r))
    BY <2>1 DEF Conflict, Abort, StoreRemove
  <2>9. ASSUME NEW r \in Requests PROVE ~(StoreNew(r) \/ StoreUpdate(r))
    <3>1. ~StoreUpdate(r) BY <2>3 DEF StoreUpdate, StoreRow
    <3>2. ASSUME StoreNew(r) PROVE FALSE
      <4>1. PICK u \in Users : StoreRow(u, req[r].want) BY <3>2 DEF StoreNew
      <4> QED BY <2>3, <4>1 DEF StoreRow
    <3> QED BY <3>1, <3>2
  <2>10. ASSUME NEW r \in Requests PROVE ~(StoreInbound(r) \/ StoreLink(r))
    BY <2>3 DEF StoreInbound, StoreLink, StoreRow
  <2>11. ASSUME NEW r \in Requests PROVE ~(Land(r) \/ PushFails(r))
    BY <2>1, <2>4 DEF Land, PushFails
  <2>12. ASSUME NEW h \in hooks PROVE ~(TakeUnknown(h) \/ LoseHook(h))
    BY <2>1 DEF TakeUnknown, LoseHook
  <2>13. ~DescopeStep
    BY <2>4 DEF DescopeStep, SignUp, InviteMember, Appear, SetMember, ChangeAddress,
       DeleteAccount, Outside
  <2> QED BY <2>2, <2>5, <2>6, <2>7, <2>8, <2>9, <2>10, <2>11, <2>12, <2>13
      DEF Next, Commit, Push, ReconStep
<1>2. ASSUME IInv, [Next]_vars, recon.phase = "loaded", recon'.phase = "idle",
             events' = events, NEW s \in Subjects \ recon.stale, Live(s)
      PROVE  \E u \in Users :
                \/ u \in recon.moved /\ address[s] \in {recon.rows[u].email, email[u]}
                \/ /\ email'[u] = address[s] /\ status'[u] = FromDescope(account[s])
                   /\ link'[s] # NoUser \/ \E t \in Subjects : link'[t] = u
  BY <1>1, <1>2, ReconcileMends
<1>3. IInv /\ [Next]_vars =>
        [recon.phase = "loaded" /\ recon'.phase = "idle" /\ events' = events =>
           \A s \in Subjects \ recon.stale : Live(s) =>
              \E u \in Users :
                 \/ u \in recon.moved /\ address[s] \in {recon.rows[u].email, email[u]}
                 \/ /\ email'[u] = address[s] /\ status'[u] = FromDescope(account[s])
                    /\ link'[s] # NoUser \/ \E t \in Subjects : link'[t] = u]_vars
  BY <1>2
<1> QED BY <1>3, Invariance, PTL DEF Spec, ReconcileSettles
=============================================================================
