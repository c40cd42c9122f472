---------------------------- MODULE CanonicalSync ----------------------------
(***************************************************************************)
(* The canonical users in Postgres and their accounts in Descope, kept     *)
(* alike by three flows that know nothing of one another: API writes push  *)
(* the status of a row to the account whose login is the row's email;      *)
(* webhooks and the flow connector write what happened to an account into  *)
(* the row linked to it; reconciliation copies the statuses of all         *)
(* accounts into the rows with their emails.                               *)
(*                                                                         *)
(* A request reads a row, stores the attributes it wants different from    *)
(* what it read (flush and commit, one step: the row stays locked between  *)
(* them) and then, for an API write, pushes.  Reconciliation fetches the   *)
(* accounts (one step for all pages), loads the rows, and writes them in   *)
(* one transaction.  Names, events and caches are left out: IdentityCache  *)
(* has the events.  A tenant check that refuses changes nothing.           *)
(***************************************************************************)
EXTENDS Naturals, FiniteSets

CONSTANTS
    Users,          \* identities of user rows, existing or to be created
    Subjects,       \* user ids of Descope accounts, existing or to be created
    Emails,
    Requests,       \* requests at work at once
    NoUser,
    NoSubject,
    NoEmail,
    MaxEvents       \* bound: API calls, changes in Descope and faults

ASSUME ConstantsAssumption ==
    /\ NoUser \notin Users
    /\ NoSubject \notin Subjects
    /\ NoEmail \notin Emails
    /\ MaxEvents \in Nat

VARIABLES
    \* Postgres
    email,      \* email[u]: NoEmail when there is no row of u
    status,
    link,       \* link[s]: the user that subject s is linked to
    \* Descope
    account,    \* account[s]: "none" before it exists, "deleted" after
    address,    \* address[s]: the login and email of the account
    hooks,      \* webhooks and connector calls under way; in no order
    \* the backend
    req,
    recon,      \* the reconciliation that holds the advisory lock
    \* history
    cause,      \* cause[u]: why the row of u and its account differ
    overruled,  \* deleted accounts whose webhook came to nothing, or was undone
    events      \* API calls, changes in Descope and faults so far

store == <<email, status, link>>
descope == <<account, address>>
vars == <<store, descope, hooks, req, recon, cause, overruled, events>>

Statuses == {"active", "inactive", "provisioned"}
Accounts == {"none", "enabled", "disabled", "invited", "deleted"}
Causes == {"none", "outside", "inbound", "renamed", "unpushed", "overtaken", "stale"}
Hooks == [verb : {"created", "updated", "deleted"}, sub : Subjects, addr : Emails]
Rows == [email : Emails \cup {NoEmail}, status : Statuses]

\* An "update" stores and pushes what the row has become, a "remove" pushes
\* what it read, a "create" inserts a row; an "inbound" write and an
\* "offboard" store only, a "link" inserts a link and perhaps a row.
Operations == {"create", "update", "remove", "inbound", "offboard", "link"}
NoRow == [email |-> NoEmail, status |-> "active"]
Idle == [op |-> "update", phase |-> "idle", user |-> NoUser, sub |-> NoSubject,
         seen |-> NoRow, want |-> NoRow, overtaken |-> FALSE]
RequestStates ==
    [op : Operations, phase : {"idle", "store", "push"}, user : Users \cup {NoUser},
     sub : Subjects \cup {NoSubject}, seen : Rows, want : Rows, overtaken : BOOLEAN]

\* What was fetched and loaded, and what has changed since.
AtRest == [phase |-> "idle", account |-> [s \in Subjects |-> "none"],
           address |-> [s \in Subjects |-> NoEmail],
           rows |-> [u \in Users |-> NoRow], stale |-> {}, moved |-> {}]
ReconStates ==
    [phase : {"idle", "fetched", "loaded"}, account : [Subjects -> Accounts],
     address : [Subjects -> Emails \cup {NoEmail}], rows : [Users -> Rows],
     stale : SUBSET Subjects, moved : SUBSET Users]

TypeOK ==
    /\ email \in [Users -> Emails \cup {NoEmail}]
    /\ status \in [Users -> Statuses]
    /\ link \in [Subjects -> Users \cup {NoUser}]
    /\ account \in [Subjects -> Accounts]
    /\ address \in [Subjects -> Emails \cup {NoEmail}]
    /\ hooks \in SUBSET Hooks
    /\ req \in [Requests -> RequestStates]
    /\ recon \in ReconStates
    /\ cause \in [Users -> Causes]
    /\ overruled \in SUBSET Subjects
    /\ events \in Nat

-----------------------------------------------------------------------------
Exists(u) == email[u] # NoEmail
Row(u) == [email |-> email[u], status |-> status[u]]
HasEmail(e) == \E u \in Users : email[u] = e
Linked(u) == \E s \in Subjects : link[s] = u
Live(s) == account[s] \in {"enabled", "disabled", "invited"}
HasAddress(e) == \E s \in Subjects : Live(s) /\ address[s] = e

\* Mutant of ToDescope: the canonical status is pushed as it is.
ToDescopeRaw(st) == IF st = "inactive" THEN "disabled" ELSE st

\* The status an account is given for a row, and a row for an account.
ToDescope(st) == IF st = "inactive" THEN "disabled" ELSE "enabled"
FromDescope(acc) ==
    CASE acc = "enabled" -> "active"
      [] acc = "invited" -> "provisioned"
      [] OTHER -> "inactive"
Agree(st, acc) == ToDescope(st) = acc \/ FromDescope(acc) = st

\* The row of u and the account with its email are of different minds.
Drifts(u) ==
    Exists(u) /\ \E s \in Subjects :
        Live(s) /\ address[s] = email[u] /\ ~Agree(status[u], account[s])

\* A system in which a reconciliation has found nothing to do.
Init ==
    /\ email \in [Users -> Emails \cup {NoEmail}]
    /\ \A u, v \in Users : Exists(u) /\ email[u] = email[v] => u = v
    /\ status \in [Users -> Statuses]
    /\ \A u \in Users : ~Exists(u) => status[u] = "active"
    /\ address \in [Subjects -> Emails \cup {NoEmail}]
    /\ \A s, t \in Subjects : address[s] # NoEmail /\ address[s] = address[t] => s = t
    /\ account \in [Subjects -> {"none", "enabled", "disabled", "invited"}]
    /\ \A s \in Subjects : Live(s) <=> address[s] # NoEmail
    /\ \A s \in Subjects : Live(s) => \E u \in Users :
           email[u] = address[s] /\ status[u] = FromDescope(account[s])
    /\ link \in [Subjects -> Users \cup {NoUser}]
    /\ \A s \in Subjects : link[s] # NoUser <=> Live(s)
    /\ \A s \in Subjects : Live(s) => email[link[s]] = address[s]
    /\ hooks = {}
    /\ req = [r \in Requests |-> Idle]
    /\ recon = AtRest
    /\ cause = [u \in Users |-> "none"]
    /\ overruled = {}
    /\ events = 0

-----------------------------------------------------------------------------
(* What a step does to the others at work.                                 *)

\* The rows of U differ from what these requests are going to push.
Overtaken(p, U) ==
    /\ req[p].user \in U
    /\ req[p].phase = "push" \/ (req[p].phase = "store" /\ req[p].op = "remove")

\* Request r becomes q, the others notice nothing (the history does).
Become(r, q, U) ==
    req' = [p \in Requests |->
              IF p = r THEN q
              ELSE IF Overtaken(p, U) THEN [req[p] EXCEPT !.overtaken = TRUE]
              ELSE req[p]]
Finish(r) == Become(r, Idle, {})

RowsMoved(U) ==
    recon' = IF recon.phase = "loaded" THEN [recon EXCEPT !.moved = @ \cup U] ELSE recon
AccountMoved(s) ==
    recon' = IF recon.phase = "idle" THEN recon ELSE [recon EXCEPT !.stale = @ \cup {s}]

Blame(why, U) ==
    cause' = [u \in Users |-> IF ~Drifts(u)' THEN "none"
                              ELSE IF u \in U THEN why ELSE cause[u]]
Reinstated == {u \in Users : status[u] = "inactive" /\ status'[u] # "inactive"}
Overrule(done, lost) ==
    overruled' = (overruled \ done) \cup lost
                 \cup {s \in Subjects : account[s] = "deleted" /\ link[s] \in Reinstated}

Spend(n) == events + n <= MaxEvents /\ events' = events + n

-----------------------------------------------------------------------------
(* UserService: read, store, push.                                         *)

Begin(r, op, u, s, seen, want) ==
    /\ req[r].phase = "idle"
    /\ Become(r, [op |-> op, phase |-> "store", user |-> u, sub |-> s,
                  seen |-> seen, want |-> want, overtaken |-> FALSE], {})
    /\ UNCHANGED <<store, descope, recon, cause>>

Call(r, op, u, want) ==
    /\ Begin(r, op, u, NoSubject, IF u = NoUser THEN NoRow ELSE Row(u), want)
    /\ Spend(1)
    /\ UNCHANGED <<hooks, overruled>>

CreateUser(r, e) ==
    ~HasEmail(e) /\ Call(r, "create", NoUser, [email |-> e, status |-> "active"])

UpdateUser(r, u, e) ==
    /\ Exists(u) /\ (HasEmail(e) => email[u] = e)
    /\ Call(r, "update", u, [Row(u) EXCEPT !.email = e])

\* deactivate_user and activate_user.
SetStatus(r, u, st) ==
    Exists(u) /\ Call(r, "update", u, [Row(u) EXCEPT !.status = st])

\* Its assignments go, the row does not change.
RemoveFromTenant(r, u) == Exists(u) /\ Call(r, "remove", u, Row(u))

\* Mutant of Merged: the row is written as it was read, not what differs.
MergedWhole(r) == req[r].want

\* UPDATE sets the attributes that differ from what was read.
Merged(r) ==
    LET q == req[r] IN
    [email |-> IF q.want.email = q.seen.email THEN email[q.user] ELSE q.want.email,
     status |-> IF q.want.status = q.seen.status THEN status[q.user] ELSE q.want.status]

\* A unique constraint is violated, or the create or link finds its row taken.
Clashes(r) ==
    LET q == req[r] IN
    CASE q.op = "create" -> HasEmail(q.want.email)
      [] q.op = "link" -> \/ link[q.sub] # NoUser
                          \/ IF q.user = NoUser THEN HasEmail(q.want.email)
                             ELSE Linked(q.user)
      [] OTHER -> Merged(r).email # email[q.user] /\ HasEmail(Merged(r).email)

Conflict(r) ==
    /\ req[r].phase = "store" /\ Clashes(r)
    /\ Finish(r)
    /\ UNCHANGED <<store, descope, hooks, recon, cause, overruled, events>>

\* A commit fails, a deadlock is broken, the process dies before the commit.
Abort(r) ==
    /\ req[r].phase = "store"
    /\ Finish(r)
    /\ Spend(1)
    /\ UNCHANGED <<store, descope, hooks, recon, cause>>
    /\ Overrule({}, {req[r].sub} \ {NoSubject})

\* Mutant of Refreshed: the pushed status is the one read before the update.
RefreshedNot(r) ==
    [email |-> Merged(r).email,
     status |-> IF req[r].want.status = req[r].seen.status THEN req[r].seen.status
                ELSE req[r].want.status]

\* What the row holds after the flush: update() refreshes it.
Refreshed(r) == Merged(r)

Changed(u, row) == IF row = Row(u) THEN {} ELSE {u}
StoreRow(u, row) ==
    /\ email' = [email EXCEPT ![u] = row.email]
    /\ status' = [status EXCEPT ![u] = row.status]
    /\ RowsMoved(Changed(u, row))
    /\ UNCHANGED <<descope, hooks, events>>

StoreNew(r) ==
    /\ req[r].phase = "store" /\ req[r].op = "create" /\ ~Clashes(r)
    /\ \E u \in Users :
         /\ ~Exists(u)
         /\ StoreRow(u, req[r].want)
         /\ Become(r, [req[r] EXCEPT !.phase = "push", !.user = u, !.seen = req[r].want], {u})
    /\ Blame("none", {})
    /\ UNCHANGED <<link, overruled>>

StoreUpdate(r) ==
    LET u == req[r].user
        row == Merged(r)
    IN
    /\ req[r].phase = "store" /\ req[r].op = "update" /\ ~Clashes(r)
    /\ StoreRow(u, row)
    /\ Become(r, [req[r] EXCEPT !.phase = "push", !.seen = Refreshed(r)],
              Changed(u, row))
    /\ Blame("renamed", IF row.email = email[u] THEN {} ELSE {u})
    /\ Overrule({}, {})
    /\ UNCHANGED link

\* The assignments are deleted and committed; the user is not read again.
StoreRemove(r) ==
    /\ req[r].phase = "store" /\ req[r].op = "remove"
    /\ req' = [req EXCEPT ![r].phase = "push"]
    /\ UNCHANGED <<store, descope, hooks, recon, cause, overruled, events>>

\* DescopeSyncAdapter.sync_user: the account is found by the row's email.
Land(r) ==
    /\ req[r].phase = "push"
    /\ \E s \in Subjects :
         /\ Live(s) /\ address[s] = req[r].seen.email
         /\ account' = [account EXCEPT ![s] = ToDescope(req[r].seen.status)]
         /\ AccountMoved(s)
    /\ Finish(r)
    /\ UNCHANGED <<store, address, hooks, overruled, events>>
    /\ Blame("overtaken", IF req[r].overtaken
                          THEN {u \in Users : email[u] = req[r].seen.email} ELSE {})

\* No account answers to the email, Descope is down, the process dies: logged
\* at best, and the caller is told that all went well.
PushFails(r) ==
    /\ req[r].phase = "push"
    /\ Finish(r)
    /\ Spend(IF HasAddress(req[r].seen.email) THEN 1 ELSE 0)
    /\ UNCHANGED <<store, descope, hooks, recon, overruled>>
    /\ Blame("unpushed", {req[r].user})

-----------------------------------------------------------------------------
(* InboundSyncService: what happened to an account reaches its row.        *)

\* A webhook is taken from those under way, or will be sent again.
Take(h) ==
    /\ h \in hooks
    /\ \/ hooks' = hooks \ {h} /\ Spend(0)
       \/ hooks' = hooks /\ Spend(1)

\* Updated and deleted events of accounts nobody is linked to are ignored.
TakeUnknown(h) ==
    /\ h.verb \in {"updated", "deleted"} /\ link[h.sub] = NoUser
    /\ Take(h)
    /\ UNCHANGED <<store, descope, req, recon, cause>>
    /\ Overrule({}, IF h.verb = "deleted" THEN {h.sub} ELSE {})

\* sync_user_from_flow and the updated event: a linked user takes the email.
TakeLinked(r, h) ==
    LET u == link[h.sub] IN
    /\ h.verb \in {"created", "updated"} /\ u # NoUser
    /\ Take(h)
    /\ Begin(r, "inbound", u, h.sub, Row(u), [Row(u) EXCEPT !.email = h.addr])
    /\ Overrule({}, {})

\* sync_user_from_flow: the user with the email is linked, or a new one.
TakeCreated(r, h) ==
    /\ h.verb = "created" /\ link[h.sub] = NoUser
    /\ Take(h)
    /\ \E u \in Users \cup {NoUser} :
         /\ IF u = NoUser THEN ~HasEmail(h.addr) ELSE email[u] = h.addr
         /\ Begin(r, "link", u, h.sub, NoRow, [email |-> h.addr, status |-> "active"])
    /\ Overrule({}, {})

\* Mutant of TakeDeleted: the handler reads the user and leaves the status.
TakeDeletedOnly(r, h) ==
    LET u == link[h.sub] IN
    /\ h.verb = "deleted" /\ u # NoUser
    /\ Take(h)
    /\ Begin(r, "offboard", u, h.sub, Row(u), Row(u))
    /\ Overrule({}, {})

TakeDeleted(r, h) ==
    LET u == link[h.sub] IN
    /\ h.verb = "deleted" /\ u # NoUser
    /\ Take(h)
    /\ Begin(r, "offboard", u, h.sub, Row(u), [Row(u) EXCEPT !.status = "inactive"])
    /\ Overrule({}, {})

StoreInbound(r) ==
    LET u == req[r].user
        row == Merged(r)
        offboarded == req[r].op = "offboard" /\ row.status = "inactive"
    IN
    /\ req[r].phase = "store" /\ req[r].op \in {"inbound", "offboard"} /\ ~Clashes(r)
    /\ StoreRow(u, row)
    /\ Become(r, Idle, Changed(u, row))
    /\ Blame("inbound", {u})
    /\ Overrule(IF offboarded THEN {req[r].sub} ELSE {}, {})
    /\ UNCHANGED link

StoreLink(r) ==
    LET q == req[r] IN
    /\ q.phase = "store" /\ q.op = "link" /\ ~Clashes(r)
    /\ \E u \in Users :
         /\ IF q.user = NoUser THEN ~Exists(u) ELSE u = q.user
         /\ StoreRow(u, IF q.user = NoUser THEN q.want ELSE Row(u))
         /\ link' = [link EXCEPT ![q.sub] = u]
         /\ Become(r, Idle, IF q.user = NoUser THEN {u} ELSE {})
         /\ Blame("inbound", IF q.user = NoUser THEN {u} ELSE {})
    /\ UNCHANGED overruled

-----------------------------------------------------------------------------
(* Descope: users sign up, are invited, enabled, disabled, renamed and     *)
(* deleted there, by themselves, in its console or through the members     *)
(* router, which acts on Descope alone.                                    *)

Outside(s, posts) ==
    /\ UNCHANGED <<store, req, overruled>>
    /\ hooks' = hooks \cup posts
    /\ AccountMoved(s)
    /\ Spend(1)
    /\ Blame("outside", {u \in Users : email[u] = address'[s]})

Appear(s, e, acc) ==
    /\ account[s] = "none" /\ ~HasAddress(e)
    /\ account' = [account EXCEPT ![s] = acc]
    /\ address' = [address EXCEPT ![s] = e]
    /\ Outside(s, {[verb |-> "created", sub |-> s, addr |-> e]})

SignUp(s, e) == Appear(s, e, "enabled")
InviteMember(s, e) == Appear(s, e, "invited")

\* deactivate_member and activate_member, or the console; no event is posted.
SetMember(s, acc) ==
    /\ Live(s) /\ acc \in {"enabled", "disabled"}
    /\ account' = [account EXCEPT ![s] = acc]
    /\ UNCHANGED address
    /\ Outside(s, {})

ChangeAddress(s, e) ==
    /\ Live(s) /\ ~HasAddress(e)
    /\ address' = [address EXCEPT ![s] = e]
    /\ UNCHANGED account
    /\ Outside(s, {[verb |-> "updated", sub |-> s, addr |-> e]})

DeleteAccount(s) ==
    /\ Live(s)
    /\ account' = [account EXCEPT ![s] = "deleted"]
    /\ address' = [address EXCEPT ![s] = NoEmail]
    /\ Outside(s, {[verb |-> "deleted", sub |-> s, addr |-> address[s]]})

LoseHook(h) ==
    /\ hooks' = hooks \ {h}
    /\ Spend(1)
    /\ UNCHANGED <<store, descope, req, recon, cause>>
    /\ Overrule({}, IF h.verb = "deleted" THEN {h.sub} ELSE {})

-----------------------------------------------------------------------------
(* ReconciliationService.run, one at a time under the advisory lock.       *)

ReconOnly == UNCHANGED <<store, descope, hooks, req, cause, overruled>>

\* search_all_users; a failure ends the run before anything has changed.
Fetch ==
    /\ recon.phase = "idle"
    /\ recon' = [recon EXCEPT !.phase = "fetched", !.account = account, !.address = address]
    /\ UNCHANGED events
    /\ ReconOnly

Load ==
    /\ recon.phase = "fetched"
    /\ recon' = [recon EXCEPT !.phase = "loaded", !.rows = [u \in Users |-> Row(u)]]
    /\ UNCHANGED events
    /\ ReconOnly

\* The commit fails, or the process dies: all is rolled back.
GiveUp ==
    /\ recon.phase = "loaded"
    /\ recon' = AtRest
    /\ Spend(1)
    /\ ReconOnly

Fetched(s) == recon.account[s] \in {"enabled", "disabled", "invited"}
Mapped(s) == FromDescope(recon.account[s])
Matches(s, u) == Fetched(s) /\ recon.rows[u].email = recon.address[s]
\* Mutant of Unmatched: accounts without a user are left to the webhooks.
UnmatchedNone == {}

\* Accounts whose email no row had, nor has now: a conflict is skipped.
Unmatched == {s \in Subjects : /\ Fetched(s) /\ ~HasEmail(recon.address[s])
                               /\ \A u \in Users : ~Matches(s, u)}

\* Mutant of Resolved: only a status that would be pushed otherwise is resolved.
ResolvedForPush(s, u) == ToDescope(recon.rows[u].status) # recon.account[s]

\* The status of the row is not what the account says: it is overwritten.
Resolved(s, u) == recon.rows[u].status # Mapped(s)

\* One transaction: statuses overwritten, users created (new maps accounts to
\* them), links made where neither subject nor user has one.
WriteBack(new) ==
    LET owner(s, u) == IF s \in Unmatched THEN new[s] = u ELSE Matches(s, u)
        changed == {u \in Users : Row(u) # Row(u)'}
    IN
    /\ email' = [u \in Users |->
          IF \E s \in Unmatched : new[s] = u
          THEN recon.address[CHOOSE s \in Unmatched : new[s] = u] ELSE email[u]]
    /\ status' = [u \in Users |->
          IF \E s \in Unmatched : new[s] = u
          THEN Mapped(CHOOSE s \in Unmatched : new[s] = u)
          ELSE IF \E s \in Subjects : Matches(s, u) /\ Resolved(s, u)
          THEN Mapped(CHOOSE s \in Subjects : Matches(s, u)) ELSE status[u]]
    /\ link' = [s \in Subjects |->
          IF link[s] = NoUser /\ \E u \in Users : owner(s, u) /\ ~Linked(u)
          THEN CHOOSE u \in Users : owner(s, u) ELSE link[s]]
    /\ req' = [r \in Requests |-> IF Overtaken(r, changed)
                                  THEN [req[r] EXCEPT !.overtaken = TRUE] ELSE req[r]]

Reconcile ==
    /\ recon.phase = "loaded"
    /\ \E new \in [Unmatched -> {u \in Users : ~Exists(u)}] :
         /\ \A s, t \in Unmatched : new[s] = new[t] => s = t
         /\ WriteBack(new)
    /\ recon' = AtRest
    /\ UNCHANGED <<descope, hooks, events>>
    /\ cause' = [u \in Users |->
          IF Drifts(u)' /\ (u \in recon.moved
                            \/ \E s \in recon.stale : address[s] = email'[u])
          THEN "stale" ELSE "none"]
    /\ Overrule({}, {})

-----------------------------------------------------------------------------
ApiCall(r) ==
    \/ \E e \in Emails : CreateUser(r, e) \/ \E u \in Users : UpdateUser(r, u, e)
    \/ \E u \in Users : \/ RemoveFromTenant(r, u)
                        \/ \E st \in {"active", "inactive"} : SetStatus(r, u, st)
Deliver(r) == \E h \in hooks : TakeLinked(r, h) \/ TakeCreated(r, h) \/ TakeDeleted(r, h)
Commit(r) == StoreNew(r) \/ StoreUpdate(r) \/ StoreRemove(r) \/ StoreInbound(r)
             \/ StoreLink(r) \/ Conflict(r)
Push(r) == Land(r) \/ PushFails(r)
ReconStep == Fetch \/ Load \/ Reconcile

DescopeStep ==
    \E s \in Subjects :
        \/ \E e \in Emails : SignUp(s, e) \/ InviteMember(s, e) \/ ChangeAddress(s, e)
        \/ \E acc \in Accounts : SetMember(s, acc)
        \/ DeleteAccount(s)

Next ==
    \/ \E r \in Requests : ApiCall(r) \/ Deliver(r) \/ Commit(r) \/ Abort(r) \/ Push(r)
    \/ \E h \in hooks : TakeUnknown(h) \/ LoseHook(h)
    \/ DescopeStep
    \/ ReconStep \/ GiveUp

Spec == Init /\ [][Next]_vars

\* Handlers run to their end, webhooks are sent until they are delivered, and
\* reconciliation is run again and again: the backend has no scheduler for it,
\* whoever operates the system calls its endpoint.
Fairness ==
    /\ \A r \in Requests : WF_vars(Commit(r)) /\ WF_vars(Push(r)) /\ SF_vars(Deliver(r))
    /\ WF_vars(\E h \in hooks : TakeUnknown(h))
    /\ WF_vars(ReconStep)
FairSpec == Spec /\ Fairness

-----------------------------------------------------------------------------
(* Properties.                                                             *)

Pushing(u) == \E r \in Requests : req[r].phase = "push" /\ req[r].user = u
Offboarding(s) ==
    \/ \E h \in hooks : h.verb = "deleted" /\ h.sub = s
    \/ \E r \in Requests : req[r].op = "offboard" /\ req[r].sub = s

\* A row and the account with its email agree, unless a push of the row is
\* under way or one of the known causes has set them apart and nothing has
\* mended it: a change in Descope, an inbound write, a new email, a push that
\* failed or was overtaken, a reconciliation that worked on something stale
\* (UserService's store and push, ReconciliationService.run).
DriftHasCause == \A u \in Users : Drifts(u) => Pushing(u) \/ cause[u] # "none"

\* The user of a deleted account is deactivated, unless the webhook is still
\* under way, came to nothing, or the deactivation was undone since
\* (_handle_user_deleted and everything that races with it).
ZombieHasCause ==
    \A s \in Subjects :
        account[s] = "deleted" /\ link[s] # NoUser /\ status[link[s]] # "inactive"
        => Offboarding(s) \/ s \in overruled

\* A user and a subject keep to one another, and emails are unique, whoever
\* creates rows and links at the same time.
OneIdentity ==
    /\ \A u, v \in Users : Exists(u) /\ email[u] = email[v] => u = v
    /\ \A s \in Subjects : link[s] # NoUser => Exists(link[s])
    /\ \A s, t \in Subjects : link[s] # NoUser /\ link[s] = link[t] => s = t

\* A deactivated user comes back only by an activation, or by a reconciliation:
\* no write of something else, however late, carries an old status along.
OnlyDecisionsReinstate ==
    [][\A u \in Users :
         Exists(u) /\ status[u] = "inactive" /\ status'[u] # "inactive"
         => \/ recon.phase = "loaded" /\ recon'.phase = "idle"
            \/ \E r \in Requests : /\ req[r].user = u /\ req[r].phase = "store"
                                   /\ req[r].want.status = "active"
                                   /\ req[r].seen.status # "active"]_vars

\* A reconciliation that commits leaves each account with a user that has its
\* email and its status, and a link where both were free, unless the account
\* changed after it was fetched or the user with its email after it was loaded:
\* whatever else goes on meanwhile, it settles all that stood still
\* (ReconciliationService.run).
ReconcileSettles ==
    [][recon.phase = "loaded" /\ recon'.phase = "idle" /\ events' = events =>
         \A s \in Subjects \ recon.stale : Live(s) =>
            \E u \in Users :
               \/ u \in recon.moved /\ address[s] \in {recon.rows[u].email, email[u]}
               \/ /\ email'[u] = address[s] /\ status'[u] = FromDescope(account[s])
                  /\ link'[s] # NoUser \/ \E t \in Subjects : link'[t] = u]_vars

\* Once nobody calls and nothing changes in Descope any more, each account
\* comes to have a user with its email and its status, for good.
Settled ==
    \A s \in Subjects : Live(s) =>
        \E u \in Users : email[u] = address[s] /\ status[u] = FromDescope(account[s])
SyncConverges == <>[]Settled
=============================================================================
