--------------------------- MODULE JitProvisioning ---------------------------
(***************************************************************************)
(* Just-in-time provisioning: the first logins of external subjects of one *)
(* provider create their canonical users, concurrently.                    *)
(*                                                                         *)
(* A request runs one transaction per attempt, at READ COMMITTED: it reads *)
(* committed rows and its own, and inserts, in this order and only when    *)
(* missing, the default tenant, the default role, the user, the link and   *)
(* the grant of the default role.  An insert waits for a transaction that  *)
(* holds an uncommitted row with the same unique key, and fails on a       *)
(* committed one; a failure rolls the transaction back, looks the winner's *)
(* link up and, when there is none, tries once more.                       *)
(*                                                                         *)
(* Other services create the tenant, the role, users and links, change     *)
(* emails, delete links and the role, grant it and revoke it, each in a    *)
(* transaction of one step.                                                *)
(***************************************************************************)
EXTENDS Naturals, FiniteSets

CONSTANTS
    Requests,       \* concurrent logins
    Subjects,       \* external subjects of the provider
    Emails,
    Users,          \* identities of user rows, existing or to be created
    NoUser,
    NoSubject,
    NoEmail,        \* no verified email in the token; no such user row
    MaxAttempts,    \* range(2)
    MaxAdmin        \* bound: commits of other services

ASSUME ConstantsAssumption ==
    /\ NoUser \notin Users
    /\ NoSubject \notin Subjects
    /\ NoEmail \notin Emails
    /\ MaxAttempts \in Nat /\ MaxAttempts > 1
    /\ MaxAdmin \in Nat

VARIABLES
    \* committed rows
    tenant,     \* the default tenant exists
    role,       \* the default role exists in it
    email,      \* email[u]: the email of user u; NoEmail when there is no row
    link,       \* link[s]: the user that subject s is linked to
    granted,    \* users that hold the default role
    \* requests, with the rows of their open transactions
    req,
    outdated,   \* requests that read a default role that is deleted since
    \* history
    admin,      \* commits of other services so far
    disturbed   \* requests during or after which another service committed

vars == <<tenant, role, email, link, granted, req, outdated, admin, disturbed>>
rows == <<tenant, role, email, link, granted>>

Kinds == {"tenant", "role", "user", "link", "grant"}
Answered == {"idle", "ok", "invalid", "conflict"}
Steps == {"lookup", "tenant", "newTenant", "role", "newRole", "user", "newUser",
          "link", "grant", "newGrant", "commit", "recheck"}

\* A request at pc for subject s with email e, in its n-th attempt, about user
\* u, whose transaction has inserted rows of the kinds K.
Req(pc, s, e, n, u, K) ==
    [pc |-> pc, sub |-> s, email |-> e, attempt |-> n, user |-> u, new |-> K]
Idle == Req("idle", NoSubject, NoEmail, 1, NoUser, {})
RequestStates ==
    [pc : Answered \cup Steps, sub : Subjects \cup {NoSubject},
     email : Emails \cup {NoEmail}, attempt : 1 .. MaxAttempts,
     user : Users \cup {NoUser}, new : SUBSET Kinds]

TypeOK ==
    /\ tenant \in BOOLEAN /\ role \in BOOLEAN
    /\ email \in [Users -> Emails \cup {NoEmail}]
    /\ link \in [Subjects -> Users \cup {NoUser}]
    /\ granted \in SUBSET Users
    /\ req \in [Requests -> RequestStates]
    /\ outdated \in SUBSET Requests
    /\ admin \in Nat
    /\ disturbed \in SUBSET Requests

Exists(u) == email[u] # NoEmail
Linked(u) == \E s \in Subjects : link[s] = u
HasEmail(e) == \E u \in Users : email[u] = e

\* Anything the seeds and the other services may have left.
Init ==
    /\ tenant \in BOOLEAN
    /\ role \in BOOLEAN /\ (role => tenant)
    /\ email \in [Users -> Emails \cup {NoEmail}]
    /\ \A u, v \in Users : Exists(u) /\ email[u] = email[v] => u = v
    /\ link \in [Subjects -> Users \cup {NoUser}]
    /\ \A s \in Subjects : link[s] # NoUser => Exists(link[s])
    /\ \A s, t \in Subjects : link[s] # NoUser /\ link[s] = link[t] => s = t
    /\ granted \in SUBSET {u \in Users : role /\ Exists(u)}
    /\ req = [r \in Requests |-> Idle]
    /\ outdated = {}
    /\ admin = 0
    /\ disturbed = {}

-----------------------------------------------------------------------------
(* Transactions.                                                           *)

Active(r) == req[r].pc \in Steps
Holds(r, kind) == kind \in req[r].new

\* The rows of this kind that r and q insert have a unique key in common.
SameKey(r, q, kind) ==
    \/ kind \in {"tenant", "role"}
    \/ kind = "user" /\ req[r].email = req[q].email
    \/ kind = "link" /\ (req[r].sub = req[q].sub \/ req[r].user = req[q].user)
    \/ kind = "grant" /\ req[r].user = req[q].user

Waits(r, kind) == \E q \in Requests \ {r} : Holds(q, kind) /\ SameKey(r, q, kind)

\* Mutant of Violates: external subjects are not unique.
ViolatesButSubject(r, kind) ==
    \/ kind = "tenant" /\ tenant
    \/ kind = "role" /\ role
    \/ kind = "user" /\ HasEmail(req[r].email)
    \/ kind = "link" /\ Linked(req[r].user)
    \/ kind = "grant" /\ (req[r].user \in granted \/ r \in outdated)

\* A committed row has the key already, or the role of the grant is gone.
Violates(r, kind) ==
    \/ kind = "tenant" /\ tenant
    \/ kind = "role" /\ role
    \/ kind = "user" /\ HasEmail(req[r].email)
    \/ kind = "link" /\ (link[req[r].sub] # NoUser \/ Linked(req[r].user))
    \/ kind = "grant" /\ (req[r].user \in granted \/ r \in outdated)

Become(r, q) == req' = [req EXCEPT ![r] = q]
Goto(r, pc, u, K) ==
    Become(r, Req(pc, req[r].sub, req[r].email, req[r].attempt, u, K))
Answer(r, u) == Become(r, Req("ok", req[r].sub, NoEmail, 1, u, {}))
Reject(r, pc) == Become(r, Req(pc, req[r].sub, req[r].email, 1, NoUser, {}))

RequestOnly == UNCHANGED <<rows, outdated, admin, disturbed>>

\* Mutant of Insert: the transaction is not rolled back and keeps its rows.
InsertWithoutRollback(r, kind, u, next) ==
    /\ ~Waits(r, kind)
    /\ IF Violates(r, kind) THEN Goto(r, "recheck", NoUser, req[r].new)
       ELSE Goto(r, next, u, req[r].new \cup {kind})
    /\ RequestOnly

\* Add a row and flush; an IntegrityError rolls the transaction back.
Insert(r, kind, u, next) ==
    /\ ~Waits(r, kind)
    /\ IF Violates(r, kind) THEN Goto(r, "recheck", NoUser, {})
       ELSE Goto(r, next, u, req[r].new \cup {kind})
    /\ RequestOnly

-----------------------------------------------------------------------------
(* IdentityProvisioningService.provision                                   *)

Login(r, s, e) ==
    /\ req[r].pc \in Answered
    /\ Become(r, Req("lookup", s, e, 1, NoUser, {}))
    /\ disturbed' = disturbed \ {r}
    /\ UNCHANGED <<rows, outdated, admin>>

\* An existing link is the answer; otherwise a verified email is required.
Lookup(r) ==
    LET u == link[req[r].sub] IN
    /\ req[r].pc = "lookup"
    /\ IF u # NoUser THEN Answer(r, u)
       ELSE IF req[r].email = NoEmail THEN Reject(r, "invalid")
       ELSE Goto(r, "tenant", NoUser, {})
    /\ RequestOnly

\* SELECT a row, to go on at `found` or to insert it at `missing`.
Select(r, pc, exists, u, found, missing) ==
    /\ req[r].pc = pc
    /\ Goto(r, IF exists THEN found ELSE missing, u, req[r].new)
    /\ UNCHANGED <<rows, admin, disturbed>>

SelectTenant(r) ==
    /\ Select(r, "tenant", tenant, NoUser, "role", "newTenant")
    /\ UNCHANGED outdated
InsertTenant(r) == req[r].pc = "newTenant" /\ Insert(r, "tenant", NoUser, "role")

SelectRole(r) ==
    /\ Select(r, "role", role, NoUser, "user", "newRole")
    /\ outdated' = outdated \ {r}
InsertRole(r) == req[r].pc = "newRole" /\ Insert(r, "role", NoUser, "user")

SelectUser(r) ==
    /\ \E u \in Users \cup {NoUser} :
          /\ IF u \in Users THEN email[u] = req[r].email ELSE ~HasEmail(req[r].email)
          /\ Select(r, "user", u \in Users, u, "link", "newUser")
    /\ UNCHANGED outdated

\* Identities are fresh UUIDs; that of a row that violates a key does not matter.
Fresh(u) == ~Exists(u) /\ \A q \in Requests : Holds(q, "user") => req[q].user # u

\* Mutant of InsertUser: the user is committed, where it should be flushed.
InsertUserCommitting(r) ==
    /\ req[r].pc = "newUser"
    /\ \E u \in {u \in Users : Fresh(u)} :
          /\ ~Waits(r, "user")
          /\ IF Violates(r, "user")
             THEN Goto(r, "recheck", NoUser, {}) /\ UNCHANGED rows
             ELSE /\ tenant' = TRUE /\ role' = TRUE
                  /\ email' = [email EXCEPT ![u] = req[r].email]
                  /\ Goto(r, "link", u, {})
                  /\ UNCHANGED <<link, granted>>
    /\ UNCHANGED <<outdated, admin, disturbed>>

InsertUser(r) ==
    /\ req[r].pc = "newUser"
    /\ \E u \in Users :
          (Fresh(u) \/ Violates(r, "user")) /\ Insert(r, "user", u, "link")

InsertLink(r) ==
    req[r].pc = "link" /\ Insert(r, "link", req[r].user, "grant")

SelectGrant(r) ==
    /\ Select(r, "grant", req[r].user \in granted /\ r \notin outdated, req[r].user,
              "commit", "newGrant")
    /\ UNCHANGED outdated
InsertGrant(r) ==
    req[r].pc = "newGrant" /\ Insert(r, "grant", req[r].user, "commit")

\* The rows of the transaction become visible, and the user is the answer.
Commit(r) ==
    LET u == req[r].user IN
    /\ req[r].pc = "commit"
    /\ tenant' = (tenant \/ Holds(r, "tenant"))
    /\ role' = (role \/ Holds(r, "role"))
    /\ email' = IF Holds(r, "user") THEN [email EXCEPT ![u] = req[r].email] ELSE email
    /\ link' = [link EXCEPT ![req[r].sub] = u]
    /\ granted' = IF Holds(r, "grant") THEN granted \cup {u} ELSE granted
    /\ Answer(r, u)
    /\ UNCHANGED <<outdated, admin, disturbed>>

\* Mutant of Recheck: the loop does not count its turns.
RecheckForever(r) ==
    LET u == link[req[r].sub] IN
    /\ req[r].pc = "recheck"
    /\ IF u # NoUser THEN Answer(r, u) ELSE Goto(r, "tenant", NoUser, {})
    /\ RequestOnly

\* Mutant of Recheck: no second attempt.
RecheckOnce(r) ==
    LET u == link[req[r].sub] IN
    /\ req[r].pc = "recheck"
    /\ IF u # NoUser THEN Answer(r, u) ELSE Reject(r, "conflict")
    /\ RequestOnly

\* Mutant of Recheck: one attempt too many.
RecheckOffByOne(r) ==
    LET u == link[req[r].sub] IN
    /\ req[r].pc = "recheck"
    /\ IF u # NoUser THEN Answer(r, u)
       ELSE IF req[r].attempt <= MaxAttempts
            THEN Become(r, Req("tenant", req[r].sub, req[r].email,
                               req[r].attempt + 1, NoUser, {}))
            ELSE Reject(r, "conflict")
    /\ RequestOnly

\* Mutant of Recheck: the answer is the user with the same email.
RecheckByEmail(r) ==
    /\ req[r].pc = "recheck"
    /\ \/ \E u \in Users : email[u] = req[r].email /\ Answer(r, u)
       \/ /\ ~HasEmail(req[r].email)
          /\ Reject(r, "conflict")
    /\ RequestOnly

\* After a rollback: the winner's user, another attempt, or a conflict.
Recheck(r) ==
    LET u == link[req[r].sub] IN
    /\ req[r].pc = "recheck"
    /\ IF u # NoUser THEN Answer(r, u)
       ELSE IF req[r].attempt < MaxAttempts
            THEN Become(r, Req("tenant", req[r].sub, req[r].email,
                               req[r].attempt + 1, NoUser, req[r].new))
            ELSE Reject(r, "conflict")
    /\ RequestOnly

\* The request dies; its connection closes and the transaction is rolled back.
Crash(r) ==
    /\ Active(r)
    /\ Become(r, Idle)
    /\ RequestOnly

Step(r) ==
    \/ Lookup(r)
    \/ SelectTenant(r) \/ InsertTenant(r) \/ SelectRole(r) \/ InsertRole(r)
    \/ SelectUser(r) \/ InsertUser(r) \/ InsertLink(r)
    \/ SelectGrant(r) \/ InsertGrant(r) \/ Commit(r) \/ Recheck(r)

-----------------------------------------------------------------------------
(* Other services.  Their inserts wait for open transactions as well, and  *)
(* so do changes of rows that an open transaction refers to.               *)

Administer ==
    /\ admin < MaxAdmin
    /\ admin' = admin + 1
    /\ disturbed' = {r \in Requests : req[r].pc # "idle"}
    /\ UNCHANGED req

\* TenantService.create_tenant
CreateTenant ==
    /\ Administer
    /\ ~tenant /\ \A r \in Requests : ~Holds(r, "tenant")
    /\ tenant' = TRUE
    /\ UNCHANGED <<role, email, link, granted, outdated>>

\* RoleService.create_role
CreateRole ==
    /\ Administer
    /\ tenant /\ ~role /\ \A r \in Requests : ~Holds(r, "role")
    /\ role' = TRUE
    /\ UNCHANGED <<tenant, email, link, granted, outdated>>

\* UserService.create_user, sync_user_from_flow
CreateUser(u, e) ==
    /\ Administer
    /\ Fresh(u) /\ ~HasEmail(e)
    /\ \A r \in Requests : Holds(r, "user") => req[r].email # e
    /\ email' = [email EXCEPT ![u] = e]
    /\ UNCHANGED <<tenant, role, link, granted, outdated>>

\* UserService.update_user
ChangeEmail(u, e) ==
    /\ Administer
    /\ Exists(u) /\ ~HasEmail(e)
    /\ \A r \in Requests :
          /\ Holds(r, "user") => req[r].email # e
          /\ Holds(r, "link") => req[r].user # u
    /\ email' = [email EXCEPT ![u] = e]
    /\ UNCHANGED <<tenant, role, link, granted, outdated>>

\* IdPLinkService.create_idp_link
CreateLink(s, u) ==
    /\ Administer
    /\ link[s] = NoUser /\ Exists(u) /\ ~Linked(u)
    /\ \A r \in Requests : Holds(r, "link") => req[r].sub # s /\ req[r].user # u
    /\ link' = [link EXCEPT ![s] = u]
    /\ UNCHANGED <<tenant, role, email, granted, outdated>>

\* IdPLinkService.delete_idp_link
DeleteLink(s) ==
    /\ Administer
    /\ link[s] # NoUser
    /\ link' = [link EXCEPT ![s] = NoUser]
    /\ UNCHANGED <<tenant, role, email, granted, outdated>>

\* r goes on with the id of the committed role.
ReadRole(r) ==
    /\ req[r].pc \in {"user", "newUser", "link", "grant", "newGrant", "commit"}
    /\ ~Holds(r, "role")

\* RoleService.delete_role, whose grants go with it
DeleteRole ==
    /\ Administer
    /\ role /\ \A r \in Requests : ~Holds(r, "grant")
    /\ role' = FALSE /\ granted' = {}
    /\ outdated' = outdated \cup {r \in Requests : ReadRole(r)}
    /\ UNCHANGED <<tenant, email, link>>

\* RoleService.assign_role_to_user
Assign(u) ==
    /\ Administer
    /\ role /\ Exists(u) /\ u \notin granted
    /\ \A r \in Requests : Holds(r, "grant") => req[r].user # u
    /\ granted' = granted \cup {u}
    /\ UNCHANGED <<tenant, role, email, link, outdated>>

\* RoleService.unassign_role_from_user, UserService.remove_user_from_tenant
Unassign(u) ==
    /\ Administer
    /\ u \in granted
    /\ granted' = granted \ {u}
    /\ UNCHANGED <<tenant, role, email, link, outdated>>

Next ==
    \/ \E r \in Requests :
          \/ \E s \in Subjects, e \in Emails \cup {NoEmail} : Login(r, s, e)
          \/ Step(r) \/ Crash(r)
    \/ \E u \in Users :
          \/ \E e \in Emails : CreateUser(u, e) \/ ChangeEmail(u, e)
          \/ Assign(u) \/ Unassign(u)
    \/ \E s \in Subjects : DeleteLink(s) \/ \E u \in Users : CreateLink(s, u)
    \/ CreateTenant \/ CreateRole \/ DeleteRole

Spec == Init /\ [][Next]_vars

\* A request goes on; one whose insert waits is not overtaken for ever.
FairSpec == Spec /\ \A r \in Requests : SF_vars(Step(r))

-----------------------------------------------------------------------------
(* Properties                                                              *)

\* "Concurrent first requests for the same subject converge on a single user":
\* an answered login names the user its subject is linked to, however many
\* logins raced (provision: unique constraints, rollback and re-resolution),
\* unless an administrator moved the link since.
AnswersHold ==
    \A r \in Requests \ disturbed :
        req[r].pc = "ok" => link[req[r].sub] = req[r].user

\* The retry absorbs every race between logins: a login that no other service
\* disturbed is answered Conflict only when the user with its email has another
\* subject at the provider already.
RetryAbsorbsRaces ==
    \A r \in Requests \ disturbed :
        req[r].pc = "conflict" =>
            \E s \in Subjects \ {req[r].sub} :
                link[s] \in Users /\ email[link[s]] = req[r].email

\* A login that loses leaves nothing behind: a user that provisioning creates
\* appears together with a link and with the grant of the default role.
WholeProvision ==
    [][admin' = admin =>
          \A u \in Users :
              ~Exists(u) /\ Exists(u)' => Linked(u)' /\ role' /\ u \in granted']_vars

\* A request has come to an insert that another one holds up.
Blocked(r) ==
    \/ req[r].pc = "newTenant" /\ Waits(r, "tenant")
    \/ req[r].pc = "newRole" /\ Waits(r, "role")
    \/ req[r].pc = "newUser" /\ Waits(r, "user")
    \/ req[r].pc = "link" /\ Waits(r, "link")
    \/ req[r].pc = "newGrant" /\ Waits(r, "grant")

\* Logins wait for each other's rows in one order, so never in a circle: while
\* any is at work, one of them can go on (provision: the order of the inserts,
\* and the rollback before the second attempt).
NoCircularWait ==
    (\E r \in Requests : Active(r)) => \E r \in Requests : Active(r) /\ ~Blocked(r)

\* So none waits or retries for ever, and each login is answered.
EveryLoginIsAnswered == \A r \in Requests : Active(r) ~> ~Active(r)

\* "Otherwise a bootstrap race on the default tenant/role - retry": when nobody
\* else is at work (one request, no other service), no login needs to be told
\* to try again.
AloneNeverConflicts == \A r \in Requests : req[r].pc # "conflict"

\* Seen from outside a login is one step.
Abstract ==
    INSTANCE FirstLogin WITH
        owner <- link,
        asked <- [r \in Requests |-> IF Active(r) THEN req[r].sub ELSE NoSubject],
        answer <- [r \in Requests |-> IF req[r].pc = "ok" THEN req[r].user ELSE NoUser]

\* Provisioning implements FirstLogin: concurrent logins of a subject behave as
\* if each had asked for, or bound, its user atomically.
LoginIsAtomic == Abstract!Spec
=============================================================================
