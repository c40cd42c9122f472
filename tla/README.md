# A verification project for identity-stack

TLA+ models of the parts of identity-stack in which several requests, processes
and stores have to agree, the TLC runs that check them on small instances, and
TLAPS proofs of the main results for every instance. The models are written from
the code in `src/backend/app`; `PROJECT.json` maps each definition to the lines
it stands for.

## 1. The system

identity-stack is an identity service: a FastAPI backend on Postgres and Redis,
Descope as identity provider and as store of fine-grained (FGA) relations, Ory
as a second provider, a React frontend, a Tyk gateway, and Terraform.

| Component | State | Operations | Talks to |
|---|---|---|---|
| Identity resolution (`services/identity_resolution.py`) | Redis: `identity:{provider}:{sub}`, `identity:user:{id}`, `identity:all-keys`; nothing in memory | `resolve`, the invalidation handler | reads Postgres; is told of writes over Redis pub/sub |
| Change events (`services/cache_invalidation.py`) | none | `publish`, `publish_batch` after a commit, best effort | Redis pub/sub |
| Just-in-time provisioning (`services/identity_provisioning.py`) | rows of users, links, grants, the default tenant and role | `provision` | Postgres; called by `GET /api/identity` |
| Documents (`routers/documents.py`, `dependencies/fga.py`) | the `documents` table; relation tuples in Descope | create, read, list, delete, share, revoke | Postgres and the FGA API, with no common transaction |
| FGA administration (`routers/fga.py`) | tuples and schema in Descope | create, delete, list, check | FGA API |
| Canonical users (`services/user.py`) | `users`, `user_tenant_roles` | create, update, (de)activate, remove from tenant | commits, publishes, then synchronises outwards |
| Inbound synchronisation (`services/inbound_sync.py`) | `users`, `idp_links`, `sync_events` | flow connector, webhooks created/updated/deleted | Postgres; publishes |
| Reconciliation (`services/reconciliation.py`) | the same tables | `run`: fetch from Descope, diff, commit, batch event | Descope, Postgres, an advisory lock |
| Roles, permissions, tenants (`routers/roles.py`, `services/role.py`, `permission.py`) | their tables | CRUD, assign and remove | commit, publish, synchronise |
| IdP links, providers | `idp_links`, `providers` | CRUD | commit, and publish nothing |
| Authentication, RBAC (`middleware/`, `dependencies/rbac.py`) | none (JWKS caches of a library) | decide on a token, on roles of a tenant | read Postgres for some providers |
| Access keys (`routers/accesskeys.py`) | keys in Descope | create, list, (de)activate, delete | check the tenant, then act |
| Frontend identity context (`IdentityContext.tsx`, `useApiClient.ts`) | the identity of the subject that is logged in | load, renew the token, reset | backend |

Requests run as coroutines of several backend processes, so two requests
interleave at every `await`: at each database statement, Redis round trip and
call to Descope. Each request has a session of its own at READ COMMITTED. Every
process has one background task that subscribes to change events.

What is hard, and what makes each part correct:

* **Cache.** A resolve reads four times, then stores; a write commits, then
  publishes; the handler reads an index, then deletes. Any of these overlap.
  Events are forgotten when nobody listens. Correct means: no identity is
  outdated but for a known cause, indexes find the entries they should, and
  nothing is outdated for ever.
* **Documents.** A delete removes tuples one by one, then the row, and puts
  tuples back when it fails; it meets shares, revokes, a second delete, calls
  that time out and take effect later, commits whose outcome is unknown, and
  crashes. Correct means: nobody loses access by an operation that failed, and
  a document that is gone leaves no grants.
* **First logins.** Several transactions insert the same unique rows. Correct
  means: they converge on one user per subject, half a user is never visible,
  a race costs a retry and not an error, and nobody waits for ever.
* **Synchronisation with Descope.** API writes push a status outwards after
  their commit, webhooks and the flow connector write inwards, late, twice, out
  of order or never, and a reconciliation overwrites with what it fetched some
  time ago. Nothing has a version. Correct means: a row and its account differ
  only for a known cause, a deactivation is undone by nobody's accident, a
  deleted account takes its user along, and a reconciliation ends the
  differences once the rest is quiet.
* **Roles.** Assignments are committed one by one, a conflict is swallowed in a
  session that is unusable afterwards, names are resolved before the rows are
  touched, and deletions race with all of that. Correct means: names are unique
  and references hold, a request that stops half-way has done a prefix, a role
  appears with all its permissions or not at all.
* **Letting a request in.** Two middlewares judge the same tokens with code of
  their own, in several configurations; users, grants and keys change between
  the reads of a decision and between a check and the call it protects. Correct
  means: both middlewares agree, a decision rests on what was so while the
  request was at work, keys give no more than their creator had.
* **The identity a browser shows.** Loads of one subject are answered after
  another has logged in. Correct means: what is shown is about who is logged in,
  one load decides, and the wait ends.

The complete lists of components and hazards are in `PROJECT.json`.

## 2. The modules

| Module | What it is |
|---|---|
| `IdentityCache` | the cache, its writers, publishers and subscribers |
| `IdentityCacheProofs` | proofs about it |
| `DocumentAcl` | one document: its row, its tuples and the requests on them |
| `DocumentAclProofs` | proofs about it |
| `FirstLogin` | abstract: what provisioning promises to a login |
| `JitProvisioning` | concurrent transactions of `provision`; implements `FirstLogin` |
| `JitProvisioningProofs` | proofs about it, the refinement among them |
| `CanonicalSync`, `CanonicalSyncProofs` | users in Postgres and accounts in Descope, and the three flows between them |
| `RoleStore` | abstract: what the administration of roles promises whoever reads by names |
| `AdminRoles` | roles and permissions, their assignment, their push and their reconciliation; implements `RoleStore` |
| `AdminRolesProofs` | proofs about it, the refinement among them |
| `Admission`, `AdmissionProofs` | tokens, role decisions and the access key routes behind them |
| `FrontendIdentity`, `FrontendIdentityProofs` | the identity context of the single page application |
| `MC_*` | instances for TLC: constants, initial states up to names, bounds |

The systems share no variable: the cache sees a write as a commit that changes
parts of some users' identities, and need not know what else it did.
`IdentityCache!Provision` is in that sense the outside of `JitProvisioning`, and
`WriteUser`, `SyncNewLink` and `Reconcile` there are the outside of
`CanonicalSync` and `AdminRoles`. `ReconciliationService.run` is one transaction
in the code; `CanonicalSync` models what it does to users and links,
`AdminRoles` what it does to definitions, since the two touch different tables
and no property relates them. Definitions named in a comment as *mutant* are
plausible faults of one definition each; no specification uses them, and each
property is tested against one of them.

### 2.1 IdentityCache

State. `link` and `version` are Postgres: which user a key belongs to, and for
each user and part of the payload (profile, grants, linked IdPs) how many
commits have changed it. `entry`, `ttl`, `reverse`, `reverseTtl`, `allKeys`,
`allTtl` are Redis; `inbox[s]` is the pub/sub connection of process `s`. A
cached payload is the user it names and the version of each part that was read,
so *outdated* means that a version is lower than the database's. `lost`,
`silent`, `late` and `unlinked` are history: events that were lost, commits that
published nothing, entries stored after the event that should have removed them,
and the links that were deleted.

| Code | Actions |
|---|---|
| `resolve` | `Request`, `CacheHit` / `CacheMiss`, `ReadLink`, `ReadUser`, `ReadGrants`, `ReadLinkedIdps`, `CacheSet`, `Abandon` (a Redis or database error, a cancelled request) |
| services that commit and publish | `WriteUser`, `SyncNewLink`, `WriteShared`, `Reconcile`, then `Publish` or `PublishFails` (refused, or the process dies in between) |
| services that commit only | `CreateLink`, `DeleteLink`, `Provision` |
| the subscriber | `Subscribe`, `TakeEvent` (with its SMEMBERS), `ScanReverse`, `ExecUser`, `ExecBroad`, `HandlerFails`, `Disconnect` |
| Redis expiry | `Tick` |

Abstraction: the grants of a user are read by several statements in the code and
by one in the model, at the time of the first; keys are opaque.

Properties. `StaleHasCause`: an entry about another user than the key's has the
user of a link that was deleted; an outdated part is about to be removed, or an
event was lost, or the entry was stored too late, or is in no index, or the
commit published nothing. `IndexOutlivesEntry`: an index that names a cached key
does not expire before it. `OnlyOvertakenExecHides`: an entry leaves an index
while it lives only in the EXEC of a handler that had read the index before the
entry was stored. `StaleIsTemporary`: a stale entry is gone or replaced
eventually.

### 2.2 DocumentAcl

State. `row` is the row of the document, `tuples` its tuples in the FGA store,
`straggling` the calls that their caller gave up and that may still take effect,
`req` the requests with the tuples they still have to remove (`todo`) and those
they would put back (`done`). `granted`, `missing` and `stray` are history: what
the API has promised, why a promised tuple may be absent, and which tuples were
written at a moment when no delete could see them.

| Code | Actions |
|---|---|
| `create_document` | `CreateOwner`, `InsertRow`, `InsertFails`, `UndoOwner` |
| `delete_document` | `AuthorizeDelete`, `ReadRow`, `ListRelations`, `StripRelation`, `StripFails`, `RemoveRow`, `RemoveFails`, `RestoreRelation` |
| `share_document`, `revoke_share` | `AuthorizeShare`, `ReadRow`, `ShareRelation`; `AuthorizeRevoke`, `ReadRow`, `RevokeRelation` |
| `/fga/relations` | `AdminCreate`, `AdminDelete` |
| the FGA store | `Land`, `Lose` (a call that was given up takes effect, or never does) |
| cancellation, process death | `Crash` |

`Faults` selects what may go wrong beyond a refused call: `timeout`, `rollback`,
`doubt` (the commit raises and took effect, or not), `crash`.

Properties. `GrantsSurvive`: what was granted and not revoked is there, or about
to be put back, or its absence has a recorded cause. `OrphansAreStray`: a
document without a row keeps only tuples that were written during a delete or
after it, or that a failed creation left. `LockoutIsTransient`: tuples taken by
a delete that fails come back.

### 2.3 FirstLogin and JitProvisioning

State. The committed rows (`tenant`, `role`, `email`, `link`, `granted`) and,
for each request, its program counter, subject, email, attempt, the user it is
about and the kinds of rows its open transaction has inserted (`new`).
`outdated` are the requests that go on with the id of a role that is deleted.
`admin` bounds and `disturbed` records the commits of other services.

| Code | Actions |
|---|---|
| `canonical_identity`, start of `provision` | `Login`, `Lookup` |
| `_get_or_create_tenant`, `_get_or_create_role` | `SelectTenant`, `InsertTenant`, `SelectRole`, `InsertRole` |
| the body of the loop | `SelectUser`, `InsertUser`, `InsertLink`, `SelectGrant`, `InsertGrant`, `Commit` |
| `except IntegrityError` | the failing branch of `Insert`, then `Recheck` |
| cancellation, process death | `Crash` |
| other services | `CreateTenant`, `CreateRole`, `CreateUser`, `ChangeEmail`, `CreateLink`, `DeleteLink`, `DeleteRole`, `Assign`, `Unassign` |

An insert waits for a transaction that holds an uncommitted row with the same
unique key (`Waits`, PostgreSQL's behaviour), fails on a committed one
(`Violates`), and rolls its transaction back when it fails. Reads are at READ
COMMITTED. One provider is modelled: a link is unique per subject and per user
(`uq_idp_links_provider_external_sub`, `uq_idp_links_user_provider`).
Abstraction: a provider is registered before and stays; renaming the default
tenant or role is not modelled.

`FirstLogin` knows only who owns a subject, who asks and what the answer was:
each login is answered in one step with the owner of its subject, or with a user
that had no subject and gets this one, or with nobody. `Abstract` maps `owner`
to `link`, `asked` to the subject of an active request and `answer` to the user
of a request that ended well.

Properties. `AnswersHold`: an answered login names the user its subject is
linked to. `NoCircularWait`: while a login is at work, one of them waits for
nobody. `RetryAbsorbsRaces`: a login that nobody but other logins disturbed is
refused only when the user with its email has another subject. `WholeProvision`:
a user appears together with its link and its grant. `LoginIsAtomic`: the
refinement. `EveryLoginIsAnswered`: nobody waits or retries for ever.

### 2.4 CanonicalSync

State. `email`, `status` and `link` are Postgres (the rows of users, and the
user each subject is linked to), `account` and `address` Descope (the status of
each account and its login), `hooks` the webhooks and connector calls under way,
in no order. `req` are the requests at work, with the row they read (`seen`) and
the one they want (`want`); `recon` is the reconciliation that holds the
advisory lock, with what it fetched and loaded. `cause`, `overruled`, and the
marks `overtaken`, `stale` and `moved` are history: why a row and its account
differ, which deleted accounts nobody heard of, and what a request or a
reconciliation has missed since it read.

| Code | Actions |
|---|---|
| `UserService` (create, update, deactivate, activate, remove from tenant) | `CreateUser`, `UpdateUser`, `SetStatus`, `RemoveFromTenant`; `StoreNew`, `StoreUpdate`, `StoreRemove`, or `Conflict`, `Abort`; then the push: `Land`, `PushFails` |
| `InboundSyncService` | `TakeUnknown`, `TakeLinked`, `TakeCreated`, `TakeDeleted`; then `StoreInbound`, `StoreLink`, `Conflict` or `Abort` |
| Descope, its console, the members router | `SignUp`, `InviteMember`, `SetMember`, `ChangeAddress`, `DeleteAccount`, `LoseHook` |
| `ReconciliationService.run` | `Fetch`, `Load`, `Reconcile`, `GiveUp` |

`Merged` is what SQLAlchemy writes: the attributes that differ from what was
read, into the row as it is by then. `Refreshed` is what `update()` reads back
and what is pushed; a removal pushes the status it read before. Flush and commit
are one step (the row is locked between them); the pages of a fetch are one
step; a tenant check that refuses changes nothing. Names, events and caches are
left out (`IdentityCache` has the events).

Properties. `DriftHasCause`: a row and the account with its email agree, unless
a push is under way or one of six causes is on record. `ZombieHasCause`: the
user of a deleted account is inactive, unless the event is under way, came to
nothing, or was undone. `OnlyDecisionsReinstate`: a deactivated user comes back
by an activation or a reconciliation, never by the late write of something else.
`ReconcileSettles`: a reconciliation that commits leaves each account that stood
still with a user that has its email and status, and a link where there can be
one, whatever else went on. `SyncConverges`: when calls and changes end,
accounts and rows come to agree for good.

### 2.5 RoleStore and AdminRoles

State. `name` (the rows of roles and permissions by id), `mapped` (permissions
of a role), `held` (roles of a member, which is a user in a tenant), `remote`
(the definitions Descope has), `req`, `recon`, and the history `unpushed`
(definitions Descope never got or has lost).

| Code | Actions |
|---|---|
| `assign_roles`, `remove_roles` (routers/roles.py) | `CallLoop`, `AssignNext`, `RemoveNext`, `EndLoop` |
| `create_role` with its permissions | `CallCreate`, `InsertRole`, `LookUp`, `Map`, `CommitRole` |
| `create_permission` | `CallCreate`, `StorePermission` |
| update, delete | `CallChange`, `Rename`, `Delete` |
| what the database refuses; failures | `StoreRefused`; `Fault` |
| the push after a commit | `Push`, `PushFails` |
| Descope's console; `_reconcile_roles`, `_reconcile_permissions` | `Console`; `Fetch`, `Load`, `Reconcile`, `GiveUp` |

`Named` resolves the names of a request when it begins, and the services work on
the ids afterwards. An insert of a role waits for another of the same name
(`Waits`); a deletion waits for an uncommitted role that refers to the
permission. `Cascaded` is what the foreign keys do when a row goes. `Map` keeps
the code's swallowed conflict: the session goes on, `dead`, and everything after
it fails. Assignments pushed to Descope name the user by a canonical id that no
account answers to, so they change nothing there; the adapter's `delete_role`
and `delete_permission` do nothing either. Descriptions and the roles of a
single tenant are left out: the routers know the global ones only.

`RoleStore` has no ids, no requests and no Descope: the names in use, which role
name grants which permission name, which member holds which role name, and one
step for each operation as a whole (a role with all it grants, a rename that
grants and assignments follow, a deletion that takes along what refers to the
name, a batch of bare definitions). `NamesOf`, `GrantsByName` and
`HoldersByName` map the rows to it, with no view of the rows that are there: a
reference left to a row that is gone would show as a grant or an assignment of
`NoName`, and a row that takes the id of another would show as one that changed
hands. A request that works on the id it has resolved takes its step on the name
that the row has by then.

Properties. `Consistent`: unique names, and no reference to a row that is gone.
`MissingHasCause`: a definition that Descope lacks was lost on the way or there.
`PrefixDone`: a loop that has come to its n-th name has assigned (or removed)
all before it, but for what others did. `CreatedWhole`: a role appears with all
its permissions, or bare from a reconciliation. `ByName`: the refinement.
`Answered`, `Adopted`: requests end, and what Descope has comes to have a row.

### 2.6 Admission

State. `config` (mode and providers the backend was started with), `now`,
`status` and `grants` of the user behind each subject, `keys` in Descope, and
`req` with the claims, the provider that vouched for them and the decision. The
fields `wasActive`, `had` and `ours` are history: what was so at some time since
the request arrived.

| Code | Definitions and actions |
|---|---|
| `middleware/providers.py` | `descope_config`, `ory_config`, `Places`, `Enforcing`, `Accepting`, `order_candidates`, `select_by_issuer`, `audience_rejected`, `token_kind_rejected`, `infer_single_tenant_dct` |
| `middleware/auth.py`, `claims.py`, the gateway | `Verifies`, `Rejected`, `Judge`, `Standalone`, `Claims`, `TykPasses`, `Accepted` |
| a request whose token is accepted | `Visit`, `CallCreate`, `CallChange` |
| `dependencies/rbac.py` | `DecideByClaims`, or `ReadUser` and `ReadGrants` |
| `routers/accesskeys.py` | `Check`, `CreateKey`; `Verify`, `ChangeKey`; `Leave` when a call fails |
| changes by others | `SetStatus`, `SetGrant`, `MoveKey`, `Tick` |

A token is the claims that decisions look at; a signature is who signed it.
`require_permission` is the same decision over permission names. A list of
providers in the code is a set of places in the order of the configuration here;
the provider that decides is the one at the least place of those that qualify,
as it is in the code's loops.

The tenant of a new key, and the one a key is checked against, is the tenant the
token claims (`get_tenant_id`); the roles are those of the tenant the decision
was about. `TykPasses` is what the gateway's configuration asks for
(`tyk/apps/saas-backend.json`). An expiry may be absent or no number: the JWT
library and the gateway check one that is there (`Unexpired`), `claims.py` asks
for one itself (`HasExpiry`).

Properties. `SameVerdict`: both middlewares accept a genuine token by the same
provider, or refuse it, but for three differences that are in the code: the one
behind the gateway lets a token pass for a leeway after its expiry, and only the
other may take a token that names no issuer, or one that bears no expiry.
`DecisionWarranted`: a decision rests on claims that the provider which vouched
for them has signed, and one made in Postgres on an active user and on grants
that were so while the request was at work. `KeysBounded`: a key is made by a
request that was checked to create one and ends with it; the key is for that
request's tenant, has no role but those its caller was found to have there, and
its life ends within the limit (an expiry of 0, `Never`, would be for ever).
`KeyOpsInTenant`: a key that is changed was the tenant's at some moment of the
request.

### 2.7 FrontendIdentity

State. `session` and `route`, `effect` (the session and route the effect last
ran for), `loads` (calls of `loadIdentity` under way), `fetched` (the state the
provider keeps), `selected` (the stored tenant). What is shown (`Identity`,
`Loading`, `CurrentTenants`) is a function of these, as rendering is.

| Code | Actions |
|---|---|
| the OIDC client | `Login`, `Logout`, `Expire` |
| `IdentityProvider` | `RunEffect` (clean-up and effect), `SelectTenant` |
| the router | `Navigate` (`useNavigate` gives a new function, so the effect depends on it) |
| `loadIdentity`, `apiFetch` | `Succeed`, `Fail`, `Renew` (401 and a silent renewal), `GiveUp` (401 and a logout) |

Effects run before the next change of session or route, as React runs them
before it renders anew.

Properties. `OwnIdentityOnly`: what is shown, tenants included, is of the
subject that is logged in. `OneLoadCounts`: at most one load can still decide
what is shown, and it is of the effect's subject. `WaitsForItsLoad`: once the
effect has run, the page waits exactly while a load that counts is under way for
who is logged in. `LoadingEnds`: nobody waits for ever.

## 3. The runs

| Run | Instance | Question | Result |
|---|---|---|---|
| `cache` | 2 users, 1 key, 2 resolves, 1 writer, 2 subscribers, TTL 2, 1 commit | every stale entry has a cause; what hides an entry; staleness ends | holds |
| `cache_orphan` | 1 user, 2 keys | is a cached entry always in its index? | no: finding 1 |
| `cache_silent` | 1 user | is every commit published? | no: finding 2 |
| `acl` | 2 requests and an administrator; timeouts, rollbacks, commits in doubt, crashes | grants, orphans; lockouts end | holds |
| `acl_lockout` | 2 requests; timeouts | does a failed delete keep the owner? | no: finding 3 |
| `acl_double` | 2 requests | does the loser leave the ACL deleted? | no: finding 4 |
| `jit` | 2 requests, 2 subjects, 2 emails, 2 users, 1 commit of another service | convergence, retry, wholeness, refinement; nobody waits in a circle, every login ends | holds |
| `jit_alone` | 1 request | does a login with nobody else at work ever conflict? | yes: finding 5 |
| `sync` | 2 users, 2 accounts, 2 emails, 2 requests, a reconciliation, 2 events | drift and zombies have causes; who reinstates; a reconciliation settles what stood still; convergence | holds |
| `roles` | 3 role ids, 2 permission ids, 2 names, 1 member, 2 requests, a reconciliation, 2 events | uniqueness and references, prefixes, whole roles, pushes; refinement; answers, adoption | holds |
| `admission` | 16 kinds of token, every configuration that starts, 1 request, 1 subject, 2 keys, 2 tenants, 3 events, 1 tick | do both middlewares agree; do decisions and key operations rest on what was so, and on claims their provider signed | holds |
| `frontend` | 2 subjects with 2 and 1 tenants, 2 routes, 4 changes | own identity, one load; the wait is for that load, and ends | holds |

Bounds and why they are enough to be of use. Two requests (or two resolves, a
writer and a subscriber) are what each of the races in the code needs; where a
third party takes part (a reconciliation, an administrator, Descope) it is there
besides. The two subscribers of `cache` are two backend processes that handle
the same event. One commit between any two reads gives every way in which a read
is outdated; with a TTL of two ticks an index can be younger than an entry or
older. Two users are needed for an event about somebody else. Two subjects,
emails and users give logins of the same subject, of two subjects with the same
email and of unrelated ones; the initial database is any that satisfies the
constraints, so both attempts are needed and exhausted. `MaxInbox`,
`MaxStraggling`, `MaxCommits`, `MaxAdmin`, `MaxEvents`, `MaxTime` and
`MaxChanges` only keep the state space finite. With two events in `sync` and
`roles`, two calls race, or a call meets a change in Descope, a fault or a
second delivery, while reconciliations run at any moment; a cause of drift needs
no more than two. The safety results do not rest on the bounds: they are proved
for all values (section 5).

What the `MC_*` modules restrict, each with its reason beside it:
`InitUpToNames` and `NextUpToNames` (in `cache`, `jit` and others) take one
state of those that differ in names alone, which is what a symmetry would do and
what liveness rules out (symmetry is used in `cache_orphan` only).
`OneLoginEach` lets a request log in once, since the initial rows already are
any that earlier logins may have left, and `NoEmailAlone` lets a login without a
verified email, which touches no row, be at work by itself only. `OnlyBobViews`
bounds what is shared and whom a revoke is about, as there is one user besides
the author. `roles` starts with one role or two and a permission that the first
one has. `admission` takes tokens that each differ from a good one in a way one
of the checks is about, and lets requests arrive in the usual configurations
only: in the others tokens are judged as time passes, which is what
`SameVerdict` is about.

`CHECK_DEADLOCK FALSE` is set where the modelled system really may stop: `acl`
(a document that is gone leaves nothing to do), `jit` (every login is answered),
`admission` (time and events are used up), `frontend` (nothing changes any
more). Elsewhere deadlock is checked, but time and reconciliation go on for ever
in those models: that no request is stuck is what the liveness properties say.

## 4. Fairness

* `IdentityCache!FairSpec`: time passes, and a resolve that has begun goes on
  (its calls return or raise). Nothing is assumed of publishers, subscribers or
  deliveries, which are best effort in the code: staleness ends by expiry alone.
* `DocumentAcl`: a request that has begun goes on, each call being answered or
  timing out. Crashes stay possible; a crash is a recorded cause.
* `JitProvisioning!FairSpec`: strong fairness of each request. PostgreSQL wakes
  a waiter when the holder of the key ends; strong fairness says that this
  waiter is not overtaken for ever by new logins that take the key and die.
  Crashes stay possible. `Login` and the other services are not fair.
* `CanonicalSync!Fairness`: handlers run to their end, and a webhook is sent
  until it is delivered (strong fairness of `Deliver`, since handlers may be
  busy in between), as Descope retries what is not acknowledged; `LoseHook`
  stays possible. Reconciliation is run again and again: the backend has no
  scheduler for it, whoever operates the system calls its endpoint. API calls
  and changes in Descope are not fair, and the bound on events stands for *the
  rest is quiet from some time on*.
* `AdminRoles!Fairness`: handlers run to their end, reconciliation as above.
  `Answered` needs no more, because a request that waits for the name another
  has locked waits for a handler that is fair itself.
* `FrontendIdentity!Fairness`: React runs its effects, and each request is
  answered or fails. Nothing is assumed of the user.
* `Admission` states no liveness: its requests take one step after the other
  and wait for nobody.

## 5. What is proved

All proofs are for any sets of users, requests, keys, processes and so on, any
TTL, and any number of commits. They assume the named assumptions on constants
(sentinel values are not members of the sets they stand beside, the bounds are
numbers, TTL is at least 1, `MaxAttempts` at least 2 as in `range(2)`, tokens
have their type), which TLC evaluates in every run.

**IdentityCacheProofs.** `TypeCorrect`, `IndexesOutliveEntries`,
`OnlyOvertakenExecsHide` and `StaleAlwaysHasCause`. The invariant is `TypeOK`
with `Progress` (a process at a later step has the key, user or event it got at
an earlier one), `Expiry` (an entry has an owner, and its indexes outlive it)
and `SeenBounded` (nobody has seen a version that the database has not reached),
`OwnersKnown` (whoever is cached or being read for a key is, or once was, linked
to it) and `PartsAccounted`, the part of `StaleHasCause` about versions; the
part about links follows from `OwnersKnown`. Without `SeenBounded` an entry
could become outdated with no commit; without the causes recorded at the step
that gives rise to them the last property is not inductive.

**DocumentAclProofs.** `TypeCorrect`, `GrantsAlwaysSurvive`,
`OrphansAlwaysStray`. The invariant adds `Phased` (what a request holds at each
step), `Creation` (before a document is known only its creator acts on it) and
`Covered` (while a delete strips a document, each of its tuples is in the list
that it works through, or is stray).

**JitProvisioningProofs.** `TypeCorrect`, `AnswersAlwaysHold`,
`NeverCircularWait`, `RetryAlwaysAbsorbs`, `ProvisionIsWhole` and
`ImplementsFirstLogin`. The invariant has four parts: `Shape` (which rows a
transaction holds at which step), `Open` (how they relate to committed rows: a
user that is held does not exist yet, a link that is held is free), `Apart` (two
open transactions hold nothing that is unique in common, which is what waiting
achieves) and `Calm` (what an undisturbed request may rely on). `Calm` carries
the argument for the retry: a first attempt that fails leaves either tenant and
role committed, or a link of its subject or of the user with its email; a second
attempt cannot fail on tenant or role, so the latter remains.
`NeverCircularWait` needs `Shape` alone: the inserts have an order (`Rank`:
tenant, role, user, link, grant), a transaction holds rows of steps it has
passed only, so whoever a request waits for is ahead of it (`HolderIsAhead`),
and the request that is furthest ahead waits for nobody. The refinement maps
each step to a step of `FirstLogin` or to a stutter: `Lookup`, `Recheck` and
`Commit` answer, `Crash` refuses, all inserts are invisible.

**CanonicalSyncProofs.** `TypeCorrect`, `IdentityIsOne` (emails are unique, a
subject has one user and a user one subject), `DriftAlwaysHasCause`,
`ZombieAlwaysHasCause`, `OnlyDecisionsEverReinstate`, `ReconcileAlwaysSettles`.
The invariant adds `RequestsFit` (what each operation was begun with; a request
that is going to push and is not marked overtaken still agrees with its row; its
row is there; an offboarding is of a deleted account), `Addressed` (no two
accounts have one address), `Truthful` (a deleted event is about a deleted
account), `Snapshot` (what a reconciliation fetched and loaded is so still, but
for what is marked stale or moved), `Caused` (drift is covered by a cause or by
a push that was not overtaken), `Offboarded` and `Aware` (an offboarding that
read an inactive user may rely on it, unless it was overruled). `Caused` is why
the history is needed: without the mark, a push that lands after a newer write
would be the cause of a drift that no state shows. `ReconcileAlwaysSettles`
rests on `Snapshot` and on the unique indexes: an account that is not stale is
as it was fetched, the user with its email is as it was loaded or is marked
moved, so the write is the difference of what is so now (`SettledBy`), or a new
row is inserted, and a link joins them unless one of the two has another already
(`LinkedBy`).

**AdminRolesProofs.** `TypeCorrect`, `AlwaysConsistent`,
`MissingAlwaysHasCause`, `PrefixAlwaysDone`, `AlwaysCreatedWhole`,
`ImplementsRoleStore`. The invariant adds `Formed` (for each kind and phase of a
request, what it was begun with and how far it has come: the permissions mapped
so far are as many as the names looked up, unless the session is dead),
`Reserved` (uncommitted roles have ids and names that nobody else has, which is
what waiting achieves) and `Remembered` (what a reconciliation fetched is in
Descope still, or is on record as lost, so that adopting it later gives no
definition without a cause). The refinement has one lemma for each step that
changes rows (`AssignSeen`, `RemoveSeen`, `RenameSeen`, `DeleteSeen`,
`CommitRoleSeen`, `StorePermissionSeen`, `ReconcileSeen`); all others are
invisible (`StoreStill`). Unique names make a name stand for one row, so that
what happens to a row happens to its name; that references hold makes the
deletion of a name the deletion of all that mentions it; `Reserved` makes the
name of a role that is committed new.

**AdmissionProofs.** `TypeCorrect`, `DecisionAlwaysWarranted`,
`KeysAlwaysBounded`, `KeyOpsAlwaysInTenant`, `VerdictsAlwaysAgree`. The last
needs no history. A token without an expiry, or with one that is past or no
number, is refused by one middleware or both. Of any other the candidates of
both are the same places, each of which verifies it, and the one at the least
place decides (`SameCandidates`); only where no issuer is named and some
provider wants one does the middleware behind the gateway find no candidate
(`IssuersNamed`). For the others the invariant is `Sound` for every request:
what it noted covers what is so now (`Notes`), a decision is backed by the
claims or by what was noted, a key that was checked is within its bounds, and a
key that was verified was the tenant's.

**FrontendIdentityProofs.** `TypeCorrect`, `IdentityIsOwn`,
`OneLoadAlwaysCounts`, `AlwaysWaitsForItsLoad`. The invariant adds `Fetching`
(the loading flag of the provider says whether the load of the effect's subject
is still out) and `Honest`: a load that was renewed as another subject, and what
it fetched, are about somebody else only while the effect has still to run for
the new session; until then the gate on the fetched subject hides it, and then
it is dropped.

Every invariant and every action property that a passing run checks is stated by
one of these theorems, and so are both refinements.

Left to TLC: the liveness properties (`StaleIsTemporary`, `LockoutIsTransient`,
`EveryLoginIsAnswered`, `SyncConverges`, `Answered`, `Adopted`, `LoadingEnds`),
since ENABLED and fairness are out of the prover's reach, and the violations,
which are counterexamples. For three of the liveness properties the part that is
about safety is proved: somebody can always go on (`NeverCircularWait`), one
undisturbed reconciliation is enough (`ReconcileAlwaysSettles`), and a wait is
always for a load that is under way (`AlwaysWaitsForItsLoad`).

## 6. Findings

1. `IndexTracksEntries` (identity_resolution.py:284-292): an entry stored between
   SMEMBERS and EXEC survives an invalidation whose EXEC deletes its index.
   Later events about the user miss it until it expires.
2. `EveryCommitIsPublished` (idp_link.py:84, 122; identity_provisioning.py:144):
   three commits publish nothing, although publishing is documented for every
   one. Cached identities keep deleted links until they expire.
3. `FailedDeleteKeepsOwner` (documents.py:300-321): a removal that times out is
   not among those put back; when it lands later the owner is locked out.
4. `DeletedStaysDeleted` (documents.py:320): of two concurrent deletes one may
   put tuples back after the other has deleted the row.
5. `AloneNeverConflicts` (identity_provisioning.py:153): the retry takes every
   violation for a race. A new subject whose email belongs to a user with
   another subject at the provider is told to retry for ever.

## 7. Not modelled

* **Tenants and providers** (`services/tenant.py`, `routers/providers.py`):
  single-row operations that nothing races with. The other modules take a
  tenant and a provider as registered.
* **IdP link checks**: creation and deletion appear in `IdentityCache` and
  `JitProvisioning` as commits; their checks are about one row.
* **`map_permission_to_role`** has no caller in the application.
* **FGA schema and check endpoints**, attributes, logout, health and auth info
  build a URL or forward a call; they keep no state here.
* **Sync status and event log**: an append that never fails a request, and
  aggregates that only operators read.
* **Rate limits, security headers, problem details, telemetry, start-up and
  shutdown**: library configuration and formatting.
* **Frontend pages and components**: rendering and forms over the API.
* **Infrastructure, gateway, seeds**: configuration and one-shot scripts. Of the
  gateway's configuration only what it verifies is modelled (`TykPasses`).
* **A cache key that equals a reverse-index key** (a provider named `user` whose
  subject is a user id): keys are opaque in `IdentityCache`, and it takes an
  operator to register such a provider.
* **Descope's pages within one fetch**: an account that moves between two pages
  while they are read may be missed or met twice; `Fetch` reads all at once.
* Effects that the models contain and no property forbids, as nothing in the
  code claims otherwise: the late 401 of a cancelled load logs out whoever has
  logged in since (`GiveUp`); a user and its grants, read by two statements, may
  never have been active and granted at one moment (`ReadUser`, `ReadGrants`); a
  commit that raises though it took effect costs the new document the tuple of
  its owner (`InsertFails`, `UndoOwner`); a role deleted here stays in Descope,
  where `delete_role` is a placeholder, and is adopted anew; a key moved between
  check and use is acted upon for its old tenant (`Verify`, `ChangeKey`).

`PROJECT.json` gives the status of each component and, under hazards, what each
property is for.
