---------------------------- MODULE IdentityCache ----------------------------
(***************************************************************************)
(* The Redis cache of resolved identities and its invalidation.            *)
(*                                                                         *)
(* A resolve request looks its (provider, sub) key up in Redis; on a miss  *)
(* it reads the link, the user, the grants and the linked IdPs from        *)
(* Postgres with one statement each, then stores the payload together with *)
(* two indexes: the keys of the user and the keys of everybody.  A write   *)
(* commits and then publishes a change event, best effort, on a Redis      *)
(* channel.  A background subscriber turns each event into deletions, in   *)
(* two round trips: SMEMBERS of an index, then a MULTI/EXEC.  Entries and  *)
(* indexes also expire by themselves.                                      *)
(*                                                                         *)
(* A payload is abstracted to the user it names and, for each of its       *)
(* parts, the number of commits that part had seen when it was read.       *)
(***************************************************************************)
EXTENDS Naturals, Sequences, FiniteSets

CONSTANTS
    Users,          \* canonical users
    NoUser,         \* "no user": an unlinked key, a request that has no link yet
    Broad,          \* the target of a role, permission, tenant or batch event
    Keys,           \* cache keys, one per (provider name, external sub)
    NoKey,          \* the key of an idle request
    Readers,        \* concurrent resolve requests
    Writers,        \* concurrent write requests
    Subscribers,    \* backend processes, one subscriber task each
    TTL,            \* IDENTITY_CACHE_TTL, in clock ticks
    MaxCommits,     \* bound: commits in a behaviour
    MaxInbox        \* bound: undelivered events per subscriber connection

ASSUME SentinelAssumption ==
    /\ NoUser \notin Users
    /\ Broad \notin Users
    /\ NoUser # Broad
    /\ NoKey \notin Keys

ASSUME BoundAssumption == TTL \in Nat \ {0} /\ MaxCommits \in Nat /\ MaxInbox \in Nat

VARIABLES
    \* Postgres
    link,       \* link[k]: the user the IdP link of key k belongs to
    version,    \* version[u][p]: commits that changed part p of u's payload
    commits,    \* commits so far, for the bound only
    \* Redis
    entry,      \* entry[k]: the cached payload of key k
    ttl,        \* ttl[k]: remaining life of entry[k]; 0 when k is not cached
    reverse,    \* reverse[u]: the set identity:user:{u}
    reverseTtl,
    allKeys,    \* the set identity:all-keys
    allTtl,
    inbox,      \* inbox[s]: events sent to subscriber s and not yet taken
    \* the processes
    reader, writer, handler,
    \* history: why an entry may be stale although nothing is pending
    lost,       \* lost[u][p]: version when an event about u was last lost
    silent,     \* silent[u][p]: version after the last commit that published nothing
    late,       \* keys stored by a resolve that a change event had overtaken
    unlinked    \* <<key, user>>: the links that have been deleted

database == <<link, version, commits>>
redis == <<entry, ttl, reverse, reverseTtl, allKeys, allTtl>>
history == <<lost, silent, late, unlinked>>
vars == <<link, version, commits, entry, ttl, reverse, reverseTtl, allKeys,
          allTtl, inbox, reader, writer, handler, lost, silent, late, unlinked>>

Parts == {"profile", "grants", "links"}
Events == Users \cup {Broad}
Versions == [Users -> [Parts -> Nat]]
Unread == [p \in Parts |-> 0]
Blank == [owner |-> NoUser, seen |-> Unread]
ReaderAt(pc, k, u, seen) == [pc |-> pc, key |-> k, owner |-> u, seen |-> seen]
Idle == ReaderAt("idle", NoKey, NoUser, Unread)
Handling(pc, e, K, U) == [pc |-> pc, event |-> e, keys |-> K, reverses |-> U]
Listening == Handling("listening", NoUser, {}, {})
Down == Handling("down", NoUser, {}, {})

Payloads == [owner : Users \cup {NoUser}, seen : [Parts -> Nat]]
ReaderStates ==
    [pc : {"idle", "get", "link", "user", "grants", "links", "set"},
     key : Keys \cup {NoKey}, owner : Users \cup {NoUser}, seen : [Parts -> Nat]]
WriterStates == [pc : {"idle", "committed"}, event : Events \cup {NoUser}]
HandlerStates ==
    [pc : {"down", "listening", "scan", "exec"}, event : Events \cup {NoUser},
     keys : SUBSET Keys, reverses : SUBSET Users]

DatabaseOK ==
    /\ link \in [Keys -> Users \cup {NoUser}]
    /\ version \in Versions
    /\ commits \in Nat
RedisOK ==
    /\ entry \in [Keys -> Payloads]
    /\ ttl \in [Keys -> 0 .. TTL]
    /\ reverse \in [Users -> SUBSET Keys]
    /\ reverseTtl \in [Users -> 0 .. 2 * TTL]
    /\ allKeys \in SUBSET Keys
    /\ allTtl \in 0 .. 2 * TTL
ProcessesOK ==
    /\ inbox \in [Subscribers -> Seq(Events)]
    /\ reader \in [Readers -> ReaderStates]
    /\ writer \in [Writers -> WriterStates]
    /\ handler \in [Subscribers -> HandlerStates]
HistoryOK ==
    /\ lost \in Versions
    /\ silent \in Versions
    /\ late \in SUBSET Keys
    /\ unlinked \in SUBSET (Keys \X Users)
TypeOK == DatabaseOK /\ RedisOK /\ ProcessesOK /\ HistoryOK

Init ==
    /\ link \in [Keys -> Users \cup {NoUser}]
    /\ version = [u \in Users |-> Unread]
    /\ commits = 0
    /\ entry = [k \in Keys |-> Blank]
    /\ ttl = [k \in Keys |-> 0]
    /\ reverse = [u \in Users |-> {}]
    /\ reverseTtl = [u \in Users |-> 0]
    /\ allKeys = {}
    /\ allTtl = 0
    /\ inbox = [s \in Subscribers |-> <<>>]
    /\ reader = [r \in Readers |-> Idle]
    /\ writer = [w \in Writers |-> [pc |-> "idle", event |-> NoUser]]
    /\ handler = [s \in Subscribers |-> Down]
    /\ lost = [u \in Users |-> Unread]
    /\ silent = [u \in Users |-> Unread]
    /\ late = {}
    /\ unlinked = {}

-----------------------------------------------------------------------------
(* What is cached, what is stale, and which work in progress will mend it. *)

Cached(k) == ttl[k] > 0
Owner(k) == entry[k].owner

\* A change event about u or about everybody concerns u.
Concerns(e, u) == e \in {u, Broad}

\* A commit or an event that will still make a subscriber look u's keys up.
Announced(u) ==
    \/ \E w \in Writers : writer[w].pc = "committed" /\ Concerns(writer[w].event, u)
    \/ \E s \in Subscribers :
          \E i \in 1 .. Len(inbox[s]) : Concerns(inbox[s][i], u)

\* A subscriber handling a change of u has k in its snapshot and will delete it.
Doomed(k, u) ==
    \E s \in Subscribers :
        /\ handler[s].pc \in {"scan", "exec"}
        /\ k \in handler[s].keys
        /\ Concerns(handler[s].event, u)

Indexed(k) == k \in reverse[Owner(k)] /\ k \in allKeys

\* Part p of the payload (u, seen) is older than the database.
Outdated(u, seen, p) == seen[p] # version[u][p]

\* The database no longer says what the entry of k says.
Stale(k) ==
    /\ Cached(k)
    /\ \/ link[k] # Owner(k)
       \/ \E p \in Parts : Outdated(Owner(k), entry[k].seen, p)

-----------------------------------------------------------------------------
(* IdentityResolutionService.resolve, one action per round trip.           *)

ReaderOnly == UNCHANGED <<database, redis, inbox, writer, handler, history>>

Request(r, k) ==
    /\ reader[r].pc = "idle"
    /\ reader' = [reader EXCEPT ![r] = ReaderAt("get", k, NoUser, Unread)]
    /\ ReaderOnly

\* Mutant of CacheHit: a hit renews the life of the entry.
SlidingHit(r) ==
    /\ reader[r].pc = "get"
    /\ Cached(reader[r].key)
    /\ ttl' = [ttl EXCEPT ![reader[r].key] = TTL]
    /\ reader' = [reader EXCEPT ![r] = Idle]
    /\ UNCHANGED <<database, entry, reverse, reverseTtl, allKeys, allTtl>>
    /\ UNCHANGED <<inbox, writer, handler, history>>

\* The cached payload is the answer.
CacheHit(r) ==
    /\ reader[r].pc = "get"
    /\ Cached(reader[r].key)
    /\ reader' = [reader EXCEPT ![r] = Idle]
    /\ ReaderOnly

\* Nothing is cached, or Redis failed and the failure counts as a miss.
CacheMiss(r) ==
    /\ reader[r].pc = "get"
    /\ reader' = [reader EXCEPT ![r] = ReaderAt("link", @.key, NoUser, Unread)]
    /\ ReaderOnly

\* NotFound is answered, and never cached, when the key has no link.
ReadLink(r) ==
    LET u == link[reader[r].key] IN
    /\ reader[r].pc = "link"
    /\ reader' = [reader EXCEPT ![r] =
                     IF u = NoUser THEN Idle ELSE ReaderAt("user", @.key, u, Unread)]
    /\ ReaderOnly

ReadPart(r, from, p, to) ==
    /\ reader[r].pc = from
    /\ reader' = [reader EXCEPT ![r] =
          ReaderAt(to, @.key, @.owner, [@.seen EXCEPT ![p] = version[reader[r].owner][p]])]
    /\ ReaderOnly

ReadUser(r) == ReadPart(r, "user", "profile", "grants")
ReadGrants(r) == ReadPart(r, "grants", "grants", "links")
ReadLinkedIdps(r) == ReadPart(r, "links", "links", "set")

\* Work in progress will remove the payload (k, u) once it is stored.
WillBeRemoved(k, u) == Announced(u) \/ Doomed(k, u)

\* Mutant of StoreIndexes: EXPIRE only when the index is created.
StoreIndexesOnce(k, u) ==
    /\ reverse' = [reverse EXCEPT ![u] = @ \cup {k}]
    /\ reverseTtl' = [reverseTtl EXCEPT ![u] = IF @ = 0 THEN 2 * TTL ELSE @]
    /\ allKeys' = allKeys \cup {k}
    /\ allTtl' = IF allTtl = 0 THEN 2 * TTL ELSE allTtl

\* Mutant of StoreIndexes: the new deadline is added to the life left.
StoreIndexesExtending(k, u) ==
    /\ reverse' = [reverse EXCEPT ![u] = @ \cup {k}]
    /\ reverseTtl' = [reverseTtl EXCEPT ![u] = @ + 2 * TTL]
    /\ allKeys' = allKeys \cup {k}
    /\ allTtl' = allTtl + 2 * TTL

\* SADD the key to both indexes and EXPIRE them.
StoreIndexes(k, u) ==
    /\ reverse' = [reverse EXCEPT ![u] = @ \cup {k}]
    /\ reverseTtl' = [reverseTtl EXCEPT ![u] = 2 * TTL]
    /\ allKeys' = allKeys \cup {k}
    /\ allTtl' = 2 * TTL

\* SETEX of the payload and both indexes, in one MULTI/EXEC.
CacheSet(r) ==
    LET k == reader[r].key
        u == reader[r].owner
    IN
    /\ reader[r].pc = "set"
    /\ entry' = [entry EXCEPT ![k] = [owner |-> u, seen |-> reader[r].seen]]
    /\ ttl' = [ttl EXCEPT ![k] = TTL]
    /\ StoreIndexes(k, u)
    /\ late' = IF /\ \E p \in Parts : Outdated(u, reader[r].seen, p)
                  /\ ~WillBeRemoved(k, u)
               THEN late \cup {k}
               ELSE late \ {k}
    /\ reader' = [reader EXCEPT ![r] = Idle]
    /\ UNCHANGED <<database, inbox, writer, handler, lost, silent, unlinked>>

\* The request ends without storing anything: Redis or Postgres failed, the
\* client went away, or the process died.
Abandon(r) ==
    /\ reader[r].pc # "idle"
    /\ reader' = [reader EXCEPT ![r] = Idle]
    /\ ReaderOnly

ReaderStep(r) ==
    \/ CacheHit(r) \/ CacheMiss(r) \/ ReadLink(r) \/ ReadUser(r)
    \/ ReadGrants(r) \/ ReadLinkedIdps(r) \/ CacheSet(r) \/ Abandon(r)

-----------------------------------------------------------------------------
(* The writes: a commit changes parts P of the payloads of users U.        *)

Bump(U, P) ==
    version' = [u \in Users |-> [p \in Parts |->
                   version[u][p] + IF u \in U /\ p \in P THEN 1 ELSE 0]]

Commit(U, P) ==
    /\ commits < MaxCommits
    /\ commits' = commits + 1
    /\ Bump(U, P)

\* The commit of a service that publishes event e next.
CommitThenPublish(w, U, P, e) ==
    /\ writer[w].pc = "idle"
    /\ Commit(U, P)
    /\ writer' = [writer EXCEPT ![w] = [pc |-> "committed", event |-> e]]
    /\ UNCHANGED <<redis, inbox, reader, handler, history>>

\* UserService.update_user, activate_user, deactivate_user (the user row),
\* remove_user_from_tenant (its assignments), flow sync and webhook updates.
WriteUser(w, u) ==
    /\ \E p \in {"profile", "grants"} : CommitThenPublish(w, {u}, {p}, u)
    /\ UNCHANGED link

\* Flow sync of an unlinked subject: the link is created, and announced.
SyncNewLink(w, u, k) ==
    /\ link[k] = NoUser
    /\ link' = [link EXCEPT ![k] = u]
    /\ CommitThenPublish(w, {u}, {"links"}, u)

\* Role, permission and tenant services: grants of the users U that hold it.
WriteShared(w, U) ==
    /\ CommitThenPublish(w, U, {"grants"}, Broad)
    /\ UNCHANGED link

\* Reconciliation rewrites users and links missing links in one transaction.
Reconcile(w, U) ==
    /\ link' \in [Keys -> Users \cup {NoUser}]
    /\ \A k \in Keys : link'[k] # link[k] => link[k] = NoUser /\ link'[k] \in U
    /\ CommitThenPublish(w, U, Parts, Broad)

\* Services without a publisher: the entries they outdate are told nobody.
CommitSilently(u, P) ==
    /\ Commit({u}, P)
    /\ silent' = [silent EXCEPT ![u] = [p \in Parts |->
                     IF p \in P THEN version[u][p] + 1 ELSE @[p]]]
    /\ UNCHANGED <<redis, inbox, reader, writer, handler, lost, late>>

\* IdPLinkService.create_idp_link
CreateLink(u, k) ==
    /\ link[k] = NoUser
    /\ link' = [link EXCEPT ![k] = u]
    /\ CommitSilently(u, {"links"})
    /\ UNCHANGED unlinked

\* IdPLinkService.delete_idp_link
DeleteLink(k) ==
    /\ link[k] # NoUser
    /\ link' = [link EXCEPT ![k] = NoUser]
    /\ unlinked' = unlinked \cup {<<k, link[k]>>}
    /\ CommitSilently(link[k], {"links"})

\* IdentityProvisioningService.provision: link, and default role assignment.
Provision(u, k) ==
    /\ link[k] = NoUser
    /\ link' = [link EXCEPT ![k] = u]
    /\ CommitSilently(u, {"links", "grants"})
    /\ UNCHANGED unlinked

\* The versions at which the entries told nothing by the loss of e stand.
LoseEvent(E) ==
    lost' = [u \in Users |-> IF \E e \in E : Concerns(e, u) THEN version[u] ELSE lost[u]]

Connected == {s \in Subscribers : handler[s].pc # "down"}

\* PUBLISH reaches the connections that are subscribed at that moment.
Publish(w) ==
    LET e == writer[w].event IN
    /\ writer[w].pc = "committed"
    /\ \A s \in Connected : Len(inbox[s]) < MaxInbox
    /\ inbox' = [s \in Subscribers |->
                    IF s \in Connected THEN Append(inbox[s], e) ELSE inbox[s]]
    /\ writer' = [writer EXCEPT ![w] = [pc |-> "idle", event |-> NoUser]]
    /\ IF Connected = {} THEN LoseEvent({e}) ELSE UNCHANGED lost
    /\ UNCHANGED <<database, redis, reader, handler, silent, late, unlinked>>

\* Redis refuses the PUBLISH, which is logged only, or the process dies.
PublishFails(w) ==
    /\ writer[w].pc = "committed"
    /\ LoseEvent({writer[w].event})
    /\ writer' = [writer EXCEPT ![w] = [pc |-> "idle", event |-> NoUser]]
    /\ UNCHANGED <<database, redis, inbox, reader, handler, silent, late, unlinked>>

-----------------------------------------------------------------------------
(* run_cache_invalidation_subscriber and _handle_invalidation_event.       *)

SubscriberOnly == UNCHANGED <<database, reader, writer, silent, unlinked>>

Subscribe(s) ==
    /\ handler[s].pc = "down"
    /\ handler' = [handler EXCEPT ![s] = Listening]
    /\ SubscriberOnly /\ UNCHANGED <<redis, inbox, lost, late>>

\* The connection breaks; what it had not delivered is gone.
Disconnect(s) ==
    /\ handler[s].pc = "listening"
    /\ handler' = [handler EXCEPT ![s] = Down]
    /\ inbox' = [inbox EXCEPT ![s] = <<>>]
    /\ LoseEvent({inbox[s][i] : i \in 1 .. Len(inbox[s])})
    /\ SubscriberOnly /\ UNCHANGED <<redis, late>>

\* Mutant of TakeEvent: broad events are of an entity type nobody handles.
TakeUserEventOnly(s) ==
    LET e == Head(inbox[s])
        found == IF e = Broad THEN {} ELSE reverse[e]
    IN
    /\ handler[s].pc = "listening"
    /\ inbox[s] # <<>>
    /\ inbox' = [inbox EXCEPT ![s] = Tail(@)]
    /\ handler' = [handler EXCEPT ![s] =
                      IF found = {} THEN Listening
                      ELSE Handling("exec", e, found, {})]
    /\ SubscriberOnly /\ UNCHANGED <<redis, lost, late>>

\* Take the next event and SMEMBERS the index it selects; an empty index ends
\* the handling.
TakeEvent(s) ==
    LET e == Head(inbox[s])
        found == IF e = Broad THEN allKeys ELSE reverse[e]
    IN
    /\ handler[s].pc = "listening"
    /\ inbox[s] # <<>>
    /\ inbox' = [inbox EXCEPT ![s] = Tail(@)]
    /\ handler' = [handler EXCEPT ![s] =
                      IF found = {} THEN Listening
                      ELSE Handling(IF e = Broad THEN "scan" ELSE "exec", e, found, {})]
    /\ SubscriberOnly /\ UNCHANGED <<redis, lost, late>>

\* A broad event also SCANs for the reverse indexes that exist.
ScanReverse(s) ==
    /\ handler[s].pc = "scan"
    /\ handler' = [handler EXCEPT ![s] =
          Handling("exec", @.event, @.keys, {u \in Users : reverse[u] # {}})]
    /\ SubscriberOnly /\ UNCHANGED <<redis, inbox, lost, late>>

\* Mutant of DeleteEntries: the indexes are cleared and the entries are not.
KeepEntries(K) == UNCHANGED <<entry, ttl, late>>

DeleteEntries(K) ==
    /\ entry' = [k \in Keys |-> IF k \in K THEN Blank ELSE entry[k]]
    /\ ttl' = [k \in Keys |-> IF k \in K THEN 0 ELSE ttl[k]]
    /\ late' = late \ K

DeleteReverse(U) ==
    /\ reverse' = [u \in Users |-> IF u \in U THEN {} ELSE reverse[u]]
    /\ reverseTtl' = [u \in Users |-> IF u \in U THEN 0 ELSE reverseTtl[u]]

SetAllKeys(K) ==
    /\ allKeys' = K
    /\ allTtl' = IF K = {} THEN 0 ELSE allTtl

\* MULTI/EXEC of a user event: DEL and SREM each key, DEL the reverse index.
ExecUser(s) ==
    /\ handler[s].pc = "exec"
    /\ handler[s].event # Broad
    /\ DeleteEntries(handler[s].keys)
    /\ DeleteReverse({handler[s].event})
    /\ SetAllKeys(allKeys \ handler[s].keys)
    /\ handler' = [handler EXCEPT ![s] = Listening]
    /\ SubscriberOnly /\ UNCHANGED <<inbox, lost>>

\* MULTI/EXEC of a broad event: DEL each key, each scanned index, the key set.
ExecBroad(s) ==
    /\ handler[s].pc = "exec"
    /\ handler[s].event = Broad
    /\ DeleteEntries(handler[s].keys)
    /\ DeleteReverse(handler[s].reverses)
    /\ SetAllKeys({})
    /\ handler' = [handler EXCEPT ![s] = Listening]
    /\ SubscriberOnly /\ UNCHANGED <<inbox, lost>>

\* A Redis call of the handler fails: logged, and the event is forgotten.
HandlerFails(s) ==
    /\ handler[s].pc \in {"scan", "exec"}
    /\ LoseEvent({handler[s].event})
    /\ handler' = [handler EXCEPT ![s] = Listening]
    /\ SubscriberOnly /\ UNCHANGED <<redis, inbox, late>>

-----------------------------------------------------------------------------
(* Time: Redis expires entries and indexes.                                *)

Less(n) == IF n = 0 THEN 0 ELSE n - 1

Tick ==
    /\ \E k \in Keys : Cached(k)
       \/ allTtl > 0
       \/ \E u \in Users : reverseTtl[u] > 0
    /\ ttl' = [k \in Keys |-> Less(ttl[k])]
    /\ entry' = [k \in Keys |-> IF ttl[k] <= 1 THEN Blank ELSE entry[k]]
    /\ late' = {k \in late : ttl[k] > 1}
    /\ reverseTtl' = [u \in Users |-> Less(reverseTtl[u])]
    /\ reverse' = [u \in Users |-> IF reverseTtl[u] <= 1 THEN {} ELSE reverse[u]]
    /\ allTtl' = Less(allTtl)
    /\ allKeys' = IF allTtl <= 1 THEN {} ELSE allKeys
    /\ UNCHANGED <<database, inbox, reader, writer, handler, lost, silent, unlinked>>

-----------------------------------------------------------------------------
Next ==
    \/ \E r \in Readers : ReaderStep(r) \/ \E k \in Keys : Request(r, k)
    \/ \E w \in Writers :
          \/ \E u \in Users : WriteUser(w, u) \/ \E k \in Keys : SyncNewLink(w, u, k)
          \/ \E U \in SUBSET Users \ {{}} : WriteShared(w, U) \/ Reconcile(w, U)
          \/ Publish(w) \/ PublishFails(w)
    \/ \E k \in Keys :
          DeleteLink(k) \/ \E u \in Users : CreateLink(u, k) \/ Provision(u, k)
    \/ \E s \in Subscribers :
          \/ Subscribe(s) \/ Disconnect(s) \/ TakeEvent(s) \/ ScanReverse(s)
          \/ ExecUser(s) \/ ExecBroad(s) \/ HandlerFails(s)
    \/ Tick

Spec == Init /\ [][Next]_vars

\* Requests finish and time passes; nothing is assumed of publishers or of
\* the subscriber, which are best effort.
Fairness == WF_vars(Tick) /\ \A r \in Readers : WF_vars(ReaderStep(r))
FairSpec == Spec /\ Fairness

-----------------------------------------------------------------------------
(* Properties                                                              *)

\* What keeps, or kept, part p of k's entry from being removed on time.
Excused(k, p) ==
    \/ WillBeRemoved(k, Owner(k))
    \/ entry[k].seen[p] < lost[Owner(k)][p]
    \/ k \in late
    \/ ~Indexed(k)

\* Nobody is served the identity of a user he was never linked to: an entry that
\* names another user than the link does names one whose link was deleted.  And
\* every outdated part of a cached identity is accounted for: a subscriber is
\* still going to remove the entry, an event about the user was lost, the entry
\* was stored after the event had passed, an invalidation dropped the entry
\* from an index while it was being stored, or the commit published nothing
\* (identity_resolution.resolve against the publishers and the subscriber).
StaleHasCause ==
    \A k \in Keys : Cached(k) =>
        /\ link[k] # Owner(k) => <<k, Owner(k)>> \in unlinked
        /\ \A p \in Parts :
             Outdated(Owner(k), entry[k].seen, p)
                 => Excused(k, p) \/ entry[k].seen[p] < silent[Owner(k)][p]

\* AC-3.3.1, "Called after every repo.commit() in write methods": staleness
\* never comes from a commit that published nothing.
EveryCommitIsPublished ==
    \A k \in Keys, p \in Parts :
        Cached(k) /\ Outdated(Owner(k), entry[k].seen, p) => Excused(k, p)

\* "2x TTL on reverse index to outlive the cache entries it tracks": a cached
\* entry can always be found through its user's index.
IndexTracksEntries == \A k \in Keys : Cached(k) => k \in reverse[Owner(k)]

\* As long as an index names a cached key it lives at least as long as the
\* entry, so expiry alone never hides an entry from invalidation (_cache_set
\* refreshes the expiry of both indexes at every store).
IndexOutlivesEntry ==
    \A k \in Keys : Cached(k) =>
        /\ k \in reverse[Owner(k)] => ttl[k] <= reverseTtl[Owner(k)]
        /\ k \in allKeys => ttl[k] <= allTtl

\* A step that keeps an entry and removes it from an index is the EXEC of an
\* invalidation whose SMEMBERS ran before the entry was stored: no other step
\* of the subscriber, and no expiry, makes an entry unreachable.
OnlyOvertakenExecHides ==
    [][\A k \in Keys :
          Cached(k) /\ Indexed(k) /\ Cached(k)' /\ entry'[k] = entry[k] /\ ~Indexed(k)'
              => \E s \in Subscribers :
                    /\ handler[s].pc = "exec" /\ handler'[s].pc = "listening"
                    /\ k \notin handler[s].keys]_vars

\* Whatever is lost or overtaken, a stale identity is served for a bounded time
\* only: once commits stop, the entry expires or is replaced.
StaleIsTemporary == \A k \in Keys : Stale(k) ~> ~Stale(k)
=============================================================================
