------------------------- MODULE IdentityCacheProofs -------------------------
(***************************************************************************)
(* Proofs about IdentityCache for any number of users, keys, requests,     *)
(* writers and subscribers, any TTL and any number of commits.             *)
(*                                                                         *)
(* TypeOK alone is not inductive: a resolve reads version[owner], so its   *)
(* owner must be a user by then (Progress).  Expiry is inductive on  *)
(* top of that.  The account of stale entries also needs that nobody has   *)
(* seen a version the database has not reached (SeenBounded).              *)
(***************************************************************************)
EXTENDS IdentityCache, TLAPS

\* What each process knows at its later steps.
Progress ==
    /\ \A r \in Readers :
          /\ reader[r].pc # "idle" => reader[r].key \in Keys
          /\ reader[r].pc \in {"user", "grants", "links", "set"} => reader[r].owner \in Users
    /\ \A w \in Writers : writer[w].pc = "committed" => writer[w].event \in Events
    /\ \A s \in Subscribers :
          handler[s].pc \in {"scan", "exec"} => handler[s].event \in Events

LEMMA Values ==
    /\ Unread \in [Parts -> Nat]
    /\ Blank \in Payloads
    /\ Idle \in ReaderStates
    /\ Listening \in HandlerStates
    /\ Down \in HandlerStates
  BY DEF Unread, Blank, Payloads, Idle, ReaderAt, ReaderStates, Listening, Down, Handling,
         HandlerStates

LEMMA ReaderShape ==
    ASSUME NEW k \in Keys \cup {NoKey}, NEW u \in Users \cup {NoUser},
           NEW seen \in [Parts -> Nat],
           NEW pc \in {"idle", "get", "link", "user", "grants", "links", "set"}
    PROVE  ReaderAt(pc, k, u, seen) \in ReaderStates
  BY DEF ReaderAt, ReaderStates

LEMMA HandlerShape ==
    ASSUME NEW e \in Events \cup {NoUser}, NEW K \in SUBSET Keys, NEW U \in SUBSET Users,
           NEW pc \in {"down", "listening", "scan", "exec"}
    PROVE  Handling(pc, e, K, U) \in HandlerStates
  BY DEF Handling, HandlerStates


LEMMA InitTypeOK == Init => TypeOK
<1> SUFFICES ASSUME Init PROVE TypeOK OBVIOUS
<1> USE SentinelAssumption, BoundAssumption, Values
<1>1. DatabaseOK BY DEF Init, DatabaseOK, Versions
<1>2. RedisOK BY DEF Init, RedisOK
<1>3. ProcessesOK
  <2>1. reader \in [Readers -> ReaderStates] BY DEF Init
  <2>2. writer \in [Writers -> WriterStates] BY DEF Init, WriterStates
  <2>3. handler \in [Subscribers -> HandlerStates] BY DEF Init
  <2>4. QED BY <2>1, <2>2, <2>3 DEF Init, ProcessesOK
<1>4. HistoryOK BY DEF Init, HistoryOK, Versions
<1>5. QED BY <1>1, <1>2, <1>3, <1>4 DEF TypeOK

\* A resolve request that only moves its own program counter.
LEMMA ReaderMove ==
    ASSUME TypeOK, ReaderOnly, NEW r \in Readers, NEW x \in ReaderStates,
           reader' = [reader EXCEPT ![r] = x]
    PROVE  TypeOK'
<1>1. ProcessesOK'
  BY DEF TypeOK, ProcessesOK, ReaderOnly
<1>2. QED
  BY <1>1 DEF TypeOK, DatabaseOK, RedisOK, HistoryOK, ReaderOnly, database, redis, history

LEMMA ReaderTypes ==
    ASSUME TypeOK, NEW r \in Readers
    PROVE  /\ reader[r].key \in Keys \cup {NoKey}
           /\ reader[r].owner \in Users \cup {NoUser}
           /\ reader[r].seen \in [Parts -> Nat]
  BY DEF TypeOK, ProcessesOK, ReaderStates

LEMMA ReaderTypeOK ==
    ASSUME TypeOK, Progress, NEW r \in Readers,
           ReaderStep(r) \/ \E k \in Keys : Request(r, k)
    PROVE  TypeOK'
<1> USE ReaderTypes, Values
<1>1. CASE CacheHit(r) \/ Abandon(r)
  BY <1>1, ReaderMove DEF CacheHit, Abandon
<1>2. ASSUME NEW k \in Keys, Request(r, k) PROVE TypeOK'
  <2>1. ReaderAt("get", k, NoUser, Unread) \in ReaderStates BY ReaderShape
  <2>2. QED BY <1>2, <2>1, ReaderMove DEF Request
<1>3. CASE CacheMiss(r)
  <2>1. ReaderAt("link", reader[r].key, NoUser, Unread) \in ReaderStates BY ReaderShape
  <2>2. QED BY <1>3, <2>1, ReaderMove DEF CacheMiss
<1>4. CASE ReadLink(r)
  <2> DEFINE u == link[reader[r].key]
  <2>1. u \in Users \cup {NoUser}
    BY <1>4 DEF ReadLink, Progress, TypeOK, DatabaseOK
  <2> HIDE DEF u
  <2>2. ReaderAt("user", reader[r].key, u, Unread) \in ReaderStates BY <2>1, ReaderShape
  <2>3. QED BY <1>4, <2>2, ReaderMove DEF ReadLink, u
<1>5. ASSUME NEW p \in Parts, NEW from \in {"user", "grants", "links"},
             NEW to \in {"grants", "links", "set"}, ReadPart(r, from, p, to)
      PROVE TypeOK'
  <2> DEFINE seen == [reader[r].seen EXCEPT ![p] = version[reader[r].owner][p]]
  <2>1. seen \in [Parts -> Nat]
    BY <1>5 DEF ReadPart, Progress, TypeOK, DatabaseOK, Versions
  <2> HIDE DEF seen
  <2>2. ReaderAt(to, reader[r].key, reader[r].owner, seen) \in ReaderStates
    BY <2>1, ReaderShape
  <2>3. QED BY <1>5, <2>2, ReaderMove DEF ReadPart, seen
<1>6. CASE ReadUser(r) \/ ReadGrants(r) \/ ReadLinkedIdps(r)
  BY <1>6, <1>5 DEF ReadUser, ReadGrants, ReadLinkedIdps, Parts
<1>7. CASE CacheSet(r)
  <2>1. reader[r].key \in Keys /\ reader[r].owner \in Users
    BY <1>7 DEF CacheSet, Progress
  <2>2. [owner |-> reader[r].owner, seen |-> reader[r].seen] \in Payloads
    BY <2>1 DEF Payloads
  <2>3. RedisOK'
    BY <1>7, <2>1, <2>2, BoundAssumption DEF TypeOK, RedisOK, CacheSet, StoreIndexes
  <2>4. ProcessesOK' BY <1>7 DEF TypeOK, ProcessesOK, CacheSet
  <2>5. HistoryOK' BY <1>7, <2>1 DEF TypeOK, HistoryOK, CacheSet
  <2>6. QED BY <1>7, <2>3, <2>4, <2>5 DEF TypeOK, DatabaseOK, CacheSet, database
<1>8. QED BY <1>1, <1>2, <1>3, <1>4, <1>6, <1>7 DEF ReaderStep

\* Commits and publications.
LEMMA WriterTypeOK ==
    ASSUME TypeOK, Progress, NEW w \in Writers,
           \/ \E u \in Users : WriteUser(w, u) \/ \E k \in Keys : SyncNewLink(w, u, k)
           \/ \E U \in SUBSET Users \ {{}} : WriteShared(w, U) \/ Reconcile(w, U)
           \/ Publish(w) \/ PublishFails(w)
    PROVE  TypeOK'
<1>1. ASSUME NEW U \in SUBSET Users, NEW P \in SUBSET Parts, NEW e \in Events,
             CommitThenPublish(w, U, P, e), link' \in [Keys -> Users \cup {NoUser}]
      PROVE TypeOK'
  <2>1. DatabaseOK'
    BY <1>1 DEF TypeOK, DatabaseOK, CommitThenPublish, Commit, Bump, Versions
  <2>2. ProcessesOK'
    BY <1>1 DEF TypeOK, ProcessesOK, WriterStates, CommitThenPublish
  <2>3. QED
    BY <1>1, <2>1, <2>2 DEF TypeOK, RedisOK, HistoryOK, CommitThenPublish, redis, history
<1>2. link \in [Keys -> Users \cup {NoUser}] BY DEF TypeOK, DatabaseOK
<1>3. ASSUME NEW u \in Users, WriteUser(w, u) PROVE TypeOK'
  BY <1>1, <1>2, <1>3 DEF WriteUser, Events, Parts
<1>4. ASSUME NEW u \in Users, NEW k \in Keys, SyncNewLink(w, u, k) PROVE TypeOK'
  BY <1>1, <1>2, <1>4 DEF SyncNewLink, Events, Parts
<1>5. ASSUME NEW U \in SUBSET Users, WriteShared(w, U) PROVE TypeOK'
  BY <1>1, <1>2, <1>5 DEF WriteShared, Events, Parts
<1>6. ASSUME NEW U \in SUBSET Users, Reconcile(w, U) PROVE TypeOK'
  BY <1>1, <1>6 DEF Reconcile, Events
<1>7. ASSUME NEW E, LoseEvent(E), UNCHANGED version PROVE lost' \in Versions
  BY <1>7 DEF LoseEvent, TypeOK, DatabaseOK, HistoryOK, Versions
<1>8. CASE Publish(w)
  <2>1. writer[w].event \in Events BY <1>8 DEF Progress, Publish
  <2>2. ProcessesOK'
    BY <1>8, <2>1 DEF TypeOK, ProcessesOK, WriterStates, Publish
  <2>3. lost' \in Versions
    BY <1>8, <1>7 DEF Publish, database, TypeOK, HistoryOK
  <2>4. QED
    BY <1>8, <2>2, <2>3 DEF TypeOK, DatabaseOK, RedisOK, HistoryOK, Publish, database, redis
<1>9. CASE PublishFails(w)
  <2>1. lost' \in Versions BY <1>9, <1>7 DEF PublishFails, database
  <2>2. ProcessesOK' BY <1>9 DEF TypeOK, ProcessesOK, WriterStates, PublishFails
  <2>3. QED
    BY <1>9, <2>1, <2>2 DEF TypeOK, DatabaseOK, RedisOK, HistoryOK, PublishFails, database, redis
<1>10. QED BY <1>3, <1>4, <1>5, <1>6, <1>8, <1>9

LEMMA SilentTypeOK ==
    ASSUME TypeOK, NEW k \in Keys,
           DeleteLink(k) \/ \E u \in Users : CreateLink(u, k) \/ Provision(u, k)
    PROVE  TypeOK'
<1>1. ASSUME NEW u \in Users, NEW P \in SUBSET Parts, CommitSilently(u, P),
             link' \in [Keys -> Users \cup {NoUser}],
             unlinked' \in SUBSET (Keys \X Users)
      PROVE TypeOK'
  <2>1. DatabaseOK'
    BY <1>1 DEF TypeOK, DatabaseOK, CommitSilently, Commit, Bump, Versions
  <2>2. HistoryOK'
    BY <1>1 DEF TypeOK, DatabaseOK, HistoryOK, CommitSilently, Versions
  <2>3. QED
    BY <1>1, <2>1, <2>2 DEF TypeOK, RedisOK, ProcessesOK, CommitSilently, redis
<1>2. /\ link \in [Keys -> Users \cup {NoUser}]
      /\ unlinked \in SUBSET (Keys \X Users)
  BY DEF TypeOK, DatabaseOK, HistoryOK
<1>3. CASE DeleteLink(k)
  <2>1. link[k] \in Users /\ unlinked' \in SUBSET (Keys \X Users)
    BY <1>2, <1>3 DEF DeleteLink
  <2>2. QED BY <1>1, <1>2, <1>3, <2>1 DEF DeleteLink, Parts
<1>4. ASSUME NEW u \in Users, CreateLink(u, k) \/ Provision(u, k) PROVE TypeOK'
  BY <1>1, <1>2, <1>4 DEF CreateLink, Provision, Parts
<1>5. QED BY <1>3, <1>4

\* Deleting keys and indexes, as the two EXECs of the subscriber do.
LEMMA DeleteTypeOK ==
    ASSUME TypeOK, NEW K, NEW U, NEW A \in SUBSET allKeys,
           DeleteEntries(K), DeleteReverse(U), SetAllKeys(A)
    PROVE  RedisOK' /\ late' \in SUBSET Keys
  BY Values, BoundAssumption DEF TypeOK, RedisOK, HistoryOK, DeleteEntries, DeleteReverse,
                                 SetAllKeys

LEMMA SubscriberTypeOK ==
    ASSUME TypeOK, Progress, NEW s \in Subscribers,
           \/ Subscribe(s) \/ Disconnect(s) \/ TakeEvent(s) \/ ScanReverse(s)
           \/ ExecUser(s) \/ ExecBroad(s) \/ HandlerFails(s)
    PROVE  TypeOK'
<1> USE Values
<1>1. /\ inbox[s] \in Seq(Events)
      /\ handler[s].event \in Events \cup {NoUser}
      /\ handler[s].keys \in SUBSET Keys
  BY DEF TypeOK, ProcessesOK, HandlerStates
<1>2. ASSUME NEW E, LoseEvent(E), UNCHANGED version PROVE lost' \in Versions
  BY <1>2 DEF LoseEvent, TypeOK, DatabaseOK, HistoryOK, Versions
<1>3. CASE Subscribe(s)
  <2>1. ProcessesOK' BY <1>3 DEF TypeOK, ProcessesOK, Subscribe, SubscriberOnly
  <2>2. QED
    BY <1>3, <2>1 DEF TypeOK, DatabaseOK, RedisOK, HistoryOK, Subscribe, SubscriberOnly,
                      database, redis
<1>4. CASE Disconnect(s)
  <2>1. lost' \in Versions BY <1>4, <1>2 DEF Disconnect, SubscriberOnly, database
  <2>2. ProcessesOK' BY <1>4 DEF TypeOK, ProcessesOK, Disconnect, SubscriberOnly
  <2>3. QED
    BY <1>4, <2>1, <2>2 DEF TypeOK, DatabaseOK, RedisOK, HistoryOK, Disconnect,
                            SubscriberOnly, database, redis
<1>5. CASE TakeEvent(s)
  <2> DEFINE e == Head(inbox[s])
             found == IF e = Broad THEN allKeys ELSE reverse[e]
             pc == IF e = Broad THEN "scan" ELSE "exec"
  <2>1. e \in Events /\ Tail(inbox[s]) \in Seq(Events) BY <1>1, <1>5 DEF TakeEvent
  <2>2. found \in SUBSET Keys BY <2>1 DEF TypeOK, RedisOK, Events
  <2>3. pc \in {"scan", "exec"} OBVIOUS
  <2>4. handler' = [handler EXCEPT ![s] =
                       IF found = {} THEN Listening ELSE Handling(pc, e, found, {})]
    BY <1>5 DEF TakeEvent
  <2>5. inbox' = [inbox EXCEPT ![s] = Tail(inbox[s])] BY <1>5 DEF TakeEvent
  <2> HIDE DEF e, found, pc
  <2>6. Handling(pc, e, found, {}) \in HandlerStates BY <2>1, <2>2, <2>3, HandlerShape
  <2>7. ProcessesOK'
    BY <1>5, <2>1, <2>4, <2>5, <2>6 DEF TypeOK, ProcessesOK, TakeEvent, SubscriberOnly
  <2>8. QED
    BY <1>5, <2>7 DEF TypeOK, DatabaseOK, RedisOK, HistoryOK, TakeEvent, SubscriberOnly,
                      database, redis
<1>6. CASE ScanReverse(s)
  <2> DEFINE U == {u \in Users : reverse[u] # {}}
  <2>1. Handling("exec", handler[s].event, handler[s].keys, U) \in HandlerStates
    BY <1>1, HandlerShape
  <2>2. ProcessesOK'
    BY <1>6, <2>1 DEF TypeOK, ProcessesOK, ScanReverse, SubscriberOnly
  <2>3. QED
    BY <1>6, <2>2 DEF TypeOK, DatabaseOK, RedisOK, HistoryOK, ScanReverse, SubscriberOnly,
                      database, redis
<1>7. CASE ExecUser(s) \/ ExecBroad(s)
  <2>1. RedisOK' /\ late' \in SUBSET Keys
    BY <1>7, DeleteTypeOK DEF ExecUser, ExecBroad
  <2>2. ProcessesOK'
    BY <1>7 DEF TypeOK, ProcessesOK, ExecUser, ExecBroad, SubscriberOnly
  <2>3. QED
    BY <1>7, <2>1, <2>2 DEF TypeOK, DatabaseOK, HistoryOK, ExecUser, ExecBroad,
                            SubscriberOnly, database
<1>8. CASE HandlerFails(s)
  <2>1. lost' \in Versions BY <1>8, <1>2 DEF HandlerFails, SubscriberOnly, database
  <2>2. ProcessesOK' BY <1>8 DEF TypeOK, ProcessesOK, HandlerFails, SubscriberOnly
  <2>3. QED
    BY <1>8, <2>1, <2>2 DEF TypeOK, DatabaseOK, RedisOK, HistoryOK, HandlerFails,
                            SubscriberOnly, database, redis
<1>9. QED BY <1>3, <1>4, <1>5, <1>6, <1>7, <1>8

LEMMA TickTypeOK == ASSUME TypeOK, Tick PROVE TypeOK'
<1>1. RedisOK'
  BY Values, BoundAssumption DEF TypeOK, RedisOK, Tick, Less
<1>2. QED
  BY <1>1 DEF TypeOK, DatabaseOK, ProcessesOK, HistoryOK, Tick, database

LEMMA StepTypeOK == ASSUME TypeOK, Progress, [Next]_vars PROVE TypeOK'
<1>1. CASE UNCHANGED vars
  BY <1>1 DEF vars, TypeOK, DatabaseOK, RedisOK, ProcessesOK, HistoryOK
<1>2. QED
  BY <1>1, ReaderTypeOK, WriterTypeOK, SilentTypeOK, SubscriberTypeOK, TickTypeOK DEF Next

\* Progress is kept: each step of a process leaves it knowing what it needs.
LEMMA StepProgress == ASSUME TypeOK, Progress, [Next]_vars PROVE Progress'
<1> USE DEF Progress
<1>1. link \in [Keys -> Users \cup {NoUser}] BY DEF TypeOK, DatabaseOK
<1>2. /\ reader \in [Readers -> ReaderStates]
      /\ writer \in [Writers -> WriterStates]
      /\ handler \in [Subscribers -> HandlerStates]
  BY DEF TypeOK, ProcessesOK
<1>3. ASSUME NEW r \in Readers, ReaderStep(r) \/ \E k \in Keys : Request(r, k)
      PROVE Progress'
  BY <1>1, <1>2, <1>3 DEF ReaderStep, Request, CacheHit, CacheMiss, ReadLink, ReadUser,
       ReadGrants, ReadLinkedIdps, ReadPart, CacheSet, Abandon, ReaderOnly, Idle, ReaderAt
<1>4. ASSUME NEW w \in Writers,
             \/ \E u \in Users : WriteUser(w, u) \/ \E k \in Keys : SyncNewLink(w, u, k)
             \/ \E U \in SUBSET Users \ {{}} : WriteShared(w, U) \/ Reconcile(w, U)
             \/ Publish(w) \/ PublishFails(w)
      PROVE Progress'
  <2>1. ASSUME NEW U, NEW P, NEW e \in Events, CommitThenPublish(w, U, P, e)
        PROVE Progress'
    BY <1>2, <2>1 DEF CommitThenPublish
  <2>2. CASE Publish(w) \/ PublishFails(w)
    BY <1>2, <2>2 DEF Publish, PublishFails
  <2>3. QED
    BY <1>4, <2>1, <2>2 DEF WriteUser, SyncNewLink, WriteShared, Reconcile, Events
<1>5. ASSUME NEW k \in Keys,
             DeleteLink(k) \/ \E u \in Users : CreateLink(u, k) \/ Provision(u, k)
      PROVE Progress'
  BY <1>5 DEF DeleteLink, CreateLink, Provision, CommitSilently
<1>6. ASSUME NEW s \in Subscribers, TakeEvent(s) PROVE Progress'
  <2>1. Head(inbox[s]) \in Events
    BY <1>6 DEF TakeEvent, TypeOK, ProcessesOK
  <2>2. QED
    BY <1>2, <1>6, <2>1 DEF TakeEvent, SubscriberOnly, Listening, Handling
<1>7. ASSUME NEW s \in Subscribers,
             \/ Subscribe(s) \/ Disconnect(s) \/ ScanReverse(s)
             \/ ExecUser(s) \/ ExecBroad(s) \/ HandlerFails(s)
      PROVE Progress'
  BY <1>2, <1>7 DEF Subscribe, Disconnect, ScanReverse, ExecUser, ExecBroad, HandlerFails,
       SubscriberOnly, Listening, Down, Handling
<1>8. CASE Tick BY <1>8 DEF Tick
<1>9. CASE UNCHANGED vars BY <1>9 DEF vars
<1>10. QED BY <1>3, <1>4, <1>5, <1>6, <1>7, <1>8, <1>9 DEF Next

LEMMA Shape == Spec => [](TypeOK /\ Progress)
<1>1. Init => TypeOK /\ Progress
  BY InitTypeOK DEF Init, Progress, Idle, ReaderAt, Down, Handling
<1>2. TypeOK /\ Progress /\ [Next]_vars => (TypeOK /\ Progress)'
  BY StepTypeOK, StepProgress
<1>3. QED BY <1>1, <1>2, PTL DEF Spec

\* Every variable keeps its shape, whatever interleaves (the types of the cache,
\* its indexes and the processes of identity_resolution.py).
THEOREM TypeCorrect == Spec => []TypeOK
  BY Shape, PTL

-----------------------------------------------------------------------------
(* Expiry.                                                                 *)

CachedHasOwner == \A k \in Keys : Cached(k) => Owner(k) \in Users

Expiry == CachedHasOwner /\ IndexOutlivesEntry

LEMMA StepExpiry == ASSUME TypeOK, Progress, Expiry, [Next]_vars PROVE Expiry'
<1> USE BoundAssumption DEF Expiry, CachedHasOwner, IndexOutlivesEntry, Cached, Owner
<1>1. /\ entry \in [Keys -> Payloads] /\ ttl \in [Keys -> 0 .. TTL]
      /\ reverse \in [Users -> SUBSET Keys] /\ reverseTtl \in [Users -> 0 .. 2 * TTL]
      /\ allKeys \in SUBSET Keys /\ allTtl \in 0 .. 2 * TTL
  BY DEF TypeOK, RedisOK
<1>2. ASSUME UNCHANGED redis PROVE Expiry'
  BY <1>2 DEF redis
<1>3. ASSUME NEW r \in Readers, CacheSet(r) PROVE Expiry'
  <2>1. reader[r].key \in Keys /\ reader[r].owner \in Users
    BY <1>3 DEF CacheSet, Progress
  <2>2. QED BY <1>1, <1>3, <2>1 DEF CacheSet, StoreIndexes
<1>4. ASSUME NEW K, NEW U, NEW A \in SUBSET allKeys,
             DeleteEntries(K), DeleteReverse(U), SetAllKeys(A)
      PROVE Expiry'
  BY <1>1, <1>4 DEF DeleteEntries, DeleteReverse, SetAllKeys
<1>5. ASSUME NEW s \in Subscribers, ExecUser(s) \/ ExecBroad(s) PROVE Expiry'
  BY <1>4, <1>5 DEF ExecUser, ExecBroad
<1>6. CASE Tick
  BY <1>1, <1>6 DEF Tick, Less
<1>7. QED
  BY <1>2, <1>3, <1>5, <1>6 DEF Next, vars, redis, ReaderStep, Request, CacheHit, CacheMiss,
     ReadLink, ReadUser, ReadGrants, ReadLinkedIdps, ReadPart, Abandon, ReaderOnly,
     WriteUser, SyncNewLink, WriteShared, Reconcile, CommitThenPublish, Publish, PublishFails,
     DeleteLink, CreateLink, Provision, CommitSilently, Subscribe, Disconnect, TakeEvent,
     ScanReverse, HandlerFails

LEMMA ExpiryInvariant == Spec => [](TypeOK /\ Progress /\ Expiry)
<1>1. Init => Expiry
  BY DEF Init, Expiry, CachedHasOwner, IndexOutlivesEntry, Cached
<1>2. TypeOK /\ Progress /\ Expiry /\ [Next]_vars => Expiry'
  BY StepExpiry
<1>3. QED BY <1>1, <1>2, Shape, PTL DEF Spec

\* An index that names a cached key never expires before the entry does
\* (_cache_set gives the indexes twice the life of the entry, at every store).
THEOREM IndexesOutliveEntries == Spec => []IndexOutlivesEntry
<1>1. Expiry => IndexOutlivesEntry BY DEF Expiry
<1>2. QED BY <1>1, ExpiryInvariant, PTL

-----------------------------------------------------------------------------
(* What hides an entry from invalidation.                                  *)

\* The action of OnlyOvertakenExecHides.
HiddenByOvertakenExec ==
    \A k \in Keys :
        Cached(k) /\ Indexed(k) /\ Cached(k)' /\ entry'[k] = entry[k] /\ ~Indexed(k)'
            => \E s \in Subscribers :
                  /\ handler[s].pc = "exec" /\ handler'[s].pc = "listening"
                  /\ k \notin handler[s].keys

LEMMA StepHides ==
    ASSUME TypeOK, Progress, Expiry, [Next]_vars PROVE HiddenByOvertakenExec
<1> USE BoundAssumption DEF Cached, Owner, Indexed
<1> SUFFICES ASSUME NEW k \in Keys, Cached(k), Indexed(k), Cached(k)', entry'[k] = entry[k],
                    ~Indexed(k)'
             PROVE  \E s \in Subscribers :
                       /\ handler[s].pc = "exec" /\ handler'[s].pc = "listening"
                       /\ k \notin handler[s].keys
  BY DEF HiddenByOvertakenExec
<1>1. /\ ttl \in [Keys -> 0 .. TTL]
      /\ reverse \in [Users -> SUBSET Keys] /\ reverseTtl \in [Users -> 0 .. 2 * TTL]
      /\ allKeys \in SUBSET Keys /\ allTtl \in 0 .. 2 * TTL
      /\ entry[k].owner \in Users
  BY DEF TypeOK, RedisOK, Expiry, CachedHasOwner
<1>2. ~ UNCHANGED <<entry, reverse, allKeys>>
  OBVIOUS
<1>3. ASSUME NEW r \in Readers PROVE ~CacheSet(r)
  BY <1>1 DEF CacheSet, StoreIndexes
<1>4. ~Tick
  <2>1. ttl[k] <= reverseTtl[entry[k].owner] /\ ttl[k] <= allTtl
    BY DEF Expiry, IndexOutlivesEntry
  <2>2. QED BY <1>1, <2>1 DEF Tick, Less
<1>5. ASSUME NEW s \in Subscribers, ExecUser(s) \/ ExecBroad(s)
      PROVE  /\ handler[s].pc = "exec" /\ handler'[s].pc = "listening"
             /\ k \notin handler[s].keys
  <2>1. handler \in [Subscribers -> HandlerStates] BY DEF TypeOK, ProcessesOK
  <2>2. handler[s].pc = "exec" /\ handler'[s].pc = "listening"
    BY <1>5, <2>1 DEF ExecUser, ExecBroad, Listening, Handling
  <2>3. k \notin handler[s].keys
    BY <1>5 DEF ExecUser, ExecBroad, DeleteEntries
  <2>4. QED BY <2>2, <2>3
<1>6. QED
  BY <1>2, <1>3, <1>4, <1>5 DEF Next, vars, redis, ReaderStep, Request, CacheHit, CacheMiss,
     ReadLink, ReadUser, ReadGrants, ReadLinkedIdps, ReadPart, Abandon, ReaderOnly,
     WriteUser, SyncNewLink, WriteShared, Reconcile, CommitThenPublish, Publish, PublishFails,
     DeleteLink, CreateLink, Provision, CommitSilently, Subscribe, Disconnect, TakeEvent,
     ScanReverse, HandlerFails

\* Only an EXEC that an entry's store overtook makes the entry unreachable for
\* later invalidations (_handle_invalidation_event reads the index and deletes
\* it in two round trips).
THEOREM OnlyOvertakenExecsHide == Spec => OnlyOvertakenExecHides
<1>1. TypeOK /\ Progress /\ Expiry /\ [Next]_vars => [HiddenByOvertakenExec]_vars
  BY StepHides
<1>2. Spec => [][HiddenByOvertakenExec]_vars
  BY <1>1, ExpiryInvariant, PTL DEF Spec
<1>3. QED
  BY <1>2, PTL DEF OnlyOvertakenExecHides, HiddenByOvertakenExec

-----------------------------------------------------------------------------
(* The account of stale entries.                                           *)

\* Nobody has seen a version that the database has not reached.
SeenBounded ==
    /\ \A k \in Keys, p \in Parts :
          Cached(k) => entry[k].seen[p] <= version[Owner(k)][p]
    /\ \A r \in Readers, p \in Parts :
          reader[r].owner \in Users => reader[r].seen[p] <= version[reader[r].owner][p]

Account(k, p) ==
    Cached(k) /\ Outdated(Owner(k), entry[k].seen, p)
        => Excused(k, p) \/ entry[k].seen[p] < silent[Owner(k)][p]

PartsAccounted == \A k \in Keys, p \in Parts : Account(k, p)

\* Key k is, or has been, linked to user u.
Knew(k, u) == link[k] = u \/ <<k, u>> \in unlinked

\* Whoever is cached or being read for a key is somebody it was linked to.
OwnersKnown ==
    /\ \A k \in Keys : Cached(k) => Knew(k, Owner(k))
    /\ \A r \in Readers : reader[r].pc \in {"user", "grants", "links", "set"}
                          => Knew(reader[r].key, reader[r].owner)

IInv == TypeOK /\ Progress /\ Expiry /\ SeenBounded /\ PartsAccounted /\ OwnersKnown

LEMMA StepSeenBounded == ASSUME IInv, [Next]_vars PROVE SeenBounded'
<1> USE DEF SeenBounded, Cached, Owner
<1> USE Values
<1>1. /\ entry \in [Keys -> Payloads] /\ ttl \in [Keys -> 0 .. TTL]
      /\ reader \in [Readers -> ReaderStates]
      /\ version \in [Users -> [Parts -> Nat]]
      /\ Progress /\ CachedHasOwner /\ SeenBounded
  BY DEF IInv, TypeOK, RedisOK, ProcessesOK, DatabaseOK, Versions, Expiry
<1>2. ASSUME UNCHANGED <<entry, ttl, reader, version>> PROVE SeenBounded'
  BY <1>2, <1>1
<1>3. ASSUME NEW U, NEW P, Bump(U, P), UNCHANGED <<entry, ttl, reader>> PROVE SeenBounded'
  <2>1. \A u \in Users, p \in Parts : version[u][p] <= version'[u][p]
    BY <1>1, <1>3 DEF Bump
  <2>2. version' \in [Users -> [Parts -> Nat]]
    BY <1>1, <1>3 DEF Bump
  <2>3. ASSUME NEW u \in Users, NEW p \in Parts, NEW n \in Nat, n <= version[u][p]
        PROVE  n <= version'[u][p]
    BY <1>1, <2>1, <2>2, <2>3
  <2>4. ASSUME NEW k \in Keys, NEW p \in Parts, Cached(k)'
        PROVE  entry'[k].seen[p] <= version'[Owner(k)'][p]
    BY <1>1, <1>3, <2>3, <2>4 DEF CachedHasOwner, Payloads
  <2>5. ASSUME NEW r \in Readers, NEW p \in Parts, reader'[r].owner \in Users
        PROVE  reader'[r].seen[p] <= version'[reader'[r].owner][p]
    BY <1>1, <1>3, <2>3, <2>5 DEF ReaderStates
  <2>6. QED BY <2>4, <2>5
<1>4. ASSUME NEW r \in Readers, NEW x \in ReaderStates, UNCHANGED <<entry, ttl, version>>,
             reader' = [reader EXCEPT ![r] = x],
             x.owner \in Users => \A p \in Parts : x.seen[p] <= version[x.owner][p]
      PROVE SeenBounded'
  BY <1>1, <1>4
<1>5. Idle.owner \notin Users
  BY SentinelAssumption DEF Idle, ReaderAt
<1>6. ASSUME NEW r \in Readers, CacheHit(r) \/ Abandon(r) PROVE SeenBounded'
  BY <1>4, <1>5, <1>6 DEF CacheHit, Abandon, ReaderOnly, redis, database
<1>7. ASSUME NEW r \in Readers, NEW k \in Keys, Request(r, k) PROVE SeenBounded'
  <2> DEFINE x == ReaderAt("get", k, NoUser, Unread)
  <2>1. x \in ReaderStates BY ReaderShape
  <2>2. x.owner \notin Users BY SentinelAssumption DEF ReaderAt
  <2>3. QED BY <1>4, <1>7, <2>1, <2>2 DEF Request, ReaderOnly, redis, database
<1>8. ASSUME NEW r \in Readers, CacheMiss(r) PROVE SeenBounded'
  <2> DEFINE x == ReaderAt("link", reader[r].key, NoUser, Unread)
  <2>1. x \in ReaderStates BY <1>1, ReaderShape DEF ReaderStates
  <2>2. x.owner \notin Users BY SentinelAssumption DEF ReaderAt
  <2>3. QED BY <1>4, <1>8, <2>1, <2>2 DEF CacheMiss, ReaderOnly, redis, database
<1>9. ASSUME NEW r \in Readers, ReadLink(r) PROVE SeenBounded'
  <2> DEFINE u == link[reader[r].key]
             x == ReaderAt("user", reader[r].key, u, Unread)
  <2>1. u \in Users \cup {NoUser}
    BY <1>9 DEF ReadLink, Progress, IInv, TypeOK, DatabaseOK
  <2>2. x \in ReaderStates BY <1>1, <2>1, ReaderShape DEF ReaderStates
  <2>3. x.owner = u /\ \A p \in Parts : x.seen[p] = 0 BY DEF ReaderAt, Unread
  <2>4. \A p \in Parts : u \in Users => 0 <= version[u][p] BY <1>1
  <2>5. x.owner \in Users => \A p \in Parts : x.seen[p] <= version[x.owner][p]
    BY <2>3, <2>4
  <2>6. UNCHANGED <<entry, ttl, version>> BY <1>9 DEF ReadLink, ReaderOnly, redis, database
  <2>7. reader' = [reader EXCEPT ![r] = IF u = NoUser THEN Idle ELSE x]
    BY <1>9 DEF ReadLink
  <2> HIDE DEF u, x
  <2>8. QED BY <1>4, <1>5, <2>2, <2>5, <2>6, <2>7
<1>10. ASSUME NEW r \in Readers, NEW from \in {"user", "grants", "links"}, NEW q \in Parts,
              NEW to \in {"grants", "links", "set"}, ReadPart(r, from, q, to)
       PROVE SeenBounded'
  <2> DEFINE u == reader[r].owner
             seen == [reader[r].seen EXCEPT ![q] = version[u][q]]
             x == ReaderAt(to, reader[r].key, u, seen)
  <2>1. u \in Users BY <1>10 DEF ReadPart, Progress, IInv
  <2>2. seen \in [Parts -> Nat] BY <1>1, <2>1 DEF ReaderStates
  <2>3. x \in ReaderStates
    <3> HIDE DEF seen
    <3>1. reader[r].key \in Keys \cup {NoKey} /\ u \in Users \cup {NoUser}
      BY <1>1 DEF ReaderStates
    <3>2. QED BY <2>2, <3>1, ReaderShape
  <2>4. \A p \in Parts : seen[p] <= version[u][p]
    BY <1>1, <2>1 DEF ReaderStates
  <2>5. x.owner = u /\ x.seen = seen BY DEF ReaderAt
  <2>6. UNCHANGED <<entry, ttl, version>> BY <1>10 DEF ReadPart, ReaderOnly, redis, database
  <2>7. reader' = [reader EXCEPT ![r] = x] BY <1>10 DEF ReadPart
  <2> HIDE DEF u, seen, x
  <2>8. QED BY <1>4, <2>3, <2>4, <2>5, <2>6, <2>7
<1>11. ASSUME NEW r \in Readers, CacheSet(r) PROVE SeenBounded'
  <2>1. reader[r].key \in Keys /\ reader[r].owner \in Users
    BY <1>1, <1>11 DEF CacheSet, Progress
  <2>2. QED BY <1>1, <1>5, <1>11, <2>1 DEF CacheSet, database
<1>12. ASSUME NEW s \in Subscribers, ExecUser(s) \/ ExecBroad(s) PROVE SeenBounded'
  BY <1>1, <1>12 DEF ExecUser, ExecBroad, DeleteEntries, SubscriberOnly, database
<1>13. CASE Tick
  BY <1>1, <1>13, BoundAssumption DEF Tick, Less, database
<1>14. ASSUME NEW r \in Readers, ReadUser(r) \/ ReadGrants(r) \/ ReadLinkedIdps(r)
       PROVE SeenBounded'
  BY <1>10, <1>14 DEF ReadUser, ReadGrants, ReadLinkedIdps, Parts
<1>15. ASSUME NEW w \in Writers, NEW U, NEW P, NEW e, CommitThenPublish(w, U, P, e)
       PROVE SeenBounded'
  BY <1>3, <1>15 DEF CommitThenPublish, Commit, redis
<1>16. ASSUME NEW u, NEW P, CommitSilently(u, P) PROVE SeenBounded'
  BY <1>3, <1>16 DEF CommitSilently, Commit, redis
<1>17. QED
  BY <1>2, <1>6, <1>7, <1>8, <1>9, <1>11, <1>12, <1>13, <1>14, <1>15, <1>16
  DEF Next, vars, redis, database, ReaderStep, WriteUser, SyncNewLink, WriteShared, Reconcile,
      Publish, PublishFails, DeleteLink, CreateLink, Provision, Subscribe, Disconnect,
      TakeEvent, ScanReverse, HandlerFails, SubscriberOnly

\* A payload that was outdated was read before the current version.
LEMMA OutdatedIsOlder ==
    ASSUME TypeOK, CachedHasOwner, SeenBounded, NEW k \in Keys, NEW p \in Parts,
           Cached(k), Outdated(Owner(k), entry[k].seen, p)
    PROVE  entry[k].seen[p] < version[Owner(k)][p]
<1>1. entry[k].seen[p] \in Nat /\ version[Owner(k)][p] \in Nat
  BY DEF TypeOK, RedisOK, Payloads, DatabaseOK, Versions, CachedHasOwner
<1>2. QED BY <1>1 DEF SeenBounded, Outdated

\* The account of k and p survives a step that leaves the entry, the indexes,
\* the versions and the set of late keys alone, when announcements and doom
\* survive or are recorded as lost.
LEMMA AccountFrame ==
    ASSUME TypeOK, CachedHasOwner, SeenBounded, NEW k \in Keys, NEW p \in Parts,
           Account(k, p), NEW E,
           UNCHANGED <<entry, ttl, reverse, allKeys, version, late, silent>>,
           UNCHANGED lost \/ LoseEvent(E),
           Cached(k) /\ WillBeRemoved(k, Owner(k)) =>
               \/ WillBeRemoved(k, Owner(k))'
               \/ LoseEvent(E) /\ \E e \in E : Concerns(e, Owner(k))
               \/ ~Indexed(k)
    PROVE  Account(k, p)'
<1> DEFINE u == Owner(k)
<1>1. SUFFICES ASSUME Cached(k), Outdated(u, entry[k].seen, p)
               PROVE  (Excused(k, p) \/ entry[k].seen[p] < silent[u][p])'
  BY DEF Account, Cached, Outdated, Owner
<1>2. u \in Users BY <1>1 DEF CachedHasOwner
<1>3. entry[k].seen[p] < version[u][p] BY <1>1, OutdatedIsOlder
<1>4. CASE LoseEvent(E) /\ \E e \in E : Concerns(e, u)
  <2>1. lost'[u] = version[u] BY <1>2, <1>4 DEF LoseEvent
  <2>2. QED BY <1>3, <2>1 DEF Excused, Owner
<1>5. CASE ~(LoseEvent(E) /\ \E e \in E : Concerns(e, u))
  <2>1. lost'[u] = lost[u] BY <1>2, <1>5 DEF LoseEvent
  <2>2. Indexed(k)' <=> Indexed(k) BY DEF Indexed, Owner
  <2>3. Excused(k, p) \/ entry[k].seen[p] < silent[u][p] BY <1>1 DEF Account
  <2>4. QED BY <1>1, <1>5, <2>1, <2>2, <2>3 DEF Excused, Owner
<1>6. QED BY <1>4, <1>5

LEMMA AccountReader ==
    ASSUME IInv, NEW r \in Readers, ReaderStep(r) \/ \E k \in Keys : Request(r, k)
    PROVE  PartsAccounted'
<1> USE DEF IInv
<1> SUFFICES ASSUME NEW k \in Keys, NEW p \in Parts PROVE Account(k, p)'
  BY DEF PartsAccounted, Account
<1>1. Account(k, p) BY DEF PartsAccounted, Account
<1>2. CASE ReaderOnly
  BY <1>1, <1>2 DEF ReaderOnly, redis, database, history, Account, Cached, Outdated, Owner,
     Excused, WillBeRemoved, Announced, Doomed, Indexed
<1>3. CASE CacheSet(r)
  <2> DEFINE K == reader[r].key
             u == reader[r].owner
  <2>1. K \in Keys /\ u \in Users BY <1>3 DEF CacheSet, Progress
  <2>2. ASSUME NEW j, NEW v PROVE WillBeRemoved(j, v)' <=> WillBeRemoved(j, v)
    BY <1>3 DEF CacheSet, WillBeRemoved, Announced, Doomed
  <2>3. /\ entry \in [Keys -> Payloads] /\ ttl \in [Keys -> 0 .. TTL]
        /\ reverse \in [Users -> SUBSET Keys]
    BY DEF TypeOK, RedisOK
  <2>4. /\ version' = version /\ lost' = lost /\ silent' = silent
    BY <1>3 DEF CacheSet, database
  <2>5. CASE k = K
    <3>1. entry'[k].owner = u /\ entry'[k].seen = reader[r].seen
      BY <1>3, <2>3, <2>5 DEF CacheSet
    <3>2. ASSUME Outdated(u, reader[r].seen, p), ~WillBeRemoved(K, u) PROVE k \in late'
      BY <1>3, <2>5, <3>2 DEF CacheSet
    <3>3. QED
      BY <2>2, <2>4, <2>5, <3>1, <3>2 DEF Account, Excused, Outdated, Owner
  <2>6. CASE k # K
    <3>1. entry'[k] = entry[k] /\ ttl'[k] = ttl[k]
      BY <1>3, <2>3, <2>6 DEF CacheSet
    <3>2. k \in late => k \in late'
      BY <1>3, <2>6 DEF CacheSet
    <3>3. Cached(k) => (Indexed(k)' => Indexed(k))
      BY <1>3, <2>1, <2>3, <2>6, <3>1
      DEF CacheSet, StoreIndexes, Indexed, Owner, Cached, Expiry, CachedHasOwner
    <3>4. QED
      BY <1>1, <2>2, <2>4, <3>1, <3>2, <3>3 DEF Account, Excused, Outdated, Owner, Cached
  <2>7. QED BY <2>5, <2>6
<1>4. QED
  BY <1>2, <1>3 DEF ReaderStep, Request, CacheHit, CacheMiss, ReadLink, ReadUser, ReadGrants,
     ReadLinkedIdps, ReadPart, Abandon

LEMMA AccountCommit ==
    ASSUME IInv,
           \/ \E w \in Writers :
                 \/ \E u \in Users : WriteUser(w, u) \/ \E k \in Keys : SyncNewLink(w, u, k)
                 \/ \E U \in SUBSET Users \ {{}} : WriteShared(w, U) \/ Reconcile(w, U)
           \/ \E k \in Keys :
                 DeleteLink(k) \/ \E u \in Users : CreateLink(u, k) \/ Provision(u, k)
    PROVE  PartsAccounted'
<1> USE DEF IInv
<1> SUFFICES ASSUME NEW k \in Keys, NEW p \in Parts PROVE Account(k, p)'
  BY DEF PartsAccounted, Account
<1> DEFINE u == Owner(k)
<1>1. Account(k, p) BY DEF PartsAccounted, Account
<1>2. version \in [Users -> [Parts -> Nat]] /\ entry \in [Keys -> Payloads]
      /\ writer \in [Writers -> WriterStates]
  BY DEF TypeOK, DatabaseOK, RedisOK, ProcessesOK, Versions
<1>3. Cached(k) => u \in Users BY DEF Expiry, CachedHasOwner
<1>4. Cached(k) => entry[k].seen[p] <= version[u][p] BY DEF SeenBounded
<1>5. entry[k].seen[p] \in Nat BY <1>2 DEF Payloads
<1>6. ASSUME NEW w \in Writers, NEW U, NEW P, NEW e, CommitThenPublish(w, U, P, e),
             \A v \in U : Concerns(e, v)
      PROVE  Account(k, p)'
  <2>1. UNCHANGED <<entry, ttl, reverse, allKeys, late, lost, silent, inbox, handler>>
    BY <1>6 DEF CommitThenPublish, redis, history
  <2>2. writer[w].pc = "idle" /\ writer'[w].pc = "committed" /\ writer'[w].event = e
    BY <1>2, <1>6 DEF CommitThenPublish
  <2>3. ASSUME NEW x \in Writers, x # w PROVE writer'[x] = writer[x]
    BY <1>2, <1>6, <2>3 DEF CommitThenPublish
  <2>4. WillBeRemoved(k, u) => WillBeRemoved(k, u)'
    BY <2>1, <2>2, <2>3 DEF WillBeRemoved, Announced, Doomed, Owner
  <2>5. u \in U => WillBeRemoved(k, u)'
    BY <1>6, <2>1, <2>2 DEF WillBeRemoved, Announced, Concerns, Owner
  <2>6. Cached(k) /\ u \notin U => version'[u][p] = version[u][p]
    BY <1>2, <1>3, <1>6 DEF CommitThenPublish, Commit, Bump
  <2>7. QED
    BY <1>1, <2>1, <2>4, <2>5, <2>6 DEF Account, Excused, Outdated, Owner, Cached, Indexed
<1>7. ASSUME NEW v \in Users, NEW P, CommitSilently(v, P) PROVE Account(k, p)'
  <2>1. UNCHANGED <<entry, ttl, reverse, allKeys, late, lost, inbox, handler, writer>>
    BY <1>7 DEF CommitSilently, redis
  <2>2. WillBeRemoved(k, u)' <=> WillBeRemoved(k, u)
    BY <2>1 DEF WillBeRemoved, Announced, Doomed, Owner
  <2>3. CASE Cached(k) /\ ~(u = v /\ p \in P)
    <3>1. version'[u][p] = version[u][p]
      BY <1>2, <1>3, <1>7, <2>3 DEF CommitSilently, Commit, Bump
    <3>2. silent'[u][p] = silent[u][p]
      BY <1>3, <1>7, <2>3 DEF CommitSilently, TypeOK, HistoryOK, Versions
    <3>3. QED
      BY <1>1, <2>1, <2>2, <3>1, <3>2 DEF Account, Excused, Outdated, Owner, Cached, Indexed
  <2>4. CASE Cached(k) /\ u = v /\ p \in P
    <3>1. silent'[u][p] = version[u][p] + 1
      BY <1>7, <2>4 DEF CommitSilently, TypeOK, HistoryOK, Versions
    <3>2. version[u][p] \in Nat BY <1>2, <1>3, <2>4
    <3>3. entry[k].seen[p] < silent'[u][p] BY <1>4, <1>5, <2>4, <3>1, <3>2
    <3>4. QED BY <2>1, <3>3 DEF Account, Owner
  <2>5. CASE ~Cached(k)
    BY <2>1, <2>5 DEF Account, Cached
  <2>6. QED BY <2>3, <2>4, <2>5
<1>8. ASSUME NEW w \in Writers, NEW v \in Users, WriteUser(w, v) PROVE Account(k, p)'
  BY <1>6, <1>8 DEF WriteUser, Concerns
<1>9. ASSUME NEW w \in Writers, NEW v \in Users, NEW j \in Keys, SyncNewLink(w, v, j)
      PROVE Account(k, p)'
  BY <1>6, <1>9 DEF SyncNewLink, Concerns
<1>10. ASSUME NEW w \in Writers, NEW U \in SUBSET Users, WriteShared(w, U) \/ Reconcile(w, U)
       PROVE Account(k, p)'
  BY <1>6, <1>10 DEF WriteShared, Reconcile, Concerns
<1>11. ASSUME NEW j \in Keys, DeleteLink(j) PROVE Account(k, p)'
  <2>1. link[j] \in Users BY <1>11 DEF DeleteLink, TypeOK, DatabaseOK
  <2>2. QED BY <1>7, <1>11, <2>1 DEF DeleteLink
<1>12. ASSUME NEW v \in Users, NEW j \in Keys, CreateLink(v, j) \/ Provision(v, j)
       PROVE Account(k, p)'
  BY <1>7, <1>12 DEF CreateLink, Provision
<1>13. QED BY <1>8, <1>9, <1>10, <1>11, <1>12

LEMMA AccountPublish ==
    ASSUME IInv, NEW w \in Writers, Publish(w) \/ PublishFails(w) PROVE PartsAccounted'
<1> USE DEF IInv
<1> SUFFICES ASSUME NEW k \in Keys, NEW p \in Parts PROVE Account(k, p)'
  BY DEF PartsAccounted, Account
<1> DEFINE u == Owner(k)
           e == writer[w].event
<1>1. Account(k, p) /\ CachedHasOwner BY DEF PartsAccounted, Account, Expiry
<1>2. /\ writer \in [Writers -> WriterStates]
      /\ inbox \in [Subscribers -> Seq(Events)]
      /\ e \in Events
  BY DEF TypeOK, ProcessesOK, Progress, Publish, PublishFails
<1>3. UNCHANGED <<entry, ttl, reverse, allKeys, version, late, silent, handler>>
  BY DEF Publish, PublishFails, redis, database
<1>4. ASSUME NEW x \in Writers, x # w PROVE writer'[x] = writer[x]
  BY <1>2, <1>4 DEF Publish, PublishFails
<1>5. Doomed(k, u) => Doomed(k, u)' BY <1>3 DEF Doomed, Owner
<1>6. CASE PublishFails(w)
  <2>1. WillBeRemoved(k, u) => WillBeRemoved(k, u)' \/ Concerns(e, u)
    BY <1>3, <1>4, <1>5, <1>6 DEF PublishFails, WillBeRemoved, Announced, Owner
  <2>2. LoseEvent({e}) BY <1>6 DEF PublishFails
  <2>3. QED BY <1>1, <1>3, <2>1, <2>2, AccountFrame
<1>7. CASE Publish(w)
  <2>1. ASSUME NEW s \in Subscribers, NEW i \in 1 .. Len(inbox[s])
        PROVE  i \in 1 .. Len(inbox'[s]) /\ inbox'[s][i] = inbox[s][i]
    BY <1>2, <1>7, <2>1 DEF Publish
  <2>2. (\E s \in Subscribers : \E i \in 1 .. Len(inbox[s]) : Concerns(inbox[s][i], u))
          => Announced(u)'
    BY <1>3, <2>1 DEF Announced, Owner, Concerns
  <2>3. (\E x \in Writers \ {w} : writer[x].pc = "committed" /\ Concerns(writer[x].event, u))
          => Announced(u)'
    BY <1>3, <1>4 DEF Announced, Owner, Concerns
  <2>4. WillBeRemoved(k, u) => WillBeRemoved(k, u)' \/ Concerns(e, u)
    BY <1>5, <2>2, <2>3 DEF WillBeRemoved, Announced, Owner
  <2>5. CASE Connected = {}
    <3>1. LoseEvent({e}) BY <1>7, <2>5 DEF Publish
    <3>2. QED BY <1>1, <1>3, <2>4, <3>1, AccountFrame
  <2>6. CASE Connected # {}
    <3>1. PICK s \in Connected : TRUE BY <2>6
    <3>2. inbox'[s] = Append(inbox[s], e) /\ s \in Subscribers
      BY <1>7, <3>1 DEF Publish, Connected
    <3>3. inbox[s] \in Seq(Events) BY <1>2, <3>2
    <3>4. Len(inbox'[s]) \in 1 .. Len(inbox'[s]) /\ inbox'[s][Len(inbox'[s])] = e
      BY <1>2, <3>2, <3>3
    <3>5. Concerns(e, u) => Announced(u)'
      BY <1>3, <3>2, <3>4 DEF Announced, Owner, Concerns
    <3>6. WillBeRemoved(k, u) => WillBeRemoved(k, u)'
      BY <2>4, <3>5 DEF WillBeRemoved
    <3>7. UNCHANGED lost BY <1>7, <2>6 DEF Publish
    <3>8. QED BY <1>1, <1>3, <3>6, <3>7, AccountFrame
  <2>7. QED BY <2>5, <2>6
<1>8. QED BY <1>6, <1>7

LEMMA AccountSubscriber ==
    ASSUME IInv, NEW s \in Subscribers,
           \/ Subscribe(s) \/ Disconnect(s) \/ TakeEvent(s) \/ ScanReverse(s)
           \/ ExecUser(s) \/ ExecBroad(s) \/ HandlerFails(s)
    PROVE  PartsAccounted'
<1> USE DEF IInv
<1> SUFFICES ASSUME NEW k \in Keys, NEW p \in Parts PROVE Account(k, p)'
  BY DEF PartsAccounted, Account
<1> DEFINE u == Owner(k)
<1>1. Account(k, p) /\ CachedHasOwner BY DEF PartsAccounted, Account, Expiry
<1>2. /\ inbox \in [Subscribers -> Seq(Events)]
      /\ handler \in [Subscribers -> HandlerStates]
  BY DEF TypeOK, ProcessesOK
<1>3. UNCHANGED <<version, silent, writer>>
  BY DEF Subscribe, Disconnect, TakeEvent, ScanReverse, ExecUser, ExecBroad, HandlerFails,
         SubscriberOnly, database
<1>4. ASSUME NEW x \in Subscribers, x # s
      PROVE  handler'[x] = handler[x] /\ inbox'[x] = inbox[x]
  BY <1>2, <1>4 DEF Subscribe, Disconnect, TakeEvent, ScanReverse, ExecUser, ExecBroad,
                    HandlerFails
<1>5. ASSUME UNCHANGED <<entry>>,
             WillBeRemoved(k, u), ~WillBeRemoved(k, u)'
      PROVE  \/ \E i \in 1 .. Len(inbox[s]) : Concerns(inbox[s][i], u)
             \/ /\ handler[s].pc \in {"scan", "exec"} /\ k \in handler[s].keys
                /\ Concerns(handler[s].event, u)
  BY <1>3, <1>4, <1>5 DEF WillBeRemoved, Announced, Doomed, Owner, Concerns
<1>6. CASE Subscribe(s)
  <2>1. inbox' = inbox BY <1>6 DEF Subscribe
  <2>2. UNCHANGED <<entry, ttl, reverse, allKeys, late, lost>>
    BY <1>6 DEF Subscribe, redis
  <2>3. handler[s].pc = "down" BY <1>6 DEF Subscribe
  <2>4. WillBeRemoved(k, u) => WillBeRemoved(k, u)'
    BY <1>3, <1>4, <2>1, <2>2, <2>3 DEF WillBeRemoved, Announced, Doomed, Owner, Concerns
  <2>5. QED BY <1>1, <1>3, <2>2, <2>4, AccountFrame
<1>7. CASE Disconnect(s)
  <2> DEFINE E == {inbox[s][i] : i \in 1 .. Len(inbox[s])}
  <2>1. UNCHANGED <<entry, ttl, reverse, allKeys, late>> /\ LoseEvent(E)
    BY <1>7 DEF Disconnect, redis
  <2>2. handler[s].pc = "listening" BY <1>7 DEF Disconnect
  <2>3. WillBeRemoved(k, u) => WillBeRemoved(k, u)' \/ \E e \in E : Concerns(e, u)
    BY <1>5, <2>1, <2>2
  <2> HIDE DEF E
  <2>4. QED BY <1>1, <1>3, <2>1, <2>3, AccountFrame
<1>8. CASE TakeEvent(s)
  <2> DEFINE e == Head(inbox[s])
             found == IF e = Broad THEN allKeys ELSE reverse[e]
  <2>1. UNCHANGED <<entry, ttl, reverse, allKeys, late, lost>>
    BY <1>8 DEF TakeEvent, redis
  <2>2. handler[s].pc = "listening" /\ inbox[s] # <<>> BY <1>8 DEF TakeEvent
  <2>3. inbox[s] \in Seq(Events) /\ inbox'[s] = Tail(inbox[s]) /\ e \in Events
    BY <1>2, <1>8, <2>2 DEF TakeEvent
  <2>4. ASSUME NEW i \in 1 .. Len(inbox[s])
        PROVE  \/ inbox[s][i] = e
               \/ \E j \in 1 .. Len(inbox'[s]) : inbox'[s][j] = inbox[s][i]
    <3>1. CASE i = 1 BY <2>2, <2>3, <3>1
    <3>2. CASE i # 1
      <4>1. i - 1 \in 1 .. Len(inbox'[s]) /\ inbox'[s][i - 1] = inbox[s][i]
        BY <2>2, <2>3, <3>2
      <4>2. QED BY <4>1
    <3>3. QED BY <3>1, <3>2
  <2>5. (\E i \in 1 .. Len(inbox[s]) : Concerns(inbox[s][i], u))
            => Announced(u)' \/ Concerns(e, u)
    BY <2>1, <2>4 DEF Announced, Owner, Concerns
  <2>6. Cached(k) /\ Concerns(e, u) /\ Indexed(k) => k \in found
    BY <2>3, SentinelAssumption DEF Concerns, Indexed, Owner, CachedHasOwner
  <2>7. k \in found /\ Concerns(e, u) => Doomed(k, u)'
    <3>1. k \in found => handler'[s] = Handling(IF e = Broad THEN "scan" ELSE "exec", e, found, {})
      BY <1>2, <1>8 DEF TakeEvent
    <3>2. QED BY <2>1, <3>1 DEF Doomed, Handling, Owner, Concerns
  <2>8. Cached(k) /\ WillBeRemoved(k, u) => WillBeRemoved(k, u)' \/ ~Indexed(k)
    <3> HIDE DEF e, found
    <3>1. QED BY <1>5, <2>1, <2>2, <2>5, <2>6, <2>7 DEF WillBeRemoved
  <2>9. QED BY <1>1, <1>3, <2>1, <2>8, AccountFrame
<1>9. CASE ScanReverse(s)
  <2>1. UNCHANGED <<entry, ttl, reverse, allKeys, late, lost, inbox>>
    BY <1>9 DEF ScanReverse, redis
  <2>2. /\ handler'[s].pc = "exec" /\ handler'[s].keys = handler[s].keys
        /\ handler'[s].event = handler[s].event
    BY <1>2, <1>9 DEF ScanReverse, Handling
  <2>3. WillBeRemoved(k, u) => WillBeRemoved(k, u)'
    BY <1>3, <1>4, <2>1, <2>2 DEF WillBeRemoved, Announced, Doomed, Owner, Concerns
  <2>4. QED BY <1>1, <1>3, <2>1, <2>3, AccountFrame
<1>10. CASE ExecUser(s) \/ ExecBroad(s)
  <2>1. /\ DeleteEntries(handler[s].keys) /\ UNCHANGED <<inbox, lost>>
        /\ handler[s].pc = "exec"
        /\ \E U : DeleteReverse(U)
        /\ \E A \in SUBSET allKeys : SetAllKeys(A)
    BY <1>10 DEF ExecUser, ExecBroad
  <2>2. CASE k \in handler[s].keys
    BY <2>1, <2>2 DEF DeleteEntries, Account, Cached
  <2>3. CASE k \notin handler[s].keys
    <3>1. /\ entry'[k] = entry[k] /\ ttl'[k] = ttl[k]
          /\ k \in late => k \in late'
      BY <2>1, <2>3 DEF DeleteEntries, TypeOK, RedisOK
    <3>2. WillBeRemoved(k, u) => WillBeRemoved(k, u)'
      BY <1>3, <1>4, <2>1, <2>3, <3>1 DEF WillBeRemoved, Announced, Doomed, Owner, Concerns
    <3>3. Cached(k) => (Indexed(k)' => Indexed(k))
      BY <1>1, <2>1, <3>1 DEF Indexed, Owner, DeleteReverse, SetAllKeys, CachedHasOwner,
                              TypeOK, RedisOK
    <3>4. QED
      BY <1>1, <1>3, <2>1, <3>1, <3>2, <3>3 DEF Account, Excused, Outdated, Owner, Cached
  <2>4. QED BY <2>2, <2>3
<1>11. CASE HandlerFails(s)
  <2> DEFINE E == {handler[s].event}
  <2>1. UNCHANGED <<entry, ttl, reverse, allKeys, late, inbox>> /\ LoseEvent(E)
    BY <1>11 DEF HandlerFails, redis
  <2>2. WillBeRemoved(k, u) => WillBeRemoved(k, u)' \/ \E e \in E : Concerns(e, u)
    BY <1>3, <1>4, <2>1 DEF WillBeRemoved, Announced, Doomed, Owner, Concerns
  <2> HIDE DEF E
  <2>3. QED BY <1>1, <1>3, <2>1, <2>2, AccountFrame
<1>12. QED BY <1>6, <1>7, <1>8, <1>9, <1>10, <1>11

LEMMA AccountTick == ASSUME IInv, Tick PROVE PartsAccounted'
<1> SUFFICES ASSUME NEW k \in Keys, NEW p \in Parts PROVE Account(k, p)'
  BY DEF PartsAccounted, Account
<1>1. Account(k, p) BY DEF IInv, PartsAccounted, Account
<1>2. /\ ttl \in [Keys -> 0 .. TTL] /\ reverse \in [Users -> SUBSET Keys]
      /\ Cached(k) => Owner(k) \in Users
  BY DEF IInv, TypeOK, RedisOK, Expiry, CachedHasOwner
<1>3. ttl'[k] = Less(ttl[k]) BY DEF Tick
<1>4. CASE ttl[k] <= 1
  BY <1>2, <1>3, <1>4, BoundAssumption DEF Less, Account, Cached
<1>5. CASE ttl[k] > 1
  <2>1. UNCHANGED <<version, silent, lost, inbox, writer, handler>>
    BY DEF Tick, database
  <2>2. entry'[k] = entry[k]
    BY <1>2, <1>5, BoundAssumption DEF Tick
  <2>3. Cached(k) BY <1>2, <1>5, BoundAssumption DEF Cached
  <2>4. k \in late => k \in late' BY <1>5 DEF Tick
  <2>5. Indexed(k)' => Indexed(k)
    <3>1. k \in allKeys' => k \in allKeys BY DEF Tick
    <3>2. k \in reverse'[entry[k].owner] => k \in reverse[entry[k].owner]
      BY <1>2, <2>3 DEF Owner, Tick
    <3>3. QED BY <2>2, <3>1, <3>2 DEF Indexed, Owner
  <2>6. WillBeRemoved(k, Owner(k))' <=> WillBeRemoved(k, Owner(k))
    BY <2>1, <2>2 DEF WillBeRemoved, Announced, Doomed, Owner, Concerns
  <2>7. QED
    BY <1>1, <2>1, <2>2, <2>3, <2>4, <2>5, <2>6 DEF Account, Excused, Outdated, Owner
<1>6. QED BY <1>2, <1>4, <1>5, BoundAssumption

LEMMA StepAccount == ASSUME IInv, [Next]_vars PROVE PartsAccounted'
<1>1. CASE UNCHANGED vars
  BY <1>1 DEF vars, IInv, PartsAccounted, Account, Excused, WillBeRemoved, Announced, Doomed, Indexed,
              Outdated, Owner, Cached
<1>2. QED
  BY <1>1, AccountReader, AccountCommit, AccountPublish, AccountSubscriber, AccountTick
  DEF Next

-----------------------------------------------------------------------------
(* Whose identity is served.                                               *)

\* A step that links keys without a link, or deletes links and notes it,
\* makes nobody a stranger.
LEMMA KnewKept ==
    ASSUME TypeOK, NEW k \in Keys, NEW u \in Users, Knew(k, u), unlinked \subseteq unlinked',
           \A j \in Keys : \/ link'[j] = link[j] \/ link[j] = NoUser
                           \/ <<j, link[j]>> \in unlinked'
    PROVE  Knew(k, u)'
  BY SentinelAssumption DEF Knew

LEMMA LinksKept ==
    ASSUME TypeOK, [Next]_vars
    PROVE  /\ unlinked \subseteq unlinked'
           /\ \A j \in Keys : \/ link'[j] = link[j] \/ link[j] = NoUser
                              \/ <<j, link[j]>> \in unlinked'
<1>0. link \in [Keys -> Users \cup {NoUser}] BY DEF TypeOK, DatabaseOK
<1>1. ASSUME NEW k \in Keys, DeleteLink(k)
      PROVE  unlinked \subseteq unlinked' /\ \A j \in Keys : \/ link'[j] = link[j]
                                                            \/ <<j, link[j]>> \in unlinked'
  BY <1>0, <1>1 DEF DeleteLink
<1>2. ASSUME NEW k \in Keys, NEW u \in Users, CreateLink(u, k) \/ Provision(u, k)
      PROVE  unlinked' = unlinked /\ \A j \in Keys : link'[j] = link[j] \/ link[j] = NoUser
  BY <1>0, <1>2 DEF CreateLink, Provision
<1>3. ASSUME NEW w \in Writers, NEW u \in Users, NEW k \in Keys, SyncNewLink(w, u, k)
      PROVE  unlinked' = unlinked /\ \A j \in Keys : link'[j] = link[j] \/ link[j] = NoUser
  BY <1>0, <1>3 DEF SyncNewLink, CommitThenPublish, history
<1>4. ASSUME NEW w \in Writers, NEW U, Reconcile(w, U)
      PROVE  unlinked' = unlinked /\ \A j \in Keys : link'[j] = link[j] \/ link[j] = NoUser
  BY <1>4 DEF Reconcile, CommitThenPublish, history
<1>5. ASSUME NEW w \in Writers, \/ \E u \in Users : WriteUser(w, u)
                                \/ \E U \in SUBSET Users : WriteShared(w, U)
                                \/ Publish(w) \/ PublishFails(w)
      PROVE  unlinked' = unlinked /\ link' = link
  BY <1>5 DEF WriteUser, WriteShared, CommitThenPublish, Publish, PublishFails, history, database
<1>6. ASSUME NEW r \in Readers, ReaderStep(r) \/ \E k \in Keys : Request(r, k)
      PROVE  unlinked' = unlinked /\ link' = link
  BY <1>6 DEF ReaderStep, Request, CacheHit, CacheMiss, ReadLink, ReadUser, ReadGrants,
     ReadLinkedIdps, ReadPart, CacheSet, Abandon, ReaderOnly, history, database
<1>7. ASSUME NEW s \in Subscribers,
             \/ Subscribe(s) \/ Disconnect(s) \/ TakeEvent(s) \/ ScanReverse(s)
             \/ ExecUser(s) \/ ExecBroad(s) \/ HandlerFails(s)
      PROVE  unlinked' = unlinked /\ link' = link
  BY <1>7 DEF Subscribe, Disconnect, TakeEvent, ScanReverse, ExecUser, ExecBroad, HandlerFails,
     SubscriberOnly, database
<1>8. CASE Tick \/ UNCHANGED vars BY <1>8 DEF Tick, vars, database
<1> QED BY <1>1, <1>2, <1>3, <1>4, <1>5, <1>6, <1>7, <1>8 DEF Next

LEMMA EntriesMade ==
    ASSUME TypeOK, [Next]_vars, NEW k \in Keys, Cached(k)'
    PROVE  \/ Cached(k) /\ entry'[k] = entry[k]
           \/ \E r \in Readers : CacheSet(r) /\ reader[r].key = k
<1> USE DEF Cached
<1>1. entry \in [Keys -> Payloads] /\ ttl \in [Keys -> 0 .. TTL] BY DEF TypeOK, RedisOK
<1>2. ASSUME NEW r \in Readers, CacheSet(r), reader[r].key # k
      PROVE  ttl'[k] = ttl[k] /\ entry'[k] = entry[k]
  BY <1>1, <1>2 DEF CacheSet
<1>3. ASSUME NEW s \in Subscribers, ExecUser(s) \/ ExecBroad(s)
      PROVE  Cached(k) /\ entry'[k] = entry[k]
  BY <1>1, <1>3 DEF ExecUser, ExecBroad, DeleteEntries
<1>4. CASE Tick
  <2>1. ttl'[k] = Less(ttl[k]) /\ ttl[k] \in Nat BY <1>1, <1>4, BoundAssumption DEF Tick
  <2>2. ttl[k] > 1 BY <2>1 DEF Less
  <2>3. entry'[k] = entry[k] BY <1>4, <2>1, <2>2 DEF Tick
  <2> QED BY <2>1, <2>2, <2>3
<1>5. CASE UNCHANGED <<entry, ttl>> BY <1>5
<1> QED
  BY <1>2, <1>3, <1>4, <1>5 DEF Next, vars, redis, ReaderStep, Request, CacheHit, CacheMiss,
     ReadLink, ReadUser, ReadGrants, ReadLinkedIdps, ReadPart, Abandon, ReaderOnly,
     WriteUser, SyncNewLink, WriteShared, Reconcile, CommitThenPublish, Publish, PublishFails,
     DeleteLink, CreateLink, Provision, CommitSilently, Subscribe, Disconnect, TakeEvent,
     ScanReverse, HandlerFails

\* A request that reads for an owner has just read the link that names him, or
\* did so before this step.
LEMMA OwnersRead ==
    ASSUME TypeOK, [Next]_vars, NEW r \in Readers,
           reader'[r].pc \in {"user", "grants", "links", "set"}
    PROVE  \/ /\ reader[r].pc \in {"user", "grants", "links", "set"}
              /\ reader'[r].key = reader[r].key /\ reader'[r].owner = reader[r].owner
           \/ link'[reader'[r].key] = reader'[r].owner
<1> USE DEF Idle, ReaderAt
<1>1. reader \in [Readers -> ReaderStates] BY DEF TypeOK, ProcessesOK
<1>2. ASSUME NEW x \in Readers, x # r, ReaderStep(x) \/ \E k \in Keys : Request(x, k)
      PROVE  reader'[r] = reader[r]
  BY <1>1, <1>2 DEF ReaderStep, Request, CacheHit, CacheMiss, ReadLink, ReadUser, ReadGrants,
     ReadLinkedIdps, ReadPart, CacheSet, Abandon
<1>3. CASE ReadLink(r)
  BY <1>1, <1>3 DEF ReadLink, ReaderOnly, database
<1>4. CASE ReadUser(r) \/ ReadGrants(r) \/ ReadLinkedIdps(r)
  BY <1>1, <1>4 DEF ReadUser, ReadGrants, ReadLinkedIdps, ReadPart
<1>5. CASE CacheHit(r) \/ CacheMiss(r) \/ CacheSet(r) \/ Abandon(r) \/ \E k \in Keys : Request(r, k)
  BY <1>1, <1>5 DEF CacheHit, CacheMiss, CacheSet, Abandon, Request
<1>6. CASE reader' = reader BY <1>6
<1> QED
  BY <1>2, <1>3, <1>4, <1>5, <1>6 DEF Next, vars, ReaderStep,
     WriteUser, SyncNewLink, WriteShared, Reconcile, CommitThenPublish, Publish, PublishFails,
     DeleteLink, CreateLink, Provision, CommitSilently, Subscribe, Disconnect, TakeEvent,
     ScanReverse, ExecUser, ExecBroad, HandlerFails, SubscriberOnly, Tick

LEMMA StepOwners == ASSUME IInv, [Next]_vars PROVE OwnersKnown'
<1>1. ASSUME NEW k \in Keys, NEW u \in Users, Knew(k, u) PROVE Knew(k, u)'
  BY <1>1, LinksKept, KnewKept DEF IInv
<1>2. ASSUME NEW r \in Readers, reader[r].pc \in {"user", "grants", "links", "set"}
      PROVE  /\ reader[r].key \in Keys /\ reader[r].owner \in Users
             /\ Knew(reader[r].key, reader[r].owner)
  BY <1>2 DEF IInv, OwnersKnown, Progress
<1>3. ASSUME NEW k \in Keys, Cached(k)' PROVE Knew(k, Owner(k))'
  <2>1. CASE Cached(k) /\ entry'[k] = entry[k]
    <3>1. Knew(k, Owner(k)) /\ Owner(k) \in Users
      BY <2>1 DEF IInv, OwnersKnown, Expiry, CachedHasOwner
    <3>2. PICK u \in Users : u = Owner(k) BY <3>1
    <3>3. Knew(k, u)' BY <1>1, <3>1, <3>2
    <3>4. Owner(k)' = u BY <2>1, <3>2 DEF Owner
    <3> QED BY <3>3, <3>4 DEF Knew
  <2>2. CASE \E r \in Readers : CacheSet(r) /\ reader[r].key = k
    <3>1. PICK r \in Readers : CacheSet(r) /\ reader[r].key = k BY <2>2
    <3>2. PICK u \in Users : u = reader[r].owner BY <1>2, <3>1 DEF CacheSet
    <3>3. Knew(k, u)' BY <1>1, <3>1, <3>2 DEF CacheSet, IInv, OwnersKnown
    <3>4. Owner(k)' = u BY <3>1, <3>2 DEF Owner, CacheSet, IInv, TypeOK, RedisOK
    <3> QED BY <3>3, <3>4 DEF Knew
  <2> QED BY <1>3, <2>1, <2>2, EntriesMade DEF IInv
<1>4. ASSUME NEW r \in Readers, reader'[r].pc \in {"user", "grants", "links", "set"}
      PROVE  Knew(reader[r].key, reader[r].owner)'
  <2>1. CASE link'[reader'[r].key] = reader'[r].owner BY <2>1 DEF Knew
  <2>2. CASE link'[reader'[r].key] # reader'[r].owner
    <3>1. /\ reader[r].pc \in {"user", "grants", "links", "set"}
          /\ reader'[r].key = reader[r].key /\ reader'[r].owner = reader[r].owner
      BY <1>4, <2>2, OwnersRead DEF IInv
    <3>2. PICK k \in Keys, u \in Users : k = reader[r].key /\ u = reader[r].owner BY <1>2, <3>1
    <3>3. Knew(k, u)' BY <1>1, <3>1, <3>2 DEF IInv, OwnersKnown
    <3> QED BY <3>1, <3>2, <3>3 DEF Knew
  <2> QED BY <2>1, <2>2
<1> QED BY <1>3, <1>4 DEF OwnersKnown

\* Nobody is served an identity he was never linked to, and every outdated part
\* of a cached identity is accounted for by pending work, a lost event, an
\* overtaken store, an entry hidden from its indexes, or a commit of a service
\* without publisher: resolve, the publishers and the subscriber together have
\* no other way to serve old data.
THEOREM StaleAlwaysHasCause == Spec => []StaleHasCause
<1>1. Init => IInv
  <2>1. Init => TypeOK /\ Progress /\ Expiry
    BY InitTypeOK DEF Init, Progress, Idle, ReaderAt, Down, Handling, Expiry, CachedHasOwner,
                      IndexOutlivesEntry, Cached
  <2>2. Init => SeenBounded /\ PartsAccounted
    BY SentinelAssumption DEF Init, SeenBounded, PartsAccounted, Account, Cached, Idle, ReaderAt
  <2>3. Init => OwnersKnown BY DEF Init, OwnersKnown, Cached, Idle, ReaderAt
  <2> QED BY <2>1, <2>2, <2>3 DEF IInv
<1>2. IInv /\ [Next]_vars => IInv'
  BY StepTypeOK, StepProgress, StepExpiry, StepSeenBounded, StepAccount, StepOwners DEF IInv
<1>3. IInv => StaleHasCause
  BY DEF IInv, PartsAccounted, Account, OwnersKnown, Knew, StaleHasCause
<1> QED BY <1>1, <1>2, <1>3, PTL DEF Spec
=============================================================================
