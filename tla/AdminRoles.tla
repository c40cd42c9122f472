----------------------------- MODULE AdminRoles -----------------------------
(***************************************************************************)
(* Roles and permissions: their definitions in Postgres, the assignments   *)
(* of roles to members (a user in a tenant), the permissions mapped to     *)
(* roles, and the definitions Descope has.  The routers resolve names to   *)
(* ids and then work on ids; the services store, commit and push; the      *)
(* reconciliation creates the definitions it finds in Descope only.        *)
(*                                                                         *)
(* A statement and the commit that follows it at once are one step.  The   *)
(* assignments pushed to Descope name the user by a canonical id no        *)
(* account answers to: they change nothing there and have no state here.   *)
(* Descriptions are left out, and so is a tenant's own roles: the routers  *)
(* only know global ones.                                                  *)
(***************************************************************************)
EXTENDS Naturals, Sequences, FiniteSets, Functions

CONSTANTS
    Roles, Permissions,     \* ids of rows, existing or to be created
    Names,
    Members,
    Requests,
    NoName,
    NoId,
    NoMember,
    MaxNames,               \* bound: names in one request
    MaxEvents               \* bound: calls, changes in Descope and faults

Ids == Roles \cup Permissions
Kinds == {"role", "permission"}

ASSUME ConstantsAssumption ==
    /\ Roles \cap Permissions = {}
    /\ NoName \notin Names
    /\ NoId \notin Ids
    /\ NoMember \notin Members
    /\ MaxNames \in Nat
    /\ MaxEvents \in Nat

VARIABLES
    name,       \* name[i]: NoName when there is no row with the id
    mapped,     \* mapped[r]: permissions of role r
    held,       \* held[m]: roles assigned to member m
    remote,     \* remote[k]: names of the definitions of kind k in Descope
    req,
    recon,
    unpushed,   \* history: <<kind, name>> lost to Descope since it had them
    events

vars == <<name, mapped, held, remote, req, recon, unpushed, events>>

IdsOf(k) == IF k = "role" THEN Roles ELSE Permissions
KindOf(i) == IF i \in Roles THEN "role" ELSE "permission"
Lists == UNION {[1..n -> Names] : n \in 0..MaxNames}

\* A "loop" assigns or removes one role after the other, a "map" request has
\* an uncommitted role; "named" is what names meant when the request began.
Operations == {"assign", "remove", "create", "rename", "delete"}
Phases == {"idle", "loop", "store", "look", "map", "push"}
Idle == [op |-> "create", phase |-> "idle", kind |-> "role", names |-> <<>>,
         named |-> [n \in Names |-> NoId], at |-> 0, member |-> NoMember, id |-> NoId,
         new |-> NoName, mapped |-> {}, dead |-> FALSE, others |-> {}]
RequestStates ==
    [op : Operations, phase : Phases, kind : Kinds, names : Lists,
     named : [Names -> Ids \cup {NoId}], at : 0..MaxNames, member : Members \cup {NoMember},
     id : Ids \cup {NoId}, new : Names \cup {NoName}, mapped : SUBSET Permissions,
     dead : BOOLEAN, others : SUBSET Roles]

AtRest == [phase |-> "idle", fetched |-> [k \in Kinds |-> {}], loaded |-> [k \in Kinds |-> {}]]
ReconStates == [phase : {"idle", "fetched", "loaded"}, fetched : [Kinds -> SUBSET Names],
                loaded : [Kinds -> SUBSET Names]]

TypeOK ==
    /\ name \in [Ids -> Names \cup {NoName}]
    /\ mapped \in [Roles -> SUBSET Permissions]
    /\ held \in [Members -> SUBSET Roles]
    /\ remote \in [Kinds -> SUBSET Names]
    /\ req \in [Requests -> RequestStates]
    /\ recon \in ReconStates
    /\ unpushed \in SUBSET (Kinds \X Names)
    /\ events \in Nat

-----------------------------------------------------------------------------
Exists(i) == name[i] # NoName
NamesOf(k) == {name[i] : i \in IdsOf(k)} \ {NoName}
Named(k) == [n \in Names |-> IF n \in NamesOf(k)
                             THEN CHOOSE i \in IdsOf(k) : name[i] = n ELSE NoId]

\* Ids are never used twice: a new row gets one that no row has and nobody
\* remembers.
Remembers(q, i) == q.id = i \/ i \in Range(q.named) \/ i \in q.others
Fresh(k) == {i \in IdsOf(k) : ~Exists(i) /\ \A p \in Requests : ~Remembers(req[p], i)}

\* A role is being inserted under the name: another insert of it waits.
Inserting(n) == \E p \in Requests : req[p].phase \in {"look", "map"} /\ req[p].new = n
Waits(k, n) == k = "role" /\ Inserting(n)

Init ==
    /\ name \in [Ids -> Names \cup {NoName}]
    /\ \A i, j \in Ids : Exists(i) /\ name[i] = name[j] /\ KindOf(i) = KindOf(j) => i = j
    /\ mapped \in [Roles -> SUBSET Permissions]
    /\ held \in [Members -> SUBSET Roles]
    /\ \A r \in Roles : mapped[r] # {} => Exists(r)
    /\ \A i \in Ids : ~Exists(i) => /\ \A m \in Members : i \notin held[m]
                                    /\ \A r \in Roles : i \notin mapped[r]
    /\ remote = [k \in Kinds |-> NamesOf(k)]
    /\ req = [p \in Requests |-> Idle]
    /\ recon = AtRest
    /\ unpushed = {}
    /\ events = 0

Spend(n) == events + n <= MaxEvents /\ events' = events + n

Become(p, q) == req' = [req EXCEPT ![p] = q]
\* Mutant of Answer: what the database refuses is tried again, for ever.
AnswerAgain(p) == Become(p, IF req[p].phase = "store" THEN req[p] ELSE Idle)

Answer(p) == Become(p, Idle)
\* The others that work for member m take note that role i came or went.
BecomeWith(p, q, m, i) ==
    req' = [o \in Requests |-> IF o = p THEN q
                               ELSE IF req[o].member = m
                               THEN [req[o] EXCEPT !.others = @ \cup {i}] ELSE req[o]]

-----------------------------------------------------------------------------
(* POST /roles/assign and /roles/remove: one commit per role.              *)

Open(p, q) ==
    /\ req[p].phase = "idle"
    /\ Become(p, q)
    /\ Spend(1)
    /\ UNCHANGED <<name, mapped, held, remote, recon, unpushed>>

CallLoop(p, op, m, ns) ==
    /\ Len(ns) > 0
    /\ Open(p, [Idle EXCEPT !.op = op, !.phase = "loop", !.names = ns, !.member = m,
                            !.named = Named("role")])

Next_(p) == req[p].named[req[p].names[req[p].at + 1]]
\* Mutant of Advanced: the loop returns after its first role.
AdvancedToEnd(p) == [req[p] EXCEPT !.at = Len(req[p].names)]

Advanced(p) == [req[p] EXCEPT !.at = @ + 1]
Remaining(p) == req[p].phase = "loop" /\ req[p].at < Len(req[p].names)

\* Mutant of Applicable: the rows of the roles are taken to be there still.
ApplicableUnseen(p) ==
    IF req[p].op = "assign" THEN Roles \ held[req[p].member] ELSE held[req[p].member]

\* Mutant of Applicable: a name that meant nothing is not told from a role.
ApplicableUnknown(p) ==
    IF req[p].op = "assign" THEN {NoId} \cup (Roles \ held[req[p].member])
    ELSE held[req[p].member]

\* Roles that can be assigned: their rows are there, the member has them not.
Applicable(p) ==
    IF req[p].op = "assign"
    THEN {i \in Roles : Exists(i)} \ held[req[p].member] ELSE held[req[p].member]

\* The answer is an error, or says that all is done.
EndLoop(p) ==
    /\ req[p].phase = "loop" /\ (Remaining(p) => Next_(p) \notin Applicable(p))
    /\ Answer(p)
    /\ UNCHANGED <<name, mapped, held, remote, recon, unpushed, events>>

AssignNext(p) ==
    LET m == req[p].member IN
    /\ Remaining(p) /\ req[p].op = "assign" /\ Next_(p) \in Applicable(p)
    /\ held' = [held EXCEPT ![m] = @ \cup {Next_(p)}]
    /\ BecomeWith(p, Advanced(p), m, Next_(p))
    /\ UNCHANGED <<name, mapped, remote, recon, unpushed, events>>

RemoveNext(p) ==
    LET m == req[p].member IN
    /\ Remaining(p) /\ req[p].op = "remove" /\ Next_(p) \in Applicable(p)
    /\ held' = [held EXCEPT ![m] = @ \ {Next_(p)}]
    /\ BecomeWith(p, Advanced(p), m, Next_(p))
    /\ UNCHANGED <<name, mapped, remote, recon, unpushed, events>>

-----------------------------------------------------------------------------
(* create_role, create_permission, update_*, delete_*.                     *)

\* The name is free when it is looked up; ns are the permissions of a role.
CallCreate(p, k, n, ns) ==
    /\ n \notin NamesOf(k) /\ (k = "permission" => ns = <<>>)
    /\ Open(p, [Idle EXCEPT !.op = "create", !.phase = "store", !.kind = k, !.names = ns,
                            !.new = n])

\* update and delete resolve the name; an unknown one is refused at once.
CallChange(p, op, k, n, new) ==
    /\ n \in NamesOf(k)
    /\ Open(p, [Idle EXCEPT !.op = op, !.phase = "store", !.kind = k,
                            !.id = Named(k)[n], !.new = new])

\* The row is gone, or another has the new name.
StoreRefused(p) ==
    LET q == req[p] IN
    /\ q.phase = "store" /\ ~Waits(q.kind, q.new)
    /\ \/ q.op # "create" /\ ~Exists(q.id) /\ Answer(p)
       \/ q.op = "create" /\ q.new \in NamesOf(q.kind) /\ Answer(p)
       \/ /\ q.op = "rename" /\ Exists(q.id)
          /\ q.new \in NamesOf(q.kind) \ {name[q.id]}
          /\ Answer(p)
    /\ UNCHANGED <<name, mapped, held, remote, recon, unpushed, events>>

StorePermission(p) ==
    LET q == req[p] IN
    /\ q.phase = "store" /\ q.op = "create" /\ q.kind = "permission"
    /\ q.new \notin NamesOf("permission")
    /\ \E i \in Fresh("permission") :
         /\ name' = [name EXCEPT ![i] = q.new]
         /\ Become(p, [q EXCEPT !.phase = "push", !.id = i])
    /\ UNCHANGED <<mapped, held, remote, recon, unpushed, events>>

\* A role is inserted; nobody sees it before the commit.
InsertRole(p) ==
    LET q == req[p] IN
    /\ q.phase = "store" /\ q.op = "create" /\ q.kind = "role"
    /\ q.new \notin NamesOf("role") /\ ~Inserting(q.new)
    /\ \E i \in Fresh("role") :
         /\ Become(p, [q EXCEPT !.phase = "look", !.id = i])
    /\ UNCHANGED <<name, mapped, held, remote, recon, unpushed, events>>

\* Each permission is looked up by name.  After a swallowed conflict the
\* session refuses every statement, the commit too.
LookUp(p) ==
    LET q == req[p]
        n == q.names[q.at + 1]
    IN
    /\ q.phase = "look" /\ q.at < Len(q.names)
    /\ IF q.dead THEN Answer(p)
       ELSE IF n \notin NamesOf("permission") THEN Answer(p)
       ELSE Become(p, [q EXCEPT !.phase = "map",
                                !.named = [@ EXCEPT ![n] = Named("permission")[n]]])
    /\ UNCHANGED <<name, mapped, held, remote, recon, unpushed, events>>

\* add_permission: the permission is gone, or listed twice; the conflict is
\* swallowed as "already mapped".
Map(p) ==
    LET q == req[p]
        i == q.named[q.names[q.at + 1]]
    IN
    /\ q.phase = "map"
    /\ Become(p, IF Exists(i) /\ i \notin q.mapped
                 THEN [q EXCEPT !.phase = "look", !.at = @ + 1, !.mapped = @ \cup {i}]
                 ELSE [q EXCEPT !.phase = "look", !.at = @ + 1, !.dead = TRUE])
    /\ UNCHANGED <<name, mapped, held, remote, recon, unpushed, events>>

\* Mutant of Committable: the session is as good as before the conflict.
CommittableAnyway(p) == TRUE

Committable(p) == ~req[p].dead

CommitRole(p) ==
    LET q == req[p] IN
    /\ q.phase = "look" /\ q.at = Len(q.names)
    /\ IF Committable(p)
       THEN /\ name' = [name EXCEPT ![q.id] = q.new]
            /\ mapped' = [mapped EXCEPT ![q.id] = q.mapped]
            /\ Become(p, [q EXCEPT !.phase = "push"])
       ELSE Answer(p) /\ UNCHANGED <<name, mapped>>
    /\ UNCHANGED <<held, remote, recon, unpushed, events>>

\* Mutant of Pushed: the name pushed is the one the caller knew.
PushedOld(p) == [req[p] EXCEPT !.phase = "push", !.new = name[req[p].id]]

Pushed(p) == [req[p] EXCEPT !.phase = "push"]

Rename(p) ==
    LET q == req[p] IN
    /\ q.phase = "store" /\ q.op = "rename" /\ Exists(q.id)
    /\ q.new \notin NamesOf(q.kind) \ {name[q.id]} /\ ~Waits(q.kind, q.new)
    /\ name' = [name EXCEPT ![q.id] = q.new]
    /\ Become(p, Pushed(p))
    /\ UNCHANGED <<mapped, held, remote, recon, unpushed, events>>

\* Mutant of Cascaded: the rows that refer to a row stay when it goes.
CascadedNot(i) == UNCHANGED <<mapped, held>>

\* The foreign keys cascade.
Cascaded(i) ==
    /\ mapped' = [r \in Roles |-> IF r = i THEN {} ELSE mapped[r] \ {i}]
    /\ held' = [m \in Members |-> held[m] \ {i}]

\* A permission an uncommitted role refers to is locked.  delete_role and
\* delete_permission of the adapter do nothing.
Delete(p) ==
    LET i == req[p].id IN
    /\ req[p].phase = "store" /\ req[p].op = "delete" /\ Exists(i)
    /\ \A o \in Requests : ~(req[o].phase \in {"look", "map"} /\ i \in req[o].mapped)
    /\ name' = [name EXCEPT ![i] = NoName]
    /\ Cascaded(i)
    /\ req' = [o \in Requests |->
          IF o = p THEN Idle
          ELSE IF req[o].phase = "loop" /\ i \in Roles
          THEN [req[o] EXCEPT !.others = @ \cup {i}] ELSE req[o]]
    /\ UNCHANGED <<remote, recon, unpushed, events>>

\* sync_role and sync_permission create the definition, or fail because it is
\* there; what fails is logged.
Push(p) ==
    LET q == req[p] IN
    /\ q.phase = "push"
    /\ remote' = [remote EXCEPT ![q.kind] = @ \cup {q.new}]
    /\ unpushed' = unpushed \ {<<q.kind, q.new>>}
    /\ Answer(p)
    /\ UNCHANGED <<name, mapped, held, recon, events>>

PushFails(p) ==
    LET q == req[p] IN
    /\ q.phase = "push"
    /\ unpushed' = IF q.new \in remote[q.kind] THEN unpushed
                   ELSE unpushed \cup {<<q.kind, q.new>>}
    /\ Answer(p)
    /\ Spend(1)
    /\ UNCHANGED <<name, mapped, held, remote, recon>>

\* The database fails or the process dies: what is not committed is undone,
\* what was to be pushed is not.
Fault(p) ==
    LET q == req[p] IN
    /\ q.phase # "idle"
    /\ unpushed' = IF q.phase = "push" /\ q.new \notin remote[q.kind]
                   THEN unpushed \cup {<<q.kind, q.new>>} ELSE unpushed
    /\ Answer(p)
    /\ Spend(1)
    /\ UNCHANGED <<name, mapped, held, remote, recon>>

-----------------------------------------------------------------------------
(* Descope's console, and the reconciliation of definitions.               *)

Console(k, n) ==
    /\ IF n \in remote[k]
       THEN /\ remote' = [remote EXCEPT ![k] = @ \ {n}]
            /\ unpushed' = unpushed \cup {<<k, n>>}
       ELSE /\ remote' = [remote EXCEPT ![k] = @ \cup {n}]
            /\ unpushed' = unpushed \ {<<k, n>>}
    /\ Spend(1)
    /\ UNCHANGED <<name, mapped, held, req, recon>>

ReconOnly == UNCHANGED <<mapped, held, remote, req, unpushed>>

Fetch ==
    /\ recon.phase = "idle"
    /\ recon' = [recon EXCEPT !.phase = "fetched", !.fetched = remote]
    /\ UNCHANGED <<name, events>> /\ ReconOnly

Load ==
    /\ recon.phase = "fetched"
    /\ recon' = [recon EXCEPT !.phase = "loaded", !.loaded = [k \in Kinds |-> NamesOf(k)]]
    /\ UNCHANGED <<name, events>> /\ ReconOnly

\* Mutant of Missing: permissions are taken from the roles that have them.
MissingRoles(k) ==
    IF k = "role" THEN recon.fetched[k] \ (recon.loaded[k] \cup NamesOf(k)) ELSE {}

\* Names no row had, and none has now: a conflict is skipped.
Missing(k) == recon.fetched[k] \ (recon.loaded[k] \cup NamesOf(k))

\* One transaction; it waits for the roles being inserted under the names.
Reconcile ==
    LET new == {x \in Kinds \X Names : x[2] \in Missing(x[1])} IN
    /\ recon.phase = "loaded"
    /\ \A x \in new : ~Waits(x[1], x[2])
    /\ \E id \in [new -> Ids] :
         /\ \A x \in new : id[x] \in Fresh(x[1])
         /\ IsInjective(id)
         /\ name' = [i \in Ids |-> IF \E x \in new : id[x] = i
                                   THEN (CHOOSE x \in new : id[x] = i)[2] ELSE name[i]]
    /\ recon' = AtRest
    /\ UNCHANGED events /\ ReconOnly

GiveUp ==
    /\ recon.phase = "loaded"
    /\ recon' = AtRest
    /\ Spend(1)
    /\ UNCHANGED name /\ ReconOnly

-----------------------------------------------------------------------------
Call(p) ==
    \/ \E op \in {"assign", "remove"}, m \in Members, ns \in Lists : CallLoop(p, op, m, ns)
    \/ \E k \in Kinds, n \in Names :
         \/ \E ns \in Lists : CallCreate(p, k, n, ns)
         \/ \E new \in Names : CallChange(p, "rename", k, n, new)
         \/ CallChange(p, "delete", k, n, NoName)
Work(p) ==
    \/ EndLoop(p) \/ AssignNext(p) \/ RemoveNext(p)
    \/ StoreRefused(p) \/ StorePermission(p) \/ InsertRole(p) \/ LookUp(p) \/ Map(p)
    \/ CommitRole(p) \/ Rename(p) \/ Delete(p) \/ Push(p)
ReconStep == Fetch \/ Load \/ Reconcile

Next ==
    \/ \E p \in Requests : Call(p) \/ Work(p) \/ PushFails(p) \/ Fault(p)
    \/ \E k \in Kinds, n \in Names : Console(k, n)
    \/ ReconStep \/ GiveUp

Spec == Init /\ [][Next]_vars

\* Handlers run to their end, reconciliation is run again and again.
Fairness == (\A p \in Requests : WF_vars(Work(p))) /\ WF_vars(ReconStep)
FairSpec == Spec /\ Fairness

-----------------------------------------------------------------------------
(* Properties.                                                             *)

\* Names are unique, and nothing refers to a row that is gone, whoever
\* creates, renames and deletes at once (the unique indexes and foreign keys
\* behind RoleService, PermissionService and _reconcile_roles).
Consistent ==
    /\ \A i, j \in Ids : Exists(i) /\ name[i] = name[j] /\ KindOf(i) = KindOf(j) => i = j
    /\ \A m \in Members : \A r \in held[m] : Exists(r)
    /\ \A r \in Roles : \A x \in mapped[r] : Exists(r) /\ Exists(x)

\* A definition Descope lacks was lost on the way to it, or there; or a push
\* of it is under way (create_role, update_role, create_permission, ...).
MissingHasCause ==
    \A k \in Kinds : \A n \in NamesOf(k) \ remote[k] :
        \/ <<k, n>> \in unpushed
        \/ \E p \in Requests : req[p].phase = "push" /\ req[p].kind = k /\ req[p].new = n

\* An assignment that got as far as its n-th name has assigned the roles of
\* the names before, all of them when it answers ok, and likewise a removal;
\* but for what others did to them since (the loops of assign and remove).
PrefixDone ==
    \A p \in Requests : LET q == req[p] IN
        q.phase = "loop" =>
            \A j \in 1..q.at :
                LET i == q.named[q.names[j]] IN
                i \in q.others \/ (i \in held[q.member] <=> q.op = "assign")

\* A role appears bare, brought by a reconciliation, or with every permission
\* its creator listed: a conflict on the way leaves nothing (create_role).
CreatedWhole ==
    [][\A r \in Roles : ~Exists(r) /\ Exists(r)' =>
         \/ recon.phase = "loaded" /\ recon'.phase = "idle" /\ mapped'[r] = {}
         \/ \E p \in Requests :
              /\ req[p].id = r /\ req[p].phase = "look"
              /\ Cardinality(mapped'[r]) = Len(req[p].names)]_vars

\* Who reads by names sees whole operations of the RoleStore and no ids: no
\* member's assignment nor any grant changes hands when roles and permissions
\* are created, renamed and deleted at once (RoleService, PermissionService and
\* _reconcile_roles above the unique indexes and foreign keys).
GrantsByName == UNION {{<<name[r], name[x]>> : x \in mapped[r]} : r \in Roles}
HoldersByName == UNION {{<<m, name[r]>> : r \in held[m]} : m \in Members}
Store == INSTANCE RoleStore WITH
    roles <- NamesOf("role"),
    permissions <- NamesOf("permission"),
    grants <- GrantsByName,
    holders <- HoldersByName
ByName == Store!Spec

\* Each request is answered, though one may wait for the name or the row
\* another has locked.
Answered == \A p \in Requests : req[p].phase # "idle" ~> req[p].phase = "idle"

\* Once the calls and the changes in Descope end, every definition there has
\* its row, for good (_reconcile_roles, _reconcile_permissions).
Adopted == <>[](\A k \in Kinds : remote[k] \subseteq NamesOf(k))
=============================================================================
