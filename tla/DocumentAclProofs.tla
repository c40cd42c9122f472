-------------------------- MODULE DocumentAclProofs --------------------------
(***************************************************************************)
(* Proofs about DocumentAcl for any users, any number of requests, any     *)
(* faults, any tuples written by administrators and any bounds.            *)
(*                                                                         *)
(* The two safety invariants rest on what a request holds at each phase    *)
(* (Phased) and on a delete knowing every tuple but the stray ones         *)
(* (Covered).                                                              *)
(***************************************************************************)
EXTENDS DocumentAcl, TLAPS

Compensating == {"strip", "remove", "restore"}

Phased ==
    \A p \in Requests :
        /\ req[p].pc \notin Compensating => req[p].done = {}
        /\ req[p].pc = "remove" => req[p].todo = {}
        /\ req[p].pc \in {"share", "grant", "revoke", "withdraw"} => req[p].tuple \in Tuples

\* Only the creating request is active until the creation has ended.
Creation ==
    /\ row = "new" =>
          tuples = {} /\ straggling = {} /\ \A p \in Requests : req[p].pc = "idle"
    /\ row = "creating" =>
          /\ tuples = {Ownership} /\ straggling = {}
          /\ \A p \in Requests : req[p].pc \in {"idle", "insert"}
    /\ \A p, q \in Requests :
          req[p].pc = "insert" => row = "creating" /\ (req[q].pc = "insert" => q = p)

Covered ==
    \A p \in Requests :
        req[p].pc \in {"strip", "remove"} => tuples \subseteq req[p].todo \cup stray

LEMMA OwnershipIsTuple == Ownership \in Tuples /\ Shares \subseteq Tuples
  BY ConstantsAssumption DEF Ownership, Tuples, Shares, Relations

LEMMA ReqShape ==
    ASSUME NEW pc \in Phases, NEW t \in Tuples \cup {NoTuple},
           NEW todo \in SUBSET Tuples, NEW done \in SUBSET Tuples
    PROVE  /\ Req(pc, t, todo, done) \in RequestStates
           /\ Req(pc, t, todo, done).pc = pc
           /\ Req(pc, t, todo, done).tuple = t
           /\ Req(pc, t, todo, done).todo = todo
           /\ Req(pc, t, todo, done).done = done
  BY DEF Req, RequestStates

LEMMA IdleShape ==
    /\ Idle \in RequestStates
    /\ Idle.pc = "idle" /\ Idle.done = {} /\ Idle.todo = {}
  BY DEF Idle, Req, RequestStates, Phases

LEMMA ReqTypes ==
    ASSUME TypeOK, NEW p \in Requests
    PROVE  /\ req[p].pc \in Phases
           /\ req[p].tuple \in Tuples \cup {NoTuple}
           /\ req[p].todo \subseteq Tuples
           /\ req[p].done \subseteq Tuples
  BY DEF TypeOK, RequestStates

-----------------------------------------------------------------------------
(* What a request becomes.                                                 *)

\* One step of p: a new request state that keeps the record well formed.
LEMMA Became ==
    ASSUME TypeOK, NEW p \in Requests, NEW r \in RequestStates, Become(p, r)
    PROVE  /\ req' \in [Requests -> RequestStates]
           /\ req'[p] = r
           /\ \A q \in Requests \ {p} : req'[q] = req[q]
  BY DEF TypeOK, Become

LEMMA Restored ==
    ASSUME TypeOK, NEW p \in Requests, NEW D \in SUBSET Tuples, Restoring(p, D)
    PROVE  /\ req' \in [Requests -> RequestStates]
           /\ \A q \in Requests \ {p} : req'[q] = req[q]
           /\ req'[p].done = D
           /\ req'[p].pc \in {"idle", "restore"}
           /\ req'[p].pc = "idle" => D = {}
<1>1. CASE D = {}
  BY <1>1, IdleShape, Became DEF Restoring
<1>2. CASE D # {}
  <2> DEFINE r == Req("restore", NoTuple, {}, D)
  <2>1. r \in RequestStates /\ r.pc = "restore" /\ r.done = D BY ReqShape DEF Phases
  <2> HIDE DEF r
  <2>2. Become(p, r) BY <1>2 DEF Restoring, r
  <2>3. QED BY <1>2, <2>1, <2>2, Became
<1>3. QED BY <1>1, <1>2

\* The types of all but the requests.
StoresOK ==
    /\ row \in Rows
    /\ tuples \in SUBSET Tuples
    /\ straggling \in SUBSET ({"create", "delete"} \X Tuples)
    /\ granted \in SUBSET Tuples
    /\ missing \in [Tuples -> Causes]
    /\ stray \in SUBSET Tuples

LEMMA AddedOK ==
    ASSUME StoresOK, NEW t \in Tuples, Added(t)
    PROVE  tuples' \in SUBSET Tuples /\ missing' \in [Tuples -> Causes]
           /\ stray' \in SUBSET Tuples
  BY DEF StoresOK, Added, Causes

LEMMA RemovedOK ==
    ASSUME StoresOK, NEW t \in Tuples, NEW why \in Causes, Removed(t, why)
    PROVE  tuples' \in SUBSET Tuples /\ missing' \in [Tuples -> Causes]
           /\ stray' \in SUBSET Tuples
  BY DEF StoresOK, Removed

LEMMA MissingOK ==
    ASSUME StoresOK, NEW T \in SUBSET Tuples, NEW why \in Causes, Missing(T, why)
    PROVE  missing' \in [Tuples -> Causes]
  BY DEF StoresOK, Missing

LEMMA GivenUpOK ==
    ASSUME StoresOK, NEW t \in Tuples, NEW call \in {"create", "delete"}, GivenUp(call, t)
    PROVE  straggling' \in SUBSET ({"create", "delete"} \X Tuples)
  BY DEF StoresOK, GivenUp

LEMMA InitTypeOK == Init => TypeOK /\ Phased
  BY IdleShape DEF Init, TypeOK, Phased, Rows, Causes

\* A request at pc is where Phased allows it to be.
PhasedAt(r) ==
    /\ r.pc \notin Compensating => r.done = {}
    /\ r.pc = "remove" => r.todo = {}
    /\ r.pc \in {"share", "grant", "revoke", "withdraw"} => r.tuple \in Tuples

\* The step of one request keeps the shape of all.
LEMMA ShapeOfStep ==
    ASSUME TypeOK, Phased, StoresOK', NEW p \in Requests,
           NEW r \in RequestStates, PhasedAt(r), Become(p, r)
    PROVE  TypeOK' /\ Phased'
  BY Became DEF TypeOK, StoresOK, Phased, PhasedAt

LEMMA ShapeOfRestore ==
    ASSUME TypeOK, Phased, StoresOK', NEW p \in Requests,
           NEW D \in SUBSET Tuples, Restoring(p, D)
    PROVE  TypeOK' /\ Phased'
<1>1. PhasedAt(req'[p])
  BY Restored DEF PhasedAt, Compensating
<1>2. QED BY <1>1, Restored DEF TypeOK, StoresOK, Phased, PhasedAt

LEMMA IdlePhased == PhasedAt(Idle)
  BY IdleShape DEF PhasedAt

LEMMA CreateShape ==
    ASSUME TypeOK, Phased, NEW p \in Requests,
           CreateOwner(p) \/ InsertRow(p) \/ InsertFails(p) \/ UndoOwner(p)
    PROVE  TypeOK' /\ Phased'
<1> USE OwnershipIsTuple, IdleShape, IdlePhased
<1> StoresOK BY DEF TypeOK, StoresOK
<1>1. CASE CreateOwner(p)
  <2> DEFINE r == Req("insert", Ownership, {}, {})
  <2>1. r \in RequestStates /\ PhasedAt(r) BY ReqShape DEF Phases, PhasedAt
  <2> HIDE DEF r
  <2>2. StoresOK'
    BY <1>1, AddedOK, GivenUpOK DEF CreateOwner, Refused, StoreUnchanged, StoresOK, Rows
  <2>3. Become(p, r) \/ Become(p, Idle) BY <1>1 DEF CreateOwner, r
  <2>4. QED BY <2>1, <2>2, <2>3, ShapeOfStep
<1>2. CASE InsertRow(p)
  <2>1. StoresOK' BY <1>2 DEF InsertRow, StoresOK, Rows
  <2>2. QED BY <1>2, <2>1, ShapeOfStep DEF InsertRow
<1>3. CASE InsertFails(p)
  <2> DEFINE r == Req("undo", Ownership, {}, {})
  <2>1. r \in RequestStates /\ PhasedAt(r) BY ReqShape DEF Phases, PhasedAt
  <2> HIDE DEF r
  <2>2. StoresOK' BY <1>3 DEF InsertFails, CommitRaises, StoresOK, Rows
  <2>3. Become(p, r) BY <1>3 DEF InsertFails, r
  <2>4. QED BY <2>1, <2>2, <2>3, ShapeOfStep
<1>4. CASE UndoOwner(p)
  <2>1. StoresOK' BY <1>4, RemovedOK, GivenUpOK DEF UndoOwner, StoresOK, Causes
  <2>2. QED BY <1>4, <2>1, ShapeOfStep DEF UndoOwner
<1>5. QED BY <1>1, <1>2, <1>3, <1>4

LEMMA EntryShape ==
    ASSUME TypeOK, Phased, NEW p \in Requests,
           \/ AuthorizeDelete(p)
           \/ \E t \in Shares : AuthorizeShare(p, t)
           \/ \E u \in Users : AuthorizeRevoke(p, u)
           \/ ReadRow(p) \/ ListRelations(p)
    PROVE  TypeOK' /\ Phased'
<1> USE OwnershipIsTuple, IdleShape, IdlePhased
<1>1. StoresOK'
  BY DEF TypeOK, StoresOK, AuthorizeDelete, AuthorizeShare, AuthorizeRevoke, ReadRow,
         ListRelations, RequestsOnly
<1>3. CASE AuthorizeDelete(p)
  <2> DEFINE r == Req("delete", NoTuple, {}, {})
  <2>1. r \in RequestStates /\ PhasedAt(r) BY ReqShape DEF Phases, PhasedAt
  <2> HIDE DEF r
  <2>2. QED BY <1>1, <1>3, <2>1, ShapeOfStep DEF AuthorizeDelete, r
<1>4. ASSUME NEW t \in Shares, AuthorizeShare(p, t) PROVE TypeOK' /\ Phased'
  <2> DEFINE r == Req("share", t, {}, {})
  <2>1. r \in RequestStates /\ PhasedAt(r) BY ReqShape DEF Phases, PhasedAt
  <2> HIDE DEF r
  <2>2. QED BY <1>1, <1>4, <2>1, ShapeOfStep DEF AuthorizeShare, r
<1>5. ASSUME NEW u \in Users, AuthorizeRevoke(p, u) PROVE TypeOK' /\ Phased'
  <2> DEFINE r == Req("revoke", <<"viewer", u>>, {}, {})
  <2>1. <<"viewer", u>> \in Tuples BY DEF Tuples, Relations
  <2>2. r \in RequestStates /\ PhasedAt(r) BY <2>1, ReqShape DEF Phases, PhasedAt
  <2> HIDE DEF r
  <2>3. QED BY <1>1, <1>5, <2>2, ShapeOfStep DEF AuthorizeRevoke, r
<1>6. CASE ReadRow(p)
  <2>1. PICK step \in {<<"delete", "list">>, <<"share", "grant">>, <<"revoke", "withdraw">>} :
           /\ req[p].pc = step[1]
           /\ Become(p, IF row = "present" THEN Req(step[2], req[p].tuple, {}, {}) ELSE Idle)
    BY <1>6 DEF ReadRow
  <2> DEFINE to == step[2]
             r == Req(to, req[p].tuple, {}, {})
  <2>2. to \in {"list", "grant", "withdraw"} OBVIOUS
  <2>3. to \in {"grant", "withdraw"} => req[p].tuple \in Tuples BY <2>1 DEF Phased
  <2>4. Become(p, r) \/ Become(p, Idle) BY <2>1
  <2> HIDE DEF to
  <2>5. /\ r \in RequestStates /\ r.pc = to /\ r.tuple = req[p].tuple
        /\ r.todo = {} /\ r.done = {}
    BY <2>2, ReqTypes DEF Req, RequestStates, Phases
  <2> HIDE DEF r
  <2>6. PhasedAt(r) BY <2>2, <2>3, <2>5 DEF PhasedAt
  <2>7. QED BY <1>1, <2>4, <2>5, <2>6, ShapeOfStep
<1>7. CASE ListRelations(p)
  <2> DEFINE r == Req("strip", NoTuple, tuples, {})
             s == Req("remove", NoTuple, {}, {})
  <2>1. r \in RequestStates /\ PhasedAt(r)
    <3>1. /\ r \in RequestStates /\ r.pc = "strip"
      BY DEF Req, RequestStates, Phases, TypeOK
    <3> HIDE DEF r
    <3>2. QED BY <3>1 DEF PhasedAt, Compensating
  <2>2. s \in RequestStates /\ PhasedAt(s) BY ReqShape DEF Phases, PhasedAt
  <2>3. Become(p, r) \/ Become(p, s) \/ Become(p, Idle) BY <1>7 DEF ListRelations
  <2> HIDE DEF r, s
  <2>4. QED BY <1>1, <2>1, <2>2, <2>3, ShapeOfStep
<1>8. QED BY <1>3, <1>4, <1>5, <1>6, <1>7

LEMMA DeleteShape ==
    ASSUME TypeOK, Phased, NEW p \in Requests,
           \/ \E t \in req[p].todo : StripRelation(p, t) \/ StripFails(p, t)
           \/ \E t \in req[p].done : RestoreRelation(p, t)
           \/ RemoveRow(p) \/ RemoveFails(p)
    PROVE  TypeOK' /\ Phased'
<1> USE IdleShape, IdlePhased, ReqTypes
<1> StoresOK BY DEF TypeOK, StoresOK
<1>1. ASSUME NEW t \in req[p].todo, StripRelation(p, t) PROVE TypeOK' /\ Phased'
  <2> DEFINE rest == req[p].todo \ {t}
             pc == IF rest = {} THEN "remove" ELSE "strip"
             r == Req(pc, NoTuple, rest, req[p].done \cup {t})
  <2>1. r \in RequestStates /\ PhasedAt(r)
    <3>1. /\ r \in RequestStates /\ r.pc = pc /\ r.todo = rest
      <4>1. pc \in Phases /\ rest \in SUBSET Tuples BY DEF Phases
      <4>2. req[p].done \cup {t} \in SUBSET Tuples OBVIOUS
      <4> HIDE DEF pc, rest
      <4>3. QED BY <4>1, <4>2 DEF Req, RequestStates
    <3> HIDE DEF r
    <3>2. QED BY <3>1 DEF PhasedAt, Compensating
  <2>2. StoresOK' BY <1>1, RemovedOK DEF StripRelation, StoresOK, Causes
  <2>3. Become(p, r) BY <1>1 DEF StripRelation
  <2> HIDE DEF r
  <2>4. QED BY <2>1, <2>2, <2>3, ShapeOfStep
<1>2. ASSUME NEW t \in req[p].todo, StripFails(p, t) PROVE TypeOK' /\ Phased'
  <2>1. StoresOK' BY <1>2, GivenUpOK DEF StripFails, StoreUnchanged, StoresOK
  <2>2. QED BY <1>2, <2>1, ShapeOfRestore DEF StripFails
<1>3. ASSUME NEW t \in req[p].done, RestoreRelation(p, t) PROVE TypeOK' /\ Phased'
  <2>1. StoresOK'
    BY <1>3, AddedOK, MissingOK, GivenUpOK DEF RestoreRelation, StoresOK, Causes
  <2>2. QED BY <1>3, <2>1, ShapeOfRestore DEF RestoreRelation
<1>4. CASE RemoveRow(p)
  <2>1. StoresOK' BY <1>4 DEF RemoveRow, StoresOK, Rows
  <2>2. QED BY <1>4, <2>1, ShapeOfStep DEF RemoveRow
<1>5. CASE RemoveFails(p)
  <2>1. StoresOK'
    BY <1>5 DEF RemoveFails, CommitRaises, StoresOK, Rows
  <2>2. QED BY <1>5, <2>1, ShapeOfRestore DEF RemoveFails
<1>6. QED BY <1>1, <1>2, <1>3, <1>4, <1>5

LEMMA ShareShape ==
    ASSUME TypeOK, Phased, NEW p \in Requests, ShareRelation(p) \/ RevokeRelation(p) \/ Crash(p)
    PROVE  TypeOK' /\ Phased'
<1> USE IdleShape, IdlePhased, ReqTypes, OwnershipIsTuple
<1> StoresOK BY DEF TypeOK, StoresOK
<1>1. CASE ShareRelation(p)
  <2>1. req[p].tuple \in Tuples BY <1>1 DEF Phased, ShareRelation
  <2>2. StoresOK'
    BY <1>1, <2>1, AddedOK, GivenUpOK DEF ShareRelation, Refused, StoreUnchanged, StoresOK
  <2>3. QED BY <1>1, <2>2, ShapeOfStep DEF ShareRelation
<1>2. CASE RevokeRelation(p)
  <2>1. req[p].tuple \in Tuples BY <1>2 DEF Phased, RevokeRelation
  <2>2. StoresOK'
    BY <1>2, <2>1, RemovedOK, GivenUpOK
    DEF RevokeRelation, Refused, StoreUnchanged, StoresOK, Causes
  <2> DEFINE r == Req("withdraw", <<"editor", req[p].tuple[2]>>, {}, {})
  <2>3. <<"editor", req[p].tuple[2]>> \in Tuples BY <2>1 DEF Tuples, Relations
  <2>4. r \in RequestStates /\ PhasedAt(r) BY <2>3, ReqShape DEF Phases, PhasedAt
  <2>5. Become(p, r) \/ Become(p, Idle) BY <1>2 DEF RevokeRelation, Withdrawn
  <2> HIDE DEF r
  <2>6. QED BY <2>2, <2>4, <2>5, ShapeOfStep
<1>3. CASE Crash(p)
  <2>1. StoresOK' BY <1>3, MissingOK DEF Crash, StoresOK, Causes, Rows
  <2>2. QED BY <1>3, <2>1, ShapeOfStep DEF Crash
<1>4. QED BY <1>1, <1>2, <1>3

LEMMA StoreShape ==
    ASSUME TypeOK, Phased, NEW t \in Tuples,
           \/ AdminCreate(t) \/ AdminDelete(t)
           \/ \E call \in {"create", "delete"} : Land(call, t) \/ Lose(call, t)
    PROVE  TypeOK' /\ Phased'
<1> StoresOK BY DEF TypeOK, StoresOK
<1>1. StoresOK'
  BY AddedOK, RemovedOK DEF AdminCreate, AdminDelete, Land, Lose, StoresOK, Causes
<1>2. req' = req BY DEF AdminCreate, AdminDelete, Land, Lose
<1>3. QED BY <1>1, <1>2 DEF TypeOK, StoresOK, Phased

LEMMA StepShape == ASSUME TypeOK, Phased, [Next]_vars PROVE TypeOK' /\ Phased'
<1>1. CASE UNCHANGED vars BY <1>1 DEF vars, TypeOK, Phased
<1>2. QED
  BY <1>1, CreateShape, EntryShape, DeleteShape, ShareShape, StoreShape DEF Next, Continue

-----------------------------------------------------------------------------
(* Grants survive.                                                         *)

Safe(t) == t \in tuples \/ missing[t] # "none"

LEMMA HeldBySome == \A t : t \in Held <=> \E p \in Requests : t \in req[p].done
  BY DEF Held

\* p answers for what it holds; the other requests hold what they held.
LEMMA GrantsFrame ==
    ASSUME GrantsSurvive, NEW p \in Requests,
           \A q \in Requests \ {p} : req'[q] = req[q],
           \A t \in granted' :
              \/ t \in req'[p].done
              \/ Safe(t)'
              \/ t \in granted /\ t \notin req[p].done /\ ~Safe(t)
    PROVE  GrantsSurvive'
<1> SUFFICES ASSUME NEW t \in granted' PROVE Safe(t)' \/ \E q \in Requests : t \in req'[q].done
  BY HeldBySome DEF GrantsSurvive, Safe, Held
<1>1. CASE t \in granted /\ t \notin req[p].done /\ ~Safe(t)
  <2>1. PICK q \in Requests : t \in req[q].done
    BY <1>1, HeldBySome DEF GrantsSurvive, Safe
  <2>2. QED BY <1>1, <2>1
<1>2. QED BY <1>1

LEMMA AddedSafe ==
    ASSUME TypeOK, NEW t \in Tuples, Added(t)
    PROVE  Safe(t)' /\ \A x \in Tuples : Safe(x) => Safe(x)'
  BY DEF TypeOK, Added, Safe

LEMMA RemovedSafe ==
    ASSUME TypeOK, NEW t \in Tuples, NEW why, Removed(t, why)
    PROVE  /\ \A x \in Tuples \ {t} : Safe(x) => Safe(x)'
           /\ why # "none" /\ Safe(t) => Safe(t)'
  BY DEF TypeOK, Removed, Safe

LEMMA MissingSafe ==
    ASSUME TypeOK, NEW T \in SUBSET Tuples, NEW why, why # "none",
           Missing(T, why), UNCHANGED tuples
    PROVE  /\ \A x \in T : Safe(x)'
           /\ \A x \in Tuples : Safe(x) => Safe(x)'
  BY DEF TypeOK, Missing, Safe


LEMMA GrantsCreate ==
    ASSUME TypeOK, Phased, Creation, GrantsSurvive, NEW p \in Requests,
           CreateOwner(p) \/ InsertRow(p) \/ InsertFails(p) \/ UndoOwner(p)
    PROVE  GrantsSurvive'
<1>1. \A q \in Requests \ {p} : req'[q] = req[q]
  BY DEF CreateOwner, InsertRow, InsertFails, UndoOwner, Become, TypeOK
<1>2. req[p].done = {}
  BY DEF CreateOwner, InsertRow, InsertFails, UndoOwner, Phased, Compensating
<1>3. granted \subseteq Tuples BY DEF TypeOK
<1>4. CASE CreateOwner(p)
  <2>1. \A x \in Tuples : Safe(x) => Safe(x)'
    BY <1>4, AddedSafe, OwnershipIsTuple DEF CreateOwner, Refused, StoreUnchanged, Safe
  <2>2. QED BY <1>1, <1>2, <1>3, <1>4, <2>1, GrantsFrame DEF CreateOwner
<1>5. CASE UndoOwner(p)
  <2>1. \A x \in Tuples : Safe(x) => Safe(x)'
    BY <1>5, RemovedSafe, OwnershipIsTuple DEF UndoOwner, Safe
  <2>2. QED BY <1>1, <1>2, <1>3, <1>5, <2>1, GrantsFrame DEF UndoOwner
<1>6. CASE InsertFails(p)
  BY <1>1, <1>2, <1>3, <1>6, GrantsFrame DEF InsertFails, Safe
<1>7. CASE InsertRow(p)
  <2>1. Ownership \in tuples BY <1>7 DEF InsertRow, Creation
  <2>2. Safe(Ownership)' BY <1>7, <2>1 DEF InsertRow, Safe
  <2>3. \A x : Safe(x)' <=> Safe(x) BY <1>7 DEF InsertRow, Safe
  <2>4. QED BY <1>1, <1>2, <1>7, <2>2, <2>3, GrantsFrame DEF InsertRow
<1>8. QED BY <1>4, <1>5, <1>6, <1>7

LEMMA GrantsEntry ==
    ASSUME TypeOK, Phased, GrantsSurvive, NEW p \in Requests,
           \/ AuthorizeDelete(p)
           \/ \E t \in Shares : AuthorizeShare(p, t)
           \/ \E u \in Users : AuthorizeRevoke(p, u)
           \/ ReadRow(p) \/ ListRelations(p)
    PROVE  GrantsSurvive'
<1>1. UNCHANGED <<tuples, missing, granted>>
  BY DEF AuthorizeDelete, AuthorizeShare, AuthorizeRevoke, ReadRow, ListRelations, RequestsOnly
<1>2. \A q \in Requests \ {p} : req'[q] = req[q]
  BY DEF AuthorizeDelete, AuthorizeShare, AuthorizeRevoke, ReadRow, ListRelations, Become, TypeOK
<1>3. req[p].done = {}
  <2>1. ReadRow(p) => req[p].pc \in {"delete", "share", "revoke"} BY DEF ReadRow
  <2>2. QED
    BY <2>1 DEF AuthorizeDelete, AuthorizeShare, AuthorizeRevoke, ListRelations, Phased,
                Compensating
<1>4. QED BY <1>1, <1>2, <1>3, GrantsFrame DEF Safe

LEMMA GrantsDelete ==
    ASSUME TypeOK, Phased, GrantsSurvive, NEW p \in Requests,
           \/ \E t \in req[p].todo : StripRelation(p, t) \/ StripFails(p, t)
           \/ \E t \in req[p].done : RestoreRelation(p, t)
           \/ RemoveRow(p) \/ RemoveFails(p)
    PROVE  GrantsSurvive'
<1> USE ReqTypes
<1>1. granted \subseteq Tuples BY DEF TypeOK
<1>2. ASSUME NEW t \in req[p].todo, StripRelation(p, t) PROVE GrantsSurvive'
  <2>1. \A q \in Requests \ {p} : req'[q] = req[q] BY <1>2 DEF StripRelation, Become, TypeOK
  <2>2. req'[p].done = req[p].done \cup {t} BY <1>2 DEF StripRelation, Become, Req, TypeOK
  <2>3. \A x \in Tuples \ {t} : Safe(x) => Safe(x)' BY <1>2, RemovedSafe DEF StripRelation
  <2>4. granted' = granted BY <1>2 DEF StripRelation
  <2>5. QED BY <1>1, <2>1, <2>2, <2>3, <2>4, GrantsFrame
<1>3. ASSUME NEW t \in req[p].todo, StripFails(p, t) PROVE GrantsSurvive'
  BY <1>3, Restored, GrantsFrame DEF StripFails, StoreUnchanged, Safe
<1>4. ASSUME NEW t \in req[p].done, RestoreRelation(p, t) PROVE GrantsSurvive'
  <2>1. /\ \A q \in Requests \ {p} : req'[q] = req[q]
        /\ req'[p].done = req[p].done \ {t}
    BY <1>4, Restored DEF RestoreRelation
  <2>2. Safe(t)' /\ \A x \in Tuples : Safe(x) => Safe(x)'
    <3>1. CASE Added(t) BY <3>1, AddedSafe
    <3>2. CASE Missing({t}, "compensation") /\ UNCHANGED tuples BY <3>2, MissingSafe
    <3>3. QED BY <1>4, <3>1, <3>2 DEF RestoreRelation
  <2>3. granted' = granted BY <1>4 DEF RestoreRelation
  <2>4. QED BY <1>1, <2>1, <2>2, <2>3, GrantsFrame
<1>5. CASE RemoveRow(p)
  BY <1>5 DEF RemoveRow, GrantsSurvive
<1>6. CASE RemoveFails(p)
  BY <1>6, Restored, GrantsFrame DEF RemoveFails, Safe
<1>7. QED BY <1>2, <1>3, <1>4, <1>5, <1>6

LEMMA GrantsShare ==
    ASSUME TypeOK, Phased, GrantsSurvive, NEW p \in Requests,
           ShareRelation(p) \/ RevokeRelation(p) \/ Crash(p)
    PROVE  GrantsSurvive'
<1> USE ReqTypes
<1>1. granted \subseteq Tuples BY DEF TypeOK
<1>2. \A q \in Requests \ {p} : req'[q] = req[q]
  BY DEF ShareRelation, RevokeRelation, Withdrawn, Crash, Become, TypeOK
<1>3. CASE ShareRelation(p)
  <2> DEFINE t == req[p].tuple
  <2>1. t \in Tuples /\ req[p].done = {} BY <1>3 DEF Phased, ShareRelation, Compensating
  <2>2. CASE Added(t) /\ granted' = granted \cup {t}
    BY <1>1, <1>2, <2>1, <2>2, AddedSafe, GrantsFrame
  <2>3. CASE StoreUnchanged /\ UNCHANGED granted
    BY <1>2, <2>1, <2>3, GrantsFrame DEF StoreUnchanged, Safe
  <2>4. QED BY <1>3, <2>2, <2>3 DEF ShareRelation, Refused
<1>4. CASE RevokeRelation(p)
  <2> DEFINE t == req[p].tuple
  <2>1. t \in Tuples /\ req[p].done = {} BY <1>4 DEF Phased, RevokeRelation, Compensating
  <2>2. CASE Removed(t, "none") /\ granted' = granted \ {t}
    BY <1>1, <1>2, <2>1, <2>2, RemovedSafe, GrantsFrame
  <2>3. CASE StoreUnchanged /\ granted' \subseteq granted
    BY <1>2, <2>1, <2>3, GrantsFrame DEF StoreUnchanged, Safe
  <2>4. QED BY <1>4, <2>2, <2>3 DEF RevokeRelation, Refused
<1>5. CASE Crash(p)
  <2>1. (\A x \in req[p].done : Safe(x)') /\ \A x \in Tuples : Safe(x) => Safe(x)'
    BY <1>5, MissingSafe DEF Crash
  <2>2. granted' = granted BY <1>5 DEF Crash
  <2>3. QED BY <1>1, <1>2, <2>1, <2>2, GrantsFrame
<1>6. QED BY <1>3, <1>4, <1>5

LEMMA GrantsStore ==
    ASSUME TypeOK, GrantsSurvive, NEW t \in Tuples,
           \/ AdminCreate(t) \/ AdminDelete(t)
           \/ \E call \in {"create", "delete"} : Land(call, t) \/ Lose(call, t)
    PROVE  GrantsSurvive'
<1>1. req' = req BY DEF AdminCreate, AdminDelete, Land, Lose
<1>2. \A x : x \in Held' <=> x \in Held BY <1>1 DEF Held
<1>3. granted \subseteq Tuples BY DEF TypeOK
<1>4. \A x \in granted' : Safe(x)' \/ (x \in granted /\ ~Safe(x))
  <2>1. CASE AdminCreate(t) BY <1>3, <2>1, AddedSafe DEF AdminCreate
  <2>2. CASE AdminDelete(t) BY <1>3, <2>2, RemovedSafe DEF AdminDelete
  <2>3. ASSUME NEW call \in {"create", "delete"}, Land(call, t)
        PROVE  \A x \in granted' : Safe(x)' \/ (x \in granted /\ ~Safe(x))
    BY <1>3, <2>3, AddedSafe, RemovedSafe DEF Land
  <2>4. ASSUME NEW call \in {"create", "delete"}, Lose(call, t)
        PROVE  \A x \in granted' : Safe(x)' \/ (x \in granted /\ ~Safe(x))
    BY <1>3, <2>4 DEF Lose, Safe
  <2>5. QED BY <2>1, <2>2, <2>3, <2>4
<1>5. QED BY <1>2, <1>4 DEF GrantsSurvive, Safe

LEMMA StepGrants ==
    ASSUME TypeOK, Phased, Creation, GrantsSurvive, [Next]_vars PROVE GrantsSurvive'
<1>1. CASE UNCHANGED vars BY <1>1 DEF vars, GrantsSurvive, Held
<1>2. QED
  BY <1>1, GrantsCreate, GrantsEntry, GrantsDelete, GrantsShare, GrantsStore DEF Next, Continue

-----------------------------------------------------------------------------
(* The creation, and what a delete knows of the tuples.                    *)

\* Until the creation has ended, no other action can happen.
LEMMA StepCreation == ASSUME TypeOK, Creation, [Next]_vars PROVE Creation'
<1>1. CASE UNCHANGED vars BY <1>1 DEF vars, Creation
<1>2. ASSUME NEW p \in Requests,
             CreateOwner(p) \/ InsertRow(p) \/ InsertFails(p) \/ UndoOwner(p) \/ Crash(p)
      PROVE Creation'
  <2>1. CASE CreateOwner(p)
    <3>1. row = "new" /\ tuples = {} /\ straggling = {}
          /\ \A q \in Requests : req[q].pc = "idle"
      BY <2>1 DEF CreateOwner, Creation
    <3>2. CASE row' = "creating"
      <4>1. Added(Ownership) /\ UNCHANGED straggling
            /\ Become(p, Req("insert", Ownership, {}, {}))
        BY <2>1, <3>2 DEF CreateOwner
      <4>2. req'[p].pc = "insert" /\ \A q \in Requests \ {p} : req'[q] = req[q]
        BY <4>1 DEF Become, Req, TypeOK
      <4>3. tuples' = {Ownership} BY <3>1, <4>1 DEF Added
      <4>4. QED BY <3>1, <3>2, <4>1, <4>2, <4>3 DEF Creation
    <3>3. CASE row' # "creating"
      <4>1. row' = "absent" /\ Become(p, Idle) BY <2>1, <3>3 DEF CreateOwner
      <4>2. \A q \in Requests : req'[q].pc = "idle"
        BY <3>1, <4>1, IdleShape DEF Become, TypeOK
      <4>3. QED BY <4>1, <4>2 DEF Creation
    <3>4. QED BY <3>2, <3>3
  <2>2. CASE InsertRow(p) \/ InsertFails(p) \/ (Crash(p) /\ req[p].pc = "insert")
    <3>1. \A q \in Requests : req[q].pc = "insert" => q = p
      BY <2>2 DEF InsertRow, InsertFails, Creation
    <3>2. req'[p].pc # "insert" /\ \A q \in Requests \ {p} : req'[q] = req[q]
      BY <2>2, IdleShape DEF InsertRow, InsertFails, Crash, Become, Req, TypeOK
    <3>3. row' \in {"present", "absent"}
      BY <2>2 DEF InsertRow, InsertFails, Crash, CommitRaises
    <3>4. QED BY <3>1, <3>2, <3>3 DEF Creation
  <2>3. CASE UndoOwner(p) \/ (Crash(p) /\ req[p].pc # "insert")
    <3>1. row \notin {"new", "creating"} /\ row' = row
      BY <2>3 DEF UndoOwner, Crash, Creation
    <3>2. req'[p].pc = "idle" /\ \A q \in Requests \ {p} : req'[q] = req[q]
      BY <2>3, IdleShape DEF UndoOwner, Crash, Become, TypeOK
    <3>3. QED BY <3>1, <3>2 DEF Creation
  <2>4. QED BY <1>2, <2>1, <2>2, <2>3
<1>3. ASSUME NEW p \in Requests,
             \/ AuthorizeDelete(p)
             \/ \E t \in Shares : AuthorizeShare(p, t)
             \/ \E u \in Users : AuthorizeRevoke(p, u)
             \/ ReadRow(p) \/ ListRelations(p)
             \/ \E t \in req[p].todo : StripRelation(p, t) \/ StripFails(p, t)
             \/ \E t \in req[p].done : RestoreRelation(p, t)
             \/ RemoveRow(p) \/ RemoveFails(p)
             \/ ShareRelation(p) \/ RevokeRelation(p)
      PROVE Creation'
  <2>1. row \notin {"new", "creating"}
    <3>1. ReadRow(p) => req[p].pc \in {"delete", "share", "revoke"} BY DEF ReadRow
    <3>2. QED
      BY <1>3, <3>1 DEF AuthorizeDelete, AuthorizeShare, AuthorizeRevoke, Known, ListRelations,
           StripRelation, StripFails, RestoreRelation, RemoveRow, RemoveFails, ShareRelation,
           RevokeRelation, Creation
  <2>2. row' \notin {"new", "creating"}
    BY <1>3, <2>1 DEF AuthorizeDelete, AuthorizeShare, AuthorizeRevoke, ReadRow, ListRelations,
           RequestsOnly, StripRelation, StripFails, RestoreRelation, RemoveRow, RemoveFails,
           CommitRaises, ShareRelation, RevokeRelation
  <2>3. req'[p].pc # "insert" /\ \A q \in Requests \ {p} : req'[q] = req[q]
    <3>1. CASE ReadRow(p) BY <3>1 DEF ReadRow, Become, Req, Idle, TypeOK
    <3>2. CASE \/ \E t \in req[p].todo : StripRelation(p, t) \/ StripFails(p, t)
               \/ \E t \in req[p].done : RestoreRelation(p, t)
               \/ RemoveRow(p) \/ RemoveFails(p)
      <4>1. CASE \E t \in req[p].todo : StripRelation(p, t)
        BY <4>1 DEF StripRelation, Become, Req, TypeOK
      <4>2. CASE RemoveRow(p) BY <4>2 DEF RemoveRow, Become, Idle, Req, TypeOK
      <4>3. CASE \E D \in SUBSET Tuples : Restoring(p, D) BY <4>3, Restored
      <4>4. QED
        BY <3>2, <4>1, <4>2, <4>3, ReqTypes DEF StripFails, RestoreRelation, RemoveFails
    <3>3. CASE ShareRelation(p) \/ RevokeRelation(p)
      BY <3>3 DEF ShareRelation, RevokeRelation, Withdrawn, Become, Req, Idle, TypeOK
    <3>4. CASE \/ AuthorizeDelete(p) \/ ListRelations(p)
               \/ \E t \in Shares : AuthorizeShare(p, t)
               \/ \E u \in Users : AuthorizeRevoke(p, u)
      BY <3>4 DEF AuthorizeDelete, AuthorizeShare, AuthorizeRevoke, ListRelations,
                  Become, Req, Idle, TypeOK
    <3>5. QED BY <1>3, <3>1, <3>2, <3>3, <3>4
  <2>4. \A q \in Requests : req'[q].pc = "insert" => req[q].pc = "insert"
    BY <2>3
  <2>5. QED BY <2>1, <2>2, <2>4 DEF Creation
<1>4. ASSUME NEW t \in Tuples,
             \/ AdminCreate(t) \/ AdminDelete(t)
             \/ \E call \in {"create", "delete"} : Land(call, t) \/ Lose(call, t)
      PROVE Creation'
  BY <1>4 DEF AdminCreate, AdminDelete, Land, Lose, Known, Creation
<1>5. QED BY <1>1, <1>2, <1>3, <1>4 DEF Next, Continue

\* What a step may do to the tuples and to the record of the stray ones.
Effect ==
    \/ \E t \in Tuples : Added(t) \/ \E why \in Causes : Removed(t, why)
    \/ tuples' = tuples /\ stray \subseteq stray'

LEMMA StepEffect == ASSUME TypeOK, Phased, [Next]_vars PROVE Effect
<1> USE DEF Effect
<1>1. CASE UNCHANGED vars BY <1>1 DEF vars
<1>2. ASSUME NEW p \in Requests, CreateOwner(p) \/ InsertRow(p) \/ InsertFails(p) \/ UndoOwner(p)
      PROVE Effect
  BY <1>2, OwnershipIsTuple
  DEF CreateOwner, InsertRow, InsertFails, UndoOwner, Refused, StoreUnchanged, Causes
<1>3. ASSUME NEW p \in Requests,
             \/ AuthorizeDelete(p)
             \/ \E t \in Shares : AuthorizeShare(p, t)
             \/ \E u \in Users : AuthorizeRevoke(p, u)
             \/ ReadRow(p) \/ ListRelations(p)
      PROVE Effect
  BY <1>3 DEF AuthorizeDelete, AuthorizeShare, AuthorizeRevoke, ReadRow, ListRelations,
              RequestsOnly
<1>4. ASSUME NEW p \in Requests,
             \/ \E t \in req[p].todo : StripRelation(p, t) \/ StripFails(p, t)
             \/ \E t \in req[p].done : RestoreRelation(p, t)
             \/ RemoveRow(p) \/ RemoveFails(p)
      PROVE Effect
  BY <1>4, ReqTypes
  DEF StripRelation, StripFails, RestoreRelation, RemoveRow, RemoveFails, StoreUnchanged, Causes
<1>5. ASSUME NEW p \in Requests, ShareRelation(p) \/ RevokeRelation(p) \/ Crash(p)
      PROVE Effect
  <2>1. ShareRelation(p) \/ RevokeRelation(p) => req[p].tuple \in Tuples
    BY DEF ShareRelation, RevokeRelation, Phased
  <2>2. QED
    BY <1>5, <2>1 DEF ShareRelation, RevokeRelation, Crash, Refused, StoreUnchanged, Causes
<1>6. ASSUME NEW t \in Tuples,
             \/ AdminCreate(t) \/ AdminDelete(t)
             \/ \E call \in {"create", "delete"} : Land(call, t) \/ Lose(call, t)
      PROVE Effect
  BY <1>6 DEF AdminCreate, AdminDelete, Land, Lose, Causes
<1>7. QED BY <1>1, <1>2, <1>3, <1>4, <1>5, <1>6 DEF Next, Continue

\* A request moves alone.
LEMMA OthersStay ==
    ASSUME TypeOK, NEW p \in Requests, NEW q \in Requests \ {p},
           \/ CreateOwner(p) \/ AuthorizeDelete(p)
           \/ \E t \in Shares : AuthorizeShare(p, t)
           \/ \E u \in Users : AuthorizeRevoke(p, u)
           \/ Continue(p) \/ Crash(p)
    PROVE  req'[q] = req[q]
<1>1. ASSUME NEW r, Become(p, r) PROVE req'[q] = req[q] BY <1>1 DEF Become, TypeOK
<1>2. CASE ReadRow(p) BY <1>1, <1>2 DEF ReadRow
<1>3. CASE \/ \E t \in req[p].todo : StripRelation(p, t) \/ StripFails(p, t)
           \/ \E t \in req[p].done : RestoreRelation(p, t)
           \/ RemoveRow(p) \/ RemoveFails(p)
  BY <1>1, <1>3
  DEF StripRelation, StripFails, RestoreRelation, RemoveRow, RemoveFails, Restoring
<1>4. CASE \/ CreateOwner(p) \/ InsertRow(p) \/ InsertFails(p) \/ UndoOwner(p)
           \/ AuthorizeDelete(p) \/ ListRelations(p)
           \/ \E t \in Shares : AuthorizeShare(p, t)
           \/ \E u \in Users : AuthorizeRevoke(p, u)
  BY <1>1, <1>4
  DEF CreateOwner, InsertRow, InsertFails, UndoOwner, AuthorizeDelete, ListRelations,
      AuthorizeShare, AuthorizeRevoke
<1>5. CASE ShareRelation(p) \/ RevokeRelation(p) \/ Crash(p)
  BY <1>1, <1>5 DEF ShareRelation, RevokeRelation, Withdrawn, Crash
<1>6. QED BY <1>2, <1>3, <1>4, <1>5 DEF Continue

CoveredAt(p) == req[p].pc \in {"strip", "remove"} => tuples \subseteq req[p].todo \cup stray

\* A delete that does not move keeps knowing every tuple but the stray ones: a
\* tuple written meanwhile is stray, and one that goes, goes from both.
LEMMA CoveredFrame ==
    ASSUME TypeOK, Covered, Effect, NEW p \in Requests, req'[p] = req[p]
    PROVE  CoveredAt(p)'
<1> SUFFICES ASSUME req[p].pc \in {"strip", "remove"}
             PROVE  tuples' \subseteq req[p].todo \cup stray'
  BY DEF CoveredAt
<1>1. tuples \subseteq req[p].todo \cup stray /\ Deleting BY DEF Covered, Deleting
<1>2. QED BY <1>1 DEF Effect, Added, Removed

LEMMA StepCovered == ASSUME TypeOK, Phased, Covered, [Next]_vars PROVE Covered'
<1> SUFFICES ASSUME NEW q \in Requests PROVE CoveredAt(q)' BY DEF Covered, CoveredAt
<1>1. CASE req'[q] = req[q] BY <1>1, StepEffect, CoveredFrame
<1>2. CASE req'[q] # req[q]
  <2>1. \E p \in Requests :
           \/ CreateOwner(p) \/ AuthorizeDelete(p)
           \/ \E t \in Shares : AuthorizeShare(p, t)
           \/ \E u \in Users : AuthorizeRevoke(p, u)
           \/ Continue(p) \/ Crash(p)
    BY <1>2 DEF Next, vars, AdminCreate, AdminDelete, Land, Lose
  <2>2. \/ CreateOwner(q) \/ AuthorizeDelete(q)
        \/ \E t \in Shares : AuthorizeShare(q, t)
        \/ \E u \in Users : AuthorizeRevoke(q, u)
        \/ Continue(q) \/ Crash(q)
    BY <1>2, <2>1, OthersStay
  <2>3. CASE ListRelations(q)
    BY <2>3 DEF ListRelations, RequestsOnly, Become, Req, Idle, CoveredAt, TypeOK
  <2>4. ASSUME NEW t \in req[q].todo, StripRelation(q, t) PROVE CoveredAt(q)'
    <3>1. tuples \subseteq req[q].todo \cup stray BY <2>4 DEF StripRelation, Covered
    <3>2. req'[q].todo = req[q].todo \ {t} BY <2>4 DEF StripRelation, Become, Req, TypeOK
    <3>3. QED BY <2>4, <3>1, <3>2 DEF StripRelation, Removed, CoveredAt
  <2>5. ASSUME NEW D \in SUBSET Tuples, Restoring(q, D) PROVE CoveredAt(q)'
    BY <2>5, Restored DEF CoveredAt
  <2>6. CASE ReadRow(q) BY <2>6 DEF ReadRow, Become, Req, Idle, CoveredAt, TypeOK
  <2>7. CASE \/ CreateOwner(q) \/ AuthorizeDelete(q)
             \/ \E t \in Shares : AuthorizeShare(q, t)
             \/ \E u \in Users : AuthorizeRevoke(q, u)
             \/ InsertRow(q) \/ InsertFails(q) \/ UndoOwner(q) \/ RemoveRow(q)
             \/ ShareRelation(q) \/ RevokeRelation(q) \/ Crash(q)
    <3>1. req'[q].pc \notin {"strip", "remove"}
      BY <2>7 DEF CreateOwner, AuthorizeDelete, AuthorizeShare, AuthorizeRevoke, InsertRow,
           InsertFails, UndoOwner, RemoveRow, ShareRelation, RevokeRelation, Withdrawn, Crash,
           Become, Req, Idle, TypeOK
    <3>2. QED BY <3>1 DEF CoveredAt
  <2>8. QED
    BY <2>2, <2>3, <2>4, <2>5, <2>6, <2>7, ReqTypes
    DEF Continue, StripFails, RestoreRelation, RemoveFails
<1>3. QED BY <1>1, <1>2

-----------------------------------------------------------------------------
(* Orphans.                                                                *)

Accounted(t) ==
    t \in stray \/ (t = Ownership /\ \E p \in Requests : req[p].pc = "undo")

\* Without a row before and after, a step accounts for what it writes.
LEMMA OrphansStay ==
    ASSUME TypeOK, OrphansAreStray, Effect, row = "absent",
           \A p \in Requests : req[p].pc = "undo" =>
              req'[p].pc = "undo" \/ Ownership \notin tuples' \/ Ownership \in stray'
    PROVE  \A t \in tuples' : Accounted(t)'
<1> SUFFICES ASSUME NEW t \in tuples' PROVE Accounted(t)' OBVIOUS
<1>1. CASE t \in tuples
  <2>1. t \in stray => t \in stray'
    BY <1>1 DEF Effect, Added, Removed
  <2>2. QED BY <1>1, <2>1 DEF OrphansAreStray, Accounted
<1>2. CASE t \notin tuples
  BY <1>2 DEF Effect, Added, Removed, Accounted
<1>3. QED BY <1>1, <1>2

\* The undoing request is done only when its tuple is gone or recorded as stray.
LEMMA UndoEnds ==
    ASSUME TypeOK, [Next]_vars, NEW q \in Requests, req[q].pc = "undo"
    PROVE  req'[q].pc = "undo" \/ Ownership \notin tuples' \/ Ownership \in stray'
<1>1. CASE req'[q] = req[q] BY <1>1
<1>2. CASE UndoOwner(q) BY <1>2 DEF UndoOwner, Removed
<1>3. CASE Crash(q) BY <1>3 DEF Crash
<1>4. CASE req'[q] # req[q] /\ ~UndoOwner(q) /\ ~Crash(q)
  <2>1. \E p \in Requests :
           \/ CreateOwner(p) \/ AuthorizeDelete(p)
           \/ \E t \in Shares : AuthorizeShare(p, t)
           \/ \E u \in Users : AuthorizeRevoke(p, u)
           \/ Continue(p) \/ Crash(p)
    BY <1>4 DEF Next, vars, AdminCreate, AdminDelete, Land, Lose
  <2>2. \/ CreateOwner(q) \/ AuthorizeDelete(q)
        \/ \E t \in Shares : AuthorizeShare(q, t)
        \/ \E u \in Users : AuthorizeRevoke(q, u)
        \/ Continue(q) \/ Crash(q)
    BY <1>4, <2>1, OthersStay
  <2>3. ~ReadRow(q) BY DEF ReadRow
  <2>4. QED
    BY <1>4, <2>2, <2>3
    DEF CreateOwner, AuthorizeDelete, AuthorizeShare, AuthorizeRevoke, Continue, InsertRow,
        InsertFails, ListRelations, StripRelation, StripFails, RestoreRelation, RemoveRow,
        RemoveFails, ShareRelation, RevokeRelation
<1>5. QED BY <1>1, <1>2, <1>3, <1>4

\* The steps that leave the document without a row.
LEMMA StepOrphans ==
    ASSUME TypeOK, Phased, Creation, Covered, OrphansAreStray, [Next]_vars
    PROVE  OrphansAreStray'
<1> SUFFICES ASSUME row' = "absent" PROVE \A t \in tuples' : Accounted(t)'
  BY DEF OrphansAreStray, Accounted
<1>1. CASE row = "absent" BY <1>1, StepEffect, UndoEnds, OrphansStay
<1>2. ASSUME NEW p \in Requests, row # "absent", CreateOwner(p)
      PROVE  \A t \in tuples' : Accounted(t)'
  BY <1>2 DEF CreateOwner, Creation, Refused, StoreUnchanged
<1>3. ASSUME NEW p \in Requests, InsertFails(p)
      PROVE  \A t \in tuples' : Accounted(t)'
  <2>1. tuples' = {Ownership} BY <1>3 DEF InsertFails, Creation
  <2>2. req'[p].pc = "undo" BY <1>3 DEF InsertFails, Become, Req, TypeOK
  <2>3. QED BY <2>1, <2>2 DEF Accounted
<1>4. ASSUME NEW p \in Requests, row # "absent", Crash(p)
      PROVE  \A t \in tuples' : Accounted(t)'
  BY <1>4 DEF Crash, Creation, Accounted
<1>5. ASSUME NEW p \in Requests, RemoveRow(p) \/ RemoveFails(p)
      PROVE  \A t \in tuples' : Accounted(t)'
  BY <1>5 DEF RemoveRow, RemoveFails, Covered, Phased, Accounted
<1>6. QED
  <2>1. CASE row # "absent" /\ Next
    <3>1. ASSUME NEW p \in Requests,
                 \/ AuthorizeDelete(p)
                 \/ \E t \in Shares : AuthorizeShare(p, t)
                 \/ \E u \in Users : AuthorizeRevoke(p, u)
                 \/ InsertRow(p) \/ UndoOwner(p) \/ ReadRow(p) \/ ListRelations(p)
                 \/ \E t \in req[p].todo : StripRelation(p, t) \/ StripFails(p, t)
                 \/ \E t \in req[p].done : RestoreRelation(p, t)
                 \/ ShareRelation(p) \/ RevokeRelation(p)
          PROVE FALSE
      BY <2>1, <3>1 DEF AuthorizeDelete, AuthorizeShare, AuthorizeRevoke, InsertRow, UndoOwner,
           ReadRow, ListRelations, RequestsOnly, StripRelation, StripFails, RestoreRelation,
           ShareRelation, RevokeRelation
    <3>2. ASSUME NEW t \in Tuples,
                 \/ AdminCreate(t) \/ AdminDelete(t)
                 \/ \E call \in {"create", "delete"} : Land(call, t) \/ Lose(call, t)
          PROVE FALSE
      BY <2>1, <3>2 DEF AdminCreate, AdminDelete, Land, Lose
    <3>3. QED BY <2>1, <3>1, <3>2, <1>2, <1>3, <1>4, <1>5 DEF Next, Continue
  <2>2. QED BY <1>1, <2>1 DEF vars

-----------------------------------------------------------------------------
IInv == TypeOK /\ Phased /\ Creation /\ Covered /\ GrantsSurvive /\ OrphansAreStray

LEMMA Inductive == Spec => []IInv
<1>1. Init => IInv
  <2>1. Init => Creation /\ Covered /\ GrantsSurvive /\ OrphansAreStray
    BY IdleShape DEF Init, Creation, Covered, GrantsSurvive, OrphansAreStray
  <2>2. QED BY <2>1, InitTypeOK DEF IInv
<1>2. IInv /\ [Next]_vars => IInv'
  BY StepShape, StepCreation, StepCovered, StepGrants, StepOrphans DEF IInv
<1>3. QED BY <1>1, <1>2, PTL DEF Spec

\* Whatever the interleaving and the faults, the stores, the requests and the
\* history keep their types (every action of DocumentAcl).
THEOREM TypeCorrect == Spec => []TypeOK
  BY Inductive, PTL DEF IInv

\* No grant gets lost without a recorded cause (crash, failed compensation,
\* straggling call, undone creation), however deletes, shares, revokes and
\* administrators interleave (delete_document and _restore_relations).
THEOREM GrantsAlwaysSurvive == Spec => []GrantsSurvive
  BY Inductive, PTL DEF IInv

\* A document without a row has only the tuples of a creation being undone and
\* stray ones: a delete on its own removes them all (create_document and
\* delete_document).
THEOREM OrphansAlwaysStray == Spec => []OrphansAreStray
  BY Inductive, PTL DEF IInv
=============================================================================
