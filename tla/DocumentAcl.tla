----------------------------- MODULE DocumentAcl -----------------------------
(***************************************************************************)
(* One document: its row in Postgres, its relation tuples in the FGA store *)
(* of Descope, and the requests that change both.                          *)
(*                                                                         *)
(* No transaction spans the two stores.  Creating writes the owner tuple,  *)
(* then the row; deleting lists the tuples, removes them one by one, then  *)
(* deletes the row; each compensates its FGA writes when a later step      *)
(* fails.  Sharing and revoking write tuples after having read the row.    *)
(* Requests interleave at every call.  An FGA call is applied and          *)
(* answered, refused, or given up by its caller after a transport error    *)
(* and then still applied later, or never.                                 *)
(*                                                                         *)
(* Document ids are fresh UUIDs, so documents do not interact: a deleted   *)
(* document is never created again.                                        *)
(***************************************************************************)
EXTENDS Naturals, FiniteSets

CONSTANTS
    Users,          \* users of the tenant
    Author,         \* the user that creates the document
    Requests,       \* concurrent requests
    Faults,         \* what may fail beyond a refused call, among FaultKinds
    AdminTuples,    \* tuples written directly through /fga/relations
    NoTuple,        \* a request that writes no particular tuple
    MaxCleanup,     \* _MAX_FGA_CLEANUP
    MaxStraggling   \* bound: calls given up by their caller and still under way

Relations == {"owner", "editor", "viewer"}
Tuples == Relations \X Users
Shares == {"editor", "viewer"} \X Users
Ownership == <<"owner", Author>>

\* A transport error or timeout of an FGA call; a COMMIT that raises and rolls
\* back; one that raises and whose outcome is in doubt; the death of a request,
\* with its process or by cancellation, which no `except Exception` sees.
FaultKinds == {"timeout", "rollback", "doubt", "crash"}

ASSUME ConstantsAssumption ==
    /\ Author \in Users
    /\ Faults \subseteq FaultKinds
    /\ AdminTuples \subseteq Tuples
    /\ NoTuple \notin Tuples
    /\ MaxCleanup \in Nat /\ MaxStraggling \in Nat

VARIABLES
    row,        \* "new", "creating" (its owner tuple is written), "present", "absent"
    tuples,     \* the relation tuples of the document in the FGA store
    straggling, \* <<"create" or "delete", tuple>>: calls under way, given up
    req,        \* the requests
    \* history
    granted,    \* tuples a request answered to exist, and nobody revoked since
    missing,    \* missing[t]: why t may be absent although nobody is to restore it
    stray       \* tuples written while a delete was under way, or without a row

vars == <<row, tuples, straggling, req, granted, missing, stray>>

Rows == {"new", "creating", "present", "absent"}
Phases == {"idle", "insert", "undo", "delete", "list", "strip", "remove",
           "restore", "share", "grant", "revoke", "withdraw"}
Causes == {"none", "crash", "compensation", "straggler", "undo"}

\* A request at pc, about tuple t, that still has `todo` to remove and has
\* `done` to put back should it fail.
Req(pc, t, todo, done) == [pc |-> pc, tuple |-> t, todo |-> todo, done |-> done]
Idle == Req("idle", NoTuple, {}, {})
RequestStates ==
    [pc : Phases, tuple : Tuples \cup {NoTuple},
     todo : SUBSET Tuples, done : SUBSET Tuples]

TypeOK ==
    /\ row \in Rows
    /\ tuples \in SUBSET Tuples
    /\ straggling \in SUBSET ({"create", "delete"} \X Tuples)
    /\ req \in [Requests -> RequestStates]
    /\ granted \in SUBSET Tuples
    /\ missing \in [Tuples -> Causes]
    /\ stray \in SUBSET Tuples

Init ==
    /\ row = "new"
    /\ tuples = {}
    /\ straggling = {}
    /\ req = [p \in Requests |-> Idle]
    /\ granted = {}
    /\ missing = [t \in Tuples |-> "none"]
    /\ stray = {}

-----------------------------------------------------------------------------
(* The FGA store (external): create_relation and delete_relation.          *)

Owns(u) == <<"owner", u>> \in tuples

\* The creation has ended: before, nobody can name the document.
Known == row \in {"present", "absent"}

Deleting == \E p \in Requests : req[p].pc \in {"strip", "remove"}

\* Tuples a delete has removed and will put back if it fails.
Held == UNION {req[p].done : p \in Requests}

\* The creation of t takes effect.
Added(t) ==
    /\ tuples' = tuples \cup {t}
    /\ missing' = [missing EXCEPT ![t] = "none"]
    /\ stray' = IF Deleting \/ row = "absent"
                THEN stray \cup {t} ELSE stray

\* The removal of t takes effect; why: what keeps it from being put back.
Removed(t, why) ==
    /\ tuples' = tuples \ {t}
    /\ missing' = [missing EXCEPT ![t] = IF t \in tuples THEN why ELSE @]
    /\ stray' = stray \ {t}

\* Why the tuples T that a request fails to put back are absent.
Missing(T, why) ==
    missing' = [t \in Tuples |-> IF t \in T \ tuples THEN why ELSE missing[t]]

StoreUnchanged == UNCHANGED <<tuples, missing, stray>>

Refused == StoreUnchanged /\ UNCHANGED straggling

\* The caller gives the call up; Land or Lose decides its effect.
GivenUp(call, t) ==
    /\ "timeout" \in Faults
    /\ Cardinality(straggling) < MaxStraggling
    /\ straggling' = straggling \cup {<<call, t>>}

Land(call, t) ==
    /\ <<call, t>> \in straggling
    /\ straggling' = straggling \ {<<call, t>>}
    /\ IF call = "create" THEN Added(t) ELSE Removed(t, "straggler")
    /\ UNCHANGED <<row, req, granted>>

Lose(call, t) ==
    /\ <<call, t>> \in straggling
    /\ straggling' = straggling \ {<<call, t>>}
    /\ UNCHANGED <<row, tuples, req, granted, missing, stray>>

\* POST and DELETE /fga/relations, by a tenant administrator.
AdminCreate(t) ==
    /\ Known /\ t \in AdminTuples \ tuples
    /\ Added(t)
    /\ granted' = granted \cup {t}
    /\ UNCHANGED <<row, straggling, req>>

AdminDelete(t) ==
    /\ Known /\ t \in AdminTuples \cap tuples
    /\ Removed(t, "none")
    /\ granted' = granted \ {t}
    /\ UNCHANGED <<row, straggling, req>>

-----------------------------------------------------------------------------
Become(p, r) == req' = [req EXCEPT ![p] = r]

(* create_document *)

\* The owner tuple first: when the call fails no row is created.
CreateOwner(p) ==
    /\ req[p].pc = "idle" /\ row = "new"
    /\ \/ Added(Ownership) /\ UNCHANGED straggling
          /\ row' = "creating" /\ Become(p, Req("insert", Ownership, {}, {}))
       \/ Refused /\ row' = "absent" /\ Become(p, Idle)
       \/ GivenUp("create", Ownership) /\ StoreUnchanged
          /\ row' = "absent" /\ Become(p, Idle)
    /\ UNCHANGED granted

InsertRow(p) ==
    /\ req[p].pc = "insert"
    /\ row' = "present"
    /\ granted' = granted \cup {Ownership}
    /\ Become(p, Idle)
    /\ UNCHANGED <<tuples, straggling, missing, stray>>

\* A commit that raises was rolled back, unless only its answer was lost.
CommitRaises(before, after) ==
    \/ "rollback" \in Faults /\ row' = before
    \/ "doubt" \in Faults /\ row' = after

InsertFails(p) ==
    /\ req[p].pc = "insert"
    /\ CommitRaises("absent", "present")
    /\ Become(p, Req("undo", Ownership, {}, {}))
    /\ UNCHANGED <<tuples, straggling, granted, missing, stray>>

\* Best effort: the tuple stays when the call fails.
UndoOwner(p) ==
    /\ req[p].pc = "undo"
    /\ \/ Removed(Ownership, "undo") /\ UNCHANGED straggling
       \/ stray' = stray \cup {Ownership} /\ UNCHANGED <<tuples, missing, straggling>>
       \/ GivenUp("delete", Ownership)
          /\ stray' = stray \cup {Ownership} /\ UNCHANGED <<tuples, missing>>
    /\ Become(p, Idle)
    /\ UNCHANGED <<row, granted>>

-----------------------------------------------------------------------------
(* delete_document, share_document and revoke_share begin alike: require_fga *)
(* finds the caller to be an owner, then the row is read.                    *)

RequestsOnly == UNCHANGED <<row, tuples, straggling, granted, missing, stray>>

AuthorizeDelete(p) ==
    /\ req[p].pc = "idle"
    /\ Known /\ \E c \in Users : Owns(c)
    /\ Become(p, Req("delete", NoTuple, {}, {}))
    /\ RequestsOnly

\* Nobody shares with himself.
AuthorizeShare(p, t) ==
    /\ req[p].pc = "idle"
    /\ Known /\ \E c \in Users : Owns(c) /\ c # t[2]
    /\ Become(p, Req("share", t, {}, {}))
    /\ RequestsOnly

\* A revoke withdraws the viewer tuple first, then the editor tuple.
AuthorizeRevoke(p, u) ==
    /\ req[p].pc = "idle"
    /\ Known /\ \E c \in Users : Owns(c)
    /\ Become(p, Req("revoke", <<"viewer", u>>, {}, {}))
    /\ RequestsOnly

\* 404 without a row.
ReadRow(p) ==
    \E step \in {<<"delete", "list">>, <<"share", "grant">>, <<"revoke", "withdraw">>} :
        /\ req[p].pc = step[1]
        /\ Become(p, IF row = "present" THEN Req(step[2], req[p].tuple, {}, {}) ELSE Idle)
        /\ RequestsOnly

\* Mutant of ListRelations: only the shares are listed.
ListShares(p) ==
    /\ req[p].pc = "list"
    /\ Become(p, IF tuples \cap Shares = {} THEN Req("remove", NoTuple, {}, {})
                 ELSE Req("strip", NoTuple, tuples \cap Shares, {}))
    /\ RequestsOnly

\* list_all_relations; too many relations, 409, leave everything as it is.
ListRelations(p) ==
    /\ req[p].pc = "list"
    /\ Become(p, IF Cardinality(tuples) > MaxCleanup THEN Idle
                 ELSE IF tuples = {} THEN Req("remove", NoTuple, {}, {})
                 ELSE Req("strip", NoTuple, tuples, {}))
    /\ RequestsOnly

\* The request is to put the tuples D back, and then answers an error.
Restoring(p, D) ==
    Become(p, IF D = {} THEN Idle ELSE Req("restore", NoTuple, {}, D))

StripRelation(p, t) ==
    /\ req[p].pc = "strip" /\ t \in req[p].todo
    /\ Removed(t, "none")
    /\ LET rest == req[p].todo \ {t} IN
       Become(p, Req(IF rest = {} THEN "remove" ELSE "strip", NoTuple,
                     rest, req[p].done \cup {t}))
    /\ UNCHANGED <<row, straggling, granted>>

\* Mutant of StripFails: a failed removal ends the request at once.
StripAborts(p, t) ==
    /\ req[p].pc = "strip" /\ t \in req[p].todo
    /\ StoreUnchanged
    /\ UNCHANGED straggling \/ GivenUp("delete", t)
    /\ Become(p, Idle)
    /\ UNCHANGED <<row, granted>>

\* A removal is refused (absent tuple, rate limit, upstream fault) or given up:
\* what was removed so far is put back, the tuple of the failed call is not.
StripFails(p, t) ==
    /\ req[p].pc = "strip" /\ t \in req[p].todo
    /\ StoreUnchanged
    /\ UNCHANGED straggling \/ GivenUp("delete", t)
    /\ Restoring(p, req[p].done)
    /\ UNCHANGED <<row, granted>>

\* The row goes, or a concurrent delete took it already: success either way,
\* and nothing is put back.
RemoveRow(p) ==
    /\ req[p].pc = "remove"
    /\ row' = "absent"
    /\ granted' = {}
    /\ Become(p, Idle)
    /\ UNCHANGED <<tuples, straggling, missing, stray>>

RemoveFails(p) ==
    /\ req[p].pc = "remove"
    /\ CommitRaises(row, "absent")
    /\ Restoring(p, req[p].done)
    /\ UNCHANGED <<tuples, straggling, granted, missing, stray>>

\* _restore_relations: best effort, one tuple at a time.
RestoreRelation(p, t) ==
    /\ req[p].pc = "restore" /\ t \in req[p].done
    /\ \/ Added(t) /\ UNCHANGED straggling
       \/ Missing({t}, "compensation") /\ UNCHANGED <<tuples, stray>>
          /\ (UNCHANGED straggling \/ GivenUp("create", t))
    /\ Restoring(p, req[p].done \ {t})
    /\ UNCHANGED <<row, granted>>

-----------------------------------------------------------------------------
(* share_document and revoke_share, once the target user has been loaded.  *)

ShareRelation(p) ==
    LET t == req[p].tuple IN
    /\ req[p].pc = "grant"
    /\ \/ Added(t) /\ granted' = granted \cup {t} /\ UNCHANGED straggling
       \/ Refused /\ UNCHANGED granted
       \/ GivenUp("create", t) /\ StoreUnchanged /\ UNCHANGED granted
    /\ Become(p, Idle)
    /\ UNCHANGED row

\* Mutant of Withdrawn: the second relation is one the schema does not have.
WithdrawnReader(p) ==
    Become(p, IF req[p].tuple[1] = "viewer"
              THEN Req("withdraw", <<"reader", req[p].tuple[2]>>, {}, {})
              ELSE Idle)

\* The next relation to withdraw from the same user, if any.
Withdrawn(p) ==
    Become(p, IF req[p].tuple[1] = "viewer"
              THEN Req("withdraw", <<"editor", req[p].tuple[2]>>, {}, {})
              ELSE Idle)

\* 400 and 404 count as success, for the tuple may not exist; another refusal
\* ends the request and leaves the relations that were not withdrawn yet.
RevokeRelation(p) ==
    LET t == req[p].tuple IN
    /\ req[p].pc = "withdraw"
    /\ \/ Removed(t, "none") /\ granted' = granted \ {t}
          /\ Withdrawn(p) /\ UNCHANGED straggling
       \/ t \notin tuples /\ Refused /\ granted' = granted \ {t} /\ Withdrawn(p)
       \/ Refused /\ UNCHANGED granted /\ Become(p, Idle)
       \/ GivenUp("delete", t) /\ StoreUnchanged /\ granted' = granted \ {t}
          /\ Become(p, Idle)
    /\ UNCHANGED row

-----------------------------------------------------------------------------
\* The request dies: neither its next call nor its compensation is made.
Crash(p) ==
    /\ "crash" \in Faults
    /\ req[p].pc # "idle"
    /\ Missing(req[p].done, "crash")
    /\ row' = IF req[p].pc = "insert" THEN "absent" ELSE row
    /\ stray' = IF req[p].pc \in {"insert", "undo"} THEN stray \cup {Ownership} ELSE stray
    /\ Become(p, Idle)
    /\ UNCHANGED <<tuples, straggling, granted>>

\* What a request does next, once it has begun.
Continue(p) ==
    \/ InsertRow(p) \/ InsertFails(p) \/ UndoOwner(p)
    \/ ReadRow(p) \/ ListRelations(p)
    \/ \E t \in req[p].todo : StripRelation(p, t) \/ StripFails(p, t)
    \/ \E t \in req[p].done : RestoreRelation(p, t)
    \/ RemoveRow(p) \/ RemoveFails(p)
    \/ ShareRelation(p) \/ RevokeRelation(p)

Next ==
    \/ \E p \in Requests :
          \/ CreateOwner(p) \/ AuthorizeDelete(p)
          \/ \E t \in Shares : AuthorizeShare(p, t)
          \/ \E u \in Users : AuthorizeRevoke(p, u)
          \/ Continue(p) \/ Crash(p)
    \/ \E t \in Tuples :
          \/ AdminCreate(t) \/ AdminDelete(t)
          \/ \E call \in {"create", "delete"} : Land(call, t) \/ Lose(call, t)

Spec == Init /\ [][Next]_vars

\* A request that has begun goes on: it runs on the event loop, and every call
\* it makes is answered or times out.
FairSpec == Spec /\ \A p \in Requests : WF_vars(Continue(p))

-----------------------------------------------------------------------------
(* Properties                                                              *)

\* No request silently costs anybody access: a tuple that was granted and not
\* revoked is there, or a delete that removed it is still to put it back, or its
\* restoration was cut short by a crash, failed, or was undone by a call that
\* its caller had given up (delete_document against shares and other deletes).
GrantsSurvive ==
    \A t \in granted : t \in tuples \/ t \in Held \/ missing[t] # "none"

\* Tuples without a row have a cause: a creation is still to undo its tuple,
\* died or failed to undo it, or they were written while a delete was under way
\* or after it.  A delete on its own leaves none behind.
OrphansAreStray ==
    row = "absent" =>
        \A t \in tuples :
            \/ t \in stray
            \/ t = Ownership /\ \E p \in Requests : req[p].pc = "undo"

\* A tuple taken away by a delete that fails comes back by itself: a user does
\* not stay locked out while the document lives on, but for the recorded causes.
LockoutIsTransient ==
    \A t \in Tuples :
        (t \in granted /\ t \notin tuples)
            ~> (t \in tuples \/ t \notin granted \/ missing[t] # "none")

\* "Every relation this request removed has to go back - otherwise the owner is
\* locked out" (delete_document after a failed removal): a delete that fails
\* leaves the owner his document, unless a compensating call failed as well.
FailedDeleteKeepsOwner ==
    row = "present" /\ Ownership \in granted =>
        \/ Ownership \in tuples \cup Held
        \/ missing[Ownership] \in {"crash", "compensation"}

\* "The loser of a concurrent double-DELETE must not resurrect the ACL": no
\* compensation writes tuples of a document whose row is gone.
DeletedStaysDeleted ==
    [][\A p \in Requests :
          req[p].pc = "restore" /\ req'[p] # req[p] /\ row = "absent"
              => tuples' \subseteq tuples]_vars
=============================================================================
