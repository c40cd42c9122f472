------------------------------ MODULE Admission ------------------------------
(***************************************************************************)
(* How a request is let in: the token middlewares (one verifies tokens     *)
(* itself, one reads what the gateway has verified), the tenant and role   *)
(* dependencies, which trust the claims of some providers and ask Postgres *)
(* for others, and the access key routes behind them.                      *)
(*                                                                         *)
(* A token is a record of the claims these decisions look at.  "absent" is *)
(* a claim that is missing, "junk" one of the wrong type.  Time is counted *)
(* in ticks.  Reading the user and reading the grants are two statements;  *)
(* a key is loaded and then acted upon in two calls to Descope.            *)
(***************************************************************************)
EXTENDS Naturals, Sequences, FiniteSets, FiniteSetsExt

CONSTANTS
    Tokens,         \* tokens that callers present
    Subjects, Tenants, RoleNames, Keys, Requests,
    Admins,         \* "owner" and "admin", the roles the key routes require
    Canonical,      \* CANONICAL_RBAC_PROVIDERS
    Absent, Junk,   \* in the place of a claim
    NoKey, NoTenant,
    Leeway, MaxLife,
    MaxTime,        \* bound
    MaxEvents       \* bound: requests, and changes of users, grants and keys

ASSUME ConstantsAssumption ==
    /\ Absent \notin Tenants \cup Subjects /\ Junk \notin Tenants \cup Subjects
    /\ Absent # Junk
    /\ Absent \notin Nat /\ Junk \notin Nat
    /\ Absent \notin {"pid", "url", "app", "ory"} /\ Junk \notin {"pid", "url", "app", "ory"}
    /\ NoKey \notin Keys /\ NoTenant \notin Tenants
    /\ Admins \subseteq RoleNames
    /\ Leeway \in Nat /\ MaxLife \in Nat /\ MaxTime \in Nat /\ MaxEvents \in Nat

VARIABLES
    config,     \* the environment the backend was started in
    now,
    status,     \* status[s]: of the user linked to subject s
    grants,     \* grants[s]: <<tenant, role>> assigned to that user
    keys,       \* access keys in Descope
    req,
    events

vars == <<config, now, status, grants, keys, req, events>>

ProviderNames == {"Descope", "Ory"}
Statuses == {"absent", "active", "inactive", "provisioned"}
DescopeIssuers == {"pid", "url", "app"}
Configs == [mode : {"standalone", "gateway"}, descope : BOOLEAN, ory : BOOLEAN,
            oryAudience : BOOLEAN, oryRequired : BOOLEAN]
TokenType ==
    [iss : DescopeIssuers \cup {"ory", "other", Absent, Junk},
     aud : {"pid", "ory", "other", Absent}, drn : {"DS", "DSR", Absent},
     signer : ProviderNames \cup {"stranger"}, exp : 0..MaxTime \cup {Absent, Junk},
     sub : Subjects \cup {Absent}, dct : Tenants \cup {Absent, Junk}, member : SUBSET Tenants,
     grants : SUBSET (Tenants \X RoleNames)]

ASSUME TokensAssumption == Tokens # {} /\ Tokens \subseteq TokenType

\* The expiry of a key that does not expire; the console may make such keys.
Never == 0
KeyStates ==
    [state : {"none", "active", "inactive", "deleted"}, tenant : Tenants \cup {NoTenant},
     roles : SUBSET RoleNames, exp : {Never} \cup 1..(MaxTime + MaxLife)]
Operations == {"visit", "create", "deactivate", "activate", "delete"}
\* "token" and "by" are the claims and the provider that vouched for them,
\* "tenant" and "roles" the decision.  History: was the user active, which
\* grants did it have, was the key the tenant's, at any time so far?
RequestStates ==
    [phase : {"idle", "authorize", "grants", "allowed", "checked"}, op : Operations,
     token : TokenType, by : ProviderNames, key : Keys \cup {NoKey},
     names : SUBSET RoleNames, exp : 0..(MaxTime + MaxLife + 1), seen : Statuses,
     tenant : Tenants \cup {NoTenant}, roles : SUBSET RoleNames,
     wasActive : BOOLEAN, had : SUBSET (Tenants \X RoleNames), ours : BOOLEAN]
NoToken == CHOOSE t \in Tokens : TRUE
Idle == [phase |-> "idle", op |-> "visit", token |-> NoToken, by |-> "Descope", key |-> NoKey,
         names |-> {}, exp |-> 0, seen |-> "absent", tenant |-> NoTenant, roles |-> {},
         wasActive |-> FALSE, had |-> {}, ours |-> FALSE]

TypeOK ==
    /\ config \in Configs
    /\ now \in 0..MaxTime
    /\ status \in [Subjects -> Statuses]
    /\ grants \in [Subjects -> SUBSET (Tenants \X RoleNames)]
    /\ keys \in [Keys -> KeyStates]
    /\ req \in [Requests -> RequestStates]
    /\ events \in Nat

-----------------------------------------------------------------------------
(* middleware/providers.py.                                                *)

\* A name, the issuers it accepts, whether and which audience is checked.
descope_config(c) ==
    [name |-> "Descope", issuers |-> IF c.descope THEN DescopeIssuers ELSE {},
     aud |-> IF c.descope THEN "pid" ELSE Absent, required |-> FALSE,
     bare |-> IF c.descope THEN "pid" ELSE Absent, infers |-> TRUE]
ory_config(c) ==
    [name |-> "Ory", issuers |-> {"ory"}, aud |-> IF c.oryAudience THEN "ory" ELSE Absent,
     required |-> c.oryRequired, bare |-> Absent, infers |-> FALSE]
Providers(c) == IF c.ory THEN <<descope_config(c), ory_config(c)>> ELSE <<descope_config(c)>>
\* build_provider_configs raises where Ory's audience is required and not set.
Starts(c) == ~(c.ory /\ c.oryRequired /\ ~c.oryAudience)

Places(c) == IF c.ory THEN {1, 2} ELSE {1}
Enforcing(c) == {i \in Places(c) : Providers(c)[i].issuers # {}}
Accepting(c, iss) == {i \in Places(c) : iss \in Providers(c)[i].issuers}

\* The places of the candidates, in two groups: those to try first and those to
\* try after them, each in the order of the providers.
order_candidates(c, t) ==
    IF t.iss \notin {Absent, Junk}
    THEN [first |-> IF Accepting(c, t.iss) # {} THEN Accepting(c, t.iss)
                    ELSE IF Enforcing(c) # {} THEN {} ELSE Places(c),
          last |-> {}]
    ELSE [first |-> Enforcing(c), last |-> Places(c) \ Enforcing(c)]

\* Mutant of select_by_issuer: an issuer nobody knows falls to the first.
select_first(c, t) ==
    IF Accepting(c, t.iss) # {} THEN Accepting(c, t.iss) ELSE Places(c)

\* The provider is the first of these, if there is one.
select_by_issuer(c, t) == IF Enforcing(c) = {} THEN Places(c) ELSE Accepting(c, t.iss)

audience_rejected(p, t) ==
    IF p.required THEN t.aud = Absent \/ t.aud # p.aud
    ELSE p.aud # Absent /\ t.aud # Absent /\ t.aud # p.aud
token_kind_rejected(p, t) == p.bare # Absent /\ t.iss = p.bare /\ t.drn # "DS"

infer_single_tenant_dct(p, t) ==
    IF p.infers /\ t.dct = Absent /\ Cardinality(t.member) = 1
    THEN [t EXCEPT !.dct = CHOOSE tenant \in t.member : TRUE] ELSE t

-----------------------------------------------------------------------------
(* The two middlewares: the provider by which a token is accepted, if any. *)

Rejected(p, t) == audience_rejected(p, t) \/ token_kind_rejected(p, t)
\* The first of these places decides.
Judge(c, places, t) ==
    IF places = {} THEN "none"
    ELSE LET p == Providers(c)[Min(places)] IN IF Rejected(p, t) THEN "none" ELSE p.name

HasExpiry(t) == t.exp \notin {Absent, Junk}
\* An expiry that is there must be a time to come; the code does not ask
\* validate_token, nor the gateway, to insist on one.
Unexpired(t) == t.exp = Absent \/ (HasExpiry(t) /\ now < t.exp)

\* validate_token checks the signature and the expiry; the first candidate
\* that verifies the token and accepts its issuer decides.
Verifies(p, t) ==
    /\ t.signer = p.name /\ Unexpired(t)
    /\ p.issuers # {} /\ t.iss # Absent => t.iss \in p.issuers
Standalone(c, t) ==
    LET candidates == order_candidates(c, t)
        Verifying(places) == {i \in places : Verifies(Providers(c)[i], t)}
        first == Verifying(candidates.first)
    IN Judge(c, IF first # {} THEN first ELSE Verifying(candidates.last), t)

Claims(c, t) ==
    IF HasExpiry(t) /\ now < t.exp + Leeway THEN Judge(c, select_by_issuer(c, t), t)
    ELSE "none"
\* The gateway knows Descope's URL issuers and this project's audience.
TykPasses(c, t) ==
    /\ c.descope /\ t.signer = "Descope" /\ t.iss \in {"url", "app"}
    /\ t.aud = "pid" /\ Unexpired(t)

Accepted(c, t) ==
    IF c.mode = "standalone" THEN Standalone(c, t)
    ELSE IF TykPasses(c, t) THEN Claims(c, t) ELSE "none"

-----------------------------------------------------------------------------
Init ==
    /\ config \in {c \in Configs : Starts(c)}
    /\ now = 0
    /\ status \in [Subjects -> Statuses]
    /\ grants \in [Subjects -> SUBSET (Tenants \X RoleNames)]
    /\ \A s \in Subjects : status[s] = "absent" => grants[s] = {}
    /\ keys \in [Keys -> KeyStates]
    /\ req = [r \in Requests |-> Idle]
    /\ events = 0

Spend == events < MaxEvents /\ events' = events + 1
Become(r, q) == req' = [req EXCEPT ![r] = q]
Refuse(r) == Become(r, Idle)
Backend == UNCHANGED <<config, now, status, grants, keys>>

\* A request whose token is accepted.
Arrive(r, t, op, k, names, exp) ==
    LET p == Accepted(config, t)
        claims == IF p = "Descope" THEN infer_single_tenant_dct(descope_config(config), t) ELSE t
        s == t.sub
    IN
    /\ req[r].phase = "idle" /\ p \in ProviderNames
    /\ op # "visit" => claims.dct # Absent
    /\ Become(r, [Idle EXCEPT !.phase = "authorize", !.op = op, !.token = claims, !.by = p,
                              !.key = k, !.names = names, !.exp = exp,
                              !.wasActive = s # Absent /\ status[s] = "active",
                              !.had = IF s = Absent THEN {} ELSE grants[s],
                              !.ours = k # NoKey /\ keys[k].tenant = claims.dct])
    /\ Spend
    /\ Backend

\* A route that requires a role, and the key routes, which want a tenant too.
Visit(r, t) == Arrive(r, t, "visit", NoKey, {}, 0)
CallCreate(r, t) == \E names \in SUBSET RoleNames, exp \in 0..(MaxTime + MaxLife + 1) :
                        Arrive(r, t, "create", NoKey, names, exp)
CallChange(r, t) == \E op \in {"deactivate", "activate", "delete"}, k \in Keys :
                        keys[k].state # "none" /\ Arrive(r, t, op, k, {}, 0)

-----------------------------------------------------------------------------
(* require_role("owner", "admin").                                         *)

\* Mutant of RolesIn: the roles of all tenants.
RolesAnywhere(g, tenant) == {role \in RoleNames : \E o \in Tenants : <<o, role>> \in g}

RolesIn(g, tenant) == {role \in RoleNames : <<tenant, role>> \in g}

Decide(r, tenant, roles) ==
    IF roles \cap Admins = {} THEN Refuse(r)
    ELSE Become(r, [req[r] EXCEPT !.phase = "allowed", !.tenant = tenant, !.roles = roles])

DecideByClaims(r) ==
    LET t == req[r].token IN
    /\ req[r].phase = "authorize" /\ req[r].by \notin Canonical
    /\ IF t.dct \in t.member THEN Decide(r, t.dct, RolesIn(t.grants, t.dct)) ELSE Refuse(r)
    /\ Backend /\ UNCHANGED events

\* _canonical_grants: the user first.
ReadUser(r) ==
    LET s == req[r].token.sub IN
    /\ req[r].phase = "authorize" /\ req[r].by \in Canonical
    /\ IF s = Absent THEN Refuse(r)
       ELSE IF status[s] = "absent" THEN Refuse(r)
       ELSE Become(r, [req[r] EXCEPT !.phase = "grants", !.seen = status[s]])
    /\ Backend /\ UNCHANGED events

\* Then the assignments: the claimed tenant if it is granted, or the only one.
ReadGrants(r) ==
    LET t == req[r].token
        g == grants[t.sub]
        granted == {x[1] : x \in g}
        tenants == IF t.dct = Absent THEN granted ELSE granted \cap {t.dct}
    IN
    /\ req[r].phase = "grants"
    /\ IF req[r].seen = "active" /\ Cardinality(tenants) = 1
       THEN LET tenant == CHOOSE x \in tenants : TRUE IN Decide(r, tenant, RolesIn(g, tenant))
       ELSE Refuse(r)
    /\ Backend /\ UNCHANGED events

-----------------------------------------------------------------------------
(* routers/accesskeys.py.                                                  *)

\* _require_roles_caller_holds
Contained(names, roles) == names \subseteq roles

\* Mutant of ValidExpiry: any time to come will do.
ValidExpiryLater(exp) == now < exp

\* Mutant of ValidExpiry: 0 is let through.
ValidExpiryOrNever(exp) == exp <= now + MaxLife

\* _validated_expire_time
ValidExpiry(exp) == now < exp /\ exp <= now + MaxLife

Check(r) ==
    LET q == req[r] IN
    /\ q.phase = "allowed" /\ q.op = "create"
    /\ IF Contained(q.names, q.roles) /\ ValidExpiry(q.exp)
       THEN Become(r, [q EXCEPT !.phase = "checked"]) ELSE Refuse(r)
    /\ Backend /\ UNCHANGED events

\* Mutant of KeyIsOurs: any key that exists is acted upon.
KeyIsAny(k, tenant) == keys[k].tenant # NoTenant

\* _verify_key_tenant
KeyIsOurs(k, tenant) == keys[k].tenant = tenant

Verify(r) ==
    LET q == req[r] IN
    /\ q.phase = "allowed" /\ q.op \notin {"visit", "create"}
    /\ IF keys[q.key].state \in {"active", "inactive"} /\ KeyIsOurs(q.key, q.token.dct)
       THEN Become(r, [q EXCEPT !.phase = "checked"]) ELSE Refuse(r)
    /\ Backend /\ UNCHANGED events

CreateKey(r) ==
    LET q == req[r] IN
    /\ q.phase = "checked" /\ q.op = "create"
    /\ \E k \in Keys :
         /\ keys[k].state = "none"
         /\ keys' = [keys EXCEPT ![k] = [state |-> "active", tenant |-> q.token.dct,
                                         roles |-> q.names, exp |-> q.exp]]
    /\ Refuse(r)
    /\ UNCHANGED <<config, now, status, grants, events>>

\* Deactivates, activates or deletes; a key deleted meanwhile stays so.
ChangeKey(r) ==
    LET q == req[r]
        to == [deactivate |-> "inactive", activate |-> "active", delete |-> "deleted"]
    IN
    /\ q.phase = "checked" /\ q.op # "create"
    /\ keys' = IF keys[q.key].state = "deleted" THEN keys
               ELSE [keys EXCEPT ![q.key].state = to[q.op]]
    /\ Refuse(r)
    /\ UNCHANGED <<config, now, status, grants, events>>

\* The handler of a visit runs, or a call to Descope fails.
Leave(r) ==
    /\ req[r].phase \in {"allowed", "checked"}
    /\ Refuse(r)
    /\ Backend /\ UNCHANGED events

-----------------------------------------------------------------------------
(* What others do meanwhile: API calls, reconciliation, Descope's console. *)

Noting(s, q) ==
    IF q.phase = "idle" \/ q.token.sub # s THEN q
    ELSE [q EXCEPT !.wasActive = @ \/ status'[s] = "active", !.had = @ \cup grants'[s]]

SetStatus(s, st) ==
    /\ status[s] # "absent" /\ st \notin {"absent", status[s]}
    /\ status' = [status EXCEPT ![s] = st]
    /\ UNCHANGED <<config, now, grants, keys>>
    /\ req' = [r \in Requests |-> Noting(s, req[r])]
    /\ Spend

SetGrant(s, tenant, role) ==
    LET g == <<tenant, role>> IN
    /\ status[s] # "absent"
    /\ grants' = [grants EXCEPT ![s] = IF g \in @ THEN @ \ {g} ELSE @ \cup {g}]
    /\ UNCHANGED <<config, now, status, keys>>
    /\ req' = [r \in Requests |-> Noting(s, req[r])]
    /\ Spend

MoveKey(k, tenant) ==
    /\ keys[k].state \in {"active", "inactive"} /\ tenant # keys[k].tenant
    /\ keys' = [keys EXCEPT ![k].tenant = tenant]
    /\ req' = [r \in Requests |-> IF req[r].key = k /\ req[r].token.dct = tenant
                                  THEN [req[r] EXCEPT !.ours = TRUE] ELSE req[r]]
    /\ Spend
    /\ UNCHANGED <<config, now, status, grants>>

Tick ==
    /\ now < MaxTime
    /\ now' = now + 1
    /\ UNCHANGED <<config, status, grants, keys, req, events>>

-----------------------------------------------------------------------------
Authorize(r) == DecideByClaims(r) \/ ReadUser(r) \/ ReadGrants(r)
Serve(r) == Check(r) \/ Verify(r) \/ CreateKey(r) \/ ChangeKey(r) \/ Leave(r)
Change ==
    \/ \E s \in Subjects, st \in Statuses : SetStatus(s, st)
    \/ \E s \in Subjects, tenant \in Tenants, role \in RoleNames : SetGrant(s, tenant, role)
    \/ \E k \in Keys, tenant \in Tenants : MoveKey(k, tenant)

Next ==
    \/ \E r \in Requests, t \in Tokens : Visit(r, t) \/ CallCreate(r, t) \/ CallChange(r, t)
    \/ \E r \in Requests : Authorize(r) \/ Serve(r)
    \/ Change \/ Tick

Spec == Init /\ [][Next]_vars

-----------------------------------------------------------------------------
(* Properties.                                                             *)

\* Whoever may have issued the token, by the issuer it names, has signed it.
Genuine(c, t) ==
    \A i \in IF Enforcing(c) = {} THEN Places(c) ELSE Accepting(c, t.iss) :
        t.signer = Providers(c)[i].name

\* Both middlewares accept a genuine token by the same provider, or refuse it,
\* each with its own way through providers.py, and but for what they mean to
\* differ in: the one behind the gateway lets a token pass for a leeway after
\* its expiry; only the other takes tokens that name no issuer, or bear no
\* expiry (auth.py, claims.py).
SameVerdict ==
    \A t \in Tokens : Genuine(config, t) =>
        LET alone == Standalone(config, t)
            behind == Claims(config, t)
        IN
        \/ alone = behind
        \/ alone = "none" /\ HasExpiry(t) /\ t.exp <= now
        \/ behind = "none" /\ (t.iss \in {Absent, Junk} \/ t.exp = Absent)

\* A decision rests on claims that their own provider has signed, and one made
\* in Postgres on what was so while the request was at work: its user was
\* active, it had these roles in this tenant; nothing revoked before the request
\* counts (_authenticate, _canonical_grants, uncached).
DecisionWarranted ==
    \A r \in Requests : LET q == req[r] IN
        q.phase \in {"allowed", "checked"} =>
            /\ q.token.signer = q.by /\ q.roles \cap Admins # {}
            /\ \A role \in q.roles :
                 IF q.by \in Canonical
                 THEN q.wasActive /\ <<q.tenant, role>> \in q.had
                 ELSE <<q.tenant, role>> \in q.token.grants

\* A key is made by a request that gives it no role but those its caller was
\* found to have in the tenant the key is for, and a life that ends, within the
\* limit (create_access_key: the tenant is the one the token claims, the roles
\* are those of the tenant that was decided upon, and 0 would be for ever).
KeysBounded ==
    [][\A k \in Keys : keys[k].state = "none" /\ keys'[k].state # "none" =>
         \E r \in Requests : LET q == req[r] IN
            /\ q.phase = "checked" /\ q.op = "create" /\ req'[r].phase = "idle"
            /\ keys'[k].exp # Never /\ keys'[k].exp <= now + MaxLife
            /\ keys'[k].tenant = q.tenant
            /\ \A role \in keys'[k].roles :
                 <<keys'[k].tenant, role>> \in IF q.by \in Canonical THEN q.had
                                               ELSE q.token.grants]_vars

\* A request changes only keys that were its tenant's while it was at work,
\* though a key may have been moved since it was looked at (_verify_key_tenant).
KeyOpsInTenant ==
    [][\A k \in Keys : keys[k].state # "none" /\ keys'[k] # keys[k] =>
         \/ events' # events
         \/ \E r \in Requests : /\ req[r].phase = "checked" /\ req[r].key = k
                                /\ req[r].ours /\ req[r].token.dct = req[r].tenant]_vars
=============================================================================
