--------------------------- MODULE AdmissionProofs ---------------------------
(***************************************************************************)
(* Proofs about Admission for any tokens, subjects, tenants, roles, keys   *)
(* and requests.                                                           *)
(*                                                                         *)
(* Sound is what a request may rely on at each point of its way: what it   *)
(* has noted of its user, its grants and its key covers what is so now,    *)
(* and what it decided was among what it noted.                            *)
(***************************************************************************)
EXTENDS Admission, FiniteSetTheorems, TLAPS

Decided(q) == q.phase \in {"allowed", "checked"}
Backed(q, role) == <<q.tenant, role>> \in IF q.by \in Canonical THEN q.had ELSE q.token.grants

\* The provider that vouches for a request's claims has signed them, and the
\* request has noted what is so of its user and its key.
Notes(q, st, gr, ks) ==
    LET s == q.token.sub IN
    /\ q.token.signer = q.by
    /\ s \in Subjects => (st[s] = "active" => q.wasActive) /\ gr[s] \subseteq q.had
    /\ q.key \in Keys => (ks[q.key].tenant = q.token.dct => q.ours)
    /\ q.op \notin {"visit", "create"} => q.key \in Keys /\ ks[q.key].state # "none"
    /\ q.op \in {"visit", "create"} => q.key = NoKey
    /\ q.op # "visit" => q.token.dct # Absent

\* A request q among users st, grants gr and keys ks, at time t.
Sound(q, st, gr, ks, t) ==
    /\ q \in RequestStates
    /\ q.phase # "idle" => Notes(q, st, gr, ks)
    /\ q.phase = "grants" => /\ q.by \in Canonical /\ q.token.sub \in Subjects
                             /\ q.seen = "active" => q.wasActive
    /\ Decided(q) => /\ q.tenant \in Tenants /\ q.roles \cap Admins # {}
                     /\ \A role \in q.roles : Backed(q, role)
                     /\ q.by \in Canonical => q.wasActive
                     /\ q.op # "visit" => q.tenant = q.token.dct
    /\ q.phase = "checked" => q.op # "visit"
    /\ q.phase = "checked" /\ q.op = "create" =>
         q.names \subseteq q.roles /\ 0 < q.exp /\ q.exp <= t + MaxLife
    /\ q.phase = "checked" /\ q.op # "create" => q.ours

IInv == TypeOK /\ \A r \in Requests : Sound(req[r], status, grants, keys, now)

USE ConstantsAssumption, TokensAssumption

-----------------------------------------------------------------------------
(* Tokens and requests.                                                    *)

LEMMA TokenIs ==
    ASSUME NEW t \in TokenType
    PROVE  /\ t.sub \in Subjects \cup {Absent} /\ t.dct \in Tenants \cup {Absent, Junk}
           /\ t.member \in SUBSET Tenants /\ t.grants \in SUBSET (Tenants \X RoleNames)
           /\ t.signer \in ProviderNames \cup {"stranger"}
           /\ t.exp \in 0..MaxTime \cup {Absent, Junk}
           /\ HasExpiry(t) => t.exp \in Nat
  BY DEF TokenType, HasExpiry

LEMMA RequestIs ==
    ASSUME NEW q \in RequestStates
    PROVE  /\ q.op \in Operations /\ q.token \in TokenType /\ q.by \in ProviderNames
           /\ q.key \in Keys \cup {NoKey} /\ q.names \in SUBSET RoleNames
           /\ q.exp \in 0..(MaxTime + MaxLife + 1) /\ q.seen \in Statuses
           /\ q.tenant \in Tenants \cup {NoTenant} /\ q.roles \in SUBSET RoleNames
           /\ q.wasActive \in BOOLEAN /\ q.had \in SUBSET (Tenants \X RoleNames)
           /\ q.ours \in BOOLEAN
  BY DEF RequestStates

LEMMA IdleSound ==
    /\ Idle \in RequestStates /\ Sound(Idle, status, grants, keys, now) /\ Idle.phase = "idle"
    /\ Idle.names = {} /\ Idle.roles = {} /\ Idle.tenant = NoTenant /\ Idle.seen = "absent"
<1>1. NoToken \in TokenType BY DEF NoToken
<1>2. 0 \in 0..(MaxTime + MaxLife + 1) OBVIOUS
<1>3. Idle \in RequestStates
  BY <1>1, <1>2 DEF Idle, RequestStates, Operations, ProviderNames, Statuses
<1>4. Idle.phase = "idle" /\ Idle.names = {} /\ Idle.roles = {} /\ Idle.tenant = NoTenant
      /\ Idle.seen = "absent"
  BY DEF Idle
<1> QED BY <1>3, <1>4 DEF Sound, Decided

\* A step of one request that changes nothing else keeps the invariant.
LEMMA BecomeStep ==
    ASSUME IInv, NEW r \in Requests, NEW q, Sound(q, status, grants, keys, now), Become(r, q),
           Backend, events' \in Nat
    PROVE  IInv'
<1>1. req'[r] = q /\ \A o \in Requests \ {r} : req'[o] = req[o] BY DEF Become, IInv, TypeOK
<1>2. TypeOK'
  <2>1. req' \in [Requests -> RequestStates] BY DEF Become, IInv, TypeOK, Sound
  <2> QED BY <2>1 DEF Backend, IInv, TypeOK
<1>3. \A o \in Requests : Sound(req'[o], status', grants', keys', now')
  BY <1>1 DEF Backend, IInv
<1> QED BY <1>2, <1>3 DEF IInv

LEMMA RefuseStep ==
    ASSUME IInv, NEW r \in Requests, Refuse(r), Backend, events' \in Nat PROVE IInv'
  BY IdleSound, BecomeStep DEF Refuse

LEMMA InitInv == Init => IInv
<1> SUFFICES ASSUME Init PROVE IInv OBVIOUS
<1>1. TypeOK BY IdleSound DEF Init, TypeOK
<1>2. \A r \in Requests : Sound(req[r], status, grants, keys, now) BY IdleSound DEF Init
<1> QED BY <1>1, <1>2 DEF IInv

-----------------------------------------------------------------------------
(* The two middlewares.                                                    *)

LEMMA FirstIs ==
    ASSUME NEW c \in Configs, NEW S \in SUBSET Places(c), S # {}
    PROVE  Min(S) \in S
<1>1. S \subseteq {1, 2} BY DEF Places
<1>2. PICK least \in S : \A i \in S : least <= i
  <2>1. CASE 1 \in S BY <1>1, <2>1
  <2>2. CASE 1 \notin S
    <3>1. S = {2} BY <1>1, <2>2
    <3> QED BY <3>1
  <2> QED BY <2>1, <2>2
<1> QED BY <1>2 DEF Min

\* What decides is one of the places, if it is not a refusal.
LEMMA JudgeIs ==
    ASSUME NEW c \in Configs, NEW S \in SUBSET Places(c), NEW t,
           Judge(c, S, t) \in ProviderNames
    PROVE  \E i \in S : Judge(c, S, t) = Providers(c)[i].name
<1>1. "none" \notin ProviderNames BY DEF ProviderNames
<1>2. S # {} /\ Judge(c, S, t) = Providers(c)[Min(S)].name BY <1>1 DEF Judge
<1> QED BY <1>2, FirstIs

LEMMA CandidatesAre ==
    ASSUME NEW c \in Configs, NEW t
    PROVE  /\ order_candidates(c, t).first \in SUBSET Places(c)
           /\ order_candidates(c, t).last \in SUBSET Places(c)
           /\ select_by_issuer(c, t) \in SUBSET Places(c)
  BY DEF order_candidates, select_by_issuer, Accepting, Enforcing

LEMMA GatewayIssuers ==
    ASSUME NEW c \in Configs, NEW t, TykPasses(c, t), NEW i \in select_by_issuer(c, t)
    PROVE  Providers(c)[i].name = "Descope"
<1>1. /\ c.descope /\ t.iss \in {"url", "app"} /\ t.iss \in DescopeIssuers
      /\ t.iss # "ory"
  BY DEF TykPasses, DescopeIssuers
<1>2. 1 \in Places(c) /\ Providers(c)[1] = descope_config(c) BY DEF Places, Providers
<1>3. 1 \in Enforcing(c)
  BY <1>1, <1>2 DEF Enforcing, descope_config
<1>4. i \in Places(c) /\ t.iss \in Providers(c)[i].issuers
  BY <1>3 DEF select_by_issuer, Accepting
<1>5. CASE i = 1 BY <1>2, <1>5 DEF descope_config
<1>6. CASE i # 1
  <2>1. c.ory /\ i = 2 BY <1>4, <1>6 DEF Places
  <2>2. Providers(c)[i] = ory_config(c) BY <2>1 DEF Providers
  <2> QED BY <1>1, <1>4, <2>2 DEF ory_config
<1> QED BY <1>5, <1>6

\* Whichever middleware lets a token in, the provider by whose name it does so
\* is the one that has signed the token.
LEMMA AcceptedBySigner ==
    ASSUME NEW c \in Configs, NEW t, Accepted(c, t) \in ProviderNames
    PROVE  t.signer = Accepted(c, t)
<1>1. CASE c.mode = "standalone"
  <2> DEFINE Verifying(places) == {i \in places : Verifies(Providers(c)[i], t)}
             first == Verifying(order_candidates(c, t).first)
             last == Verifying(order_candidates(c, t).last)
  <2>1. PICK S : S = IF first # {} THEN first ELSE last OBVIOUS
  <2>2. Accepted(c, t) = Judge(c, S, t) BY <1>1, <2>1 DEF Accepted, Standalone
  <2>3. S \in SUBSET Places(c) /\ \A i \in S : Verifies(Providers(c)[i], t)
    BY <2>1, CandidatesAre
  <2>4. PICK i \in S : Judge(c, S, t) = Providers(c)[i].name BY <2>2, <2>3, JudgeIs
  <2> QED BY <2>2, <2>3, <2>4 DEF Verifies
<1>2. CASE c.mode # "standalone"
  <2>1. "none" \notin ProviderNames BY DEF ProviderNames
  <2>2. TykPasses(c, t) /\ Accepted(c, t) = Judge(c, select_by_issuer(c, t), t)
    BY <1>2, <2>1 DEF Accepted, Claims
  <2>3. PICK i \in select_by_issuer(c, t) : Accepted(c, t) = Providers(c)[i].name
    BY <2>2, CandidatesAre, JudgeIs
  <2> QED BY <2>2, <2>3, GatewayIssuers DEF TykPasses
<1> QED BY <1>1, <1>2

\* Absent and Junk are in the place of an issuer, and name none.
LEMMA IssuersNamed ==
    ASSUME NEW c \in Configs, NEW iss \in {Absent, Junk}, NEW i \in Places(c)
    PROVE  iss \notin Providers(c)[i].issuers
<1>1. iss \notin DescopeIssuers \cup {"ory"} BY DEF DescopeIssuers
<1>2. CASE i = 1
  <2>1. Providers(c)[i] = descope_config(c) BY <1>2 DEF Providers
  <2> QED BY <1>1, <2>1 DEF descope_config
<1>3. CASE i # 1
  <2>1. Providers(c)[i] = ory_config(c) BY <1>3 DEF Places, Providers
  <2> QED BY <1>1, <2>1 DEF ory_config
<1> QED BY <1>2, <1>3

\* Of a genuine token that is not expired both middlewares consider the same
\* providers, unless it names no issuer and some provider wants one named.
LEMMA SameCandidates ==
    ASSUME NEW c \in Configs, NEW t, Genuine(c, t), Unexpired(t),
           t.iss \notin {Absent, Junk} \/ Enforcing(c) = {}
    PROVE  Standalone(c, t) = Judge(c, select_by_issuer(c, t), t)
<1> DEFINE S == select_by_issuer(c, t)
           first == order_candidates(c, t).first
           last == order_candidates(c, t).last
<1>1. /\ Accepting(c, t.iss) \subseteq Enforcing(c) /\ Enforcing(c) \subseteq Places(c)
      /\ \A i \in Accepting(c, t.iss) : t.iss \in Providers(c)[i].issuers
      /\ \A i \in Places(c) \ Enforcing(c) : Providers(c)[i].issuers = {}
  BY DEF Accepting, Enforcing
<1>2. \/ first = S /\ last = {}
      \/ first = {} /\ last = S
  BY <1>1 DEF order_candidates, select_by_issuer
<1>3. ASSUME NEW i \in S PROVE Verifies(Providers(c)[i], t)
  <2>1. t.signer = Providers(c)[i].name
    BY <1>1 DEF Genuine, select_by_issuer
  <2>2. Providers(c)[i].issuers # {} => t.iss \in Providers(c)[i].issuers
    BY <1>1 DEF select_by_issuer
  <2> QED BY <2>1, <2>2 DEF Verifies
<1>4. {i \in S : Verifies(Providers(c)[i], t)} = S BY <1>3
<1> QED BY <1>2, <1>4 DEF Standalone

\* A token that is expired, or whose expiry is no number, no provider verifies.
LEMMA ExpiredRefused ==
    ASSUME NEW c \in Configs, NEW t, ~Unexpired(t)
    PROVE  Standalone(c, t) = "none"
<1>1. \A places : {i \in places : Verifies(Providers(c)[i], t)} = {} BY DEF Verifies
<1> QED BY <1>1 DEF Standalone, Judge

LEMMA SameJudgement ==
    ASSUME NEW c \in Configs, NEW t \in Tokens, now \in Nat, Genuine(c, t)
    PROVE  \/ Standalone(c, t) = Claims(c, t)
           \/ Standalone(c, t) = "none" /\ HasExpiry(t) /\ t.exp <= now
           \/ Claims(c, t) = "none" /\ (t.iss \in {Absent, Junk} \/ t.exp = Absent)
<1>1. t \in TokenType /\ Leeway \in Nat OBVIOUS
<1>2. CASE t.exp = Absent BY <1>2 DEF Claims, HasExpiry
<1>3. CASE t.exp = Junk
  <2>1. ~Unexpired(t) /\ ~HasExpiry(t) BY <1>3 DEF Unexpired, HasExpiry
  <2> QED BY <2>1, ExpiredRefused DEF Claims
<1>4. CASE HasExpiry(t) /\ ~(now < t.exp)
  <2>1. t.exp \in Nat /\ t.exp # Absent BY <1>1, <1>4, TokenIs DEF HasExpiry
  <2>2. t.exp <= now BY <1>4, <2>1
  <2>3. ~Unexpired(t) BY <1>4, <2>1 DEF Unexpired
  <2> QED BY <1>4, <2>2, <2>3, ExpiredRefused
<1>5. CASE HasExpiry(t) /\ now < t.exp
  <2>1. t.exp \in Nat BY <1>1, <1>5, TokenIs
  <2>2. now < t.exp + Leeway BY <1>1, <1>5, <2>1
  <2>3. Claims(c, t) = Judge(c, select_by_issuer(c, t), t) BY <1>5, <2>2 DEF Claims
  <2>4. Unexpired(t) BY <1>5 DEF Unexpired
  <2>5. CASE t.iss \notin {Absent, Junk} \/ Enforcing(c) = {}
    BY <2>3, <2>4, <2>5, SameCandidates
  <2>6. CASE t.iss \in {Absent, Junk} /\ Enforcing(c) # {}
    <3>1. Accepting(c, t.iss) = {} BY <2>6, IssuersNamed DEF Accepting
    <3>2. Judge(c, {}, t) = "none" BY DEF Judge
    <3> QED BY <2>3, <2>6, <3>1, <3>2 DEF select_by_issuer
  <2> QED BY <2>5, <2>6
<1> QED BY <1>2, <1>3, <1>4, <1>5 DEF HasExpiry

-----------------------------------------------------------------------------
(* A request arrives.                                                      *)

LEMMA InferIs ==
    ASSUME NEW p, NEW t \in TokenType
    PROVE  /\ infer_single_tenant_dct(p, t) \in TokenType
           /\ infer_single_tenant_dct(p, t).sub = t.sub
           /\ infer_single_tenant_dct(p, t).signer = t.signer
<1>1. CASE p.infers /\ t.dct = Absent /\ Cardinality(t.member) = 1
  <2>1. t.member # {} BY <1>1, FS_EmptySet
  <2>2. PICK d : d = CHOOSE tenant \in t.member : TRUE OBVIOUS
  <2>3. d \in Tenants BY <2>1, <2>2, TokenIs
  <2>4. infer_single_tenant_dct(p, t) = [t EXCEPT !.dct = d]
    BY <1>1, <2>2 DEF infer_single_tenant_dct
  <2>5. /\ [t EXCEPT !.dct = d] \in TokenType /\ [t EXCEPT !.dct = d].sub = t.sub
        /\ [t EXCEPT !.dct = d].signer = t.signer
    BY <2>3 DEF TokenType
  <2> QED BY <2>4, <2>5
<1>2. CASE ~(p.infers /\ t.dct = Absent /\ Cardinality(t.member) = 1)
  <2>1. infer_single_tenant_dct(p, t) = t BY <1>2 DEF infer_single_tenant_dct
  <2> QED BY <2>1
<1> QED BY <1>1, <1>2

LEMMA ArriveStep ==
    ASSUME IInv, NEW r \in Requests, NEW t \in Tokens, NEW op \in Operations,
           NEW k \in Keys \cup {NoKey}, NEW names \in SUBSET RoleNames,
           NEW exp \in 0..(MaxTime + MaxLife + 1),
           op \notin {"visit", "create"} => k \in Keys /\ keys[k].state # "none",
           op \in {"visit", "create"} => k = NoKey, Arrive(r, t, op, k, names, exp)
    PROVE  IInv'
<1>1. PICK p \in ProviderNames, claims \in TokenType :
        /\ p = Accepted(config, t)
        /\ claims = IF p = "Descope" THEN infer_single_tenant_dct(descope_config(config), t) ELSE t
        /\ claims.sub = t.sub /\ claims.signer = p
  <2>1. config \in Configs BY DEF IInv, TypeOK
  <2>2. Accepted(config, t) \in ProviderNames BY DEF Arrive
  <2>3. t.signer = Accepted(config, t) BY <2>1, <2>2, AcceptedBySigner
  <2> QED BY <2>2, <2>3, InferIs
<1>2. PICK active, had, ours :
        /\ active = (t.sub # Absent /\ status[t.sub] = "active")
        /\ had = IF t.sub = Absent THEN {} ELSE grants[t.sub]
        /\ ours = (k # NoKey /\ keys[k].tenant = claims.dct)
  OBVIOUS
<1>3. active \in BOOLEAN /\ ours \in BOOLEAN BY <1>2, Zenon
<1>4. had \in SUBSET (Tenants \X RoleNames)
  <2>1. t.sub \in Subjects \cup {Absent} BY TokenIs
  <2>2. grants \in [Subjects -> SUBSET (Tenants \X RoleNames)] BY DEF IInv, TypeOK
  <2>3. had = IF t.sub = Absent THEN {} ELSE grants[t.sub] BY <1>2
  <2> QED BY <2>1, <2>2, <2>3
<1> DEFINE q == [Idle EXCEPT !.phase = "authorize", !.op = op, !.token = claims, !.by = p,
                             !.key = k, !.names = names, !.exp = exp, !.wasActive = active,
                             !.had = had, !.ours = ours]
<1>5. Become(r, q) BY <1>1, <1>2 DEF Arrive
<1>6. q \in RequestStates BY <1>3, <1>4, IdleSound DEF RequestStates
<1>7. /\ q.phase = "authorize" /\ q.op = op /\ q.token = claims /\ q.by = p /\ q.key = k
      /\ q.wasActive = active /\ q.had = had /\ q.ours = ours
  BY DEF Idle
<1> HIDE DEF q
<1>8. op # "visit" => claims.dct # Absent BY <1>1 DEF Arrive
<1>9. Notes(q, status, grants, keys)
  <2>1. claims.sub \in Subjects => t.sub # Absent BY <1>1
  <2>2. k \in Keys => k # NoKey OBVIOUS
  <2> QED BY <1>1, <1>2, <1>7, <1>8, <2>1, <2>2 DEF Notes
<1>10. Sound(q, status, grants, keys, now) BY <1>6, <1>7, <1>9 DEF Sound, Decided
<1>11. events' \in Nat /\ Backend BY DEF Arrive, Spend, IInv, TypeOK
<1> QED BY <1>5, <1>10, <1>11, BecomeStep

LEMMA CallStep ==
    ASSUME IInv, NEW r \in Requests, NEW t \in Tokens,
           Visit(r, t) \/ CallCreate(r, t) \/ CallChange(r, t)
    PROVE  IInv'
<1>1. CASE Visit(r, t)
  <2>1. /\ "visit" \in Operations /\ NoKey \in Keys \cup {NoKey} /\ {} \in SUBSET RoleNames
        /\ 0 \in 0..(MaxTime + MaxLife + 1)
    BY DEF Operations
  <2> QED BY <1>1, <2>1, ArriveStep DEF Visit
<1>2. CASE CallCreate(r, t)
  <2>1. PICK names \in SUBSET RoleNames, exp \in 0..(MaxTime + MaxLife + 1) :
          Arrive(r, t, "create", NoKey, names, exp)
    BY <1>2 DEF CallCreate
  <2>2. "create" \in Operations /\ NoKey \in Keys \cup {NoKey} BY DEF Operations
  <2> QED BY <2>1, <2>2, ArriveStep
<1>3. CASE CallChange(r, t)
  <2>1. PICK op \in {"deactivate", "activate", "delete"}, k \in Keys :
          keys[k].state # "none" /\ Arrive(r, t, op, k, {}, 0)
    BY <1>3 DEF CallChange
  <2>2. /\ op \in Operations /\ k \in Keys \cup {NoKey} /\ {} \in SUBSET RoleNames
        /\ 0 \in 0..(MaxTime + MaxLife + 1)
    BY DEF Operations
  <2> QED BY <2>1, <2>2, ArriveStep
<1> QED BY <1>1, <1>2, <1>3

-----------------------------------------------------------------------------
(* The decision on roles.                                                  *)

LEMMA DecideStep ==
    ASSUME IInv, NEW r \in Requests, req[r].phase \in {"authorize", "grants"},
           NEW tenant \in Tenants, NEW roles \in SUBSET RoleNames, Decide(r, tenant, roles),
           Backend, events' \in Nat,
           \A role \in roles : <<tenant, role>> \in
               IF req[r].by \in Canonical THEN req[r].had ELSE req[r].token.grants,
           req[r].by \in Canonical => req[r].wasActive,
           req[r].op # "visit" => tenant = req[r].token.dct
    PROVE  IInv'
<1>1. Sound(req[r], status, grants, keys, now) BY DEF IInv
<1>2. CASE roles \cap Admins = {} BY <1>2, RefuseStep DEF Decide
<1>3. CASE roles \cap Admins # {}
  <2>1. PICK q : q = [req[r] EXCEPT !.phase = "allowed", !.tenant = tenant, !.roles = roles]
    OBVIOUS
  <2>2. /\ q \in RequestStates /\ q.phase = "allowed" /\ q.tenant = tenant /\ q.roles = roles
        /\ q.op = req[r].op /\ q.token = req[r].token /\ q.by = req[r].by
        /\ q.key = req[r].key /\ q.wasActive = req[r].wasActive /\ q.had = req[r].had
        /\ q.ours = req[r].ours
    BY <1>1, <2>1 DEF Sound, RequestStates
  <2>3. Notes(q, status, grants, keys) BY <1>1, <2>2 DEF Sound, Notes
  <2>4. Sound(q, status, grants, keys, now)
    BY <1>3, <2>2, <2>3 DEF Sound, Decided, Backed
  <2>5. Become(r, q) BY <1>3, <2>1 DEF Decide
  <2> QED BY <2>4, <2>5, BecomeStep
<1> QED BY <1>2, <1>3

LEMMA RolesInAre ==
    ASSUME NEW g, NEW tenant
    PROVE  /\ RolesIn(g, tenant) \in SUBSET RoleNames
           /\ \A role \in RolesIn(g, tenant) : <<tenant, role>> \in g
  BY DEF RolesIn

LEMMA DecideByClaimsStep ==
    ASSUME IInv, NEW r \in Requests, DecideByClaims(r) PROVE IInv'
<1>1. Sound(req[r], status, grants, keys, now) /\ req[r].phase = "authorize"
      /\ req[r].by \notin Canonical /\ Backend /\ events' \in Nat
  BY DEF IInv, DecideByClaims, TypeOK
<1>2. req[r].token \in TokenType BY <1>1, RequestIs DEF Sound
<1>3. CASE req[r].token.dct \notin req[r].token.member
  BY <1>1, <1>3, RefuseStep DEF DecideByClaims
<1>4. CASE req[r].token.dct \in req[r].token.member
  <2>1. PICK d \in Tenants : d = req[r].token.dct BY <1>2, <1>4, TokenIs
  <2>2. PICK roles \in SUBSET RoleNames : roles = RolesIn(req[r].token.grants, d)
    BY RolesInAre
  <2>3. Decide(r, d, roles) BY <1>4, <2>1, <2>2 DEF DecideByClaims
  <2>4. \A role \in roles : <<d, role>> \in req[r].token.grants BY <2>2, RolesInAre
  <2> QED BY <1>1, <2>1, <2>3, <2>4, DecideStep
<1> QED BY <1>3, <1>4

LEMMA ReadUserStep == ASSUME IInv, NEW r \in Requests, ReadUser(r) PROVE IInv'
<1>1. Sound(req[r], status, grants, keys, now) /\ req[r].phase = "authorize"
      /\ req[r].by \in Canonical /\ Backend /\ events' \in Nat
  BY DEF IInv, ReadUser, TypeOK
<1>2. CASE Refuse(r) BY <1>1, <1>2, RefuseStep
<1>3. CASE ~Refuse(r)
  <2>1. req[r].token.sub \in Subjects BY <1>1, <1>3, RequestIs, TokenIs DEF ReadUser, Sound
  <2>2. PICK st \in Statuses : st = status[req[r].token.sub] BY <2>1 DEF IInv, TypeOK
  <2>3. PICK q : q = [req[r] EXCEPT !.phase = "grants", !.seen = st] OBVIOUS
  <2>4. Become(r, q) BY <1>3, <2>2, <2>3 DEF ReadUser
  <2>5. /\ q \in RequestStates /\ q.phase = "grants" /\ q.seen = st /\ q.op = req[r].op
        /\ q.token = req[r].token /\ q.by = req[r].by /\ q.key = req[r].key
        /\ q.wasActive = req[r].wasActive /\ q.had = req[r].had /\ q.ours = req[r].ours
    BY <1>1, <2>3 DEF Sound, RequestStates
  <2>6. Notes(q, status, grants, keys) BY <1>1, <2>5 DEF Sound, Notes
  <2>7. Sound(q, status, grants, keys, now)
    BY <1>1, <2>1, <2>2, <2>5, <2>6 DEF Sound, Decided, Notes
  <2> QED BY <1>1, <2>4, <2>7, BecomeStep
<1> QED BY <1>2, <1>3

LEMMA ReadGrantsStep == ASSUME IInv, NEW r \in Requests, ReadGrants(r) PROVE IInv'
<1>1. Sound(req[r], status, grants, keys, now) /\ req[r].phase = "grants"
      /\ Backend /\ events' \in Nat
  BY DEF IInv, ReadGrants, TypeOK
<1>2. /\ req[r].by \in Canonical /\ req[r].token.sub \in Subjects
      /\ Notes(req[r], status, grants, keys) /\ req[r].token \in TokenType
  BY <1>1, RequestIs DEF Sound
<1>3. PICK g \in SUBSET (Tenants \X RoleNames) : g = grants[req[r].token.sub]
  BY <1>2 DEF IInv, TypeOK
<1>4. PICK tenants \in SUBSET Tenants :
        tenants = IF req[r].token.dct = Absent THEN {x[1] : x \in g}
                  ELSE {x[1] : x \in g} \cap {req[r].token.dct}
  <2>1. PICK granted : granted = {x[1] : x \in g} OBVIOUS
  <2>2. \A x \in g : x[1] \in Tenants OBVIOUS
  <2>3. granted \in SUBSET Tenants BY <2>1, <2>2
  <2>4. (IF req[r].token.dct = Absent THEN granted ELSE granted \cap {req[r].token.dct})
          \in SUBSET Tenants
    BY <2>3
  <2> QED BY <2>1, <2>4
<1>5. CASE ~(req[r].seen = "active" /\ Cardinality(tenants) = 1)
  BY <1>1, <1>3, <1>4, <1>5, RefuseStep DEF ReadGrants
<1>6. CASE req[r].seen = "active" /\ Cardinality(tenants) = 1
  <2>1. tenants # {} BY <1>6, FS_EmptySet
  <2>2. PICK d \in tenants : d = CHOOSE x \in tenants : TRUE BY <2>1
  <2>3. PICK roles \in SUBSET RoleNames : roles = RolesIn(g, d) BY RolesInAre
  <2>4. Decide(r, d, roles) BY <1>3, <1>4, <1>6, <2>2, <2>3 DEF ReadGrants
  <2>5. \A role \in roles : <<d, role>> \in req[r].had
    BY <1>2, <1>3, <2>3, RolesInAre DEF Notes
  <2>6. req[r].op # "visit" => d = req[r].token.dct BY <1>2, <1>4 DEF Notes
  <2>7. req[r].wasActive BY <1>1, <1>6 DEF Sound
  <2> QED BY <1>1, <1>2, <2>4, <2>5, <2>6, <2>7, DecideStep
<1> QED BY <1>5, <1>6

-----------------------------------------------------------------------------
(* The key routes.                                                         *)

LEMMA CheckStep == ASSUME IInv, NEW r \in Requests, Check(r) PROVE IInv'
<1>1. Sound(req[r], status, grants, keys, now) /\ req[r].phase = "allowed"
      /\ req[r].op = "create" /\ Backend /\ events' \in Nat
  BY DEF IInv, Check, TypeOK
<1>2. CASE Refuse(r) BY <1>1, <1>2, RefuseStep
<1>3. CASE ~Refuse(r)
  <2>1. PICK q : q = [req[r] EXCEPT !.phase = "checked"] OBVIOUS
  <2>2. /\ Become(r, q) /\ req[r].names \subseteq req[r].roles
        /\ now < req[r].exp /\ req[r].exp <= now + MaxLife
    BY <1>3, <2>1 DEF Check, Contained, ValidExpiry
  <2>3. /\ q \in RequestStates /\ q.phase = "checked" /\ q.op = req[r].op
        /\ q.token = req[r].token /\ q.by = req[r].by /\ q.key = req[r].key
        /\ q.names = req[r].names /\ q.exp = req[r].exp /\ q.tenant = req[r].tenant
        /\ q.roles = req[r].roles /\ q.wasActive = req[r].wasActive
        /\ q.had = req[r].had /\ q.ours = req[r].ours
    BY <1>1, <2>1 DEF Sound, RequestStates
  <2>4. Notes(q, status, grants, keys) BY <1>1, <2>3 DEF Sound, Notes
  <2>5. 0 < req[r].exp
    <3>1. now \in Nat /\ req[r].exp \in Nat BY <1>1, RequestIs DEF Sound, IInv, TypeOK
    <3> QED BY <2>2, <3>1
  <2>6. Sound(q, status, grants, keys, now)
    BY <1>1, <2>2, <2>3, <2>4, <2>5 DEF Sound, Decided, Backed
  <2> QED BY <1>1, <2>2, <2>6, BecomeStep
<1> QED BY <1>2, <1>3

LEMMA VerifyStep == ASSUME IInv, NEW r \in Requests, Verify(r) PROVE IInv'
<1>1. Sound(req[r], status, grants, keys, now) /\ req[r].phase = "allowed"
      /\ req[r].op \notin {"visit", "create"} /\ Backend /\ events' \in Nat
  BY DEF IInv, Verify, TypeOK
<1>2. CASE Refuse(r) BY <1>1, <1>2, RefuseStep
<1>3. CASE ~Refuse(r)
  <2>1. PICK q : q = [req[r] EXCEPT !.phase = "checked"] OBVIOUS
  <2>2. Become(r, q) /\ keys[req[r].key].tenant = req[r].token.dct
    BY <1>3, <2>1 DEF Verify, KeyIsOurs
  <2>3. /\ q \in RequestStates /\ q.phase = "checked" /\ q.op = req[r].op
        /\ q.token = req[r].token /\ q.by = req[r].by /\ q.key = req[r].key
        /\ q.names = req[r].names /\ q.exp = req[r].exp /\ q.tenant = req[r].tenant
        /\ q.roles = req[r].roles /\ q.wasActive = req[r].wasActive
        /\ q.had = req[r].had /\ q.ours = req[r].ours
    BY <1>1, <2>1 DEF Sound, RequestStates
  <2>4. Notes(q, status, grants, keys) BY <1>1, <2>3 DEF Sound, Notes
  <2>5. q.ours BY <1>1, <2>2, <2>3 DEF Sound, Notes, Decided
  <2>6. Sound(q, status, grants, keys, now)
    BY <1>1, <2>3, <2>4, <2>5 DEF Sound, Decided, Backed
  <2> QED BY <1>1, <2>2, <2>6, BecomeStep
<1> QED BY <1>2, <1>3

\* A key that keeps its tenant, and is not unmade, disturbs no request.
LEMMA KeyStep ==
    ASSUME IInv, NEW r \in Requests, Refuse(r), UNCHANGED <<config, now, status, grants, events>>,
           keys' \in [Keys -> KeyStates],
           \A k \in Keys : keys[k].state # "none" =>
               keys'[k].state # "none" /\ keys'[k].tenant = keys[k].tenant,
           \A k \in Keys : keys[k].state = "none" /\ keys'[k] # keys[k] =>
               \A o \in Requests \ {r} :
                  req[o].phase # "idle" /\ req[o].key = k
                  /\ keys'[k].tenant = req[o].token.dct => req[o].ours
    PROVE  IInv'
<1>1. req'[r] = Idle /\ \A o \in Requests \ {r} : req'[o] = req[o]
  BY DEF Refuse, Become, IInv, TypeOK
<1>2. TypeOK'
  <2>1. req' \in [Requests -> RequestStates] BY IdleSound DEF Refuse, Become, IInv, TypeOK
  <2> QED BY <2>1 DEF IInv, TypeOK
<1>3. ASSUME NEW o \in Requests PROVE Sound(req'[o], status', grants', keys', now')
  <2>1. CASE o = r BY <1>1, <2>1, IdleSound DEF Sound, Decided
  <2>2. CASE o # r
    <3>1. Sound(req[o], status, grants, keys, now) /\ req'[o] = req[o] BY <1>1, <2>2 DEF IInv
    <3>2. req[o].phase # "idle" => Notes(req[o], status, grants, keys')
      BY <2>2, <3>1 DEF Sound, Notes
    <3> QED BY <3>1, <3>2 DEF Sound
  <2> QED BY <2>1, <2>2
<1> QED BY <1>2, <1>3 DEF IInv

LEMMA CreateKeyStep == ASSUME IInv, NEW r \in Requests, CreateKey(r) PROVE IInv'
<1>1. Sound(req[r], status, grants, keys, now) /\ req[r].phase = "checked"
      /\ req[r].op = "create" /\ Refuse(r) /\ UNCHANGED <<config, now, status, grants, events>>
  BY DEF IInv, CreateKey
<1> DEFINE new == [state |-> "active", tenant |-> req[r].token.dct,
                   roles |-> req[r].names, exp |-> req[r].exp]
<1>2. PICK k \in Keys : keys[k].state = "none" /\ keys' = [keys EXCEPT ![k] = new]
  BY DEF CreateKey
<1>3. new \in KeyStates
  <2>1. /\ req[r].token.dct \in Tenants /\ req[r].names \in SUBSET RoleNames
        /\ req[r].exp \in Nat /\ 0 < req[r].exp /\ req[r].exp <= now + MaxLife
    BY <1>1, RequestIs DEF Sound, Decided
  <2>2. now \in 0..MaxTime BY DEF IInv, TypeOK
  <2>3. req[r].exp \in 1..(MaxTime + MaxLife) BY <2>1, <2>2
  <2> QED BY <1>2, <2>1, <2>3 DEF KeyStates
<1>4. keys \in [Keys -> KeyStates] BY DEF IInv, TypeOK
<1>5. keys' \in [Keys -> KeyStates] /\ \A c \in Keys \ {k} : keys'[c] = keys[c]
  BY <1>2, <1>3, <1>4
<1>6. \A c \in Keys : keys[c].state # "none" =>
         keys'[c].state # "none" /\ keys'[c].tenant = keys[c].tenant
  BY <1>2, <1>5
<1>7. ASSUME NEW o \in Requests \ {r}, req[o].phase # "idle", req[o].key = k PROVE FALSE
  <2>1. Notes(req[o], status, grants, keys) BY <1>7 DEF IInv, Sound
  <2> QED BY <1>2, <1>7, <2>1 DEF Notes
<1>8. \A c \in Keys : keys[c].state = "none" /\ keys'[c] # keys[c] =>
         \A o \in Requests \ {r} :
            req[o].phase # "idle" /\ req[o].key = c
            /\ keys'[c].tenant = req[o].token.dct => req[o].ours
  BY <1>5, <1>7
<1> QED BY <1>1, <1>5, <1>6, <1>8, KeyStep

LEMMA ChangeKeyStep == ASSUME IInv, NEW r \in Requests, ChangeKey(r) PROVE IInv'
<1>1. Sound(req[r], status, grants, keys, now) /\ req[r].phase = "checked"
      /\ req[r].op # "create" /\ Refuse(r) /\ UNCHANGED <<config, now, status, grants, events>>
  BY DEF IInv, ChangeKey
<1>2. PICK k \in Keys : req[r].key = k /\ keys[k].state # "none"
                        /\ req[r].op \in {"deactivate", "activate", "delete"}
  BY <1>1, RequestIs DEF Sound, Notes, Operations
<1>3. PICK to \in {"inactive", "active", "deleted"} :
        to = [deactivate |-> "inactive", activate |-> "active", delete |-> "deleted"][req[r].op]
  BY <1>2
<1>4. keys' = IF keys[k].state = "deleted" THEN keys ELSE [keys EXCEPT ![k].state = to]
  BY <1>2, <1>3 DEF ChangeKey
<1>5. keys \in [Keys -> KeyStates] BY DEF IInv, TypeOK
<1>6. keys' \in [Keys -> KeyStates] BY <1>4, <1>5 DEF KeyStates
<1>7. \A c \in Keys : keys[c].state # "none" =>
         keys'[c].state # "none" /\ keys'[c].tenant = keys[c].tenant
  BY <1>2, <1>4, <1>5 DEF KeyStates
<1>8. \A c \in Keys : keys[c].state = "none" => keys'[c] = keys[c] BY <1>2, <1>4, <1>5
<1> QED BY <1>1, <1>6, <1>7, <1>8, KeyStep

LEMMA LeaveStep == ASSUME IInv, NEW r \in Requests, Leave(r) PROVE IInv'
<1>1. events' \in Nat BY DEF Leave, IInv, TypeOK
<1> QED BY <1>1, RefuseStep DEF Leave

-----------------------------------------------------------------------------
(* What others do.                                                         *)

\* A user's status or grants change, and requests that work for it note it.
LEMMA UserStep ==
    ASSUME IInv, NEW s \in Subjects, UNCHANGED <<config, now, keys>>, events' \in Nat,
           status' \in [Subjects -> Statuses],
           grants' \in [Subjects -> SUBSET (Tenants \X RoleNames)],
           \A x \in Subjects \ {s} : status'[x] = status[x] /\ grants'[x] = grants[x],
           req' = [r \in Requests |-> Noting(s, req[r])]
    PROVE  IInv'
<1>1. ASSUME NEW r \in Requests PROVE Sound(req'[r], status', grants', keys', now')
  <2>1. Sound(req[r], status, grants, keys, now) /\ req'[r] = Noting(s, req[r]) BY DEF IInv
  <2>2. CASE req[r].phase = "idle" \/ req[r].token.sub # s
    <3>1. req'[r] = req[r] BY <2>1, <2>2 DEF Noting
    <3>2. req[r].phase # "idle" => Notes(req[r], status', grants', keys')
      BY <2>1, <2>2 DEF Sound, Notes
    <3> QED BY <2>1, <3>1, <3>2 DEF Sound
  <2>3. CASE ~(req[r].phase = "idle" \/ req[r].token.sub # s)
    <3>1. PICK active, had : /\ active = (req[r].wasActive \/ status'[s] = "active")
                             /\ had = req[r].had \cup grants'[s]
      OBVIOUS
    <3>2. active \in BOOLEAN /\ (active <=> req[r].wasActive \/ status'[s] = "active")
      BY <3>1, Zenon
    <3>3. PICK q : q = [req[r] EXCEPT !.wasActive = active, !.had = had] OBVIOUS
    <3>4. req'[r] = q BY <2>1, <2>3, <3>1, <3>3 DEF Noting
    <3>5. had \in SUBSET (Tenants \X RoleNames) BY <2>1, <3>1, RequestIs DEF Sound
    <3>6. /\ q \in RequestStates /\ q.phase = req[r].phase /\ q.op = req[r].op
          /\ q.token = req[r].token /\ q.by = req[r].by /\ q.key = req[r].key
          /\ q.names = req[r].names /\ q.exp = req[r].exp /\ q.seen = req[r].seen
          /\ q.tenant = req[r].tenant /\ q.roles = req[r].roles /\ q.ours = req[r].ours
          /\ q.wasActive = active /\ q.had = had
      BY <2>1, <3>2, <3>3, <3>5 DEF Sound, RequestStates
    <3>7. Notes(q, status', grants', keys')
      BY <2>1, <2>3, <3>1, <3>2, <3>6 DEF Sound, Notes
    <3>8. \A role \in q.roles : Backed(req[r], role) => Backed(q, role)
      BY <3>1, <3>6 DEF Backed
    <3>9. Sound(q, status', grants', keys', now')
      BY <2>1, <3>2, <3>6, <3>7, <3>8 DEF Sound, Decided
    <3> QED BY <3>4, <3>9
  <2> QED BY <2>2, <2>3
<1>2. TypeOK'
  <2>1. req' \in [Requests -> RequestStates] BY <1>1 DEF Sound
  <2> QED BY <2>1 DEF IInv, TypeOK
<1> QED BY <1>1, <1>2 DEF IInv

LEMMA SpendType == ASSUME IInv, Spend PROVE events' \in Nat BY DEF IInv, TypeOK, Spend

LEMMA SetStatusStep ==
    ASSUME IInv, NEW s \in Subjects, NEW st \in Statuses, SetStatus(s, st) PROVE IInv'
<1>1. /\ UNCHANGED <<config, now, keys>> /\ events' \in Nat
      /\ status' \in [Subjects -> Statuses]
      /\ grants' \in [Subjects -> SUBSET (Tenants \X RoleNames)]
      /\ \A x \in Subjects \ {s} : status'[x] = status[x] /\ grants'[x] = grants[x]
  BY SpendType DEF SetStatus, IInv, TypeOK
<1> QED BY <1>1, UserStep DEF SetStatus

LEMMA SetGrantStep ==
    ASSUME IInv, NEW s \in Subjects, NEW tenant \in Tenants, NEW role \in RoleNames,
           SetGrant(s, tenant, role)
    PROVE  IInv'
<1>1. grants \in [Subjects -> SUBSET (Tenants \X RoleNames)] BY DEF IInv, TypeOK
<1>2. <<tenant, role>> \in Tenants \X RoleNames OBVIOUS
<1>3. /\ grants' \in [Subjects -> SUBSET (Tenants \X RoleNames)]
      /\ \A x \in Subjects \ {s} : grants'[x] = grants[x]
  BY <1>1, <1>2 DEF SetGrant
<1>4. /\ UNCHANGED <<config, now, keys>> /\ events' \in Nat
      /\ status' \in [Subjects -> Statuses] /\ status' = status
  BY SpendType DEF SetGrant, IInv, TypeOK
<1> QED BY <1>3, <1>4, UserStep DEF SetGrant

LEMMA MoveKeyStep ==
    ASSUME IInv, NEW k \in Keys, NEW tenant \in Tenants, MoveKey(k, tenant) PROVE IInv'
<1>1. /\ UNCHANGED <<config, now, status, grants>> /\ events' \in Nat
      /\ keys' = [keys EXCEPT ![k].tenant = tenant]
      /\ req' = [r \in Requests |-> IF req[r].key = k /\ req[r].token.dct = tenant
                                    THEN [req[r] EXCEPT !.ours = TRUE] ELSE req[r]]
  BY SpendType DEF MoveKey
<1>2. keys \in [Keys -> KeyStates] BY DEF IInv, TypeOK
<1>3. /\ keys' \in [Keys -> KeyStates] /\ keys'[k].tenant = tenant
      /\ \A c \in Keys : keys'[c].state = keys[c].state
      /\ \A c \in Keys \ {k} : keys'[c] = keys[c]
  BY <1>1, <1>2 DEF KeyStates
<1>4. ASSUME NEW r \in Requests PROVE Sound(req'[r], status', grants', keys', now')
  <2>1. Sound(req[r], status, grants, keys, now) BY DEF IInv
  <2>2. CASE req[r].key = k /\ req[r].token.dct = tenant
    <3>1. PICK q : q = [req[r] EXCEPT !.ours = TRUE] OBVIOUS
    <3>2. req'[r] = q BY <1>1, <2>2, <3>1
    <3>3. /\ q \in RequestStates /\ q.phase = req[r].phase /\ q.op = req[r].op
          /\ q.token = req[r].token /\ q.by = req[r].by /\ q.key = req[r].key
          /\ q.names = req[r].names /\ q.exp = req[r].exp /\ q.seen = req[r].seen
          /\ q.tenant = req[r].tenant /\ q.roles = req[r].roles /\ q.ours
          /\ q.wasActive = req[r].wasActive /\ q.had = req[r].had
      BY <2>1, <3>1 DEF Sound, RequestStates
    <3>4. q.phase # "idle" => Notes(q, status', grants', keys')
      BY <1>1, <1>3, <2>1, <3>3 DEF Sound, Notes
    <3>5. Sound(q, status', grants', keys', now')
      BY <1>1, <2>1, <3>3, <3>4 DEF Sound, Decided, Backed
    <3> QED BY <3>2, <3>5
  <2>3. CASE ~(req[r].key = k /\ req[r].token.dct = tenant)
    <3>1. req'[r] = req[r] BY <1>1, <2>3
    <3>2. req[r].phase # "idle" => Notes(req[r], status', grants', keys')
      BY <1>1, <1>3, <2>1, <2>3 DEF Sound, Notes
    <3> QED BY <1>1, <2>1, <3>1, <3>2 DEF Sound
  <2> QED BY <2>2, <2>3
<1>5. TypeOK'
  <2>1. req' \in [Requests -> RequestStates] BY <1>1, <1>4 DEF Sound
  <2> QED BY <1>1, <1>3, <2>1 DEF IInv, TypeOK
<1> QED BY <1>4, <1>5 DEF IInv

LEMMA TickStep == ASSUME IInv, Tick PROVE IInv'
<1>1. now' = now + 1 /\ now \in 0..MaxTime /\ now < MaxTime BY DEF Tick, IInv, TypeOK
<1>2. now' \in 0..MaxTime BY <1>1
<1>3. UNCHANGED <<config, status, grants, keys, req, events>> BY DEF Tick
<1>4. TypeOK' BY <1>2, <1>3 DEF IInv, TypeOK
<1>5. ASSUME NEW r \in Requests PROVE Sound(req'[r], status', grants', keys', now')
  <2>1. Sound(req[r], status, grants, keys, now) BY DEF IInv
  <2>2. req[r].exp \in Nat BY <2>1, RequestIs DEF Sound
  <2>3. req[r].exp <= now + MaxLife => req[r].exp <= now' + MaxLife BY <1>1, <2>2
  <2> QED BY <1>3, <2>1, <2>3 DEF Sound
<1> QED BY <1>4, <1>5 DEF IInv

-----------------------------------------------------------------------------
(* The invariant holds, and what follows from it.                          *)

LEMMA RequestStep ==
    ASSUME IInv, NEW r \in Requests, Authorize(r) \/ Serve(r) PROVE IInv'
  BY DecideByClaimsStep, ReadUserStep, ReadGrantsStep, CheckStep, VerifyStep, CreateKeyStep,
     ChangeKeyStep, LeaveStep
  DEF Authorize, Serve

LEMMA ChangeStep == ASSUME IInv, Change PROVE IInv'
  BY SetStatusStep, SetGrantStep, MoveKeyStep DEF Change

LEMMA NextInv == ASSUME IInv, [Next]_vars PROVE IInv'
<1>1. CASE UNCHANGED vars
  <2>1. TypeOK' BY <1>1 DEF vars, IInv, TypeOK
  <2>2. \A r \in Requests : Sound(req'[r], status', grants', keys', now')
    BY <1>1 DEF vars, IInv
  <2> QED BY <2>1, <2>2 DEF IInv
<1> QED BY <1>1, CallStep, RequestStep, ChangeStep, TickStep DEF Next

\* At each point of its way a request has noted what it will rely on.
THEOREM Invariance == Spec => []IInv
<1>1. Init => IInv BY InitInv
<1>2. IInv /\ [Next]_vars => IInv' BY NextInv
<1> QED BY <1>1, <1>2, PTL DEF Spec

\* Variables keep to their types.
THEOREM TypeCorrect == Spec => []TypeOK
<1>1. IInv => TypeOK BY DEF IInv
<1> QED BY <1>1, Invariance, PTL

\* Both middlewares judge a genuine token alike, whatever the configuration, but
\* for the leeway and for tokens that name no issuer or bear no expiry.
THEOREM VerdictsAlwaysAgree == Spec => []SameVerdict
<1>1. IInv => SameVerdict BY SameJudgement DEF IInv, TypeOK, SameVerdict
<1> QED BY <1>1, Invariance, PTL

\* No decision rests on claims another has signed, nor on a grant, or an active
\* user, of before the request.
THEOREM DecisionAlwaysWarranted == Spec => []DecisionWarranted
<1>1. IInv => DecisionWarranted
  <2> SUFFICES ASSUME IInv, NEW r \in Requests, req[r].phase \in {"allowed", "checked"}
               PROVE  /\ req[r].token.signer = req[r].by /\ req[r].roles \cap Admins # {}
                      /\ \A role \in req[r].roles :
                           IF req[r].by \in Canonical
                           THEN req[r].wasActive /\ <<req[r].tenant, role>> \in req[r].had
                           ELSE <<req[r].tenant, role>> \in req[r].token.grants
    BY DEF DecisionWarranted
  <2> QED BY DEF IInv, Sound, Decided, Backed, Notes
<1> QED BY <1>1, Invariance, PTL

\* In this step request r makes key k, within what r itself may give.
Makes(r, k) ==
    LET q == req[r] IN
    /\ q.phase = "checked" /\ q.op = "create" /\ req'[r].phase = "idle"
    /\ keys'[k].exp # Never /\ keys'[k].exp <= now + MaxLife
    /\ keys'[k].tenant = q.tenant
    /\ \A role \in keys'[k].roles :
         <<keys'[k].tenant, role>> \in IF q.by \in Canonical THEN q.had ELSE q.token.grants

\* A step that makes a key, and what it gives it.
LEMMA KeyMade ==
    ASSUME IInv, [Next]_vars, NEW k \in Keys, keys[k].state = "none", keys'[k].state # "none"
    PROVE  \E r \in Requests : Makes(r, k)
<1>1. keys' # keys OBVIOUS
<1>2. ASSUME NEW r \in Requests, CreateKey(r) PROVE Makes(r, k)
  <2>1. Sound(req[r], status, grants, keys, now) /\ req[r].phase = "checked"
        /\ req[r].op = "create" /\ Refuse(r)
    BY <1>2 DEF IInv, CreateKey
  <2>2. keys \in [Keys -> KeyStates] BY DEF IInv, TypeOK
  <2>3. PICK c \in Keys :
          keys' = [keys EXCEPT ![c] = [state |-> "active", tenant |-> req[r].token.dct,
                                       roles |-> req[r].names, exp |-> req[r].exp]]
    BY <1>2 DEF CreateKey
  <2>4. c = k BY <2>2, <2>3
  <2>5. /\ keys'[k].tenant = req[r].token.dct /\ keys'[k].roles = req[r].names
        /\ keys'[k].exp = req[r].exp
    BY <2>2, <2>3, <2>4
  <2>6. /\ req[r].names \subseteq req[r].roles /\ req[r].tenant = req[r].token.dct
        /\ 0 < req[r].exp /\ req[r].exp <= now + MaxLife
        /\ \A role \in req[r].roles : Backed(req[r], role)
    BY <2>1 DEF Sound, Decided
  <2>7. req'[r].phase = "idle" BY <2>1, IdleSound DEF Refuse, Become, IInv, TypeOK
  <2>8. keys'[k].exp # Never
    <3>1. req[r].exp \in Nat BY <2>1, RequestIs DEF Sound
    <3> QED BY <2>5, <2>6, <3>1 DEF Never
  <2> QED BY <2>1, <2>5, <2>6, <2>7, <2>8 DEF Backed, Makes
<1>3. ASSUME NEW r \in Requests, ChangeKey(r) PROVE FALSE
  <2>1. PICK c \in Keys : req[r].key = c /\ keys[c].state # "none"
    BY <1>3, RequestIs DEF IInv, ChangeKey, Sound, Notes, Operations
  <2>2. c # k BY <2>1
  <2>3. keys'[k] = keys[k] BY <1>3, <2>1, <2>2 DEF ChangeKey, IInv, TypeOK
  <2> QED BY <2>3
<1>4. ASSUME NEW c \in Keys, NEW tenant \in Tenants, MoveKey(c, tenant) PROVE FALSE
  <2>1. keys \in [Keys -> KeyStates] BY DEF IInv, TypeOK
  <2>2. keys'[k].state = keys[k].state BY <1>4, <2>1 DEF MoveKey, KeyStates
  <2> QED BY <2>2
<1>5. ASSUME NEW r \in Requests, NEW t \in Tokens,
             Visit(r, t) \/ CallCreate(r, t) \/ CallChange(r, t)
      PROVE  keys' = keys
  BY <1>5 DEF Visit, CallCreate, CallChange, Arrive, Backend
<1>6. ASSUME NEW r \in Requests, Authorize(r) \/ Check(r) \/ Verify(r) \/ Leave(r)
      PROVE  keys' = keys
  BY <1>6 DEF Authorize, DecideByClaims, ReadUser, ReadGrants, Check, Verify, Leave, Backend
<1>7. ASSUME NEW s \in Subjects, NEW st \in Statuses, SetStatus(s, st) PROVE keys' = keys
  BY <1>7 DEF SetStatus
<1>8. ASSUME NEW s \in Subjects, NEW tenant \in Tenants, NEW role \in RoleNames,
             SetGrant(s, tenant, role)
      PROVE  keys' = keys
  BY <1>8 DEF SetGrant
<1>9. CASE Tick \/ UNCHANGED vars BY <1>1, <1>9 DEF Tick, vars
<1> QED BY <1>1, <1>2, <1>3, <1>4, <1>5, <1>6, <1>7, <1>8, <1>9 DEF Next, Serve, Change

\* Who makes a key is a request that was checked: it gives no role but those its
\* own caller was found to have in the tenant, and a life that ends in time.
THEOREM KeysAlwaysBounded == Spec => KeysBounded
<1>1. IInv /\ [Next]_vars =>
        [\A k \in Keys : keys[k].state = "none" /\ keys'[k].state # "none" =>
           \E r \in Requests : LET q == req[r] IN
              /\ q.phase = "checked" /\ q.op = "create" /\ req'[r].phase = "idle"
              /\ keys'[k].exp # Never /\ keys'[k].exp <= now + MaxLife
              /\ keys'[k].tenant = q.tenant
              /\ \A role \in keys'[k].roles :
                   <<keys'[k].tenant, role>> \in IF q.by \in Canonical THEN q.had
                                                 ELSE q.token.grants]_vars
  BY KeyMade DEF Makes
<1> QED BY <1>1, Invariance, PTL DEF Spec, KeysBounded

\* A step that changes a key, and whose it was.
LEMMA KeyChanged ==
    ASSUME IInv, [Next]_vars, NEW k \in Keys, keys[k].state # "none", keys'[k] # keys[k]
    PROVE  \/ events' # events
           \/ \E r \in Requests : /\ req[r].phase = "checked" /\ req[r].key = k
                                  /\ req[r].ours /\ req[r].token.dct = req[r].tenant
<1>1. keys' # keys OBVIOUS
<1>2. ASSUME NEW r \in Requests, ChangeKey(r)
      PROVE  /\ req[r].phase = "checked" /\ req[r].key = k
             /\ req[r].ours /\ req[r].token.dct = req[r].tenant
  <2>1. Sound(req[r], status, grants, keys, now) /\ req[r].phase = "checked"
        /\ req[r].op # "create"
    BY <1>2 DEF IInv, ChangeKey
  <2>2. PICK c \in Keys : req[r].key = c BY <2>1, RequestIs DEF Sound, Notes, Operations
  <2>3. c = k BY <1>2, <2>2 DEF ChangeKey, IInv, TypeOK
  <2> QED BY <2>1, <2>2, <2>3 DEF Sound, Decided
<1>3. ASSUME NEW r \in Requests, CreateKey(r) PROVE FALSE
  <2>1. PICK c \in Keys : keys[c].state = "none" /\ \A x \in Keys \ {c} : keys'[x] = keys[x]
    BY <1>3 DEF CreateKey, IInv, TypeOK
  <2> QED BY <2>1
<1>4. ASSUME Spend PROVE events' # events BY <1>4 DEF Spend, IInv, TypeOK
<1>5. ASSUME NEW r \in Requests, NEW t \in Tokens,
             Visit(r, t) \/ CallCreate(r, t) \/ CallChange(r, t)
      PROVE  keys' = keys
  BY <1>5 DEF Visit, CallCreate, CallChange, Arrive, Backend
<1>6. ASSUME NEW r \in Requests, Authorize(r) \/ Check(r) \/ Verify(r) \/ Leave(r)
      PROVE  keys' = keys
  BY <1>6 DEF Authorize, DecideByClaims, ReadUser, ReadGrants, Check, Verify, Leave, Backend
<1>7. Change => Spend BY DEF Change, SetStatus, SetGrant, MoveKey
<1>8. CASE Tick \/ UNCHANGED vars BY <1>1, <1>8 DEF Tick, vars
<1> QED BY <1>1, <1>2, <1>3, <1>4, <1>5, <1>6, <1>7, <1>8 DEF Next, Serve

\* A request changes only keys of the tenant it was let into, as of some moment
\* of its own.
THEOREM KeyOpsAlwaysInTenant == Spec => KeyOpsInTenant
<1>1. IInv /\ [Next]_vars =>
        [\A k \in Keys : keys[k].state # "none" /\ keys'[k] # keys[k] =>
           \/ events' # events
           \/ \E r \in Requests : /\ req[r].phase = "checked" /\ req[r].key = k
                                  /\ req[r].ours /\ req[r].token.dct = req[r].tenant]_vars
  BY KeyChanged
<1> QED BY <1>1, Invariance, PTL DEF Spec, KeyOpsInTenant
=============================================================================
