-------------------------- MODULE AdminRolesProofs --------------------------
(***************************************************************************)
(* Proofs about AdminRoles for any number of roles, permissions, members   *)
(* and requests.                                                           *)
(*                                                                         *)
(* A role that is inserted and not committed is in no variable but its     *)
(* request.  Formed says what a request holds, Reserved that the id and    *)
(* the name of an uncommitted role are its own and that the permissions it *)
(* refers to stay, and Remembered that what a reconciliation has fetched   *)
(* is in Descope still, or known to be lost there since.                   *)
(***************************************************************************)
EXTENDS AdminRoles, FiniteSetTheorems, TLAPS

Uncommitted(q) == q.phase \in {"look", "map"}

\* What each kind of request was begun with, and how far it has come.
Formed(q) ==
    /\ q \in RequestStates
    /\ q.phase = "loop" => q.at <= Len(q.names) /\ q.op \in {"assign", "remove"}
                           /\ q.named \in [Names -> Roles \cup {NoId}]
                           /\ q.member \in Members
    /\ q.phase = "store" => /\ q.op \in {"create", "rename", "delete"}
                            /\ q.op # "delete" => q.new \in Names
                            /\ q.op # "create" => q.id \in IdsOf(q.kind)
    /\ q.phase = "store" /\ q.op = "create" => q.at = 0 /\ q.mapped = {} /\ ~q.dead
    /\ Uncommitted(q) => /\ q.kind = "role" /\ q.id \in Roles /\ q.new \in Names
                         /\ q.at <= Len(q.names)
                         /\ IsFiniteSet(q.mapped)
                         /\ ~q.dead => Cardinality(q.mapped) = q.at
    /\ q.phase = "map" => /\ q.at < Len(q.names) /\ ~q.dead
                          /\ q.named[q.names[q.at + 1]] \in Permissions
    /\ q.phase = "push" => q.new \in Names

Reserved ==
    /\ \A p \in Requests : Uncommitted(req[p]) =>
         /\ ~Exists(req[p].id)
         /\ req[p].new \notin NamesOf("role")
         /\ \A i \in req[p].mapped : Exists(i)
    /\ \A p, o \in Requests : Uncommitted(req[p]) /\ Uncommitted(req[o]) =>
         p = o \/ (req[p].id # req[o].id /\ req[p].new # req[o].new)

\* Descope has the definition, or has lost it since it had, or it failed there.
Known(k, n) == n \in remote[k] \/ <<k, n>> \in unpushed
Remembered ==
    recon.phase # "idle" =>
        \A k \in Kinds : \A n \in recon.fetched[k] : Known(k, n)

IInv ==
    /\ TypeOK /\ Consistent /\ MissingHasCause /\ PrefixDone
    /\ \A p \in Requests : Formed(req[p])
    /\ Reserved /\ Remembered

USE ConstantsAssumption

-----------------------------------------------------------------------------
(* Names, ids and requests.                                                *)

LEMMA IdsAre ==
    /\ \A k \in Kinds : IdsOf(k) \subseteq Ids
    /\ \A k \in Kinds : \A i \in IdsOf(k) : KindOf(i) = k
    /\ \A i \in Ids : KindOf(i) \in Kinds /\ i \in IdsOf(KindOf(i))
    /\ IdsOf("role") = Roles /\ IdsOf("permission") = Permissions
  BY DEF IdsOf, Ids, Kinds, KindOf

LEMMA NamesOfIs ==
    \A k, n : n \in NamesOf(k) <=> \E i \in IdsOf(k) : name[i] = n /\ n # NoName
  BY DEF NamesOf

LEMMA NamesType == ASSUME TypeOK, NEW k \in Kinds PROVE NamesOf(k) \subseteq Names
<1>1. \A i \in IdsOf(k) : name[i] \in Names \cup {NoName} BY IdsAre DEF TypeOK
<1> QED BY <1>1, NamesOfIs

LEMMA NamedIs ==
    ASSUME NEW k \in Kinds
    PROVE  /\ Named(k) \in [Names -> IdsOf(k) \cup {NoId}]
           /\ \A n \in Names : n \in NamesOf(k) => /\ Named(k)[n] \in IdsOf(k)
                                                   /\ name[Named(k)[n]] = n
  BY NamesOfIs DEF Named

LEMMA RequestType ==
    ASSUME NEW q \in RequestStates
    PROVE  /\ q.op \in Operations /\ q.phase \in Phases /\ q.kind \in Kinds /\ q.names \in Lists
           /\ q.named \in [Names -> Ids \cup {NoId}] /\ q.at \in 0..MaxNames
           /\ q.member \in Members \cup {NoMember} /\ q.id \in Ids \cup {NoId}
           /\ q.new \in Names \cup {NoName} /\ q.mapped \in SUBSET Permissions
           /\ q.dead \in BOOLEAN /\ q.others \in SUBSET Roles
  BY DEF RequestStates

LEMMA ListsAre ==
    ASSUME NEW ns \in Lists
    PROVE  /\ Len(ns) \in 0..MaxNames /\ DOMAIN ns = 1..Len(ns)
           /\ \A j \in 1..Len(ns) : ns[j] \in Names
<1>1. PICK n \in 0..MaxNames : ns \in [1..n -> Names] BY DEF Lists
<1>2. ns \in Seq(Names) /\ Len(ns) = n BY <1>1
<1> QED BY <1>1, <1>2

LEMMA UncommittedIs ==
    ASSUME NEW q, Formed(q), Uncommitted(q)
    PROVE  /\ q.kind = "role" /\ q.id \in Roles /\ q.new \in Names
           /\ q.mapped \in SUBSET Permissions
<1>1. q.kind = "role" /\ q.id \in Roles /\ q.new \in Names BY Zenon DEF Formed
<1>2. q \in RequestStates BY Zenon DEF Formed
<1> QED BY <1>1, <1>2, RequestType

LEMMA IdleFits ==
    Formed(Idle) /\ Idle.phase = "idle" /\ ~Uncommitted(Idle) /\ Idle.member = NoMember
<1>1. <<>> \in Lists
  <2>1. <<>> \in [1..0 -> Names] OBVIOUS
  <2>2. 0 \in 0..MaxNames OBVIOUS
  <2> QED BY <2>1, <2>2 DEF Lists
<1> QED BY <1>1 DEF Formed, Idle, RequestStates, Uncommitted, Operations, Phases, Kinds

LEMMA BecomeIs ==
    ASSUME IInv, NEW p \in Requests, NEW q, Become(p, q)
    PROVE  /\ req'[p] = q
           /\ \A o \in Requests \ {p} : req'[o] = req[o]
           /\ q \in RequestStates => req' \in [Requests -> RequestStates]
  BY DEF Become, IInv, TypeOK

LEMMA SpendType == ASSUME IInv, NEW n \in Nat, Spend(n) PROVE events' \in Nat
  BY DEF IInv, TypeOK, Spend

-----------------------------------------------------------------------------
(* Steps of one request that change no row.                                *)

LEMMA RequestStep ==
    ASSUME IInv, NEW p \in Requests, NEW q, Become(p, q), Formed(q),
           UNCHANGED <<name, mapped, held, recon>>, events' \in Nat,
           remote' \in [Kinds -> SUBSET Names], unpushed' \in SUBSET (Kinds \X Names),
           \A k \in Kinds, n \in Names : Known(k, n) => Known(k, n)',
           \A k \in Kinds, n \in Names :
               req[p].phase = "push" /\ req[p].kind = k /\ req[p].new = n => Known(k, n)',
           q.phase = "loop" => q.at = 0,
           Uncommitted(q) =>
             /\ ~Exists(q.id) /\ q.new \notin NamesOf("role")
             /\ \A i \in q.mapped : Exists(i)
             /\ \A o \in Requests \ {p} :
                  Uncommitted(req[o]) => q.id # req[o].id /\ q.new # req[o].new
    PROVE  IInv'
<1>1. /\ req'[p] = q
      /\ \A o \in Requests \ {p} : req'[o] = req[o]
      /\ req' \in [Requests -> RequestStates]
  BY BecomeIs DEF Formed
<1>2. TypeOK' BY <1>1 DEF IInv, TypeOK
<1>3. Consistent' BY DEF IInv, Consistent, Exists
<1>4. MissingHasCause'
  <2>0. \A k \in Kinds : NamesOf(k)' = NamesOf(k) BY DEF NamesOf
  <2>1. ASSUME NEW k \in Kinds, NEW n \in NamesOf(k), ~Known(k, n)'
        PROVE  \E o \in Requests :
                 req'[o].phase = "push" /\ req'[o].kind = k /\ req'[o].new = n
    <3>1. n \in Names BY NamesType DEF IInv
    <3>2. ~Known(k, n) BY <2>1, <3>1
    <3>3. PICK o \in Requests : req[o].phase = "push" /\ req[o].kind = k /\ req[o].new = n
      BY <3>2 DEF IInv, MissingHasCause, Known
    <3>4. o # p
      <4>1. ASSUME o = p PROVE Known(k, n)' BY <3>1, <3>3, <4>1
      <4> QED BY <2>1, <4>1
    <3>5. req'[o] = req[o] BY <1>1, <3>4
    <3> QED BY <3>3, <3>5
  <2>2. \A k \in Kinds : \A n \in NamesOf(k) : Known(k, n)' \/ \E o \in Requests :
          req'[o].phase = "push" /\ req'[o].kind = k /\ req'[o].new = n
    BY <2>1
  <2>3. ASSUME NEW k \in Kinds, NEW n \in NamesOf(k)' \ remote'[k]
        PROVE  \/ <<k, n>> \in unpushed'
               \/ \E o \in Requests :
                    req'[o].phase = "push" /\ req'[o].kind = k /\ req'[o].new = n
    <3>1. n \in NamesOf(k) BY <2>0, <2>3
    <3>2. Known(k, n)' <=> n \in remote'[k] \/ <<k, n>> \in unpushed' BY DEF Known
    <3> QED BY <2>2, <2>3, <3>1, <3>2
  <2> QED BY <2>3 DEF MissingHasCause
<1>5. PrefixDone'
  <2>1. ASSUME NEW o \in Requests, req'[o].phase = "loop", NEW j \in 1..req'[o].at
        PROVE  LET i == req'[o].named[req'[o].names[j]] IN
               i \in req'[o].others \/ (i \in held'[req'[o].member] <=> req'[o].op = "assign")
    <3>1. CASE o = p BY <1>1, <2>1, <3>1
    <3>2. CASE o # p BY <1>1, <2>1, <3>2 DEF IInv, PrefixDone
    <3> QED BY <3>1, <3>2
  <2> QED BY <2>1 DEF PrefixDone
<1>6. \A o \in Requests : Formed(req'[o]) BY <1>1 DEF IInv
<1>7. Reserved'
  <2>1. \A o \in Requests : Uncommitted(req'[o]) =>
          /\ ~Exists(req'[o].id)
          /\ req'[o].new \notin NamesOf("role")
          /\ \A i \in req'[o].mapped : Exists(i)
    BY <1>1 DEF IInv, Reserved
  <2>2. \A o, x \in Requests : Uncommitted(req'[o]) /\ Uncommitted(req'[x]) =>
          o = x \/ (req'[o].id # req'[x].id /\ req'[o].new # req'[x].new)
    BY <1>1 DEF IInv, Reserved
  <2> QED BY <2>1, <2>2 DEF Reserved, Exists, NamesOf, Uncommitted
<1>8. Remembered'
  <2>1. \A k \in Kinds : \A n \in recon.fetched[k] : recon.phase # "idle" => n \in Names
    BY DEF IInv, TypeOK, ReconStates
  <2> QED BY <2>1 DEF IInv, Remembered, Known
<1> QED BY <1>2, <1>3, <1>4, <1>5, <1>6, <1>7, <1>8 DEF IInv

\* The rest stays, and no push is dropped.
LEMMA PlainStep ==
    ASSUME IInv, NEW p \in Requests, NEW q, Become(p, q), Formed(q),
           UNCHANGED <<name, mapped, held, remote, recon, unpushed>>, events' \in Nat,
           req[p].phase # "push", q.phase = "loop" => q.at = 0,
           Uncommitted(q) =>
             /\ ~Exists(q.id) /\ q.new \notin NamesOf("role")
             /\ \A i \in q.mapped : Exists(i)
             /\ \A o \in Requests \ {p} :
                  Uncommitted(req[o]) => q.id # req[o].id /\ q.new # req[o].new
    PROVE  IInv'
<1>1. remote' \in [Kinds -> SUBSET Names] /\ unpushed' \in SUBSET (Kinds \X Names)
  BY DEF IInv, TypeOK
<1>2. \A k \in Kinds, n \in Names : Known(k, n) => Known(k, n)' BY DEF Known
<1> QED BY <1>1, <1>2, RequestStep

LEMMA AnswerStep ==
    ASSUME IInv, NEW p \in Requests, Answer(p),
           UNCHANGED <<name, mapped, held, remote, recon, unpushed>>, events' \in Nat,
           req[p].phase # "push"
    PROVE  IInv'
  BY IdleFits, PlainStep DEF Answer

LEMMA InitInv == Init => IInv
<1> SUFFICES ASSUME Init PROVE IInv OBVIOUS
<1>1. TypeOK
  <2>1. \A k \in Kinds : NamesOf(k) \subseteq Names
    <3>1. ASSUME NEW k \in Kinds PROVE \A i \in IdsOf(k) : name[i] \in Names \cup {NoName}
      BY IdsAre DEF Init
    <3> QED BY <3>1, NamesOfIs
  <2>2. remote \in [Kinds -> SUBSET Names] BY <2>1 DEF Init
  <2>3. req \in [Requests -> RequestStates] BY IdleFits DEF Init, Formed
  <2>4. held \in [Members -> SUBSET Roles] BY DEF Init
  <2>5. recon \in ReconStates BY DEF Init, AtRest, ReconStates
  <2> QED BY <2>2, <2>3, <2>4, <2>5 DEF Init, TypeOK
<1>2. Consistent
  <2>1. \A m \in Members : \A r \in held[m] : Exists(r)
    BY <1>1 DEF Init, TypeOK, Ids
  <2>2. \A r \in Roles : \A x \in mapped[r] : Exists(r) /\ Exists(x)
    <3>1. ASSUME NEW r \in Roles, NEW x \in mapped[r] PROVE Exists(r) /\ Exists(x)
      <4>1. x \in Ids BY <1>1 DEF TypeOK, Ids
      <4>2. mapped[r] # {} BY <3>1
      <4>3. Exists(r) BY <4>2 DEF Init
      <4>4. \A y \in Ids : ~Exists(y) => \A c \in Roles : y \notin mapped[c] BY DEF Init
      <4>5. Exists(x) BY <3>1, <4>1, <4>4
      <4> QED BY <4>3, <4>5
    <3> QED BY <3>1
  <2> QED BY <2>1, <2>2 DEF Init, Consistent
<1>3. MissingHasCause BY DEF Init, MissingHasCause
<1>4. PrefixDone BY IdleFits DEF Init, PrefixDone
<1>5. \A p \in Requests : Formed(req[p]) BY IdleFits DEF Init
<1>6. Reserved BY IdleFits DEF Init, Reserved
<1>7. Remembered BY DEF Init, Remembered, AtRest
<1> QED BY <1>1, <1>2, <1>3, <1>4, <1>5, <1>6, <1>7 DEF IInv

-----------------------------------------------------------------------------
(* One row gets a name, and the request goes on to push it.                *)

SetsName(p, q, k, i, n) ==
    /\ Become(p, q) /\ req[p].phase # "push"
    /\ q \in RequestStates /\ q.phase = "push" /\ q.kind = k /\ q.new = n
    /\ name' = [name EXCEPT ![i] = n] /\ n \notin NamesOf(k) \ {name[i]}
    /\ mapped' \in [Roles -> SUBSET Permissions]
    /\ \A r \in Roles : \A x \in mapped'[r] : (Exists(r) \/ r = i) /\ Exists(x)
    /\ UNCHANGED <<held, remote, recon, unpushed, events>>
    /\ \A o \in Requests \ {p} :
          Uncommitted(req[o]) /\ k = "role" => req[o].id # i /\ req[o].new # n

LEMMA SetName ==
    ASSUME IInv, NEW p \in Requests, NEW q, NEW k \in Kinds, NEW i \in IdsOf(k),
           NEW n \in Names, SetsName(p, q, k, i, n)
    PROVE  IInv'
<1> USE DEF SetsName
<1>1. /\ req'[p] = q
      /\ \A o \in Requests \ {p} : req'[o] = req[o]
      /\ req' \in [Requests -> RequestStates]
  BY BecomeIs
<1>2. /\ name'[i] = n /\ n # NoName /\ i \in Ids
      /\ \A j \in Ids \ {i} : name'[j] = name[j]
      /\ name' \in [Ids -> Names \cup {NoName}]
  BY IdsAre DEF IInv, TypeOK
<1>3. \A j \in Ids : Exists(j) \/ j = i => Exists(j)' BY <1>2 DEF Exists
<1>4. \A j \in Ids \ {i} : Exists(j)' => Exists(j) BY <1>2 DEF Exists
<1>5. TypeOK' BY <1>1, <1>2 DEF IInv, TypeOK
<1>6. Consistent'
  <2>1. ASSUME NEW a \in Ids, NEW b \in Ids, name'[a] # NoName, name'[a] = name'[b],
               KindOf(a) = KindOf(b)
        PROVE  a = b
    <3>1. ASSUME NEW j \in Ids, j # i, name'[j] = n, KindOf(j) = k PROVE FALSE
      <4>1. j \in IdsOf(k) /\ name[j] = n BY <1>2, <3>1, IdsAre
      <4>2. n \in NamesOf(k) BY <1>2, <4>1, NamesOfIs
      <4>3. name[i] = n BY <4>2
      <4>4. KindOf(i) = k BY IdsAre
      <4> QED BY <1>2, <3>1, <4>1, <4>3, <4>4 DEF IInv, Consistent, Exists
    <3>2. KindOf(i) = k BY IdsAre
    <3>3. CASE a # i /\ b # i BY <1>2, <2>1, <3>3 DEF IInv, Consistent, Exists
    <3> QED BY <1>2, <2>1, <3>1, <3>2, <3>3
  <2>2. \A m \in Members : \A r \in held'[m] : Exists(r)'
    <3>1. \A m \in Members : \A r \in held[m] : Exists(r) /\ r \in Ids
      BY DEF IInv, Consistent, TypeOK, Ids
    <3> QED BY <1>3, <3>1
  <2>3. \A r \in Roles : \A x \in mapped'[r] : Exists(r)' /\ Exists(x)'
    <3>1. \A r \in Roles : r \in Ids /\ \A x \in mapped'[r] : x \in Ids BY DEF Ids
    <3> QED BY <1>3, <3>1
  <2>4. \A a, b \in Ids : Exists(a)' /\ name'[a] = name'[b] /\ KindOf(a) = KindOf(b) => a = b
    BY <2>1 DEF Exists
  <2> QED BY <2>2, <2>3, <2>4 DEF Consistent
<1>7. \A c \in Kinds : \A x \in NamesOf(c)' : x \in NamesOf(c) \/ (c = k /\ x = n)
  <2>1. ASSUME NEW c \in Kinds, NEW x \in NamesOf(c)'
        PROVE  x \in NamesOf(c) \/ (c = k /\ x = n)
    <3>1. PICK j \in IdsOf(c) : name'[j] = x /\ x # NoName BY <2>1 DEF NamesOf
    <3>2. CASE j = i BY <1>2, <3>1, <3>2, IdsAre
    <3>3. CASE j # i
      <4>1. name[j] = x BY <1>2, <3>1, <3>3, IdsAre
      <4> QED BY <3>1, <4>1, NamesOfIs
    <3> QED BY <3>2, <3>3
  <2> QED BY <2>1
<1>8. MissingHasCause'
  <2>1. ASSUME NEW c \in Kinds, NEW x \in NamesOf(c)' \ remote'[c]
        PROVE  \/ <<c, x>> \in unpushed'
               \/ \E o \in Requests :
                    req'[o].phase = "push" /\ req'[o].kind = c /\ req'[o].new = x
    <3>1. CASE c = k /\ x = n BY <1>1, <3>1
    <3>2. CASE x \in NamesOf(c)
      <4>1. x \in NamesOf(c) \ remote[c] BY <2>1, <3>2
      <4>2. \/ <<c, x>> \in unpushed
            \/ \E o \in Requests : req[o].phase = "push" /\ req[o].kind = c /\ req[o].new = x
        BY <4>1 DEF IInv, MissingHasCause
      <4> QED BY <1>1, <4>2
    <3> QED BY <1>7, <3>1, <3>2
  <2> QED BY <2>1 DEF MissingHasCause
<1>9. PrefixDone'
  <2>1. ASSUME NEW o \in Requests, req'[o].phase = "loop", NEW j \in 1..req'[o].at
        PROVE  LET x == req'[o].named[req'[o].names[j]] IN
               x \in req'[o].others \/ (x \in held'[req'[o].member] <=> req'[o].op = "assign")
    <3>1. o # p BY <1>1, <2>1
    <3> QED BY <1>1, <2>1, <3>1 DEF IInv, PrefixDone
  <2> QED BY <2>1 DEF PrefixDone
<1>10. \A o \in Requests : Formed(req'[o])
  <2>1. Formed(q) BY DEF Formed, Uncommitted
  <2> QED BY <1>1, <2>1 DEF IInv
<1>11. Reserved'
  <2>1. ASSUME NEW o \in Requests, Uncommitted(req'[o])
        PROVE  /\ o # p /\ req'[o] = req[o]
               /\ name'[req[o].id] = NoName /\ req[o].new \notin NamesOf("role")'
               /\ \A x \in req[o].mapped : Exists(x)'
    <3>1. o # p BY <1>1, <2>1 DEF Uncommitted
    <3>2. req'[o] = req[o] /\ Uncommitted(req[o]) BY <1>1, <2>1, <3>1
    <3>3. Formed(req[o]) BY DEF IInv
    <3>4. /\ ~Exists(req[o].id) /\ req[o].new \notin NamesOf("role")
          /\ \A x \in req[o].mapped : Exists(x)
      BY <3>2 DEF IInv, Reserved
    <3>5. PICK id \in Roles, w \in Names, ms \in SUBSET Permissions :
            req[o].id = id /\ req[o].new = w /\ req[o].mapped = ms
      BY <3>2, <3>3, UncommittedIs
    <3>6. id # i /\ (k = "role" => w # n)
      <4>1. CASE k = "role" BY <3>1, <3>2, <3>5, <4>1
      <4>2. CASE k # "role"
        <5>1. i \in Permissions BY <4>2, IdsAre DEF Kinds
        <5> QED BY <3>5, <4>2, <5>1
      <4> QED BY <4>1, <4>2
    <3>7. ~Exists(id)' BY <1>4, <3>4, <3>5, <3>6 DEF Ids
    <3>8. w \notin NamesOf("role")' BY <1>7, <3>4, <3>5, <3>6 DEF Kinds
    <3>9. \A x \in ms : Exists(x)' BY <1>3, <3>4, <3>5 DEF Ids
    <3> QED BY <3>1, <3>2, <3>5, <3>7, <3>8, <3>9 DEF Exists
  <2>2. \A o, x \in Requests : Uncommitted(req'[o]) /\ Uncommitted(req'[x]) =>
          o = x \/ (req'[o].id # req'[x].id /\ req'[o].new # req'[x].new)
    BY <2>1 DEF IInv, Reserved
  <2>3. ASSUME NEW o \in Requests, Uncommitted(req'[o])
        PROVE  /\ name'[req'[o].id] = NoName
               /\ req'[o].new \notin NamesOf("role")'
               /\ \A x \in req'[o].mapped : name'[x] # NoName
    BY <2>1, <2>3 DEF Exists
  <2> QED BY <2>2, <2>3 DEF Reserved, Exists, Uncommitted
<1>12. Remembered' BY DEF IInv, Remembered, Known
<1> QED BY <1>5, <1>6, <1>8, <1>9, <1>10, <1>11, <1>12 DEF IInv

-----------------------------------------------------------------------------
(* The loops of assign and remove.                                         *)

LEMMA OthersGrow ==
    ASSUME NEW q, Formed(q), NEW i \in Roles
    PROVE  LET g == [q EXCEPT !.others = @ \cup {i}] IN
           /\ Formed(g) /\ g.others = q.others \cup {i}
           /\ g.op = q.op /\ g.phase = q.phase /\ g.kind = q.kind /\ g.names = q.names
           /\ g.named = q.named /\ g.at = q.at /\ g.member = q.member /\ g.id = q.id
           /\ g.new = q.new /\ g.mapped = q.mapped /\ g.dead = q.dead
<1> DEFINE g == [q EXCEPT !.others = @ \cup {i}]
<1>1. /\ g.others = q.others \cup {i}
      /\ g.op = q.op /\ g.phase = q.phase /\ g.kind = q.kind /\ g.names = q.names
      /\ g.named = q.named /\ g.at = q.at /\ g.member = q.member /\ g.id = q.id
      /\ g.new = q.new /\ g.mapped = q.mapped /\ g.dead = q.dead
  BY DEF Formed, RequestStates
<1>2. g \in RequestStates BY DEF Formed, RequestStates
<1>3. Formed(g)
  <2> HIDE DEF g
  <2> QED BY <1>1, <1>2 DEF Formed, Uncommitted
<1> QED BY <1>1, <1>3

LEMMA LoopStep ==
    ASSUME IInv, NEW p \in Requests, Remaining(p), NEW i \in Roles, Next_(p) = i,
           NEW S \in SUBSET Roles, NEW m \in Members, req[p].member = m,
           \A r \in Roles \ {i} : r \in S <=> r \in held[m],
           i \in S <=> req[p].op = "assign",
           \A r \in S : Exists(r),
           held' = [held EXCEPT ![m] = S], BecomeWith(p, Advanced(p), m, i),
           UNCHANGED <<name, mapped, remote, recon, unpushed, events>>
    PROVE  IInv'
<1>1. Formed(req[p]) /\ req[p].phase = "loop" /\ req[p].at < Len(req[p].names)
  BY DEF IInv, Remaining
<1>2. /\ req'[p] = Advanced(p) /\ Advanced(p).phase = "loop"
      /\ Advanced(p).at = req[p].at + 1 /\ Advanced(p).names = req[p].names
      /\ Advanced(p).named = req[p].named /\ Advanced(p).member = m
      /\ Advanced(p).op = req[p].op /\ Advanced(p).others = req[p].others
  <2>1. req'[p] = Advanced(p) BY DEF BecomeWith
  <2> QED BY <1>1, <2>1 DEF Advanced, Formed, RequestStates
<1>3. Formed(Advanced(p))
  <2>1. req[p].at + 1 \in 0..MaxNames BY <1>1, RequestType, ListsAre DEF Formed
  <2>2. Advanced(p) \in RequestStates BY <1>1, <2>1 DEF Advanced, Formed, RequestStates
  <2>3. req[p].at + 1 <= Len(req[p].names) BY <1>1, RequestType, ListsAre DEF Formed
  <2> QED BY <1>1, <1>2, <2>2, <2>3 DEF Formed, Uncommitted
<1>4. \A o \in Requests \ {p} :
         /\ Formed(req'[o]) /\ req'[o].op = req[o].op /\ req'[o].phase = req[o].phase
         /\ req'[o].kind = req[o].kind /\ req'[o].names = req[o].names
         /\ req'[o].named = req[o].named /\ req'[o].at = req[o].at
         /\ req'[o].member = req[o].member /\ req'[o].id = req[o].id
         /\ req'[o].new = req[o].new /\ req'[o].mapped = req[o].mapped
         /\ req[o].others \subseteq req'[o].others
         /\ req[o].member = m => i \in req'[o].others
  <2>1. ASSUME NEW o \in Requests \ {p}
        PROVE req'[o] = IF req[o].member = m THEN [req[o] EXCEPT !.others = @ \cup {i}] ELSE req[o]
    BY DEF BecomeWith
  <2>2. \A o \in Requests : Formed(req[o]) BY DEF IInv
  <2>3. ASSUME NEW o \in Requests \ {p}, req[o].member = m
        PROVE  req'[o] = [req[o] EXCEPT !.others = @ \cup {i}]
    BY <2>1, <2>3
  <2>4. ASSUME NEW o \in Requests \ {p}, req[o].member # m PROVE req'[o] = req[o]
    BY <2>1, <2>4
  <2>5. ASSUME NEW o \in Requests \ {p}, req[o].member = m
        PROVE  /\ Formed(req'[o]) /\ req'[o].op = req[o].op /\ req'[o].phase = req[o].phase
               /\ req'[o].kind = req[o].kind /\ req'[o].names = req[o].names
               /\ req'[o].named = req[o].named /\ req'[o].at = req[o].at
               /\ req'[o].member = req[o].member /\ req'[o].id = req[o].id
               /\ req'[o].new = req[o].new /\ req'[o].mapped = req[o].mapped
               /\ req'[o].others = req[o].others \cup {i}
    <3> DEFINE g == [req[o] EXCEPT !.others = @ \cup {i}]
    <3>1. Formed(req[o]) BY <2>2
    <3>2. /\ Formed(g) /\ g.others = req[o].others \cup {i}
          /\ g.op = req[o].op /\ g.phase = req[o].phase /\ g.kind = req[o].kind
          /\ g.names = req[o].names /\ g.named = req[o].named /\ g.at = req[o].at
          /\ g.member = req[o].member /\ g.id = req[o].id
          /\ g.new = req[o].new /\ g.mapped = req[o].mapped
      BY <3>1, OthersGrow
    <3>3. req'[o] = g BY <2>3, <2>5
    <3> HIDE DEF g
    <3> QED BY <3>2, <3>3
  <2> QED BY <2>2, <2>4, <2>5
<1>5. /\ held'[m] = S /\ held' \in [Members -> SUBSET Roles]
      /\ \A x \in Members \ {m} : held'[x] = held[x]
  BY DEF IInv, TypeOK
<1>6. \A o \in Requests : Formed(req'[o]) BY <1>2, <1>3, <1>4
<1>7. TypeOK'
  <2>1. req' \in [Requests -> RequestStates]
    <3>1. DOMAIN req' = Requests /\ req' = [o \in Requests |-> req'[o]] BY DEF BecomeWith
    <3>2. \A o \in Requests : req'[o] \in RequestStates BY <1>6 DEF Formed
    <3> QED BY <3>1, <3>2
  <2> QED BY <1>5, <2>1 DEF IInv, TypeOK
<1>8. Consistent'
  <2>1. \A x \in Members : \A r \in held'[x] : name'[r] # NoName
    BY <1>5 DEF IInv, Consistent, Exists
  <2> QED BY <2>1 DEF IInv, Consistent, Exists
<1>9. MissingHasCause'
  <2>1. ASSUME NEW c \in Kinds, NEW x \in NamesOf(c)' \ remote'[c]
        PROVE  \/ <<c, x>> \in unpushed'
               \/ \E o \in Requests :
                    req'[o].phase = "push" /\ req'[o].kind = c /\ req'[o].new = x
    <3>1. x \in NamesOf(c) \ remote[c] BY <2>1 DEF NamesOf
    <3>2. \/ <<c, x>> \in unpushed
          \/ \E o \in Requests : req[o].phase = "push" /\ req[o].kind = c /\ req[o].new = x
      BY <3>1 DEF IInv, MissingHasCause
    <3> QED BY <1>1, <1>4, <3>2
  <2> QED BY <2>1 DEF MissingHasCause
<1>10. PrefixDone'
  <2>1. ASSUME NEW o \in Requests, req'[o].phase = "loop", NEW j \in 1..req'[o].at
        PROVE  LET x == req'[o].named[req'[o].names[j]] IN
               x \in req'[o].others \/ (x \in held'[req'[o].member] <=> req'[o].op = "assign")
    <3>0. Formed(req[o]) /\ req[o].at \in Nat BY RequestType DEF IInv, Formed
    <3>1. req[o].phase = "loop" BY <1>1, <1>4, <2>1
    <3>2. PICK c \in Members : req[o].member = c BY <3>0, <3>1 DEF Formed
    <3>3. PICK x \in Roles \cup {NoId} : req[o].named[req[o].names[j]] = x
      <4>1. j \in 1..Len(req[o].names)
        <5>1. req[o].names \in Lists BY <3>0, RequestType DEF Formed
        <5>2. Len(req[o].names) \in Nat /\ Len(req'[o].names) \in Nat BY <5>1, ListsAre, <1>2, <1>4
        <5>3. req'[o].at <= Len(req'[o].names) BY <1>6, <2>1 DEF Formed
        <5>4. req'[o].names = req[o].names BY <1>2, <1>4
        <5>5. req'[o].at \in Nat BY <1>6, RequestType DEF Formed
        <5> QED BY <2>1, <5>2, <5>3, <5>4, <5>5
      <4>2. req[o].names[j] \in Names BY <3>0, <4>1, RequestType, ListsAre DEF Formed
      <4>3. req[o].named \in [Names -> Roles \cup {NoId}] BY <3>0, <3>1 DEF Formed
      <4> QED BY <4>2, <4>3
    <3>4. x \notin held[c] \/ x \in Roles BY DEF IInv, TypeOK
    <3>5. x # i => (x \in held'[c] <=> x \in held[c])
      <4>1. x # i /\ x \in Roles => (x \in held'[c] <=> x \in held[c]) BY <1>5
      <4>2. held[c] \subseteq Roles /\ held'[c] \subseteq Roles BY <1>5 DEF IInv, TypeOK
      <4> QED BY <4>1, <4>2
    <3>6. CASE o = p
      <4>1. CASE j = req[p].at + 1
        <5>1. x = i BY <3>3, <3>6, <4>1 DEF Next_
        <5> QED BY <1>2, <1>5, <3>3, <3>6, <5>1
      <4>2. CASE j # req[p].at + 1
        <5>1. j \in 1..req[p].at BY <1>2, <2>1, <3>0, <3>6, <4>2
        <5>2. x \in req[p].others \/ (x \in held[c] <=> req[p].op = "assign")
          BY <3>1, <3>2, <3>3, <3>6, <5>1 DEF IInv, PrefixDone
        <5>3. c = m BY <3>2, <3>6
        <5>4. x = i => (x \in held'[c] <=> req[p].op = "assign") BY <1>5, <5>3
        <5> QED BY <1>2, <3>3, <3>5, <3>6, <5>2, <5>3, <5>4
      <4> QED BY <4>1, <4>2
    <3>7. CASE o # p
      <4>1. x \in req[o].others \/ (x \in held[c] <=> req[o].op = "assign")
        BY <1>4, <2>1, <3>1, <3>2, <3>3, <3>7 DEF IInv, PrefixDone
      <4>2. c # m => held'[c] = held[c] BY <1>5
      <4>3. c = m => i \in req'[o].others BY <1>4, <3>2, <3>7
      <4> QED BY <1>4, <3>2, <3>3, <3>5, <3>7, <4>1, <4>2, <4>3
    <3> QED BY <3>6, <3>7
  <2> QED BY <2>1 DEF PrefixDone
<1>11. Reserved'
  <2>1. \A o \in Requests : Uncommitted(req'[o]) =>
          /\ Uncommitted(req[o]) /\ req'[o].id = req[o].id /\ req'[o].new = req[o].new
          /\ req'[o].mapped = req[o].mapped
    BY <1>2, <1>4 DEF Uncommitted
  <2> QED BY <2>1 DEF IInv, Reserved, Exists, NamesOf, Uncommitted
<1>12. Remembered' BY DEF IInv, Remembered, Known
<1> QED BY <1>6, <1>7, <1>8, <1>9, <1>10, <1>11, <1>12 DEF IInv

-----------------------------------------------------------------------------
(* The requests, action by action.                                         *)

LEMMA OpenStep ==
    ASSUME IInv, NEW p \in Requests, NEW q, Open(p, q), Formed(q), ~Uncommitted(q),
           q.phase = "loop" => q.at = 0
    PROVE  IInv'
<1>1. events' \in Nat BY SpendType DEF Open
<1>2. req[p].phase # "push" BY DEF Open
<1> QED BY <1>1, <1>2, PlainStep DEF Open

LEMMA CallLoopStep ==
    ASSUME IInv, NEW p \in Requests, NEW op \in {"assign", "remove"}, NEW m \in Members,
           NEW ns \in Lists, CallLoop(p, op, m, ns)
    PROVE  IInv'
<1>1. PICK d : d = Named("role") OBVIOUS
<1>2. d \in [Names -> Roles \cup {NoId}] BY <1>1, NamedIs, IdsAre DEF Kinds
<1> DEFINE q == [Idle EXCEPT !.op = op, !.phase = "loop", !.names = ns, !.member = m,
                             !.named = d]
<1>3. q \in RequestStates
  BY <1>2, IdleFits DEF Formed, RequestStates, Operations, Phases, Ids
<1>4. /\ q.op = op /\ q.phase = "loop" /\ q.names = ns /\ q.member = m /\ q.named = d
      /\ q.at = 0
  BY DEF Idle
<1>5. Open(p, q) BY <1>1 DEF CallLoop
<1> HIDE DEF q
<1>6. 0 <= Len(ns) BY ListsAre
<1>7. Formed(q) /\ ~Uncommitted(q) BY <1>2, <1>3, <1>4, <1>6 DEF Formed, Uncommitted
<1> QED BY <1>4, <1>5, <1>7, OpenStep

LEMMA CallCreateStep ==
    ASSUME IInv, NEW p \in Requests, NEW k \in Kinds, NEW n \in Names, NEW ns \in Lists,
           CallCreate(p, k, n, ns)
    PROVE  IInv'
<1> DEFINE q == [Idle EXCEPT !.op = "create", !.phase = "store", !.kind = k, !.names = ns,
                             !.new = n]
<1>1. q \in RequestStates BY IdleFits DEF Formed, RequestStates, Operations, Phases
<1>2. /\ q.op = "create" /\ q.phase = "store" /\ q.kind = k /\ q.names = ns /\ q.new = n
      /\ q.at = 0 /\ q.mapped = {} /\ ~q.dead
  BY DEF Idle
<1>3. Open(p, q) BY DEF CallCreate
<1> HIDE DEF q
<1>4. Formed(q) /\ ~Uncommitted(q) BY <1>1, <1>2 DEF Formed, Uncommitted
<1> QED BY <1>2, <1>3, <1>4, OpenStep

LEMMA CallChangeStep ==
    ASSUME IInv, NEW p \in Requests, NEW op \in {"rename", "delete"}, NEW k \in Kinds,
           NEW n \in Names, NEW new \in Names \cup {NoName},
           op = "rename" => new \in Names, CallChange(p, op, k, n, new)
    PROVE  IInv'
<1>1. PICK i \in IdsOf(k) : i = Named(k)[n] BY NamedIs DEF CallChange
<1> DEFINE q == [Idle EXCEPT !.op = op, !.phase = "store", !.kind = k, !.id = i, !.new = new]
<1>2. q \in RequestStates
  BY IdleFits, IdsAre DEF Formed, RequestStates, Operations, Phases
<1>3. q.op = op /\ q.phase = "store" /\ q.kind = k /\ q.id = i /\ q.new = new BY DEF Idle
<1>4. Open(p, q) BY <1>1 DEF CallChange
<1> HIDE DEF q
<1>5. Formed(q) /\ ~Uncommitted(q) BY <1>2, <1>3 DEF Formed, Uncommitted
<1> QED BY <1>3, <1>4, <1>5, OpenStep

LEMMA EndLoopStep == ASSUME IInv, NEW p \in Requests, EndLoop(p) PROVE IInv'
<1>1. events' \in Nat BY DEF EndLoop, IInv, TypeOK
<1> QED BY <1>1, AnswerStep DEF EndLoop

LEMMA StoreRefusedStep == ASSUME IInv, NEW p \in Requests, StoreRefused(p) PROVE IInv'
<1>1. events' \in Nat BY DEF StoreRefused, IInv, TypeOK
<1>2. Answer(p) BY DEF StoreRefused
<1> QED BY <1>1, <1>2, AnswerStep DEF StoreRefused

LEMMA AssignNextStep == ASSUME IInv, NEW p \in Requests, AssignNext(p) PROVE IInv'
<1>1. Formed(req[p]) /\ Remaining(p) /\ req[p].op = "assign" /\ Next_(p) \in Applicable(p)
  BY DEF IInv, AssignNext
<1>2. PICK m \in Members : req[p].member = m BY <1>1 DEF Formed, Remaining
<1>3. PICK i \in Roles : Next_(p) = i /\ Exists(i) BY <1>1 DEF Applicable
<1>4. held[m] \subseteq Roles /\ \A r \in held[m] : Exists(r)
  BY DEF IInv, TypeOK, Consistent
<1>5. PICK S \in SUBSET Roles : S = held[m] \cup {i} BY <1>4
<1>6. held' = [held EXCEPT ![m] = S] BY <1>2, <1>3, <1>5 DEF AssignNext
<1>7. BecomeWith(p, Advanced(p), m, i) BY <1>2, <1>3 DEF AssignNext
<1>8. \A r \in S : Exists(r) BY <1>3, <1>4, <1>5
<1> QED BY <1>1, <1>2, <1>3, <1>5, <1>6, <1>7, <1>8, LoopStep DEF AssignNext

LEMMA RemoveNextStep == ASSUME IInv, NEW p \in Requests, RemoveNext(p) PROVE IInv'
<1>1. Formed(req[p]) /\ Remaining(p) /\ req[p].op = "remove" /\ Next_(p) \in Applicable(p)
  BY DEF IInv, RemoveNext
<1>2. PICK m \in Members : req[p].member = m BY <1>1 DEF Formed, Remaining
<1>3. held[m] \subseteq Roles /\ \A r \in held[m] : Exists(r)
  BY DEF IInv, TypeOK, Consistent
<1>4. PICK i \in Roles : Next_(p) = i BY <1>1, <1>2, <1>3 DEF Applicable
<1>5. PICK S \in SUBSET Roles : S = held[m] \ {i} BY <1>3
<1>6. held' = [held EXCEPT ![m] = S] BY <1>2, <1>4, <1>5 DEF RemoveNext
<1>7. BecomeWith(p, Advanced(p), m, i) BY <1>2, <1>4 DEF RemoveNext
<1>8. \A r \in S : Exists(r) BY <1>3, <1>5
<1>9. i \in S <=> req[p].op = "assign" BY <1>1, <1>5
<1> QED BY <1>1, <1>2, <1>4, <1>5, <1>6, <1>7, <1>8, <1>9, LoopStep DEF RemoveNext

LEMMA MappedStay ==
    ASSUME IInv
    PROVE  /\ mapped \in [Roles -> SUBSET Permissions]
           /\ \A r \in Roles : \A x \in mapped[r] : Exists(r) /\ Exists(x)
  BY DEF IInv, TypeOK, Consistent

LEMMA StorePermissionStep ==
    ASSUME IInv, NEW p \in Requests, StorePermission(p) PROVE IInv'
<1>1. /\ Formed(req[p]) /\ req[p].phase = "store" /\ req[p].op = "create"
      /\ req[p].kind = "permission"
  BY DEF IInv, StorePermission
<1>2. PICK n \in Names : req[p].new = n BY <1>1 DEF Formed
<1>3. PICK i \in Fresh("permission") :
        /\ name' = [name EXCEPT ![i] = n]
        /\ Become(p, [req[p] EXCEPT !.phase = "push", !.id = i])
  BY <1>2 DEF StorePermission
<1>4. i \in IdsOf("permission") /\ i \in Ids /\ "permission" \in Kinds
  BY IdsAre DEF Fresh, Kinds
<1>5. PICK q : q = [req[p] EXCEPT !.phase = "push", !.id = i] OBVIOUS
<1>6. q \in RequestStates BY <1>1, <1>4, <1>5 DEF Formed, RequestStates, Phases
<1>7. q.phase = "push" /\ q.kind = "permission" /\ q.new = n
  BY <1>1, <1>2, <1>5 DEF Formed, RequestStates
<1>8. n \notin NamesOf("permission") BY <1>2 DEF StorePermission
<1>9. /\ mapped' \in [Roles -> SUBSET Permissions]
      /\ \A r \in Roles : \A x \in mapped'[r] : (Exists(r) \/ r = i) /\ Exists(x)
  BY MappedStay DEF StorePermission
<1>10. UNCHANGED <<held, remote, recon, unpushed, events>> BY DEF StorePermission
<1>11. /\ Become(p, q) /\ req[p].phase # "push" /\ n \notin NamesOf("permission") \ {name[i]}
       /\ \A o \in Requests \ {p} :
            Uncommitted(req[o]) /\ "permission" = "role" => req[o].id # i /\ req[o].new # n
  BY <1>1, <1>3, <1>5, <1>8
<1>12. name' = [name EXCEPT ![i] = n] BY <1>3
<1>13. SetsName(p, q, "permission", i, n)
  BY <1>6, <1>7, <1>9, <1>10, <1>11, <1>12 DEF SetsName
<1> QED BY <1>4, <1>13, SetName

LEMMA InsertRoleStep == ASSUME IInv, NEW p \in Requests, InsertRole(p) PROVE IInv'
<1>1. /\ Formed(req[p]) /\ req[p].phase = "store" /\ req[p].op = "create"
      /\ req[p].kind = "role"
  BY DEF IInv, InsertRole
<1>2. PICK i \in Fresh("role") : Become(p, [req[p] EXCEPT !.phase = "look", !.id = i])
  BY DEF InsertRole
<1>3. /\ i \in Roles /\ i \in Ids /\ ~Exists(i)
      /\ \A o \in Requests : req[o].id # i
  BY <1>2, IdsAre DEF Fresh, Kinds, Remembers
<1>4. PICK q : q = [req[p] EXCEPT !.phase = "look", !.id = i] OBVIOUS
<1>5. q \in RequestStates BY <1>1, <1>3, <1>4 DEF Formed, RequestStates, Phases
<1>6. /\ q.phase = "look" /\ q.kind = "role" /\ q.id = i /\ q.new = req[p].new
      /\ q.at = 0 /\ q.mapped = {} /\ ~q.dead /\ q.new \in Names
  BY <1>1, <1>4 DEF Formed, RequestStates
<1>7. Formed(q)
  <2>1. 0 <= Len(q.names) BY <1>5, RequestType, ListsAre
  <2>2. IsFiniteSet({}) /\ Cardinality({}) = 0 BY FS_EmptySet
  <2> QED BY <1>3, <1>5, <1>6, <2>1, <2>2 DEF Formed, Uncommitted
<1>8. q.new \notin NamesOf("role") BY <1>6 DEF InsertRole
<1>9. \A o \in Requests : Uncommitted(req[o]) => q.id # req[o].id /\ q.new # req[o].new
  BY <1>3, <1>6 DEF InsertRole, Inserting, Uncommitted
<1>10. events' \in Nat /\ UNCHANGED <<name, mapped, held, remote, recon, unpushed>>
  BY DEF InsertRole, IInv, TypeOK
<1>11. /\ ~Exists(q.id) /\ \A x \in q.mapped : Exists(x)
       /\ q.phase # "loop" /\ req[p].phase # "push" /\ Become(p, q)
  BY <1>1, <1>2, <1>3, <1>4, <1>6
<1> QED BY <1>7, <1>8, <1>9, <1>10, <1>11, PlainStep

\* What an uncommitted role has to itself, it has as long as it is one.
LEMMA ReservedFor ==
    ASSUME IInv, NEW p \in Requests, Uncommitted(req[p])
    PROVE  /\ ~Exists(req[p].id) /\ req[p].new \notin NamesOf("role")
           /\ \A x \in req[p].mapped : Exists(x)
           /\ \A o \in Requests \ {p} :
                Uncommitted(req[o]) => req[p].id # req[o].id /\ req[p].new # req[o].new
  BY DEF IInv, Reserved

LEMMA LookUpStep == ASSUME IInv, NEW p \in Requests, LookUp(p) PROVE IInv'
<1>1. /\ Formed(req[p]) /\ req[p].phase = "look" /\ req[p].at < Len(req[p].names)
      /\ Uncommitted(req[p])
  BY DEF IInv, LookUp, Uncommitted
<1>2. PICK n \in Names : req[p].names[req[p].at + 1] = n
  BY <1>1, RequestType, ListsAre DEF Formed
<1>3. events' \in Nat /\ UNCHANGED <<name, mapped, held, remote, recon, unpushed>>
  BY DEF LookUp, IInv, TypeOK
<1>4. CASE Answer(p) BY <1>1, <1>3, <1>4, AnswerStep
<1>5. CASE ~Answer(p)
  <2>1. PICK x : x = Named("permission")[n] OBVIOUS
  <2>2. /\ ~req[p].dead /\ n \in NamesOf("permission")
        /\ Become(p, [req[p] EXCEPT !.phase = "map", !.named = [@ EXCEPT ![n] = x]])
    BY <1>2, <1>5, <2>1 DEF LookUp
  <2>3. x \in Permissions /\ x \in Ids BY <2>1, <2>2, NamedIs, IdsAre DEF Kinds, Ids
  <2>4. PICK q : q = [req[p] EXCEPT !.phase = "map", !.named = [@ EXCEPT ![n] = x]] OBVIOUS
  <2>5. /\ q \in RequestStates /\ q.phase = "map" /\ q.kind = req[p].kind
        /\ q.id = req[p].id /\ q.new = req[p].new /\ q.at = req[p].at
        /\ q.names = req[p].names /\ q.mapped = req[p].mapped /\ q.dead = req[p].dead
        /\ q.named[n] = x
    BY <1>1, <2>3, <2>4 DEF Formed, RequestStates, Phases
  <2>6. Formed(q) BY <1>1, <1>2, <2>2, <2>3, <2>5 DEF Formed, Uncommitted
  <2>7. Become(p, q) /\ req[p].phase # "push" /\ q.phase # "loop" BY <1>1, <2>2, <2>4, <2>5
  <2>8. /\ ~Exists(q.id) /\ q.new \notin NamesOf("role")
        /\ \A i \in q.mapped : Exists(i)
        /\ \A o \in Requests \ {p} :
             Uncommitted(req[o]) => q.id # req[o].id /\ q.new # req[o].new
    BY <1>1, <2>5, ReservedFor
  <2> QED BY <1>3, <2>6, <2>7, <2>8, PlainStep
<1> QED BY <1>4, <1>5

LEMMA MapStep == ASSUME IInv, NEW p \in Requests, Map(p) PROVE IInv'
<1>1. Formed(req[p]) /\ req[p].phase = "map" /\ Uncommitted(req[p])
  BY DEF IInv, Map, Uncommitted
<1>2. PICK i \in Permissions : req[p].named[req[p].names[req[p].at + 1]] = i
  BY <1>1 DEF Formed
<1>3. events' \in Nat /\ UNCHANGED <<name, mapped, held, remote, recon, unpushed>>
  BY DEF Map, IInv, TypeOK
<1>4. /\ req[p].at + 1 <= Len(req[p].names) /\ req[p].at + 1 \in 0..MaxNames
      /\ IsFiniteSet(req[p].mapped) /\ Cardinality(req[p].mapped) = req[p].at
      /\ req[p].mapped \subseteq Permissions /\ req[p].at \in Nat
  <2>1. Len(req[p].names) \in 0..MaxNames /\ req[p].at \in 0..MaxNames
    BY <1>1, RequestType, ListsAre DEF Formed
  <2> QED BY <1>1, <2>1, UncommittedIs DEF Formed
<1>5. PICK q : q = IF Exists(i) /\ i \notin req[p].mapped
                   THEN [req[p] EXCEPT !.phase = "look", !.at = @ + 1, !.mapped = @ \cup {i}]
                   ELSE [req[p] EXCEPT !.phase = "look", !.at = @ + 1, !.dead = TRUE]
  OBVIOUS
<1>6. Become(p, q) BY <1>2, <1>5 DEF Map
<1>7. /\ q \in RequestStates /\ q.phase = "look" /\ q.kind = req[p].kind
      /\ q.id = req[p].id /\ q.new = req[p].new /\ q.at = req[p].at + 1
      /\ q.names = req[p].names
      /\ \/ /\ Exists(i) /\ i \notin req[p].mapped /\ q.mapped = req[p].mapped \cup {i}
         \/ q.mapped = req[p].mapped /\ q.dead
  BY <1>1, <1>4, <1>5 DEF Formed, RequestStates, Phases
<1>8. /\ IsFiniteSet(q.mapped) /\ (~q.dead => Cardinality(q.mapped) = q.at)
      /\ \A x \in q.mapped : x = i \/ x \in req[p].mapped
      /\ i \in q.mapped => Exists(i) \/ i \in req[p].mapped
  BY <1>4, <1>7, FS_AddElement
<1>9. Formed(q) BY <1>1, <1>4, <1>7, <1>8 DEF Formed, Uncommitted
<1>10. /\ ~Exists(q.id) /\ q.new \notin NamesOf("role")
       /\ \A x \in q.mapped : Exists(x)
       /\ \A o \in Requests \ {p} :
            Uncommitted(req[o]) => q.id # req[o].id /\ q.new # req[o].new
  <2>1. /\ ~Exists(req[p].id) /\ req[p].new \notin NamesOf("role")
        /\ \A x \in req[p].mapped : Exists(x)
        /\ \A o \in Requests \ {p} :
             Uncommitted(req[o]) => req[p].id # req[o].id /\ req[p].new # req[o].new
    BY <1>1, ReservedFor
  <2> QED BY <1>7, <1>8, <2>1
<1>11. req[p].phase # "push" /\ q.phase # "loop" BY <1>1, <1>7
<1> QED BY <1>3, <1>6, <1>9, <1>10, <1>11, PlainStep

LEMMA CommitRoleStep == ASSUME IInv, NEW p \in Requests, CommitRole(p) PROVE IInv'
<1>1. Formed(req[p]) /\ req[p].phase = "look" /\ Uncommitted(req[p])
  BY DEF IInv, CommitRole, Uncommitted
<1>2. CASE ~Committable(p)
  <2>1. events' \in Nat /\ Answer(p)
        /\ UNCHANGED <<name, mapped, held, remote, recon, unpushed>>
    BY <1>2 DEF CommitRole, IInv, TypeOK
  <2> QED BY <1>1, <2>1, AnswerStep
<1>3. CASE Committable(p)
  <2>1. PICK i \in Roles, n \in Names, ms \in SUBSET Permissions :
          req[p].id = i /\ req[p].new = n /\ req[p].mapped = ms
    BY <1>1, UncommittedIs
  <2>2. i \in IdsOf("role") /\ "role" \in Kinds BY IdsAre DEF Kinds
  <2>3. /\ name' = [name EXCEPT ![i] = n] /\ mapped' = [mapped EXCEPT ![i] = ms]
        /\ Become(p, [req[p] EXCEPT !.phase = "push"])
        /\ UNCHANGED <<held, remote, recon, unpushed, events>>
    BY <1>3, <2>1 DEF CommitRole
  <2>4. PICK q : q = [req[p] EXCEPT !.phase = "push"] OBVIOUS
  <2>5. q \in RequestStates /\ q.phase = "push" /\ q.kind = "role" /\ q.new = n
    <3>1. q \in RequestStates /\ q.phase = "push" /\ q.kind = req[p].kind /\ q.new = req[p].new
      BY <1>1, <2>4 DEF Formed, RequestStates, Phases
    <3> QED BY <1>1, <2>1, <3>1, UncommittedIs
  <2>6. /\ n \notin NamesOf("role") /\ \A x \in ms : Exists(x)
        /\ \A o \in Requests \ {p} : Uncommitted(req[o]) => i # req[o].id /\ n # req[o].new
    BY <1>1, <2>1, ReservedFor
  <2>7. mapped' \in [Roles -> SUBSET Permissions] /\ mapped'[i] = ms
        /\ \A r \in Roles \ {i} : mapped'[r] = mapped[r]
    BY <2>3, MappedStay
  <2>8. \A r \in Roles : \A x \in mapped'[r] : (Exists(r) \/ r = i) /\ Exists(x)
    BY <2>6, <2>7, MappedStay
  <2>9. /\ Become(p, q) /\ req[p].phase # "push" /\ n \notin NamesOf("role") \ {name[i]}
        /\ \A o \in Requests \ {p} :
             Uncommitted(req[o]) /\ "role" = "role" => req[o].id # i /\ req[o].new # n
    BY <1>1, <2>3, <2>4, <2>6
  <2>10. name' = [name EXCEPT ![i] = n] /\ UNCHANGED <<held, remote, recon, unpushed, events>>
    BY <2>3
  <2>11. SetsName(p, q, "role", i, n)
    BY <2>5, <2>7, <2>8, <2>9, <2>10 DEF SetsName
  <2> QED BY <2>2, <2>11, SetName
<1> QED BY <1>2, <1>3

LEMMA RenameStep == ASSUME IInv, NEW p \in Requests, Rename(p) PROVE IInv'
<1>1. /\ Formed(req[p]) /\ req[p].phase = "store" /\ req[p].op = "rename"
  BY DEF IInv, Rename
<1>2. PICK k \in Kinds : req[p].kind = k BY <1>1, RequestType DEF Formed
<1>3. PICK i \in IdsOf(k), n \in Names : req[p].id = i /\ req[p].new = n
  BY <1>1, <1>2 DEF Formed
<1>4. /\ Exists(i) /\ n \notin NamesOf(k) \ {name[i]} /\ ~Waits(k, n)
      /\ name' = [name EXCEPT ![i] = n] /\ Become(p, Pushed(p))
      /\ UNCHANGED <<mapped, held, remote, recon, unpushed, events>>
  BY <1>2, <1>3 DEF Rename
<1>5. PICK q : q = Pushed(p) OBVIOUS
<1>6. q \in RequestStates /\ q.phase = "push" /\ q.kind = k /\ q.new = n
  BY <1>1, <1>2, <1>3, <1>5 DEF Pushed, Formed, RequestStates, Phases
<1>7. ASSUME NEW o \in Requests \ {p}, Uncommitted(req[o]), k = "role"
      PROVE  req[o].id # i /\ req[o].new # n
  <2>1. ~Exists(req[o].id) BY <1>7, ReservedFor
  <2>2. req[o].new # n BY <1>4, <1>7 DEF Waits, Inserting, Uncommitted
  <2> QED BY <1>4, <2>1, <2>2
<1>8. /\ mapped' \in [Roles -> SUBSET Permissions]
      /\ \A r \in Roles : \A x \in mapped'[r] : (Exists(r) \/ r = i) /\ Exists(x)
  BY <1>4, MappedStay
<1>9. req[p].phase # "push" /\ Become(p, q) BY <1>1, <1>4, <1>5
<1>10. \A o \in Requests \ {p} :
         Uncommitted(req[o]) /\ k = "role" => req[o].id # i /\ req[o].new # n
  BY <1>7
<1>11. /\ name' = [name EXCEPT ![i] = n] /\ n \notin NamesOf(k) \ {name[i]}
       /\ UNCHANGED <<held, remote, recon, unpushed, events>>
  BY <1>4
<1>12. SetsName(p, q, k, i, n) BY <1>6, <1>8, <1>9, <1>10, <1>11 DEF SetsName
<1> QED BY <1>12, SetName

\* A push that was to come is dropped, and known to be lost, or comes.
LEMMA PushEnds ==
    ASSUME IInv, NEW p \in Requests, Answer(p), UNCHANGED <<name, mapped, held, recon>>,
           events' \in Nat, NEW R \in [Kinds -> SUBSET Names],
           NEW U \in SUBSET (Kinds \X Names), remote' = R, unpushed' = U,
           \A k \in Kinds, n \in Names :
              Known(k, n) \/ (req[p].phase = "push" /\ req[p].kind = k /\ req[p].new = n)
              => n \in R[k] \/ <<k, n>> \in U
    PROVE  IInv'
<1>1. PICK q : q = Idle OBVIOUS
<1>2. Formed(q) /\ q.phase = "idle" /\ ~Uncommitted(q) /\ Become(p, q)
  BY <1>1, IdleFits DEF Answer
<1>3. \A k \in Kinds, n \in Names : Known(k, n) => Known(k, n)' BY DEF Known
<1>4. \A k \in Kinds, n \in Names :
         req[p].phase = "push" /\ req[p].kind = k /\ req[p].new = n => Known(k, n)'
  BY DEF Known
<1>5. remote' \in [Kinds -> SUBSET Names] /\ unpushed' \in SUBSET (Kinds \X Names)
  OBVIOUS
<1> QED BY <1>2, <1>3, <1>4, <1>5, RequestStep

LEMMA PushStep == ASSUME IInv, NEW p \in Requests, Push(p) PROVE IInv'
<1>1. PICK k \in Kinds, n \in Names : req[p].kind = k /\ req[p].new = n
  BY RequestType DEF IInv, Push, Formed
<1>2. PICK R \in [Kinds -> SUBSET Names] : R = [remote EXCEPT ![k] = @ \cup {n}]
  BY DEF IInv, TypeOK
<1>3. PICK U \in SUBSET (Kinds \X Names) : U = unpushed \ {<<k, n>>} BY DEF IInv, TypeOK
<1>4. /\ remote' = R /\ unpushed' = U /\ Answer(p) /\ req[p].phase = "push"
      /\ UNCHANGED <<name, mapped, held, recon>> /\ events' \in Nat
  BY <1>1, <1>2, <1>3 DEF Push, IInv, TypeOK
<1>5. \A c \in Kinds, x \in Names :
         Known(c, x) \/ (req[p].phase = "push" /\ req[p].kind = c /\ req[p].new = x)
         => x \in R[c] \/ <<c, x>> \in U
  BY <1>1, <1>2, <1>3 DEF Known, IInv, TypeOK
<1> QED BY <1>4, <1>5, PushEnds

\* The two ways of not pushing leave the same trace.
LEMMA Unpushed ==
    ASSUME IInv, NEW p \in Requests, Answer(p), Spend(1),
           UNCHANGED <<name, mapped, held, remote, recon>>,
           unpushed' = IF req[p].phase = "push" /\ req[p].new \notin remote[req[p].kind]
                       THEN unpushed \cup {<<req[p].kind, req[p].new>>} ELSE unpushed
    PROVE  IInv'
<1>1. PICK k \in Kinds, n \in Names \cup {NoName} : req[p].kind = k /\ req[p].new = n
  BY RequestType DEF IInv, Formed
<1>2. req[p].phase = "push" => n \in Names BY <1>1 DEF IInv, Formed
<1>3. PICK R \in [Kinds -> SUBSET Names] : R = remote BY DEF IInv, TypeOK
<1>4. PICK U \in SUBSET (Kinds \X Names) :
        U = IF req[p].phase = "push" /\ n \notin R[k] THEN unpushed \cup {<<k, n>>} ELSE unpushed
  <2>1. unpushed \subseteq Kinds \X Names BY DEF IInv, TypeOK
  <2>2. req[p].phase = "push" => <<k, n>> \in Kinds \X Names BY <1>2
  <2> QED BY <2>1, <2>2
<1>5. unpushed' = U /\ remote' = R /\ events' \in Nat
  BY <1>1, <1>3, <1>4, SpendType
<1>6. \A c \in Kinds, x \in Names :
         Known(c, x) \/ (req[p].phase = "push" /\ req[p].kind = c /\ req[p].new = x)
         => x \in R[c] \/ <<c, x>> \in U
  BY <1>1, <1>3, <1>4 DEF Known
<1> QED BY <1>5, <1>6, PushEnds

LEMMA PushFailsStep == ASSUME IInv, NEW p \in Requests, PushFails(p) PROVE IInv'
  BY Unpushed DEF PushFails

LEMMA FaultStep == ASSUME IInv, NEW p \in Requests, Fault(p) PROVE IInv'
  BY Unpushed DEF Fault

LEMMA DeleteStep == ASSUME IInv, NEW p \in Requests, Delete(p) PROVE IInv'
<1>1. Formed(req[p]) /\ req[p].phase = "store" /\ req[p].op = "delete"
  BY DEF IInv, Delete
<1>2. PICK i \in Ids : req[p].id = i
  BY <1>1, RequestType, IdsAre DEF Formed
<1>3. /\ Exists(i) /\ name' = [name EXCEPT ![i] = NoName]
      /\ mapped' = [r \in Roles |-> IF r = i THEN {} ELSE mapped[r] \ {i}]
      /\ held' = [m \in Members |-> held[m] \ {i}]
      /\ UNCHANGED <<remote, recon, unpushed, events>>
      /\ \A o \in Requests : Uncommitted(req[o]) => i \notin req[o].mapped
  BY <1>2 DEF Delete, Cascaded, Uncommitted
<1>4. /\ name'[i] = NoName /\ name' \in [Ids -> Names \cup {NoName}]
      /\ \A j \in Ids \ {i} : name'[j] = name[j]
  BY <1>3 DEF IInv, TypeOK
<1>5. /\ mapped' \in [Roles -> SUBSET Permissions] /\ held' \in [Members -> SUBSET Roles]
      /\ \A r \in Roles : \A x \in mapped'[r] : r # i /\ x # i /\ x \in mapped[r]
      /\ \A m \in Members : held'[m] = held[m] \ {i}
  BY <1>3 DEF IInv, TypeOK
<1>6. /\ req'[p] = Idle
      /\ \A o \in Requests \ {p} :
           /\ Formed(req'[o]) /\ req'[o].op = req[o].op /\ req'[o].phase = req[o].phase
           /\ req'[o].kind = req[o].kind /\ req'[o].names = req[o].names
           /\ req'[o].named = req[o].named /\ req'[o].at = req[o].at
           /\ req'[o].member = req[o].member /\ req'[o].id = req[o].id
           /\ req'[o].new = req[o].new /\ req'[o].mapped = req[o].mapped
           /\ req[o].others \subseteq req'[o].others
           /\ req[o].phase = "loop" /\ i \in Roles => i \in req'[o].others
      /\ DOMAIN req' = Requests
  <2>1. req' = [o \in Requests |->
                  IF o = p THEN Idle
                  ELSE IF req[o].phase = "loop" /\ i \in Roles
                  THEN [req[o] EXCEPT !.others = @ \cup {i}] ELSE req[o]]
    BY <1>2 DEF Delete
  <2>2. \A o \in Requests : Formed(req[o]) BY DEF IInv
  <2>3. ASSUME NEW o \in Requests \ {p}, req[o].phase = "loop", i \in Roles
        PROVE  /\ Formed(req'[o]) /\ req'[o].op = req[o].op /\ req'[o].phase = req[o].phase
               /\ req'[o].kind = req[o].kind /\ req'[o].names = req[o].names
               /\ req'[o].named = req[o].named /\ req'[o].at = req[o].at
               /\ req'[o].member = req[o].member /\ req'[o].id = req[o].id
               /\ req'[o].new = req[o].new /\ req'[o].mapped = req[o].mapped
               /\ req'[o].others = req[o].others \cup {i}
    <3> DEFINE g == [req[o] EXCEPT !.others = @ \cup {i}]
    <3>1. Formed(req[o]) BY <2>2
    <3>2. /\ Formed(g) /\ g.others = req[o].others \cup {i}
          /\ g.op = req[o].op /\ g.phase = req[o].phase /\ g.kind = req[o].kind
          /\ g.names = req[o].names /\ g.named = req[o].named /\ g.at = req[o].at
          /\ g.member = req[o].member /\ g.id = req[o].id
          /\ g.new = req[o].new /\ g.mapped = req[o].mapped
      BY <2>3, <3>1, OthersGrow
    <3>3. req'[o] = g BY <2>1, <2>3
    <3> HIDE DEF g
    <3> QED BY <3>2, <3>3
  <2>4. ASSUME NEW o \in Requests \ {p}, ~(req[o].phase = "loop" /\ i \in Roles)
        PROVE  req'[o] = req[o]
    BY <2>1, <2>4
  <2>5. req'[p] = Idle /\ DOMAIN req' = Requests BY <2>1
  <2> QED BY <2>2, <2>3, <2>4, <2>5
<1>7. \A o \in Requests : Formed(req'[o]) BY <1>6, IdleFits
<1>8. TypeOK'
  <2>1. req' = [o \in Requests |-> req'[o]] BY DEF Delete
  <2>2. \A o \in Requests : req'[o] \in RequestStates BY <1>7 DEF Formed
  <2>3. req' \in [Requests -> RequestStates] BY <2>1, <2>2
  <2> QED BY <1>3, <1>4, <1>5, <2>3 DEF IInv, TypeOK
<1>9. Consistent'
  <2>1. \A a, b \in Ids : name'[a] # NoName /\ name'[a] = name'[b] /\ KindOf(a) = KindOf(b)
          => a = b
    BY <1>4 DEF IInv, Consistent, Exists
  <2>2. \A m \in Members : \A r \in held'[m] : name'[r] # NoName
    <3>1. \A m \in Members : \A r \in held[m] : Exists(r) /\ r \in Ids
      BY DEF IInv, Consistent, TypeOK, Ids
    <3> QED BY <1>4, <1>5, <3>1 DEF Exists
  <2>3. \A r \in Roles : \A x \in mapped'[r] : name'[r] # NoName /\ name'[x] # NoName
    <3>1. \A r \in Roles : \A x \in mapped[r] : r \in Ids /\ x \in Ids /\ Exists(r) /\ Exists(x)
      BY MappedStay DEF Ids
    <3> QED BY <1>4, <1>5, <3>1 DEF Exists
  <2> QED BY <2>1, <2>2, <2>3 DEF Consistent, Exists
<1>10. \A c \in Kinds : \A x \in NamesOf(c)' : x \in NamesOf(c)
  <2>1. ASSUME NEW c \in Kinds, NEW x \in NamesOf(c)' PROVE x \in NamesOf(c)
    <3>1. PICK j \in IdsOf(c) : name'[j] = x /\ x # NoName BY <2>1 DEF NamesOf
    <3>2. name[j] = x BY <1>4, <3>1, IdsAre
    <3> QED BY <3>1, <3>2, NamesOfIs
  <2> QED BY <2>1
<1>11. MissingHasCause'
  <2>1. ASSUME NEW c \in Kinds, NEW x \in NamesOf(c)' \ remote'[c]
        PROVE  \/ <<c, x>> \in unpushed'
               \/ \E o \in Requests :
                    req'[o].phase = "push" /\ req'[o].kind = c /\ req'[o].new = x
    <3>1. x \in NamesOf(c) \ remote[c] BY <1>3, <1>10, <2>1
    <3>2. \/ <<c, x>> \in unpushed
          \/ \E o \in Requests : req[o].phase = "push" /\ req[o].kind = c /\ req[o].new = x
      BY <3>1 DEF IInv, MissingHasCause
    <3> QED BY <1>1, <1>3, <1>6, <3>2
  <2> QED BY <2>1 DEF MissingHasCause
<1>12. PrefixDone'
  <2>1. ASSUME NEW o \in Requests, req'[o].phase = "loop", NEW j \in 1..req'[o].at
        PROVE  LET x == req'[o].named[req'[o].names[j]] IN
               x \in req'[o].others \/ (x \in held'[req'[o].member] <=> req'[o].op = "assign")
    <3>1. o # p BY <1>6, <2>1, IdleFits
    <3>2. /\ req[o].phase = "loop" /\ Formed(req[o]) /\ j \in 1..req[o].at
          /\ req'[o].named = req[o].named /\ req'[o].names = req[o].names
      BY <1>6, <2>1, <3>1 DEF IInv
    <3>3. PICK c \in Members : req[o].member = c BY <3>2 DEF Formed
    <3>4. PICK x \in Roles \cup {NoId} : req[o].named[req[o].names[j]] = x
      <4>1. j \in 1..Len(req[o].names)
        <5>1. req[o].at \in Nat /\ Len(req[o].names) \in Nat
          BY <3>2, RequestType, ListsAre DEF Formed
        <5>2. req[o].at <= Len(req[o].names) BY <3>2 DEF Formed
        <5> QED BY <3>2, <5>1, <5>2
      <4>2. req[o].names[j] \in Names BY <3>2, <4>1, RequestType, ListsAre DEF Formed
      <4>3. req[o].named \in [Names -> Roles \cup {NoId}] BY <3>2 DEF Formed
      <4> QED BY <4>2, <4>3
    <3>5. x \in req[o].others \/ (x \in held[c] <=> req[o].op = "assign")
      BY <3>2, <3>3, <3>4 DEF IInv, PrefixDone
    <3>6. x # i => (x \in held'[c] <=> x \in held[c]) BY <1>5
    <3>7. x = i => x \in req'[o].others
      <4>1. NoId \notin Ids OBVIOUS
      <4> QED BY <1>2, <1>6, <3>1, <3>2, <4>1
    <3> QED BY <1>6, <3>1, <3>3, <3>4, <3>5, <3>6, <3>7
  <2> QED BY <2>1 DEF PrefixDone
<1>13. Reserved'
  <2>1. ASSUME NEW o \in Requests, Uncommitted(req'[o])
        PROVE  /\ o # p /\ Uncommitted(req[o]) /\ req'[o].id = req[o].id
               /\ req'[o].new = req[o].new /\ req'[o].mapped = req[o].mapped
    BY <1>6, <2>1, IdleFits DEF Uncommitted
  <2>2. ASSUME NEW o \in Requests, Uncommitted(req'[o])
        PROVE  /\ name'[req'[o].id] = NoName
               /\ req'[o].new \notin NamesOf("role")'
               /\ \A x \in req'[o].mapped : name'[x] # NoName
    <3>1. Uncommitted(req[o]) /\ Formed(req[o]) BY <2>1, <2>2 DEF IInv
    <3>2. PICK id \in Roles, w \in Names, ms \in SUBSET Permissions :
            req[o].id = id /\ req[o].new = w /\ req[o].mapped = ms
      BY <3>1, UncommittedIs
    <3>3. ~Exists(id) /\ w \notin NamesOf("role") /\ \A x \in ms : Exists(x) /\ x # i
      BY <1>3, <3>1, <3>2, ReservedFor
    <3>4. name'[id] = NoName /\ \A x \in ms : name'[x] # NoName
      BY <1>4, <3>3 DEF Exists, Ids
    <3>5. w \notin NamesOf("role")' BY <1>10, <3>3 DEF Kinds
    <3> QED BY <2>1, <2>2, <3>2, <3>4, <3>5
  <2>3. \A o, x \in Requests : Uncommitted(req'[o]) /\ Uncommitted(req'[x]) =>
          o = x \/ (req'[o].id # req'[x].id /\ req'[o].new # req'[x].new)
    BY <2>1 DEF IInv, Reserved
  <2> QED BY <2>2, <2>3 DEF Reserved, Exists, Uncommitted
<1>14. Remembered' BY <1>3 DEF IInv, Remembered, Known
<1> QED BY <1>7, <1>8, <1>9, <1>11, <1>12, <1>13, <1>14 DEF IInv

-----------------------------------------------------------------------------
(* Descope's console and the reconciliation.                               *)

LEMMA RowsStay ==
    ASSUME IInv, UNCHANGED <<name, mapped, held, req>>,
           remote' \in [Kinds -> SUBSET Names], unpushed' \in SUBSET (Kinds \X Names),
           recon' \in ReconStates, events' \in Nat,
           \A k \in Kinds, n \in Names : Known(k, n) => Known(k, n)', Remembered'
    PROVE  IInv'
<1>1. TypeOK' BY DEF IInv, TypeOK
<1>2. Consistent' BY DEF IInv, Consistent, Exists
<1>3. MissingHasCause'
  <2>1. ASSUME NEW c \in Kinds, NEW x \in NamesOf(c)' \ remote'[c]
        PROVE  \/ <<c, x>> \in unpushed'
               \/ \E o \in Requests :
                    req'[o].phase = "push" /\ req'[o].kind = c /\ req'[o].new = x
    <3>1. x \in NamesOf(c) BY <2>1 DEF NamesOf
    <3>2. x \in Names BY <3>1, NamesType DEF IInv
    <3>3. CASE Known(c, x)
      <4>1. Known(c, x)' BY <3>2, <3>3
      <4> QED BY <2>1, <4>1 DEF Known
    <3>4. CASE ~Known(c, x)
      <4>1. \E o \in Requests : req[o].phase = "push" /\ req[o].kind = c /\ req[o].new = x
        BY <3>1, <3>4 DEF IInv, MissingHasCause, Known
      <4> QED BY <4>1
    <3> QED BY <3>3, <3>4
  <2> QED BY <2>1 DEF MissingHasCause
<1>4. PrefixDone' BY DEF IInv, PrefixDone
<1>5. \A o \in Requests : Formed(req'[o]) BY DEF IInv
<1>6. Reserved' BY DEF IInv, Reserved, Exists, NamesOf, Uncommitted
<1> QED BY <1>1, <1>2, <1>3, <1>4, <1>5, <1>6 DEF IInv

LEMMA ConsoleStep ==
    ASSUME IInv, NEW k \in Kinds, NEW n \in Names, Console(k, n) PROVE IInv'
<1>1. remote' \in [Kinds -> SUBSET Names] /\ unpushed' \in SUBSET (Kinds \X Names)
  BY DEF Console, IInv, TypeOK
<1>2. /\ UNCHANGED <<name, mapped, held, req, recon>> /\ events' \in Nat
      /\ recon' \in ReconStates
  BY SpendType DEF Console, IInv, TypeOK
<1>3. \A c \in Kinds, x \in Names : Known(c, x) => Known(c, x)'
  BY DEF Console, Known, IInv, TypeOK
<1>4. Remembered'
  <2>1. \A c \in Kinds : recon.fetched[c] \subseteq Names BY DEF IInv, TypeOK, ReconStates
  <2>2. ASSUME recon'.phase # "idle", NEW c \in Kinds, NEW x \in recon'.fetched[c]
        PROVE  Known(c, x)'
    <3>1. Known(c, x) /\ x \in Names BY <1>2, <2>1, <2>2 DEF IInv, Remembered
    <3> QED BY <1>3, <3>1
  <2> QED BY <2>2 DEF Remembered
<1> QED BY <1>1, <1>2, <1>3, <1>4, RowsStay

\* Fetch, Load and GiveUp change nothing but what the reconciliation knows.
LEMMA ReconStays ==
    ASSUME IInv, UNCHANGED name, ReconOnly, recon' \in ReconStates, events' \in Nat,
           recon'.phase # "idle" =>
             \A k \in Kinds : \A n \in recon'.fetched[k] : Known(k, n)
    PROVE  IInv'
<1>1. /\ UNCHANGED <<name, mapped, held, req>> /\ remote' \in [Kinds -> SUBSET Names]
      /\ unpushed' \in SUBSET (Kinds \X Names)
  BY DEF ReconOnly, IInv, TypeOK
<1>2. \A k \in Kinds, n \in Names : Known(k, n) => Known(k, n)' BY DEF ReconOnly, Known
<1>3. Remembered' BY DEF ReconOnly, Remembered, Known
<1> QED BY <1>1, <1>2, <1>3, RowsStay

LEMMA FetchStep == ASSUME IInv, Fetch PROVE IInv'
<1>1. recon' \in ReconStates /\ recon'.fetched = remote
  BY DEF Fetch, IInv, TypeOK, ReconStates
<1>2. events' \in Nat BY DEF Fetch, IInv, TypeOK
<1>3. \A k \in Kinds : \A n \in recon'.fetched[k] : Known(k, n) BY <1>1 DEF Known
<1> QED BY <1>1, <1>2, <1>3, ReconStays DEF Fetch

LEMMA LoadStep == ASSUME IInv, Load PROVE IInv'
<1>1. \A k \in Kinds : NamesOf(k) \subseteq Names BY NamesType DEF IInv
<1>2. recon' \in ReconStates /\ recon'.fetched = recon.fetched
  BY <1>1 DEF Load, IInv, TypeOK, ReconStates
<1>3. events' \in Nat BY DEF Load, IInv, TypeOK
<1>4. \A k \in Kinds : \A n \in recon'.fetched[k] : Known(k, n)
  BY <1>2 DEF Load, IInv, Remembered
<1> QED BY <1>2, <1>3, <1>4, ReconStays DEF Load

LEMMA AtRestIs == AtRest \in ReconStates /\ AtRest.phase = "idle"
  BY DEF AtRest, ReconStates

LEMMA GiveUpStep == ASSUME IInv, GiveUp PROVE IInv'
<1>1. recon' \in ReconStates /\ recon'.phase = "idle" BY AtRestIs DEF GiveUp
<1>2. events' \in Nat BY SpendType DEF GiveUp
<1> QED BY <1>1, <1>2, ReconStays DEF GiveUp

\* One transaction gives fresh ids to names no row has.
LEMMA ReconcileStep == ASSUME IInv, Reconcile PROVE IInv'
<1> DEFINE new == {x \in Kinds \X Names : x[2] \in Missing(x[1])}
<1>1. PICK id \in [new -> Ids] :
        /\ \A x \in new : id[x] \in Fresh(x[1])
        /\ IsInjective(id)
        /\ name' = [i \in Ids |-> IF \E x \in new : id[x] = i
                                  THEN (CHOOSE x \in new : id[x] = i)[2] ELSE name[i]]
  BY DEF Reconcile
<1>2. /\ UNCHANGED <<mapped, held, remote, req, unpushed, events>> /\ recon' = AtRest
      /\ recon.phase = "loaded" /\ \A x \in new : ~Waits(x[1], x[2])
  BY DEF Reconcile, ReconOnly
<1>3. \A x, y \in new : id[x] = id[y] => x = y BY <1>1 DEF IsInjective
<1>4. \A x \in new : /\ x[1] \in Kinds /\ x[2] \in Names /\ x = <<x[1], x[2]>>
                     /\ x[2] \notin NamesOf(x[1]) /\ x[2] \in recon.fetched[x[1]]
  BY DEF Missing
<1>5. ASSUME NEW x \in new
      PROVE  /\ id[x] \in Ids /\ id[x] \in IdsOf(x[1]) /\ KindOf(id[x]) = x[1]
             /\ ~Exists(id[x]) /\ \A o \in Requests : req[o].id # id[x]
             /\ name'[id[x]] = x[2]
  <2>1. id[x] \in Fresh(x[1]) BY <1>1
  <2>2. /\ id[x] \in Ids /\ id[x] \in IdsOf(x[1]) /\ KindOf(id[x]) = x[1]
        /\ ~Exists(id[x]) /\ \A o \in Requests : req[o].id # id[x]
    BY <1>4, <2>1, IdsAre DEF Fresh, Remembers
  <2>3. (CHOOSE y \in new : id[y] = id[x]) = x BY <1>3
  <2>4. name'[id[x]] = x[2] BY <1>1, <2>2, <2>3
  <2> QED BY <2>2, <2>4
<1>6. \A i \in Ids : (\E x \in new : id[x] = i) \/ name'[i] = name[i] BY <1>1
<1>7. name' \in [Ids -> Names \cup {NoName}]
  <2>1. \A i \in Ids : name'[i] \in Names \cup {NoName}
    BY <1>4, <1>5, <1>6 DEF IInv, TypeOK
  <2> QED BY <1>1, <2>1
<1>8. \A i \in Ids : Exists(i) => name'[i] = name[i] /\ name'[i] # NoName
  BY <1>5, <1>6 DEF Exists
<1> HIDE DEF new
<1>9. TypeOK' BY <1>2, <1>7, AtRestIs DEF IInv, TypeOK
<1>10. Consistent'
  <2>1. ASSUME NEW a \in Ids, NEW b \in Ids, name'[a] # NoName, name'[a] = name'[b],
               KindOf(a) = KindOf(b), a # b
        PROVE  FALSE
    <3>1. ASSUME NEW x \in new, NEW j \in Ids, KindOf(j) = x[1], name[j] = x[2] PROVE FALSE
      <4>1. j \in IdsOf(x[1]) /\ x[2] # NoName BY <1>4, <3>1, IdsAre
      <4>2. x[2] \in NamesOf(x[1]) BY <3>1, <4>1, NamesOfIs
      <4> QED BY <1>4, <4>2
    <3>2. CASE name'[a] = name[a] /\ name'[b] = name[b]
      BY <2>1, <3>2 DEF IInv, Consistent, Exists
    <3>3. CASE name'[a] # name[a]
      <4>1. PICK x \in new : id[x] = a BY <1>6, <3>3
      <4>2. name'[a] = x[2] /\ KindOf(a) = x[1] BY <1>5, <4>1
      <4>3. CASE name'[b] = name[b] BY <2>1, <3>1, <4>2, <4>3
      <4>4. CASE name'[b] # name[b]
        <5>1. PICK y \in new : id[y] = b BY <1>6, <4>4
        <5>2. name'[b] = y[2] /\ KindOf(b) = y[1] BY <1>5, <5>1
        <5> QED BY <1>4, <2>1, <4>1, <4>2, <5>1, <5>2
      <4> QED BY <4>3, <4>4
    <3>4. CASE name'[a] = name[a] /\ name'[b] # name[b]
      <4>1. PICK y \in new : id[y] = b BY <1>6, <3>4
      <4>2. name'[b] = y[2] /\ KindOf(b) = y[1] BY <1>5, <4>1
      <4> QED BY <2>1, <3>1, <3>4, <4>2
    <3> QED BY <3>2, <3>3, <3>4
  <2>2. \A m \in Members : \A r \in held'[m] : name'[r] # NoName
    <3>1. \A m \in Members : \A r \in held[m] : Exists(r) /\ r \in Ids
      BY DEF IInv, Consistent, TypeOK, Ids
    <3> QED BY <1>2, <1>8, <3>1
  <2>3. \A r \in Roles : \A x \in mapped'[r] : name'[r] # NoName /\ name'[x] # NoName
    <3>1. \A r \in Roles : \A x \in mapped[r] : r \in Ids /\ x \in Ids /\ Exists(r) /\ Exists(x)
      BY MappedStay DEF Ids
    <3> QED BY <1>2, <1>8, <3>1
  <2>4. \A a, b \in Ids : name'[a] # NoName /\ name'[a] = name'[b] /\ KindOf(a) = KindOf(b)
          => a = b
    BY <2>1
  <2> QED BY <2>2, <2>3, <2>4 DEF Consistent, Exists
<1>11. ASSUME NEW c \in Kinds, NEW n \in NamesOf(c)'
       PROVE  n \in NamesOf(c) \/ \E x \in new : x[1] = c /\ x[2] = n
  <2>1. PICK j \in IdsOf(c) : name'[j] = n /\ n # NoName BY <1>11 DEF NamesOf
  <2>2. j \in Ids /\ KindOf(j) = c BY <2>1, IdsAre
  <2>3. CASE \E x \in new : id[x] = j BY <1>5, <2>1, <2>2, <2>3
  <2>4. CASE name'[j] = name[j]
    <3>1. name[j] = n BY <2>1, <2>4
    <3> QED BY <2>1, <3>1, NamesOfIs
  <2> QED BY <1>6, <2>2, <2>3, <2>4
<1>12. MissingHasCause'
  <2>1. ASSUME NEW c \in Kinds, NEW x \in NamesOf(c)' \ remote'[c]
        PROVE  \/ <<c, x>> \in unpushed'
               \/ \E o \in Requests :
                    req'[o].phase = "push" /\ req'[o].kind = c /\ req'[o].new = x
    <3>1. CASE x \in NamesOf(c)
      <4>1. x \in NamesOf(c) \ remote[c] BY <1>2, <2>1, <3>1
      <4>2. \/ <<c, x>> \in unpushed
            \/ \E o \in Requests : req[o].phase = "push" /\ req[o].kind = c /\ req[o].new = x
        BY <4>1 DEF IInv, MissingHasCause
      <4> QED BY <1>2, <4>2
    <3>2. CASE \E y \in new : y[1] = c /\ y[2] = x
      <4>1. x \in recon.fetched[c] BY <1>4, <3>2
      <4>2. Known(c, x) BY <1>2, <4>1 DEF IInv, Remembered
      <4> QED BY <1>2, <2>1, <4>2 DEF Known
    <3> QED BY <1>11, <2>1, <3>1, <3>2
  <2> QED BY <2>1 DEF MissingHasCause
<1>13. PrefixDone' BY <1>2 DEF IInv, PrefixDone
<1>14. \A o \in Requests : Formed(req'[o]) BY <1>2 DEF IInv
<1>15. Reserved'
  <2>1. ASSUME NEW o \in Requests, Uncommitted(req[o])
        PROVE  /\ name'[req[o].id] = NoName
               /\ req[o].new \notin NamesOf("role")'
               /\ \A x \in req[o].mapped : name'[x] # NoName
    <3>1. Formed(req[o]) BY DEF IInv
    <3>2. PICK i \in Roles, w \in Names, ms \in SUBSET Permissions :
            req[o].id = i /\ req[o].new = w /\ req[o].mapped = ms
      BY <2>1, <3>1, UncommittedIs
    <3>3. ~Exists(i) /\ w \notin NamesOf("role") /\ \A x \in ms : Exists(x)
      BY <2>1, <3>2, ReservedFor
    <3>4. name'[i] = NoName
      <4>1. ~\E x \in new : id[x] = i BY <1>5, <3>2
      <4> QED BY <1>6, <3>3, <4>1 DEF Exists, Ids
    <3>5. w \notin NamesOf("role")'
      <4>1. ASSUME NEW x \in new, x[1] = "role", x[2] = w PROVE FALSE
        <5>1. ~Waits("role", w) BY <1>2, <4>1
        <5> QED BY <2>1, <3>2, <5>1 DEF Waits, Inserting, Uncommitted
      <4> QED BY <1>11, <3>3, <4>1 DEF Kinds
    <3>6. \A x \in ms : name'[x] # NoName BY <1>8, <3>3 DEF Ids
    <3> QED BY <3>2, <3>4, <3>5, <3>6
  <2> QED BY <1>2, <2>1 DEF IInv, Reserved, Exists, Uncommitted
<1>16. Remembered' BY <1>2, AtRestIs DEF Remembered
<1> QED BY <1>9, <1>10, <1>12, <1>13, <1>14, <1>15, <1>16 DEF IInv

-----------------------------------------------------------------------------
(* The invariant holds, and what follows from it.                          *)

LEMMA CallStep == ASSUME IInv, NEW p \in Requests, Call(p) PROVE IInv'
<1>1. ASSUME NEW op \in {"assign", "remove"}, NEW m \in Members, NEW ns \in Lists,
             CallLoop(p, op, m, ns)
      PROVE  IInv'
  BY <1>1, CallLoopStep
<1>2. ASSUME NEW k \in Kinds, NEW n \in Names, NEW ns \in Lists, CallCreate(p, k, n, ns)
      PROVE  IInv'
  BY <1>2, CallCreateStep
<1>3. ASSUME NEW k \in Kinds, NEW n \in Names, NEW new \in Names,
             CallChange(p, "rename", k, n, new)
      PROVE  IInv'
  BY <1>3, CallChangeStep
<1>4. ASSUME NEW k \in Kinds, NEW n \in Names, CallChange(p, "delete", k, n, NoName)
      PROVE  IInv'
  BY <1>4, CallChangeStep
<1> QED BY <1>1, <1>2, <1>3, <1>4 DEF Call

LEMMA WorkStep == ASSUME IInv, NEW p \in Requests, Work(p) PROVE IInv'
  BY EndLoopStep, AssignNextStep, RemoveNextStep, StoreRefusedStep, StorePermissionStep,
     InsertRoleStep, LookUpStep, MapStep, CommitRoleStep, RenameStep, DeleteStep, PushStep
  DEF Work

LEMMA NextInv == ASSUME IInv, [Next]_vars PROVE IInv'
<1>1. ASSUME NEW p \in Requests, Call(p) \/ Work(p) \/ PushFails(p) \/ Fault(p) PROVE IInv'
  BY <1>1, CallStep, WorkStep, PushFailsStep, FaultStep
<1>2. ASSUME NEW k \in Kinds, NEW n \in Names, Console(k, n) PROVE IInv'
  BY <1>2, ConsoleStep
<1>3. CASE ReconStep \/ GiveUp
  BY <1>3, FetchStep, LoadStep, ReconcileStep, GiveUpStep DEF ReconStep
<1>4. CASE UNCHANGED vars
  <2>1. UNCHANGED <<name, mapped, held, req>> BY <1>4 DEF vars
  <2>2. /\ remote' \in [Kinds -> SUBSET Names] /\ unpushed' \in SUBSET (Kinds \X Names)
        /\ recon' \in ReconStates /\ events' \in Nat
    BY <1>4 DEF vars, IInv, TypeOK
  <2>3. /\ \A k \in Kinds, n \in Names : Known(k, n) => Known(k, n)'
        /\ Remembered'
    BY <1>4 DEF vars, Known, IInv, Remembered
  <2> QED BY <2>1, <2>2, <2>3, RowsStay
<1> QED BY <1>1, <1>2, <1>3, <1>4 DEF Next

\* Every reachable state is formed as the functions of RoleService,
\* PermissionService and the routers leave it, between any two of their steps.
THEOREM Invariance == Spec => []IInv
<1>1. Init => IInv BY InitInv
<1>2. IInv /\ [Next]_vars => IInv' BY NextInv
<1> QED BY <1>1, <1>2, PTL DEF Spec

\* Variables keep to their types.
THEOREM TypeCorrect == Spec => []TypeOK
<1>1. IInv => TypeOK BY DEF IInv
<1> QED BY <1>1, Invariance, PTL

\* Names stay unique and no row refers to one that is gone, whoever creates,
\* renames, deletes and reconciles at once.
THEOREM AlwaysConsistent == Spec => []Consistent
<1>1. IInv => Consistent BY DEF IInv
<1> QED BY <1>1, Invariance, PTL

\* A definition that Descope lacks was lost there or on the way to it.
THEOREM MissingAlwaysHasCause == Spec => []MissingHasCause
<1>1. IInv => MissingHasCause BY DEF IInv
<1> QED BY <1>1, Invariance, PTL

\* assign and remove have done what they got past, but for what others did.
THEOREM PrefixAlwaysDone == Spec => []PrefixDone
<1>1. IInv => PrefixDone BY DEF IInv
<1> QED BY <1>1, Invariance, PTL

\* The rows of roles that a step brings, and who brings them.
LEMMA CreatedBy ==
    ASSUME IInv, [Next]_vars, NEW r \in Roles, ~Exists(r), Exists(r)'
    PROVE  \/ recon.phase = "loaded" /\ recon'.phase = "idle" /\ mapped'[r] = {}
           \/ \E p \in Requests :
                /\ req[p].id = r /\ req[p].phase = "look"
                /\ Cardinality(mapped'[r]) = Len(req[p].names)
<1>1. r \in Ids /\ name[r] = NoName /\ name'[r] # NoName BY DEF Ids, Exists
<1>2. name \in [Ids -> Names \cup {NoName}] BY DEF IInv, TypeOK
<1>3. CASE Reconcile
  <2>1. recon.phase = "loaded" /\ recon'.phase = "idle" /\ mapped' = mapped
    BY <1>3, AtRestIs DEF Reconcile, ReconOnly
  <2>2. mapped[r] = {} BY MappedStay
  <2> QED BY <2>1, <2>2
<1>4. ASSUME NEW p \in Requests, CommitRole(p)
      PROVE  /\ req[p].id = r /\ req[p].phase = "look"
             /\ Cardinality(mapped'[r]) = Len(req[p].names)
  <2>1. /\ Formed(req[p]) /\ req[p].phase = "look" /\ req[p].at = Len(req[p].names)
        /\ Uncommitted(req[p])
    BY <1>4 DEF IInv, CommitRole, Uncommitted
  <2>2. Committable(p) /\ name' = [name EXCEPT ![req[p].id] = req[p].new]
        /\ mapped' = [mapped EXCEPT ![req[p].id] = req[p].mapped]
    BY <1>1, <1>4 DEF CommitRole
  <2>3. req[p].id = r BY <1>1, <1>2, <2>2
  <2>4. mapped'[r] = req[p].mapped BY <2>2, <2>3, MappedStay
  <2>5. Cardinality(req[p].mapped) = req[p].at BY <2>1, <2>2 DEF Formed, Committable
  <2> QED BY <2>1, <2>3, <2>4, <2>5
<1>5. ASSUME NEW p \in Requests, StorePermission(p) PROVE FALSE
  <2>1. PICK i \in Fresh("permission") : name' = [name EXCEPT ![i] = req[p].new]
    BY <1>5 DEF StorePermission
  <2>2. i \in Permissions BY <2>1, IdsAre DEF Fresh
  <2>3. i # r BY <2>2
  <2> QED BY <1>1, <1>2, <2>1, <2>3
<1>6. ASSUME NEW p \in Requests, Rename(p) PROVE FALSE
  <2>1. Exists(req[p].id) /\ name' = [name EXCEPT ![req[p].id] = req[p].new]
    BY <1>6 DEF Rename
  <2>2. req[p].id # r BY <1>1, <2>1 DEF Exists
  <2> QED BY <1>1, <1>2, <2>1, <2>2
<1>7. ASSUME NEW p \in Requests, Delete(p) PROVE FALSE
  <2>1. name' = [name EXCEPT ![req[p].id] = NoName] BY <1>7 DEF Delete
  <2> QED BY <1>1, <1>2, <2>1
<1>8. ASSUME NEW p \in Requests, Call(p) PROVE FALSE
  BY <1>1, <1>8 DEF Call, CallLoop, CallCreate, CallChange, Open
<1>9. ASSUME NEW p \in Requests, PushFails(p) \/ Fault(p) \/ Push(p) PROVE FALSE
  BY <1>1, <1>9 DEF PushFails, Fault, Push
<1>10. ASSUME NEW p \in Requests,
              \/ EndLoop(p) \/ AssignNext(p) \/ RemoveNext(p) \/ StoreRefused(p)
              \/ InsertRole(p) \/ LookUp(p) \/ Map(p)
       PROVE  FALSE
  BY <1>1, <1>10 DEF EndLoop, AssignNext, RemoveNext, StoreRefused, InsertRole, LookUp, Map
<1>11. ASSUME NEW k \in Kinds, NEW n \in Names, Console(k, n) PROVE FALSE
  BY <1>1, <1>11 DEF Console
<1>12. CASE Fetch \/ Load \/ GiveUp \/ UNCHANGED vars
  BY <1>1, <1>12 DEF Fetch, Load, GiveUp, vars
<1> QED BY <1>3, <1>4, <1>5, <1>6, <1>7, <1>8, <1>9, <1>10, <1>11, <1>12
        DEF Next, Work, ReconStep

\* A role comes into being with every permission its creator listed, or bare
\* by a reconciliation: no conflict on the way leaves a part of one.
THEOREM AlwaysCreatedWhole == Spec => CreatedWhole
<1>1. IInv /\ [Next]_vars =>
        [\A r \in Roles : ~Exists(r) /\ Exists(r)' =>
           \/ recon.phase = "loaded" /\ recon'.phase = "idle" /\ mapped'[r] = {}
           \/ \E p \in Requests :
                /\ req[p].id = r /\ req[p].phase = "look"
                /\ Cardinality(mapped'[r]) = Len(req[p].names)]_vars
  BY CreatedBy
<1> QED BY <1>1, Invariance, PTL DEF Spec, CreatedWhole

-----------------------------------------------------------------------------
(* The RoleStore, seen by names.                                           *)

LEMMA GrantsAre ==
    /\ \A g : g \in GrantsByName <=>
         \E r \in Roles : \E x \in mapped[r] : g = <<name[r], name[x]>>
    /\ \A g : g \in GrantsByName' <=>
         \E r \in Roles : \E x \in mapped'[r] : g = <<name'[r], name'[x]>>
  BY DEF GrantsByName

LEMMA HoldersAre ==
    /\ \A h : h \in HoldersByName <=>
         \E m \in Members : \E r \in held[m] : h = <<m, name[r]>>
    /\ \A h : h \in HoldersByName' <=>
         \E m \in Members : \E r \in held'[m] : h = <<m, name'[r]>>
  BY DEF HoldersByName

\* What refers to a row finds it, under a name that is its own.
LEMMA Referred ==
    ASSUME IInv
    PROVE  /\ \A r \in Roles : \A x \in mapped[r] :
                /\ x \in Permissions /\ Exists(r) /\ Exists(x)
                /\ name[r] \in NamesOf("role") /\ name[x] \in NamesOf("permission")
           /\ \A m \in Members : \A r \in held[m] :
                r \in Roles /\ Exists(r) /\ name[r] \in NamesOf("role")
           /\ \A r, s \in Roles : Exists(r) /\ name[r] = name[s] => r = s
           /\ \A x, y \in Permissions : Exists(x) /\ name[x] = name[y] => x = y
<1>1. \A r \in Roles : \A x \in mapped[r] : x \in Permissions /\ Exists(r) /\ Exists(x)
  BY MappedStay
<1>2. \A m \in Members : \A r \in held[m] : r \in Roles /\ Exists(r)
  BY DEF IInv, TypeOK, Consistent
<1>3. \A r \in Roles : Exists(r) => name[r] \in NamesOf("role")
  BY NamesOfIs, IdsAre DEF Exists
<1>4. \A x \in Permissions : Exists(x) => name[x] \in NamesOf("permission")
  BY NamesOfIs, IdsAre DEF Exists
<1>5. \A i, j \in Ids : Exists(i) /\ name[i] = name[j] /\ KindOf(i) = KindOf(j) => i = j
  BY DEF IInv, Consistent
<1>6. /\ \A r \in Roles : r \in Ids /\ KindOf(r) = "role"
      /\ \A x \in Permissions : x \in Ids /\ KindOf(x) = "permission"
  BY IdsAre DEF Kinds
<1> QED BY <1>1, <1>2, <1>3, <1>4, <1>5, <1>6

LEMMA StoreStill ==
    ASSUME UNCHANGED <<name, mapped, held>> PROVE UNCHANGED Store!vars
  BY DEF Store!vars, NamesOf, GrantsByName, HoldersByName

\* New rows change nothing that refers to the old ones.
LEMMA StoreGrows ==
    ASSUME IInv, \A i \in Ids : Exists(i) => name'[i] = name[i], UNCHANGED <<mapped, held>>
    PROVE  GrantsByName' = GrantsByName /\ HoldersByName' = HoldersByName
<1>1. /\ \A r \in Roles : \A x \in mapped[r] : name'[r] = name[r] /\ name'[x] = name[x]
      /\ \A m \in Members : \A r \in held[m] : name'[r] = name[r]
  BY Referred DEF Ids
<1>2. \A g : g \in GrantsByName' <=> g \in GrantsByName BY <1>1, GrantsAre
<1>3. \A h : h \in HoldersByName' <=> h \in HoldersByName BY <1>1, HoldersAre
<1> QED BY <1>2, <1>3

\* The names in use when the row i of kind k gets another name.
LEMMA NamesWith ==
    ASSUME IInv, NEW k \in Kinds, NEW i \in IdsOf(k), NEW n \in Names \cup {NoName},
           name' = [name EXCEPT ![i] = n]
    PROVE  /\ NamesOf(k)' = (NamesOf(k) \ {name[i]}) \cup ({n} \ {NoName})
           /\ \A j \in Kinds \ {k} : NamesOf(j)' = NamesOf(j)
           /\ name'[i] = n /\ \A j \in Ids \ {i} : name'[j] = name[j]
<1>1. i \in Ids /\ name'[i] = n /\ \A j \in Ids \ {i} : name'[j] = name[j]
  BY IdsAre DEF IInv, TypeOK
<1>2. \A j \in IdsOf(k) \ {i} : name[j] = name[i] => name[j] = NoName
  BY IdsAre, <1>1 DEF IInv, Consistent, Exists
<1>3. \A x : x \in NamesOf(k)' <=> \E j \in IdsOf(k) : name'[j] = x /\ x # NoName
  BY DEF NamesOf, IdsOf
<1>4. ASSUME NEW x
      PROVE  x \in NamesOf(k)' <=> x \in (NamesOf(k) \ {name[i]}) \cup ({n} \ {NoName})
  <2>1. \A j \in IdsOf(k) : j \in Ids BY IdsAre
  <2> QED BY <1>1, <1>2, <1>3, <2>1, NamesOfIs
<1>5. ASSUME NEW j \in Kinds \ {k} PROVE NamesOf(j)' = NamesOf(j)
  <2>1. \A l \in IdsOf(j) : l \in Ids /\ l # i BY IdsAre
  <2> QED BY <1>1, <2>1 DEF NamesOf, IdsOf
<1> QED BY <1>1, <1>4, <1>5

LEMMA AssignSeen ==
    ASSUME IInv, NEW p \in Requests, AssignNext(p)
    PROVE  \E m \in Members, n \in Names : Store!Assign(m, n)
<1>1. PICK m \in Members : req[p].member = m BY DEF IInv, Formed, AssignNext, Remaining
<1>2. PICK i \in Roles : /\ i = Next_(p) /\ Exists(i)
                         /\ held' = [held EXCEPT ![m] = @ \cup {i}]
  BY <1>1 DEF AssignNext, Applicable
<1>3. name' = name /\ mapped' = mapped BY DEF AssignNext
<1>4. \A l \in Members : held'[l] = IF l = m THEN held[l] \cup {i} ELSE held[l]
  BY <1>2 DEF IInv, TypeOK
<1>5. HoldersByName' = HoldersByName \cup {<<m, name[i]>>}
  <2>1. ASSUME NEW h \in HoldersByName' PROVE h \in HoldersByName \cup {<<m, name[i]>>}
    <3>1. PICK l \in Members : \E r \in held'[l] : h = <<l, name[r]>> BY <1>3, HoldersAre
    <3>2. PICK r \in held'[l] : h = <<l, name[r]>> BY <3>1
    <3>3. r \in held[l] \/ (l = m /\ r = i) BY <1>4, <3>2
    <3>4. CASE r \in held[l] BY <3>2, <3>4, HoldersAre
    <3>5. CASE l = m /\ r = i BY <3>2, <3>5
    <3> QED BY <3>3, <3>4, <3>5
  <2>2. ASSUME NEW h \in HoldersByName PROVE h \in HoldersByName'
    <3>1. PICK l \in Members : \E r \in held[l] : h = <<l, name[r]>> BY HoldersAre
    <3> QED BY <1>3, <1>4, <3>1, HoldersAre
  <2>3. <<m, name[i]>> \in HoldersByName' BY <1>3, <1>4, HoldersAre
  <2> QED BY <2>1, <2>2, <2>3
<1>6. name[i] \in NamesOf("role") /\ name[i] \in Names
  BY <1>2, NamesOfIs, IdsAre, NamesType DEF Exists, IInv, Kinds
<1>7. Store!Assign(m, name[i])
  BY <1>3, <1>5, <1>6 DEF Store!Assign, NamesOf, GrantsByName
<1> QED BY <1>6, <1>7

LEMMA RemoveSeen ==
    ASSUME IInv, NEW p \in Requests, RemoveNext(p)
    PROVE  \E m \in Members, n \in Names : Store!Remove(m, n)
<1>1. PICK m \in Members : req[p].member = m BY DEF IInv, Formed, RemoveNext, Remaining
<1>2. PICK i \in held[m] : held' = [held EXCEPT ![m] = @ \ {i}]
  BY <1>1 DEF RemoveNext, Applicable
<1>3. name' = name /\ mapped' = mapped BY DEF RemoveNext
<1>4. \A l \in Members : held'[l] = IF l = m THEN held[l] \ {i} ELSE held[l]
  BY <1>2 DEF IInv, TypeOK
<1>5. \A r \in held[m] : name[r] = name[i] => r = i BY <1>2, Referred
<1>6. HoldersByName' = HoldersByName \ {<<m, name[i]>>}
  <2>1. ASSUME NEW h \in HoldersByName' PROVE h \in HoldersByName \ {<<m, name[i]>>}
    <3>1. PICK l \in Members : \E r \in held'[l] : h = <<l, name[r]>> BY <1>3, HoldersAre
    <3>2. PICK r \in held'[l] : h = <<l, name[r]>> BY <3>1
    <3>3. r \in held[l] /\ (l = m => r # i) BY <1>4, <3>2
    <3>4. h # <<m, name[i]>> BY <1>5, <3>2, <3>3
    <3> QED BY <3>2, <3>3, <3>4, HoldersAre
  <2>2. ASSUME NEW h \in HoldersByName, h # <<m, name[i]>> PROVE h \in HoldersByName'
    <3>1. PICK l \in Members : \E r \in held[l] : h = <<l, name[r]>> BY HoldersAre
    <3>2. PICK r \in held[l] : h = <<l, name[r]>> BY <3>1
    <3>3. r \in held'[l] BY <1>4, <2>2, <3>2
    <3> QED BY <1>3, <3>2, <3>3, HoldersAre
  <2> QED BY <2>1, <2>2
<1>7. name[i] \in Names BY Referred, <1>2, NamesType DEF IInv, Kinds
<1>8. Store!Remove(m, name[i]) BY <1>3, <1>6 DEF Store!Remove, NamesOf, GrantsByName
<1> QED BY <1>7, <1>8

LEMMA StorePermissionSeen ==
    ASSUME IInv, NEW p \in Requests, StorePermission(p)
    PROVE  \E n \in Names : Store!CreatePermission(n)
<1>1. PICK n \in Names : req[p].new = n BY DEF IInv, Formed, StorePermission
<1>2. PICK i \in Fresh("permission") : name' = [name EXCEPT ![i] = n]
  BY <1>1 DEF StorePermission
<1>3. i \in IdsOf("permission") /\ ~Exists(i) /\ i \in Ids BY <1>2, IdsAre DEF Fresh, Kinds
<1>4. n \notin NamesOf("permission") /\ UNCHANGED <<mapped, held>>
  BY <1>1 DEF StorePermission
<1>5. /\ NamesOf("permission")' = (NamesOf("permission") \ {name[i]}) \cup ({n} \ {NoName})
      /\ NamesOf("role")' = NamesOf("role")
      /\ \A j \in Ids \ {i} : name'[j] = name[j]
  BY <1>2, <1>3, NamesWith DEF Kinds
<1>6. NamesOf("permission")' = NamesOf("permission") \cup {n}
  BY <1>3, <1>5, NamesOfIs DEF Exists
<1>7. GrantsByName' = GrantsByName /\ HoldersByName' = HoldersByName
  BY <1>3, <1>4, <1>5, StoreGrows
<1> QED BY <1>4, <1>5, <1>6, <1>7 DEF Store!CreatePermission

LEMMA CommitRoleSeen ==
    ASSUME IInv, NEW p \in Requests, CommitRole(p)
    PROVE  \/ UNCHANGED Store!vars
           \/ \E n \in Names, P \in SUBSET NamesOf("permission") : Store!CreateRole(n, P)
<1>1. CASE ~Committable(p) BY <1>1, StoreStill DEF CommitRole
<1>2. CASE Committable(p)
  <2>1. Formed(req[p]) /\ Uncommitted(req[p]) BY DEF IInv, CommitRole, Uncommitted
  <2>2. PICK i \in Roles, n \in Names, ms \in SUBSET Permissions :
          req[p].id = i /\ req[p].new = n /\ req[p].mapped = ms
    BY <2>1, UncommittedIs
  <2>3. /\ name' = [name EXCEPT ![i] = n] /\ mapped' = [mapped EXCEPT ![i] = ms]
        /\ held' = held
    BY <1>2, <2>2 DEF CommitRole
  <2>4. ~Exists(i) /\ n \notin NamesOf("role") /\ \A x \in ms : Exists(x)
    BY <2>1, <2>2, ReservedFor
  <2>5. /\ NamesOf("role")' = (NamesOf("role") \ {name[i]}) \cup ({n} \ {NoName})
        /\ NamesOf("permission")' = NamesOf("permission")
        /\ name'[i] = n /\ \A j \in Ids \ {i} : name'[j] = name[j]
    <3>1. "role" \in Kinds /\ i \in IdsOf("role") /\ n \in Names \cup {NoName}
      BY IdsAre DEF Kinds
    <3>2. /\ NamesOf("role")' = (NamesOf("role") \ {name[i]}) \cup ({n} \ {NoName})
          /\ \A j \in Kinds \ {"role"} : NamesOf(j)' = NamesOf(j)
          /\ name'[i] = n /\ \A j \in Ids \ {i} : name'[j] = name[j]
      BY <2>3, <3>1, NamesWith
    <3> QED BY <3>2 DEF Kinds
  <2>6. NamesOf("role")' = NamesOf("role") \cup {n} BY <2>4, <2>5, NamesOfIs DEF Exists
  <2>7. /\ mapped'[i] = ms /\ \A r \in Roles \ {i} : mapped'[r] = mapped[r]
        /\ mapped[i] = {} /\ \A x \in Permissions : x # i /\ x \in Ids
        /\ \A m \in Members : i \notin held[m]
    BY <2>3, <2>4, MappedStay, Referred DEF Ids
  <2> DEFINE P == {name[x] : x \in ms}
  <2>8. P \in SUBSET NamesOf("permission")
    BY <2>4, NamesOfIs, IdsAre DEF Exists
  <2>9. GrantsByName' = GrantsByName \cup ({n} \X P)
    <3>1. ASSUME NEW r \in Roles \ {i}, NEW x \in mapped[r]
          PROVE  name'[r] = name[r] /\ name'[x] = name[x]
      BY <2>5, <2>7, Referred DEF Ids
    <3>2. \A x \in ms : name'[x] = name[x] BY <2>5, <2>7
    <3>3. \A g : g \in {n} \X P <=> \E x \in ms : g = <<n, name[x]>> OBVIOUS
    <3>4. \A g : g \in GrantsByName' <=> g \in GrantsByName \cup ({n} \X P)
      BY <2>5, <2>7, <3>1, <3>2, <3>3, GrantsAre
    <3> QED BY <3>4
  <2>10. HoldersByName' = HoldersByName
    <3>1. \A m \in Members : \A r \in held[m] : name'[r] = name[r]
      BY <2>5, <2>7, Referred DEF Ids
    <3>2. \A h : h \in HoldersByName' <=> h \in HoldersByName BY <2>3, <3>1, HoldersAre
    <3> QED BY <3>2
  <2> HIDE DEF P
  <2>11. Store!CreateRole(n, P)
    BY <2>4, <2>5, <2>6, <2>9, <2>10 DEF Store!CreateRole
  <2> QED BY <2>8, <2>11
<1> QED BY <1>1, <1>2

LEMMA RenameSeen ==
    ASSUME IInv, NEW p \in Requests, Rename(p)
    PROVE  \/ UNCHANGED Store!vars
           \/ \E n, new \in Names : Store!RenameRole(n, new) \/ Store!RenamePermission(n, new)
<1>1. Formed(req[p]) /\ req[p].phase = "store" /\ req[p].op = "rename"
  BY DEF IInv, Rename
<1>2. PICK k \in Kinds : req[p].kind = k BY <1>1, RequestType DEF Formed
<1>3. PICK i \in IdsOf(k), new \in Names : req[p].id = i /\ req[p].new = new
  BY <1>1, <1>2 DEF Formed
<1>4. /\ Exists(i) /\ new \notin NamesOf(k) \ {name[i]} /\ UNCHANGED <<mapped, held>>
      /\ name' = [name EXCEPT ![i] = new]
  BY <1>2, <1>3 DEF Rename
<1>5. PICK n \in Names : n = name[i] /\ n \in NamesOf(k) /\ i \in Ids
  <2>1. name[i] \in NamesOf(k) BY <1>4, NamesOfIs DEF Exists
  <2> QED BY <2>1, NamesType, IdsAre DEF IInv
<1>6. /\ NamesOf(k)' = (NamesOf(k) \ {n}) \cup {new}
      /\ \A j \in Kinds \ {k} : NamesOf(j)' = NamesOf(j)
      /\ name'[i] = new /\ \A j \in Ids \ {i} : name'[j] = name[j]
  <2>1. new \in Names \cup {NoName} OBVIOUS
  <2>2. /\ NamesOf(k)' = (NamesOf(k) \ {name[i]}) \cup ({new} \ {NoName})
        /\ \A j \in Kinds \ {k} : NamesOf(j)' = NamesOf(j)
        /\ name'[i] = new /\ \A j \in Ids \ {i} : name'[j] = name[j]
    BY <1>4, <2>1, NamesWith
  <2> QED BY <1>5, <2>2
<1>7. CASE new = n
  <2>1. name' = name BY <1>4, <1>5, <1>7 DEF IInv, TypeOK
  <2> QED BY <1>4, <2>1, StoreStill
<1>8. CASE new # n /\ k = "role"
  <2>1. i \in Roles BY <1>8, IdsAre
  <2>2. \A r \in Roles : Exists(r) => name'[r] = Store!Renamed(n, new, name[r])
    BY <1>5, <1>6, <2>1, Referred DEF Store!Renamed, Ids
  <2>3. \A x \in Permissions : name'[x] = name[x] BY <1>6, <2>1 DEF Ids
  <2>4. GrantsByName' = {<<Store!Renamed(n, new, g[1]), g[2]>> : g \in GrantsByName}
    <3>1. \A r \in Roles : \A x \in mapped[r] :
            /\ name'[r] = Store!Renamed(n, new, name[r]) /\ name'[x] = name[x]
      BY <2>2, <2>3, Referred
    <3>2. ASSUME NEW r \in Roles, NEW x \in mapped[r]
          PROVE  LET f == <<name[r], name[x]>> IN
                 <<name'[r], name'[x]>> = <<Store!Renamed(n, new, f[1]), f[2]>>
      BY <3>1
    <3>3. ASSUME NEW g \in GrantsByName'
          PROVE  \E f \in GrantsByName : g = <<Store!Renamed(n, new, f[1]), f[2]>>
      <4>1. PICK r \in Roles : \E x \in mapped[r] : g = <<name'[r], name'[x]>>
        BY <1>4, GrantsAre
      <4>2. PICK x \in mapped[r] : g = <<name'[r], name'[x]>> BY <4>1
      <4>3. <<name[r], name[x]>> \in GrantsByName BY GrantsAre
      <4> QED BY <3>2, <4>2, <4>3
    <3>4. ASSUME NEW f \in GrantsByName
          PROVE  <<Store!Renamed(n, new, f[1]), f[2]>> \in GrantsByName'
      <4>1. PICK r \in Roles : \E x \in mapped[r] : f = <<name[r], name[x]>> BY GrantsAre
      <4>2. PICK x \in mapped[r] : f = <<name[r], name[x]>> BY <4>1
      <4>3. <<name'[r], name'[x]>> \in GrantsByName' BY <1>4, GrantsAre
      <4> QED BY <3>2, <4>2, <4>3
    <3> QED BY <3>3, <3>4
  <2>5. HoldersByName' = {<<h[1], Store!Renamed(n, new, h[2])>> : h \in HoldersByName}
    <3>1. \A m \in Members : \A r \in held[m] : name'[r] = Store!Renamed(n, new, name[r])
      BY <2>2, Referred
    <3>2. ASSUME NEW h \in HoldersByName'
          PROVE  \E f \in HoldersByName : h = <<f[1], Store!Renamed(n, new, f[2])>>
      <4>1. PICK m \in Members : \E r \in held[m] : h = <<m, name'[r]>> BY <1>4, HoldersAre
      <4>2. PICK r \in held[m] : h = <<m, name'[r]>> BY <4>1
      <4>3. <<m, name[r]>> \in HoldersByName BY HoldersAre
      <4> QED BY <3>1, <4>2, <4>3
    <3>3. ASSUME NEW f \in HoldersByName
          PROVE  <<f[1], Store!Renamed(n, new, f[2])>> \in HoldersByName'
      <4>1. PICK m \in Members : \E r \in held[m] : f = <<m, name[r]>> BY HoldersAre
      <4>2. PICK r \in held[m] : f = <<m, name[r]>> BY <4>1
      <4>3. <<m, name'[r]>> \in HoldersByName' BY <1>4, HoldersAre
      <4> QED BY <3>1, <4>2, <4>3
    <3> QED BY <3>2, <3>3
  <2>6. Store!RenameRole(n, new)
    BY <1>4, <1>5, <1>6, <1>8, <2>4, <2>5 DEF Store!RenameRole, Kinds
  <2> QED BY <2>6
<1>9. CASE new # n /\ k = "permission"
  <2>1. i \in Permissions BY <1>9, IdsAre
  <2>2. \A x \in Permissions : Exists(x) => name'[x] = Store!Renamed(n, new, name[x])
    BY <1>5, <1>6, <2>1, Referred DEF Store!Renamed, Ids
  <2>3. \A r \in Roles : name'[r] = name[r] BY <1>6, <2>1 DEF Ids
  <2>4. GrantsByName' = {<<g[1], Store!Renamed(n, new, g[2])>> : g \in GrantsByName}
    <3>1. \A r \in Roles : \A x \in mapped[r] :
            /\ name'[r] = name[r] /\ name'[x] = Store!Renamed(n, new, name[x])
      BY <2>2, <2>3, Referred
    <3>2. ASSUME NEW g \in GrantsByName'
          PROVE  \E f \in GrantsByName : g = <<f[1], Store!Renamed(n, new, f[2])>>
      <4>1. PICK r \in Roles : \E x \in mapped[r] : g = <<name'[r], name'[x]>>
        BY <1>4, GrantsAre
      <4>2. PICK x \in mapped[r] : g = <<name'[r], name'[x]>> BY <4>1
      <4>3. <<name[r], name[x]>> \in GrantsByName BY GrantsAre
      <4> QED BY <3>1, <4>2, <4>3
    <3>3. ASSUME NEW f \in GrantsByName
          PROVE  <<f[1], Store!Renamed(n, new, f[2])>> \in GrantsByName'
      <4>1. PICK r \in Roles : \E x \in mapped[r] : f = <<name[r], name[x]>> BY GrantsAre
      <4>2. PICK x \in mapped[r] : f = <<name[r], name[x]>> BY <4>1
      <4>3. <<name'[r], name'[x]>> \in GrantsByName' BY <1>4, GrantsAre
      <4> QED BY <3>1, <4>2, <4>3
    <3> QED BY <3>2, <3>3
  <2>5. HoldersByName' = HoldersByName
    <3>1. \A m \in Members : \A r \in held[m] : name'[r] = name[r] BY <2>3, Referred
    <3>2. \A h : h \in HoldersByName' <=> h \in HoldersByName
      BY <1>4, <3>1, HoldersAre
    <3> QED BY <3>2
  <2>6. Store!RenamePermission(n, new)
    BY <1>4, <1>5, <1>6, <1>9, <2>4, <2>5 DEF Store!RenamePermission, Kinds
  <2> QED BY <2>6
<1> QED BY <1>7, <1>8, <1>9 DEF Kinds

LEMMA DeleteSeen ==
    ASSUME IInv, NEW p \in Requests, Delete(p)
    PROVE  \E n \in Names : Store!DeleteRole(n) \/ Store!DeletePermission(n)
<1>1. Formed(req[p]) /\ req[p].phase = "store" /\ req[p].op = "delete"
  BY DEF IInv, Delete
<1>2. PICK k \in Kinds : req[p].kind = k BY <1>1, RequestType DEF Formed
<1>3. PICK i \in IdsOf(k) : req[p].id = i BY <1>1, <1>2 DEF Formed
<1>4. /\ Exists(i) /\ name' = [name EXCEPT ![i] = NoName]
      /\ mapped' = [r \in Roles |-> IF r = i THEN {} ELSE mapped[r] \ {i}]
      /\ held' = [m \in Members |-> held[m] \ {i}]
  BY <1>3 DEF Delete, Cascaded
<1>5. PICK n \in Names : n = name[i] /\ n \in NamesOf(k) /\ i \in Ids
  <2>1. name[i] \in NamesOf(k) BY <1>4, NamesOfIs DEF Exists
  <2> QED BY <2>1, NamesType, IdsAre DEF IInv
<1>6. /\ NamesOf(k)' = NamesOf(k) \ {n}
      /\ \A j \in Kinds \ {k} : NamesOf(j)' = NamesOf(j)
      /\ \A j \in Ids \ {i} : name'[j] = name[j]
  BY <1>4, <1>5, NamesWith
<1>7. /\ \A r \in Roles : mapped'[r] = IF r = i THEN {} ELSE mapped[r] \ {i}
      /\ \A m \in Members : held'[m] = held[m] \ {i}
  BY <1>4
<1>8. CASE k = "role"
  <2>1. i \in Roles BY <1>8, IdsAre
  <2>2. \A r \in Roles : Exists(r) => (name[r] = n <=> r = i)
    BY <1>5, <2>1, Referred
  <2>3. \A x \in Permissions : x # i /\ name'[x] = name[x] BY <1>6, <2>1 DEF Ids
  <2>4. \A r \in Roles \ {i} : name'[r] = name[r] BY <1>6 DEF Ids
  <2>5. GrantsByName' = {g \in GrantsByName : g[1] # n}
    <3>1. ASSUME NEW g \in GrantsByName' PROVE g \in GrantsByName /\ g[1] # n
      <4>1. PICK r \in Roles : \E x \in mapped'[r] : g = <<name'[r], name'[x]>> BY GrantsAre
      <4>2. PICK x \in mapped'[r] : g = <<name'[r], name'[x]>> BY <4>1
      <4>3. r # i /\ x # i /\ x \in mapped[r] BY <1>7, <4>2
      <4>4. name'[r] = name[r] /\ name'[x] = name[x] BY <2>3, <2>4, <4>3, Referred
      <4>5. g[1] # n BY <2>2, <4>2, <4>3, <4>4, Referred
      <4> QED BY <4>2, <4>3, <4>4, <4>5, GrantsAre
    <3>2. ASSUME NEW g \in GrantsByName, g[1] # n PROVE g \in GrantsByName'
      <4>1. PICK r \in Roles : \E x \in mapped[r] : g = <<name[r], name[x]>> BY GrantsAre
      <4>2. PICK x \in mapped[r] : g = <<name[r], name[x]>> BY <4>1
      <4>3. r # i /\ x # i BY <2>2, <2>3, <3>2, <4>2, Referred
      <4>4. x \in mapped'[r] BY <1>7, <4>3
      <4>5. name'[r] = name[r] /\ name'[x] = name[x] BY <2>3, <2>4, <4>3, Referred
      <4> QED BY <4>2, <4>4, <4>5, GrantsAre
    <3> QED BY <3>1, <3>2
  <2>6. HoldersByName' = {h \in HoldersByName : h[2] # n}
    <3>1. \A h : h \in HoldersByName' <=> h \in HoldersByName /\ h[2] # n
      BY <1>7, <2>2, <2>4, HoldersAre, Referred
    <3> QED BY <3>1
  <2>7. Store!DeleteRole(n) BY <1>5, <1>6, <1>8, <2>5, <2>6 DEF Store!DeleteRole, Kinds
  <2> QED BY <2>7
<1>9. CASE k = "permission"
  <2>1. i \in Permissions BY <1>9, IdsAre
  <2>2. \A x \in Permissions : Exists(x) => (name[x] = n <=> x = i)
    BY <1>5, <2>1, Referred
  <2>3. \A r \in Roles : r # i /\ name'[r] = name[r] BY <1>6, <2>1 DEF Ids
  <2>4. \A x \in Permissions \ {i} : name'[x] = name[x] BY <1>6 DEF Ids
  <2>5. GrantsByName' = {g \in GrantsByName : g[2] # n}
    <3>1. ASSUME NEW g \in GrantsByName' PROVE g \in GrantsByName /\ g[2] # n
      <4>1. PICK r \in Roles : \E x \in mapped'[r] : g = <<name'[r], name'[x]>> BY GrantsAre
      <4>2. PICK x \in mapped'[r] : g = <<name'[r], name'[x]>> BY <4>1
      <4>3. r # i /\ x # i /\ x \in mapped[r] BY <1>7, <4>2
      <4>4. name'[r] = name[r] /\ name'[x] = name[x] BY <2>3, <2>4, <4>3, Referred
      <4>5. g[2] # n BY <2>2, <4>2, <4>3, <4>4, Referred
      <4> QED BY <4>2, <4>3, <4>4, <4>5, GrantsAre
    <3>2. ASSUME NEW g \in GrantsByName, g[2] # n PROVE g \in GrantsByName'
      <4>1. PICK r \in Roles : \E x \in mapped[r] : g = <<name[r], name[x]>> BY GrantsAre
      <4>2. PICK x \in mapped[r] : g = <<name[r], name[x]>> BY <4>1
      <4>3. r # i /\ x # i BY <2>2, <2>3, <3>2, <4>2, Referred
      <4>4. x \in mapped'[r] BY <1>7, <4>3
      <4>5. name'[r] = name[r] /\ name'[x] = name[x] BY <2>3, <2>4, <4>3, Referred
      <4> QED BY <4>2, <4>4, <4>5, GrantsAre
    <3> QED BY <3>1, <3>2
  <2>6. HoldersByName' = HoldersByName
    <3>1. \A h : h \in HoldersByName' <=> h \in HoldersByName
      BY <1>7, <2>3, HoldersAre, Referred
    <3> QED BY <3>1
  <2>7. Store!DeletePermission(n)
    BY <1>5, <1>6, <1>9, <2>5, <2>6 DEF Store!DeletePermission, Kinds
  <2> QED BY <2>7
<1> QED BY <1>8, <1>9 DEF Kinds

LEMMA ReconcileSeen ==
    ASSUME IInv, Reconcile
    PROVE  \E R, P \in SUBSET Names : Store!Adopt(R, P)
<1> DEFINE new == {x \in Kinds \X Names : x[2] \in Missing(x[1])}
<1>1. PICK id \in [new -> Ids] :
        /\ \A x \in new : id[x] \in Fresh(x[1])
        /\ IsInjective(id)
        /\ name' = [i \in Ids |-> IF \E x \in new : id[x] = i
                                  THEN (CHOOSE x \in new : id[x] = i)[2] ELSE name[i]]
  BY DEF Reconcile
<1>2. UNCHANGED <<mapped, held>> BY DEF Reconcile, ReconOnly
<1>3. \A x, y \in new : id[x] = id[y] => x = y BY <1>1 DEF IsInjective
<1>4. ASSUME NEW x \in new
      PROVE  id[x] \in IdsOf(x[1]) /\ ~Exists(id[x]) /\ name'[id[x]] = x[2]
  <2>1. id[x] \in Fresh(x[1]) BY <1>1
  <2>2. id[x] \in IdsOf(x[1]) /\ ~Exists(id[x]) /\ id[x] \in Ids
    BY <2>1, IdsAre DEF Fresh
  <2>3. (CHOOSE y \in new : id[y] = id[x]) = x BY <1>3
  <2> QED BY <1>1, <2>2, <2>3
<1>5. \A i \in Ids : (\E x \in new : id[x] = i) \/ name'[i] = name[i] BY <1>1
<1>6. \A i \in Ids : Exists(i) => name'[i] = name[i] BY <1>4, <1>5
<1>7. GrantsByName' = GrantsByName /\ HoldersByName' = HoldersByName
  BY <1>2, <1>6, StoreGrows
<1>8. ASSUME NEW k \in Kinds
      PROVE  /\ Missing(k) \in SUBSET Names /\ Missing(k) \cap NamesOf(k) = {}
             /\ NamesOf(k)' = NamesOf(k) \cup Missing(k)
  <2>1. Missing(k) \in SUBSET Names /\ Missing(k) \cap NamesOf(k) = {}
    BY DEF Missing, IInv, TypeOK, ReconStates
  <2>2. \A n \in Missing(k) : <<k, n>> \in new BY <2>1
  <2>3. \A n : n \in NamesOf(k)' <=> \E i \in IdsOf(k) : name'[i] = n /\ n # NoName
    BY DEF NamesOf, IdsOf
  <2>4. ASSUME NEW n \in Missing(k) PROVE n \in NamesOf(k)'
    <3>1. id[<<k, n>>] \in IdsOf(k) /\ name'[id[<<k, n>>]] = n BY <1>4, <2>2
    <3>2. n # NoName BY <2>1
    <3> QED BY <2>3, <3>1, <3>2
  <2>5. ASSUME NEW n \in NamesOf(k) PROVE n \in NamesOf(k)'
    <3>1. PICK i \in IdsOf(k) : name[i] = n /\ n # NoName BY NamesOfIs
    <3>2. i \in Ids BY IdsAre
    <3>3. name'[i] = n BY <1>6, <3>1, <3>2 DEF Exists
    <3> QED BY <2>3, <3>1, <3>3
  <2>6. ASSUME NEW n \in NamesOf(k)', n \notin Missing(k) PROVE n \in NamesOf(k)
    <3>1. PICK i \in IdsOf(k) : name'[i] = n /\ n # NoName BY <2>3
    <3>2. i \in Ids /\ KindOf(i) = k BY IdsAre
    <3>3. ASSUME NEW x \in new, id[x] = i PROVE FALSE
      <4>1. x[1] \in Kinds /\ x[2] \in Missing(x[1]) OBVIOUS
      <4>2. x[1] = k BY <1>4, <3>2, <3>3, <4>1, IdsAre
      <4>3. x[2] = n BY <1>4, <3>1, <3>3
      <4> QED BY <2>6, <4>1, <4>2, <4>3
    <3>4. name[i] = n BY <1>5, <3>1, <3>2, <3>3
    <3> QED BY <3>1, <3>4, NamesOfIs
  <2> QED BY <2>1, <2>4, <2>5, <2>6
<1>9. Store!Adopt(Missing("role"), Missing("permission"))
  BY <1>7, <1>8 DEF Store!Adopt, Kinds
<1> QED BY <1>8, <1>9 DEF Kinds

LEMMA StoreInit == Init => Store!Init
<1> SUFFICES ASSUME Init PROVE Store!Init OBVIOUS
<1>1. IInv BY InitInv
<1>2. NamesOf("role") \subseteq Names /\ NamesOf("permission") \subseteq Names
  BY <1>1, NamesType DEF IInv, Kinds
<1>3. GrantsByName \subseteq NamesOf("role") \X NamesOf("permission")
  BY <1>1, GrantsAre, Referred
<1>4. HoldersByName \subseteq Members \X NamesOf("role") BY <1>1, HoldersAre, Referred
<1> QED BY <1>2, <1>3, <1>4 DEF Store!Init

LEMMA StoreNext == IInv /\ [Next]_vars => [Store!Next]_(Store!vars)
<1> SUFFICES ASSUME IInv, [Next]_vars PROVE [Store!Next]_(Store!vars) OBVIOUS
<1>1. CASE UNCHANGED vars BY <1>1, StoreStill DEF vars
<1>2. ASSUME NEW p \in Requests,
             \/ Call(p) \/ PushFails(p) \/ Fault(p) \/ Push(p) \/ EndLoop(p)
             \/ StoreRefused(p) \/ InsertRole(p) \/ LookUp(p) \/ Map(p)
      PROVE  UNCHANGED Store!vars
  <2>1. UNCHANGED <<name, mapped, held>>
    <3>1. CASE Call(p)
      <4>1. ASSUME NEW op, NEW m, NEW ns, CallLoop(p, op, m, ns)
            PROVE  UNCHANGED <<name, mapped, held>>
        BY <4>1 DEF CallLoop, Open
      <4>2. ASSUME NEW k, NEW n, NEW ns, CallCreate(p, k, n, ns)
            PROVE  UNCHANGED <<name, mapped, held>>
        BY <4>2 DEF CallCreate, Open
      <4>3. ASSUME NEW op, NEW k, NEW n, NEW new, CallChange(p, op, k, n, new)
            PROVE  UNCHANGED <<name, mapped, held>>
        BY <4>3 DEF CallChange, Open
      <4> QED BY <3>1, <4>1, <4>2, <4>3 DEF Call
    <3>2. CASE PushFails(p) \/ Fault(p) \/ Push(p) BY <3>2 DEF PushFails, Fault, Push
    <3>3. CASE EndLoop(p) \/ StoreRefused(p) BY <3>3 DEF EndLoop, StoreRefused
    <3>4. CASE InsertRole(p) BY <3>4 DEF InsertRole
    <3>5. CASE LookUp(p) BY <3>5 DEF LookUp
    <3>6. CASE Map(p) BY <3>6 DEF Map
    <3> QED BY <1>2, <3>1, <3>2, <3>3, <3>4, <3>5, <3>6
  <2> QED BY <2>1, StoreStill
<1>3. ASSUME NEW p \in Requests,
             \/ AssignNext(p) \/ RemoveNext(p) \/ StorePermission(p) \/ CommitRole(p)
             \/ Rename(p) \/ Delete(p)
      PROVE  [Store!Next]_(Store!vars)
  BY <1>3, AssignSeen, RemoveSeen, StorePermissionSeen, CommitRoleSeen, RenameSeen,
     DeleteSeen DEF Store!Next
<1>4. CASE \E k \in Kinds, n \in Names : Console(k, n)
  BY <1>4, StoreStill DEF Console
<1>5. CASE Fetch \/ Load \/ GiveUp
  BY <1>5, StoreStill DEF Fetch, Load, GiveUp, ReconOnly
<1>6. CASE Reconcile BY <1>6, ReconcileSeen DEF Store!Next
<1> QED BY <1>1, <1>2, <1>3, <1>4, <1>5, <1>6 DEF Next, Work, ReconStep

\* Whoever reads by names sees the RoleStore: every step of the administration
\* is one whole operation on names, or nothing.
THEOREM ImplementsRoleStore == Spec => ByName
<1>1. Init => Store!Init BY StoreInit
<1>2. IInv /\ [Next]_vars => [Store!Next]_(Store!vars) BY StoreNext
<1> QED BY <1>1, <1>2, Invariance, PTL DEF Spec, ByName, Store!Spec
=============================================================================
