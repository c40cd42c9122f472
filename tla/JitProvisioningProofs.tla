------------------------ MODULE JitProvisioningProofs ------------------------
(***************************************************************************)
(* Proofs about JitProvisioning for any number of requests, subjects,      *)
(* emails and users.                                                       *)
(*                                                                         *)
(* The inductive invariant has four parts.  Shape says which rows a        *)
(* transaction holds at which step, Open relates them to the committed     *)
(* rows, Apart keeps the open rows of two requests different where they    *)
(* are unique, and Calm says what a request that no other service          *)
(* disturbed may rely on: what it read is still so, and what made its      *)
(* last attempt fail is there for the next one to find.                    *)
(***************************************************************************)
EXTENDS JitProvisioning, TLAPS

Bound == {"grant", "newGrant", "commit"}        \* the link is inserted
Late == {"link"} \cup Bound                     \* the user is known
RoleKnown == {"user", "newUser"} \cup Late
TenantKnown == {"role", "newRole"} \cup RoleKnown

Shape(x) ==
    /\ x \in RequestStates
    /\ x.pc \in Steps \cup {"ok"} => x.sub \in Subjects
    /\ x.pc \in Steps \ {"lookup"} => x.email \in Emails
    /\ x.pc \in Late \cup {"ok"} => x.user \in Users
    /\ "tenant" \in x.new => x.pc \in TenantKnown
    /\ "role" \in x.new => x.pc \in RoleKnown
    /\ "user" \in x.new => x.pc \in Late
    /\ "link" \in x.new <=> x.pc \in Bound
    /\ "grant" \in x.new => x.pc = "commit"
    /\ "tenant" \in x.new /\ x.pc \in RoleKnown => "role" \in x.new
    /\ "user" \in x.new /\ x.pc = "commit" => "grant" \in x.new

Rows ==
    /\ role => tenant
    /\ \A u \in granted : Exists(u)
    /\ \A s \in Subjects : link[s] # NoUser => Exists(link[s])
    /\ \A s, t \in Subjects : link[s] # NoUser /\ link[s] = link[t] => s = t

Open(r, x) ==
    /\ "tenant" \in x.new => ~tenant
    /\ x.pc \in TenantKnown => tenant \/ "tenant" \in x.new
    /\ x.pc \in RoleKnown => role \/ "role" \in x.new \/ r \in outdated
    /\ "grant" \in x.new => role \/ "role" \in x.new
    /\ "user" \in x.new => ~Exists(x.user)
    /\ x.pc \in Late => "user" \in x.new \/ Exists(x.user)
    /\ "link" \in x.new => link[x.sub] = NoUser /\ ~Linked(x.user)

Apart(x, y) ==
    /\ ~("tenant" \in x.new /\ "tenant" \in y.new)
    /\ ~("user" \in x.new /\ "user" \in y.new /\ x.user = y.user)
    /\ ~("link" \in x.new /\ "link" \in y.new /\ (x.sub = y.sub \/ x.user = y.user))

\* The subject of x is linked, or the user with the email of x is.
Excused(x) ==
    \E s \in Subjects :
        link[s] \in Users /\ (s = x.sub \/ email[link[s]] = x.email)

\* The rows whose race an earlier attempt lost are committed.
Bootstrapped(x) == (tenant /\ role) \/ Excused(x)

Calm(r, x) ==
    r \notin disturbed =>
        /\ x.pc \in {"newRole"} \cup RoleKnown => r \notin outdated
        /\ x.pc = "ok" => link[x.sub] = x.user
        /\ x.pc = "newTenant" /\ tenant => role
        /\ x.pc = "newUser" /\ HasEmail(x.email) => Excused(x)
        /\ x.pc \in Late => "user" \in x.new \/ email[x.user] = x.email
        /\ x.pc = "newGrant" => x.user \notin granted
        /\ x.pc \in Steps /\ x.attempt > 1 => Bootstrapped(x)
        /\ x.pc \in {"newTenant", "newRole"} /\ x.attempt > 1 => Excused(x)
        /\ x.pc = "recheck" => IF x.attempt > 1 THEN Excused(x) ELSE Bootstrapped(x)
        /\ x.pc = "conflict" =>
              \E s \in Subjects \ {x.sub} :
                  link[s] \in Users /\ email[link[s]] = x.email

IInv ==
    /\ TypeOK
    /\ Rows
    /\ \A r \in Requests :
          Shape(req[r]) /\ Open(r, req[r]) /\ Calm(r, req[r])
    /\ \A r, q \in Requests : r # q => Apart(req[r], req[q])

-----------------------------------------------------------------------------
(* A step of one request that leaves the committed rows alone.             *)

USE ConstantsAssumption DEF Kinds, Answered, Steps, Bound, Late, RoleKnown, TenantKnown

LEMMA ReqFields ==
    ASSUME NEW pc, NEW s, NEW e, NEW n, NEW u, NEW K
    PROVE  LET x == Req(pc, s, e, n, u, K) IN
           /\ x.pc = pc /\ x.sub = s /\ x.email = e
           /\ x.attempt = n /\ x.user = u /\ x.new = K
  BY DEF Req

LEMMA ReqType ==
    ASSUME NEW pc \in Answered \cup Steps, NEW s \in Subjects \cup {NoSubject},
           NEW e \in Emails \cup {NoEmail}, NEW n \in 1 .. MaxAttempts,
           NEW u \in Users \cup {NoUser}, NEW K \in SUBSET Kinds
    PROVE  Req(pc, s, e, n, u, K) \in RequestStates
  BY DEF Req, RequestStates

LEMMA RequestType ==
    ASSUME NEW x \in RequestStates
    PROVE  /\ x.pc \in Answered \cup Steps /\ x.sub \in Subjects \cup {NoSubject}
           /\ x.email \in Emails \cup {NoEmail} /\ x.attempt \in 1 .. MaxAttempts
           /\ x.user \in Users \cup {NoUser} /\ x.new \in SUBSET Kinds
  BY DEF RequestStates

LEMMA ApartSymmetric == ASSUME NEW x, NEW y, Apart(x, y) PROVE Apart(y, x)
  BY DEF Apart

LEMMA Turn ==
    ASSUME IInv, NEW r \in Requests, NEW x, Become(r, x), RequestOnly,
           Shape(x), Open(r, x), Calm(r, x),
           \A q \in Requests \ {r} : Apart(x, req[q])
    PROVE  IInv'
<1>1. req' \in [Requests -> RequestStates]
  BY DEF IInv, TypeOK, Become, Shape
<1>2. req'[r] = x /\ \A q \in Requests \ {r} : req'[q] = req[q]
  BY DEF IInv, TypeOK, Become
<1>3. UNCHANGED <<tenant, role, email, link, granted, outdated, admin, disturbed>>
  BY DEF RequestOnly, rows
<1>4. TypeOK'
  BY <1>1, <1>3 DEF IInv, TypeOK
<1>5. Rows'
  BY <1>3 DEF IInv, Rows, Exists
<1>6. ASSUME NEW q \in Requests
      PROVE  (Shape(req[q]) /\ Open(q, req[q]) /\ Calm(q, req[q]))'
  <2>1. Shape(req[q])' BY <1>2 DEF IInv, Shape
  <2>2. Open(q, req[q])' BY <1>2, <1>3 DEF IInv, Open, Exists, Linked
  <2>3. Calm(q, req[q])'
    BY <1>2, <1>3 DEF IInv, Calm, Bootstrapped, Excused, HasEmail
  <2>4. QED BY <2>1, <2>2, <2>3
<1>7. ASSUME NEW p \in Requests, NEW q \in Requests, p # q
      PROVE  Apart(req[p], req[q])'
  BY <1>2, <1>7, ApartSymmetric DEF IInv
<1>8. QED BY <1>4, <1>5, <1>6, <1>7 DEF IInv

\* A request without open rows is apart from every other.
LEMMA NothingOpen ==
    ASSUME NEW x, x.new = {}
    PROVE  \A y : Apart(x, y)
  BY DEF Apart

LEMMA LookupStep == ASSUME IInv, NEW r \in Requests, Lookup(r) PROVE IInv'
<1> DEFINE u == link[req[r].sub]
<1>1. /\ Shape(req[r]) /\ Open(r, req[r]) /\ Calm(r, req[r])
      /\ req[r] \in RequestStates /\ req[r].pc = "lookup" /\ req[r].sub \in Subjects
      /\ u \in Users \cup {NoUser}
  BY DEF IInv, Shape, Lookup, TypeOK
<1>2. RequestOnly BY DEF Lookup
<1>3. CASE u # NoUser
  <2> DEFINE x == Req("ok", req[r].sub, NoEmail, 1, u, {})
  <2>1. Become(r, x) BY <1>3 DEF Lookup, Answer
  <2>2. Shape(x) /\ Open(r, x) /\ Calm(r, x) /\ x.new = {}
    BY <1>1, <1>3, ReqFields, ReqType DEF Shape, Open, Calm
  <2> QED BY <1>2, <2>1, <2>2, Turn, NothingOpen
<1>4. CASE u = NoUser /\ req[r].email = NoEmail
  <2> DEFINE x == Req("invalid", req[r].sub, req[r].email, 1, NoUser, {})
  <2>1. Become(r, x) BY <1>4 DEF Lookup, Reject
  <2>2. Shape(x) /\ Open(r, x) /\ Calm(r, x) /\ x.new = {}
    BY <1>1, <1>4, ReqFields, ReqType, RequestType DEF Shape, Open, Calm
  <2> QED BY <1>2, <2>1, <2>2, Turn, NothingOpen
<1>5. CASE u = NoUser /\ req[r].email # NoEmail
  <2> DEFINE x == Req("tenant", req[r].sub, req[r].email, req[r].attempt, NoUser, {})
  <2>1. Become(r, x) BY <1>5 DEF Lookup, Goto
  <2>2. Shape(x) /\ Open(r, x) /\ x.new = {}
    BY <1>1, <1>5, ReqFields, ReqType, RequestType DEF Shape, Open
  <2>3. Calm(r, x)
    BY <1>1, ReqFields DEF Calm, Bootstrapped, Excused
  <2> QED BY <1>2, <2>1, <2>2, <2>3, Turn, NothingOpen
<1> QED BY <1>3, <1>4, <1>5

\* A request that keeps its rows and goes on for the same user.
LEMMA KeepsRows ==
    ASSUME IInv, NEW r \in Requests, NEW pc, NEW u,
           "link" \in req[r].new \/ "user" \in req[r].new => u = req[r].user,
           NEW q \in Requests \ {r}
    PROVE  Apart(Req(pc, req[r].sub, req[r].email, req[r].attempt, u, req[r].new), req[q])
  BY ReqFields DEF IInv, Apart

LEMMA SelectTenantStep == ASSUME IInv, NEW r \in Requests, SelectTenant(r) PROVE IInv'
<1> DEFINE x == Req(IF tenant THEN "role" ELSE "newTenant", req[r].sub, req[r].email,
                    req[r].attempt, NoUser, req[r].new)
<1>1. /\ Shape(req[r]) /\ Open(r, req[r]) /\ Calm(r, req[r])
      /\ req[r] \in RequestStates /\ req[r].pc = "tenant"
  BY DEF IInv, Shape, SelectTenant, Select
<1>2. Become(r, x) /\ RequestOnly
  BY DEF SelectTenant, Select, Goto, RequestOnly
<1>3. req[r].new = {}
  BY <1>1, RequestType DEF Shape
<1>4. Shape(x) /\ Open(r, x)
  BY <1>1, <1>3, ReqFields, ReqType, RequestType DEF Shape, Open
<1>5. Calm(r, x)
  BY <1>1, ReqFields DEF Calm, Bootstrapped, Excused
<1> QED BY <1>2, <1>3, <1>4, <1>5, ReqFields, Turn, NothingOpen

\* What is known of a request in the middle of its transaction.
LEMMA Known ==
    ASSUME IInv, NEW r \in Requests
    PROVE  /\ Shape(req[r]) /\ Open(r, req[r]) /\ Calm(r, req[r])
           /\ req[r] \in RequestStates
           /\ req[r].sub \in Subjects \cup {NoSubject}
           /\ req[r].email \in Emails \cup {NoEmail} /\ req[r].attempt \in 1 .. MaxAttempts
           /\ req[r].user \in Users \cup {NoUser} /\ req[r].new \in SUBSET Kinds
  BY RequestType DEF IInv, Shape

\* A rolled back attempt whose reason the next one will find.
LEMMA RollBack ==
    ASSUME IInv, NEW r \in Requests, RequestOnly,
           req[r].pc \in {"newTenant", "newRole", "newUser", "link", "newGrant"},
           Goto(r, "recheck", NoUser, {}),
           r \notin disturbed =>
              IF req[r].attempt > 1 THEN Excused(req[r]) ELSE Bootstrapped(req[r])
    PROVE  IInv'
<1> DEFINE x == Req("recheck", req[r].sub, req[r].email, req[r].attempt, NoUser, {})
<1>1. Become(r, x) BY DEF Goto
<1>2. Shape(x) /\ Open(r, x)
  BY Known, ReqFields, ReqType DEF Shape, Open
<1>3. Calm(r, x)
  BY Known, ReqFields DEF Calm, Bootstrapped, Excused
<1> QED BY <1>1, <1>2, <1>3, ReqFields, Turn, NothingOpen

LEMMA InsertTenantStep == ASSUME IInv, NEW r \in Requests, InsertTenant(r) PROVE IInv'
<1> DEFINE x == Req("role", req[r].sub, req[r].email, req[r].attempt, NoUser,
                    req[r].new \cup {"tenant"})
<1>1. req[r].pc = "newTenant" /\ RequestOnly BY DEF InsertTenant, Insert
<1>2. CASE Violates(r, "tenant")
  <2>1. Goto(r, "recheck", NoUser, {}) /\ tenant
    BY <1>2 DEF InsertTenant, Insert, Violates
  <2>2. r \notin disturbed =>
           IF req[r].attempt > 1 THEN Excused(req[r]) ELSE Bootstrapped(req[r])
    BY <1>1, <2>1, Known DEF Calm, Bootstrapped
  <2> QED BY <1>1, <2>1, <2>2, RollBack
<1>3. CASE ~Violates(r, "tenant")
  <2>1. Become(r, x) /\ ~tenant
    BY <1>3 DEF InsertTenant, Insert, Goto, Violates
  <2>2. req[r].new = {}
    BY <1>1, Known DEF Shape
  <2>3. Shape(x) /\ Open(r, x)
    BY <1>1, <2>1, <2>2, Known, ReqFields, ReqType DEF Shape, Open
  <2>4. Calm(r, x)
    BY <1>1, Known, ReqFields DEF Calm, Bootstrapped, Excused
  <2>5. ~Waits(r, "tenant") BY DEF InsertTenant, Insert
  <2>6. \A q \in Requests \ {r} : Apart(x, req[q])
    BY <2>2, <2>5, ReqFields DEF Apart, Waits, Holds, SameKey
  <2> QED BY <1>1, <2>1, <2>3, <2>4, <2>6, Turn
<1> QED BY <1>2, <1>3

LEMMA InsertRoleStep == ASSUME IInv, NEW r \in Requests, InsertRole(r) PROVE IInv'
<1> DEFINE x == Req("user", req[r].sub, req[r].email, req[r].attempt, NoUser,
                    req[r].new \cup {"role"})
<1>1. req[r].pc = "newRole" /\ RequestOnly BY DEF InsertRole, Insert
<1>2. CASE Violates(r, "role")
  <2>1. Goto(r, "recheck", NoUser, {}) /\ role
    BY <1>2 DEF InsertRole, Insert, Violates
  <2>2. r \notin disturbed =>
           IF req[r].attempt > 1 THEN Excused(req[r]) ELSE Bootstrapped(req[r])
    BY <1>1, <2>1, Known DEF IInv, Rows, Calm, Bootstrapped
  <2> QED BY <1>1, <2>1, <2>2, RollBack
<1>3. CASE ~Violates(r, "role")
  <2>1. Become(r, x)
    BY <1>3 DEF InsertRole, Insert, Goto
  <2>2. req[r].new \in SUBSET {"tenant"}
    BY <1>1, Known DEF Shape
  <2>3. Shape(x) /\ Open(r, x)
    BY <1>1, <2>1, <2>2, Known, ReqFields, ReqType DEF Shape, Open
  <2>4. Calm(r, x)
    BY <1>1, Known, ReqFields DEF Calm, Bootstrapped, Excused
  <2>5. \A q \in Requests \ {r} : Apart(x, req[q])
    BY <2>2, ReqFields DEF IInv, Apart
  <2> QED BY <1>1, <2>1, <2>3, <2>4, <2>5, Turn
<1> QED BY <1>2, <1>3

LEMMA SelectUserStep == ASSUME IInv, NEW r \in Requests, SelectUser(r) PROVE IInv'
<1>1. req[r].pc = "user" /\ RequestOnly BY DEF SelectUser, Select, RequestOnly
<1>2. "user" \notin req[r].new /\ "link" \notin req[r].new /\ "grant" \notin req[r].new
  BY <1>1, Known DEF Shape
<1>3. PICK u \in Users \cup {NoUser} :
         /\ IF u \in Users THEN email[u] = req[r].email ELSE ~HasEmail(req[r].email)
         /\ Select(r, "user", u \in Users, u, "link", "newUser")
  BY DEF SelectUser
<1> DEFINE x == Req(IF u \in Users THEN "link" ELSE "newUser", req[r].sub, req[r].email,
                    req[r].attempt, u, req[r].new)
<1>4. Become(r, x) BY <1>3 DEF Select, Goto
<1>5. Shape(x)
  BY <1>1, <1>2, Known, ReqFields, ReqType DEF Shape
<1>6. Open(r, x)
  BY <1>1, <1>2, <1>3, Known, ReqFields DEF Open, Shape, Exists
<1>7. Calm(r, x)
  BY <1>1, <1>3, Known, ReqFields DEF Calm, Bootstrapped, Excused
<1>8. \A q \in Requests \ {r} : Apart(x, req[q])
  BY <1>2, KeepsRows
<1> QED BY <1>1, <1>4, <1>5, <1>6, <1>7, <1>8, Turn

LEMMA InsertUserStep == ASSUME IInv, NEW r \in Requests, InsertUser(r) PROVE IInv'
<1>1. PICK u \in Users : (Fresh(u) \/ Violates(r, "user")) /\ Insert(r, "user", u, "link")
  BY DEF InsertUser
<1>2. req[r].pc = "newUser" /\ RequestOnly BY <1>1 DEF InsertUser, Insert
<1>3. CASE Violates(r, "user")
  <2>1. Goto(r, "recheck", NoUser, {}) /\ HasEmail(req[r].email)
    BY <1>1, <1>3 DEF Insert, Violates
  <2>2. r \notin disturbed =>
           IF req[r].attempt > 1 THEN Excused(req[r]) ELSE Bootstrapped(req[r])
    BY <1>2, <2>1, Known DEF Calm, Bootstrapped
  <2> QED BY <1>2, <2>1, <2>2, RollBack
<1>4. CASE ~Violates(r, "user")
  <2> DEFINE x == Req("link", req[r].sub, req[r].email, req[r].attempt, u,
                      req[r].new \cup {"user"})
  <2>1. Become(r, x) /\ Fresh(u)
    BY <1>1, <1>4 DEF Insert, Goto
  <2>2. "user" \notin req[r].new /\ "link" \notin req[r].new /\ "grant" \notin req[r].new
    BY <1>2, Known DEF Shape
  <2>3. Shape(x)
    BY <1>2, <2>2, Known, ReqFields, ReqType DEF Shape
  <2>4. Open(r, x)
    BY <1>2, <2>1, <2>2, Known, ReqFields DEF Open, Fresh
  <2>5. Calm(r, x)
    BY <1>2, Known, ReqFields DEF Calm, Bootstrapped, Excused
  <2>6. \A q \in Requests \ {r} : Apart(x, req[q])
    BY <2>1, <2>2, ReqFields DEF IInv, Apart, Fresh, Holds
  <2> QED BY <1>2, <2>1, <2>3, <2>4, <2>5, <2>6, Turn
<1> QED BY <1>3, <1>4

LEMMA InsertLinkStep == ASSUME IInv, NEW r \in Requests, InsertLink(r) PROVE IInv'
<1>1. req[r].pc = "link" /\ RequestOnly BY DEF InsertLink, Insert
<1>2. req[r].user \in Users /\ req[r].sub \in Subjects /\ req[r].email \in Emails
  BY <1>1, Known DEF Shape
<1>3. CASE Violates(r, "link")
  <2>1. Goto(r, "recheck", NoUser, {})
    BY <1>3 DEF InsertLink, Insert
  <2>2. CASE link[req[r].sub] # NoUser
    <3>1. link[req[r].sub] \in Users BY <1>2, <2>2 DEF IInv, TypeOK
    <3>2. Excused(req[r]) BY <1>2, <3>1 DEF Excused
    <3> QED BY <1>1, <2>1, <3>2, RollBack DEF Bootstrapped
  <2>3. CASE Linked(req[r].user)
    <3>1. PICK s \in Subjects : link[s] = req[r].user BY <2>3 DEF Linked
    <3>2. Exists(req[r].user) BY <1>2, <3>1 DEF IInv, Rows
    <3>3. r \notin disturbed => Excused(req[r])
      BY <1>1, <1>2, <3>1, <3>2, Known DEF Open, Calm, Excused
    <3> QED BY <1>1, <2>1, <3>3, RollBack DEF Bootstrapped
  <2> QED BY <1>3, <2>2, <2>3 DEF Violates
<1>4. CASE ~Violates(r, "link")
  <2> DEFINE x == Req("grant", req[r].sub, req[r].email, req[r].attempt, req[r].user,
                      req[r].new \cup {"link"})
  <2>1. Become(r, x) /\ ~Waits(r, "link")
    BY <1>4 DEF InsertLink, Insert, Goto
  <2>2. link[req[r].sub] = NoUser /\ ~Linked(req[r].user)
    BY <1>4 DEF Violates
  <2>3. Shape(x)
    BY <1>1, <1>2, Known, ReqFields, ReqType DEF Shape
  <2>4. Open(r, x)
    BY <1>1, <2>2, Known, ReqFields DEF Open
  <2>5. Calm(r, x)
    BY <1>1, Known, ReqFields DEF Calm, Bootstrapped, Excused
  <2>6. ASSUME NEW q \in Requests \ {r} PROVE Apart(x, req[q])
    BY <2>1, <2>6, ReqFields DEF IInv, Apart, Waits, Holds, SameKey
  <2> QED BY <1>1, <2>1, <2>3, <2>4, <2>5, <2>6, Turn
<1> QED BY <1>3, <1>4

LEMMA SelectGrantStep == ASSUME IInv, NEW r \in Requests, SelectGrant(r) PROVE IInv'
<1> DEFINE found == req[r].user \in granted /\ r \notin outdated
           x == Req(IF found THEN "commit" ELSE "newGrant", req[r].sub, req[r].email,
                    req[r].attempt, req[r].user, req[r].new)
<1>1. req[r].pc = "grant" /\ RequestOnly /\ Become(r, x)
  BY DEF SelectGrant, Select, RequestOnly, Goto
<1>2. found => Exists(req[r].user) /\ "user" \notin req[r].new
  BY Known DEF IInv, Rows, Open
<1>3. Shape(x)
  BY <1>1, <1>2, Known, ReqFields, ReqType DEF Shape
<1>4. Open(r, x)
  BY <1>1, Known, ReqFields DEF Open
<1>5. Calm(r, x)
  BY <1>1, Known, ReqFields DEF Calm, Bootstrapped, Excused
<1>6. \A q \in Requests \ {r} : Apart(x, req[q])
  BY KeepsRows
<1> QED BY <1>1, <1>3, <1>4, <1>5, <1>6, Turn

LEMMA InsertGrantStep == ASSUME IInv, NEW r \in Requests, InsertGrant(r) PROVE IInv'
<1>1. req[r].pc = "newGrant" /\ RequestOnly BY DEF InsertGrant, Insert
<1>2. CASE Violates(r, "grant")
  <2>1. Goto(r, "recheck", NoUser, {}) /\ r \in disturbed
    BY <1>1, <1>2, Known DEF InsertGrant, Insert, Violates, Calm
  <2> QED BY <1>1, <2>1, RollBack
<1>3. CASE ~Violates(r, "grant")
  <2> DEFINE x == Req("commit", req[r].sub, req[r].email, req[r].attempt, req[r].user,
                      req[r].new \cup {"grant"})
  <2>1. Become(r, x) /\ r \notin outdated
    BY <1>3 DEF InsertGrant, Insert, Goto, Violates
  <2>2. Shape(x)
    BY <1>1, Known, ReqFields, ReqType DEF Shape
  <2>3. Open(r, x)
    BY <1>1, <2>1, Known, ReqFields DEF Open
  <2>4. Calm(r, x)
    BY <1>1, Known, ReqFields DEF Calm, Bootstrapped, Excused
  <2>5. ASSUME NEW q \in Requests \ {r} PROVE Apart(x, req[q])
    BY <2>5, ReqFields DEF IInv, Apart
  <2> QED BY <1>1, <2>1, <2>2, <2>3, <2>4, <2>5, Turn
<1> QED BY <1>2, <1>3

LEMMA RecheckStep == ASSUME IInv, NEW r \in Requests, Recheck(r) PROVE IInv'
<1> DEFINE u == link[req[r].sub]
<1>1. req[r].pc = "recheck" /\ RequestOnly BY DEF Recheck
<1>2. req[r].sub \in Subjects /\ req[r].email \in Emails /\ u \in Users \cup {NoUser}
  BY <1>1, Known DEF Shape, IInv, TypeOK
<1>3. CASE u # NoUser
  <2> DEFINE x == Req("ok", req[r].sub, NoEmail, 1, u, {})
  <2>1. Become(r, x) BY <1>3 DEF Recheck, Answer
  <2>2. Shape(x) /\ Open(r, x) /\ Calm(r, x)
    BY <1>2, <1>3, ReqFields, ReqType DEF Shape, Open, Calm
  <2> QED BY <1>1, <2>1, <2>2, ReqFields, Turn, NothingOpen
<1>4. CASE u = NoUser /\ req[r].attempt < MaxAttempts
  <2> DEFINE x == Req("tenant", req[r].sub, req[r].email, req[r].attempt + 1, NoUser, {})
  <2>0. req[r].new = {} BY <1>1, Known, RequestType DEF Shape
  <2>1. Become(r, x) BY <1>4, <2>0 DEF Recheck
  <2>2. req[r].attempt + 1 \in 1 .. MaxAttempts BY <1>4, Known
  <2>3. Shape(x) /\ Open(r, x)
    BY <1>2, <2>2, ReqFields, ReqType DEF Shape, Open
  <2>4. r \notin disturbed => Bootstrapped(req[r])
    BY <1>1, Known DEF Calm, Bootstrapped
  <2>5. Calm(r, x)
    BY <2>4, ReqFields DEF Calm, Bootstrapped, Excused
  <2> QED BY <1>1, <2>1, <2>3, <2>5, ReqFields, Turn, NothingOpen
<1>5. CASE u = NoUser /\ ~(req[r].attempt < MaxAttempts)
  <2> DEFINE x == Req("conflict", req[r].sub, req[r].email, 1, NoUser, {})
  <2>1. Become(r, x) BY <1>5 DEF Recheck, Reject
  <2>2. Shape(x) /\ Open(r, x)
    BY Known, ReqFields, ReqType DEF Shape, Open
  <2>3. req[r].attempt > 1 BY <1>5, Known
  <2>4. r \notin disturbed => Excused(req[r])
    BY <1>1, <2>3, Known DEF Calm
  <2>5. Calm(r, x)
    BY <1>5, <2>4, ReqFields DEF Calm, Excused
  <2> QED BY <1>1, <2>1, <2>2, <2>5, ReqFields, Turn, NothingOpen
<1> QED BY <1>3, <1>4, <1>5

LEMMA CrashStep == ASSUME IInv, NEW r \in Requests, Crash(r) PROVE IInv'
<1>1. Become(r, Idle) /\ RequestOnly BY DEF Crash
<1>2. Shape(Idle) /\ Open(r, Idle) /\ Calm(r, Idle) /\ Idle.new = {}
  BY ReqFields, ReqType DEF Idle, Shape, Open, Calm
<1> QED BY <1>1, <1>2, Turn, NothingOpen

LEMMA SelectRoleStep == ASSUME IInv, NEW r \in Requests, SelectRole(r) PROVE IInv'
<1> DEFINE x == Req(IF role THEN "user" ELSE "newRole", req[r].sub, req[r].email,
                    req[r].attempt, NoUser, req[r].new)
<1>1. /\ req[r].pc = "role" /\ Become(r, x) /\ outdated' = outdated \ {r}
      /\ UNCHANGED <<tenant, role, email, link, granted, admin, disturbed>>
  BY DEF SelectRole, Select, Goto, rows
<1>2. req[r].new \in SUBSET {"tenant"}
  BY <1>1, Known DEF Shape
<1>3. "tenant" \in req[r].new => ~role
  BY Known DEF IInv, Rows, Open
<1>4. Shape(x)
  BY <1>1, <1>2, <1>3, Known, ReqFields, ReqType DEF Shape
<1>5. req' \in [Requests -> RequestStates] /\ req'[r] = x
      /\ \A q \in Requests \ {r} : req'[q] = req[q]
  BY <1>1, <1>4 DEF IInv, TypeOK, Become, Shape
<1>6. TypeOK' BY <1>1, <1>5 DEF IInv, TypeOK
<1>7. Rows' BY <1>1 DEF IInv, Rows, Exists
<1>8. ASSUME NEW q \in Requests
      PROVE  (Shape(req[q]) /\ Open(q, req[q]) /\ Calm(q, req[q]))'
  <2>1. CASE q = r
    <3>1. Shape(req[q])' BY <1>4, <1>5, <2>1 DEF Shape
    <3>2. Open(q, req[q])'
      BY <1>1, <1>2, <1>5, <2>1, Known, ReqFields DEF Open, Exists, Linked
    <3>3. Calm(q, req[q])'
      BY <1>1, <1>5, <2>1, Known, ReqFields DEF Calm, Bootstrapped, Excused, HasEmail
    <3> QED BY <3>1, <3>2, <3>3
  <2>2. CASE q # r
    <3>1. Shape(req[q])' BY <1>5, <2>2 DEF IInv, Shape
    <3>2. Open(q, req[q])' BY <1>1, <1>5, <2>2 DEF IInv, Open, Exists, Linked
    <3>3. Calm(q, req[q])'
      BY <1>1, <1>5, <2>2 DEF IInv, Calm, Bootstrapped, Excused, HasEmail
    <3> QED BY <3>1, <3>2, <3>3
  <2> QED BY <2>1, <2>2
<1>9. \A q \in Requests \ {r} : Apart(x, req[q]) BY <1>2, ReqFields DEF IInv, Apart
<1>10. ASSUME NEW p \in Requests, NEW q \in Requests, p # q PROVE Apart(req[p], req[q])'
  BY <1>5, <1>9, <1>10, ApartSymmetric DEF IInv
<1> QED BY <1>6, <1>7, <1>8, <1>10 DEF IInv

LEMMA LoginStep ==
    ASSUME IInv, NEW r \in Requests, NEW s \in Subjects, NEW e \in Emails \cup {NoEmail},
           Login(r, s, e)
    PROVE  IInv'
<1> DEFINE x == Req("lookup", s, e, 1, NoUser, {})
<1>1. /\ Become(r, x) /\ disturbed' = disturbed \ {r}
      /\ UNCHANGED <<tenant, role, email, link, granted, outdated, admin>>
  BY DEF Login, rows
<1>2. Shape(x) BY ReqFields, ReqType DEF Shape
<1>3. req' \in [Requests -> RequestStates] /\ req'[r] = x
      /\ \A q \in Requests \ {r} : req'[q] = req[q]
  BY <1>1, <1>2 DEF IInv, TypeOK, Become, Shape
<1>4. TypeOK' BY <1>1, <1>3 DEF IInv, TypeOK
<1>5. Rows' BY <1>1 DEF IInv, Rows, Exists
<1>6. ASSUME NEW q \in Requests
      PROVE  (Shape(req[q]) /\ Open(q, req[q]) /\ Calm(q, req[q]))'
  <2>1. CASE q = r
    BY <1>2, <1>3, <2>1, ReqFields DEF Shape, Open, Calm
  <2>2. CASE q # r
    <3>1. Shape(req[q])' BY <1>3, <2>2 DEF IInv, Shape
    <3>2. Open(q, req[q])' BY <1>1, <1>3, <2>2 DEF IInv, Open, Exists, Linked
    <3>3. Calm(q, req[q])'
      BY <1>1, <1>3, <2>2 DEF IInv, Calm, Bootstrapped, Excused, HasEmail
    <3> QED BY <3>1, <3>2, <3>3
  <2> QED BY <2>1, <2>2
<1>7. \A q \in Requests \ {r} : Apart(x, req[q]) BY ReqFields, NothingOpen
<1>8. ASSUME NEW p \in Requests, NEW q \in Requests, p # q PROVE Apart(req[p], req[q])'
  BY <1>3, <1>7, <1>8, ApartSymmetric DEF IInv
<1> QED BY <1>4, <1>5, <1>6, <1>8 DEF IInv

-----------------------------------------------------------------------------
(* A commit adds the open rows of its request to the committed ones.       *)

LEMMA CommitStep == ASSUME IInv, NEW r \in Requests, Commit(r) PROVE IInv'
<1> DEFINE s == req[r].sub
           u == req[r].user
           x == Req("ok", s, NoEmail, 1, u, {})
<1>1. /\ req[r].pc = "commit" /\ Become(r, x)
      /\ UNCHANGED <<outdated, admin, disturbed>>
  BY DEF Commit, Answer
<1>2. /\ s \in Subjects /\ u \in Users /\ req[r].email \in Emails
      /\ "link" \in req[r].new
      /\ link[s] = NoUser /\ ~Linked(u)
      /\ "tenant" \in req[r].new => "role" \in req[r].new
      /\ "user" \in req[r].new => ~Exists(u)
      /\ "user" \in req[r].new \/ Exists(u)
  BY <1>1, Known DEF Shape, Open
<1>3. /\ tenant' = (tenant \/ "tenant" \in req[r].new)
      /\ role' = (role \/ "role" \in req[r].new)
      /\ link' = [link EXCEPT ![s] = u]
      /\ granted' = IF "grant" \in req[r].new THEN granted \cup {u} ELSE granted
      /\ email' = IF "user" \in req[r].new THEN [email EXCEPT ![u] = req[r].email] ELSE email
  BY DEF Commit, Holds
<1>4. Shape(x) BY <1>2, ReqFields, ReqType DEF Shape
<1>5. req' \in [Requests -> RequestStates] /\ req'[r] = x
      /\ \A q \in Requests \ {r} : req'[q] = req[q]
  BY <1>1, <1>4 DEF IInv, TypeOK, Become, Shape
<1>6. TypeOK'
  BY <1>1, <1>2, <1>3, <1>5 DEF IInv, TypeOK
<1>7. /\ email' \in [Users -> Emails \cup {NoEmail}]
      /\ link' \in [Subjects -> Users \cup {NoUser}]
      /\ link'[s] = u /\ \A t \in Subjects \ {s} : link'[t] = link[t]
      /\ \A v \in Users : Exists(v) => email'[v] = email[v]
      /\ \A v \in Users : email'[v] # NoEmail => Exists(v) \/ v = u
      /\ email'[u] # NoEmail
      /\ "user" \in req[r].new => email'[u] = req[r].email
      /\ \A v \in Users \ {u} : email'[v] = email[v]
  BY <1>2, <1>3, <1>6 DEF IInv, TypeOK, Exists
<1>8. Rows'
  <2>1. role' => tenant'
    BY <1>1, <1>3, Known DEF IInv, Rows, Open
  <2>2. \A v \in granted' : email'[v] # NoEmail
    BY <1>2, <1>3, <1>7 DEF IInv, Rows, TypeOK, Exists
  <2>3. \A t \in Subjects : link'[t] # NoUser => email'[link'[t]] # NoEmail
    BY <1>2, <1>7 DEF IInv, Rows, TypeOK, Exists
  <2>4. \A t, w \in Subjects : link'[t] # NoUser /\ link'[t] = link'[w] => t = w
    BY <1>2, <1>7 DEF IInv, Rows, Linked
  <2> QED BY <2>1, <2>2, <2>3, <2>4 DEF Rows, Exists
<1>9. ASSUME NEW q \in Requests \ {r}
      PROVE  /\ Apart(req[r], req[q]) /\ Shape(req[q]) /\ req'[q] = req[q]
             /\ Open(q, req[q]) /\ Calm(q, req[q])
  BY <1>5 DEF IInv
<1>10. ASSUME NEW q \in Requests \ {r} PROVE Open(q, req[q])'
  <2> DEFINE y == req[q]
  <2>1. "tenant" \in y.new => ~tenant'
    BY <1>3, <1>9 DEF Apart, Open
  <2>2. y.pc \in Late => y.user \in Users
    BY <1>9 DEF Shape
  <2>3. "user" \in y.new => y.user \in Users /\ email'[y.user] = NoEmail
    <3>1. SUFFICES ASSUME "user" \in y.new PROVE y.user \in Users /\ email'[y.user] = NoEmail
      OBVIOUS
    <3>2. y.user \in Users /\ ~Exists(y.user) BY <3>1, <1>9 DEF Shape, Open
    <3>3. y.user # u BY <3>1, <3>2, <1>2, <1>9 DEF Apart
    <3> QED BY <3>2, <3>3, <1>7
  <2>4. y.pc \in Late => "user" \in y.new \/ email'[y.user] # NoEmail
    BY <1>7, <1>9, <2>2 DEF Open, Exists
  <2>5. "link" \in y.new => link'[y.sub] = NoUser /\ \A t \in Subjects : link'[t] # y.user
    BY <1>2, <1>7, <1>9 DEF Apart, Shape, Open, Linked
  <2>6. /\ y.pc \in TenantKnown => tenant' \/ "tenant" \in y.new
        /\ y.pc \in RoleKnown => role' \/ "role" \in y.new \/ q \in outdated
        /\ "grant" \in y.new => role' \/ "role" \in y.new
    BY <1>3, <1>9 DEF Open
  <2> QED BY <1>1, <1>9, <2>1, <2>3, <2>4, <2>5, <2>6 DEF Open, Exists, Linked
<1>11. ASSUME NEW q \in Requests \ {r} PROVE Calm(q, req[q])'
  <2> DEFINE y == req[q]
  <2>1. SUFFICES ASSUME q \notin disturbed PROVE Calm(q, req[q])'
    BY <1>1, <1>9 DEF Calm
  <2>2. ASSUME Excused(y) PROVE Excused(req[q])'
    <3>1. PICK t \in Subjects : link[t] \in Users /\ (t = y.sub \/ email[link[t]] = y.email)
      BY <2>2 DEF Excused
    <3>2. link'[t] = link[t] /\ email'[link[t]] = email[link[t]]
      BY <1>2, <1>7, <3>1 DEF IInv, Rows
    <3> QED BY <1>9, <3>1, <3>2 DEF Excused
  <2>3. Bootstrapped(y) => Bootstrapped(req[q])'
    BY <1>3, <1>9, <2>2 DEF Bootstrapped
  <2>4. y.pc = "ok" => link'[y.sub] = y.user
    BY <1>2, <1>7, <1>9, <2>1 DEF Calm, Shape
  <2>5. y.pc = "newTenant" /\ tenant' => role'
    BY <1>2, <1>3, <1>9, <2>1 DEF Calm
  <2>6. ASSUME y.pc = "newUser", HasEmail(req[q].email)' PROVE Excused(req[q])'
    <3>1. PICK v \in Users : email'[v] = y.email BY <1>9, <2>6 DEF HasEmail
    <3>2. CASE email[v] = y.email
      BY <1>9, <2>1, <2>2, <2>6, <3>2 DEF Calm, HasEmail
    <3>3. CASE email[v] # y.email
      <4>1. v = u BY <1>7, <3>1, <3>3
      <4> QED BY <1>2, <1>7, <1>9, <3>1, <4>1 DEF Excused
    <3> QED BY <3>2, <3>3
  <2>7. y.pc \in Late => "user" \in y.new \/ email'[y.user] = y.email
    BY <1>7, <1>9, <2>1 DEF Calm, Shape, Exists
  <2>8. y.pc = "newGrant" => y.user \notin granted'
    BY <1>2, <1>3, <1>9, <2>1 DEF Calm, Shape, Apart
  <2>9. ASSUME y.pc = "conflict"
        PROVE  \E t \in Subjects \ {y.sub} : link'[t] \in Users /\ email'[link'[t]] = y.email
    <3>1. PICK t \in Subjects \ {y.sub} : link[t] \in Users /\ email[link[t]] = y.email
      BY <1>9, <2>1, <2>9 DEF Calm
    <3>2. link'[t] = link[t] /\ email'[link[t]] = email[link[t]]
      BY <1>2, <1>7, <3>1 DEF IInv, Rows
    <3> QED BY <3>1, <3>2
  <2> QED BY <1>1, <1>9, <2>1, <2>2, <2>3, <2>4, <2>5, <2>6, <2>7, <2>8, <2>9 DEF Calm
<1>12. (Shape(req[r]) /\ Open(r, req[r]) /\ Calm(r, req[r]))'
  BY <1>2, <1>4, <1>5, <1>7, ReqFields DEF Shape, Open, Calm
<1>13. ASSUME NEW q \in Requests PROVE (Shape(req[q]) /\ Open(q, req[q]) /\ Calm(q, req[q]))'
  <2>1. CASE q = r BY <1>12, <2>1
  <2>2. CASE q # r BY <1>9, <1>10, <1>11, <2>2 DEF Shape
  <2> QED BY <2>1, <2>2
<1>14. \A q \in Requests \ {r} : Apart(x, req[q]) BY ReqFields, NothingOpen
<1>15. ASSUME NEW p \in Requests, NEW q \in Requests, p # q PROVE Apart(req[p], req[q])'
  BY <1>5, <1>14, <1>15, ApartSymmetric DEF IInv
<1> QED BY <1>6, <1>8, <1>13, <1>15 DEF IInv

-----------------------------------------------------------------------------
(* A step of another service disturbs every request that is not idle.      *)

LEMMA ApartOnlyRequests == ASSUME IInv, UNCHANGED req
                           PROVE  \A r, q \in Requests : r # q => Apart(req[r], req[q])'
  BY DEF IInv, Apart

\* What is left to show for such a step.
LEMMA AdminStep ==
    ASSUME IInv, Administer,
           tenant' \in BOOLEAN /\ role' \in BOOLEAN,
           email' \in [Users -> Emails \cup {NoEmail}],
           link' \in [Subjects -> Users \cup {NoUser}],
           granted' \in SUBSET Users, outdated' \in SUBSET Requests,
           Rows', \A r \in Requests : Open(r, req[r])'
    PROVE  IInv'
<1>1. UNCHANGED req /\ admin' = admin + 1
      /\ disturbed' = {r \in Requests : req[r].pc # "idle"}
  BY DEF Administer
<1>2. TypeOK' BY <1>1 DEF IInv, TypeOK
<1>3. ASSUME NEW r \in Requests PROVE Shape(req[r])' /\ Calm(r, req[r])'
  BY <1>1 DEF IInv, Shape, Calm
<1> QED BY <1>1, <1>2, <1>3, ApartOnlyRequests DEF IInv

LEMMA CreateTenantStep == ASSUME IInv, CreateTenant PROVE IInv'
<1> USE DEF CreateTenant
<1>1. Rows' BY DEF IInv, Rows, Exists
<1>2. \A r \in Requests : Open(r, req[r])'
  BY DEF IInv, Administer, Open, Exists, Linked, Holds
<1> QED BY <1>1, <1>2, AdminStep DEF IInv, TypeOK

LEMMA CreateRoleStep == ASSUME IInv, CreateRole PROVE IInv'
<1> USE DEF CreateRole
<1>1. Rows' BY DEF IInv, Rows, Exists
<1>2. \A r \in Requests : Open(r, req[r])'
  BY DEF IInv, Administer, Open, Exists, Linked
<1> QED BY <1>1, <1>2, AdminStep DEF IInv, TypeOK

LEMMA CreateUserStep ==
    ASSUME IInv, NEW u \in Users, NEW e \in Emails, CreateUser(u, e) PROVE IInv'
<1> USE DEF CreateUser
<1>1. /\ email' \in [Users -> Emails \cup {NoEmail}] /\ email'[u] = e
      /\ \A v \in Users \ {u} : email'[v] = email[v]
  BY DEF IInv, TypeOK
<1>2. Rows' BY <1>1 DEF IInv, TypeOK, Rows, Exists
<1>3. ASSUME NEW r \in Requests PROVE Open(r, req[r])'
  <2>1. "user" \in req[r].new => req[r].user # u /\ req[r].user \in Users
    BY Known DEF Fresh, Holds, Shape
  <2>2. req[r].pc \in Late => req[r].user \in Users BY Known DEF Shape
  <2> QED BY <1>1, <2>1, <2>2, Known DEF Administer, Open, Exists, Linked
<1> QED BY <1>1, <1>2, <1>3, AdminStep DEF IInv, TypeOK

LEMMA ChangeEmailStep ==
    ASSUME IInv, NEW u \in Users, NEW e \in Emails, ChangeEmail(u, e) PROVE IInv'
<1> USE DEF ChangeEmail
<1>1. /\ email' \in [Users -> Emails \cup {NoEmail}]
      /\ \A v \in Users : email'[v] # NoEmail <=> email[v] # NoEmail
  BY DEF IInv, TypeOK, Exists
<1>2. Rows' BY <1>1 DEF IInv, TypeOK, Rows, Exists
<1>3. ASSUME NEW r \in Requests PROVE Open(r, req[r])'
  <2>1. "user" \in req[r].new \/ req[r].pc \in Late => req[r].user \in Users
    BY Known DEF Shape
  <2> QED BY <1>1, <2>1, Known DEF Administer, Open, Exists, Linked
<1> QED BY <1>1, <1>2, <1>3, AdminStep DEF IInv, TypeOK

LEMMA CreateLinkStep ==
    ASSUME IInv, NEW s \in Subjects, NEW u \in Users, CreateLink(s, u) PROVE IInv'
<1> USE DEF CreateLink
<1>1. /\ link' \in [Subjects -> Users \cup {NoUser}] /\ link'[s] = u
      /\ \A t \in Subjects \ {s} : link'[t] = link[t]
  BY DEF IInv, TypeOK
<1>2. Rows' BY <1>1 DEF IInv, TypeOK, Rows, Exists, Linked
<1>3. ASSUME NEW r \in Requests PROVE Open(r, req[r])'
  <2>1. "link" \in req[r].new => req[r].sub \in Subjects \ {s} /\ req[r].user # u
    BY Known DEF Holds, Shape
  <2> QED BY <1>1, <2>1, Known DEF Administer, Open, Exists, Linked
<1> QED BY <1>1, <1>2, <1>3, AdminStep DEF IInv, TypeOK

LEMMA DeleteLinkStep ==
    ASSUME IInv, NEW s \in Subjects, DeleteLink(s) PROVE IInv'
<1> USE DEF DeleteLink
<1>1. /\ link' \in [Subjects -> Users \cup {NoUser}] /\ link'[s] = NoUser
      /\ \A t \in Subjects \ {s} : link'[t] = link[t]
  BY DEF IInv, TypeOK
<1>2. Rows' BY <1>1 DEF IInv, TypeOK, Rows, Exists, Linked
<1>3. ASSUME NEW r \in Requests PROVE Open(r, req[r])'
  <2>1. "link" \in req[r].new => req[r].sub \in Subjects /\ req[r].user \in Users
    BY Known DEF Shape
  <2> QED BY <1>1, <2>1, Known DEF Administer, Open, Exists, Linked
<1> QED BY <1>1, <1>2, <1>3, AdminStep DEF IInv, TypeOK

LEMMA DeleteRoleStep == ASSUME IInv, DeleteRole PROVE IInv'
<1> USE DEF DeleteRole
<1>1. Rows' BY DEF IInv, Rows, Exists
<1>2. ASSUME NEW r \in Requests PROVE Open(r, req[r])'
  BY Known DEF Administer, Open, Exists, Linked, ReadRole, Holds
<1> QED BY <1>1, <1>2, AdminStep DEF IInv, TypeOK

LEMMA GrantStep ==
    ASSUME IInv, NEW u \in Users, Assign(u) \/ Unassign(u) PROVE IInv'
<1> USE DEF Assign, Unassign
<1>1. Rows' BY DEF IInv, Rows, Exists
<1>2. ASSUME NEW r \in Requests PROVE Open(r, req[r])'
  BY Known DEF Administer, Open, Exists, Linked
<1> QED BY <1>1, <1>2, AdminStep DEF IInv, TypeOK

-----------------------------------------------------------------------------
(* The invariant, and what it implies.                                     *)

LEMMA InitIInv == Init => IInv
<1> SUFFICES ASSUME Init PROVE IInv OBVIOUS
<1>1. ASSUME NEW r \in Requests
      PROVE  req[r] = Idle /\ Shape(Idle) /\ Open(r, Idle) /\ Calm(r, Idle) /\ Idle.new = {}
  BY ReqFields, ReqType DEF Init, Idle, Shape, Open, Calm
<1>2. TypeOK
  <2>1. Idle \in RequestStates BY ReqType DEF Idle
  <2> QED BY <2>1 DEF Init, TypeOK
<1>3. Rows BY DEF Init, Rows
<1> QED BY <1>1, <1>2, <1>3, NothingOpen DEF IInv

LEMMA NextIInv == IInv /\ [Next]_vars => IInv'
<1> SUFFICES ASSUME IInv, [Next]_vars PROVE IInv' OBVIOUS
<1>1. CASE UNCHANGED vars
  <2>1. UNCHANGED <<tenant, role, email, link, granted, req, outdated, admin, disturbed>>
    BY <1>1 DEF vars
  <2> QED
    BY <2>1 DEF IInv, TypeOK, Rows, Shape, Open, Calm, Apart, Exists, Linked, HasEmail,
            Excused, Bootstrapped
<1>2. CASE \E r \in Requests : \E s \in Subjects, e \in Emails \cup {NoEmail} : Login(r, s, e)
  BY <1>2, LoginStep
<1>3. CASE \E r \in Requests : Step(r)
  BY <1>3, LookupStep, SelectTenantStep, InsertTenantStep, SelectRoleStep, InsertRoleStep,
     SelectUserStep, InsertUserStep, InsertLinkStep, SelectGrantStep, InsertGrantStep,
     CommitStep, RecheckStep DEF Step
<1>4. CASE \E r \in Requests : Crash(r)
  BY <1>4, CrashStep
<1>5. CASE \E u \in Users :
              \/ \E e \in Emails : CreateUser(u, e) \/ ChangeEmail(u, e)
              \/ Assign(u) \/ Unassign(u)
  BY <1>5, CreateUserStep, ChangeEmailStep, GrantStep
<1>6. CASE \E s \in Subjects : DeleteLink(s) \/ \E u \in Users : CreateLink(s, u)
  BY <1>6, CreateLinkStep, DeleteLinkStep
<1>7. CASE CreateTenant \/ CreateRole \/ DeleteRole
  BY <1>7, CreateTenantStep, CreateRoleStep, DeleteRoleStep
<1> QED BY <1>1, <1>2, <1>3, <1>4, <1>5, <1>6, <1>7 DEF Next

LEMMA Invariance == Spec => []IInv
  BY InitIInv, NextIInv, PTL DEF Spec

\* Every reachable state is well typed.
THEOREM TypeCorrect == Spec => []TypeOK
<1>1. IInv => TypeOK BY DEF IInv
<1> QED BY <1>1, Invariance, PTL

\* A login that was answered with a user names the user its subject is linked
\* to, for any number of concurrent logins.
THEOREM AnswersAlwaysHold == Spec => []AnswersHold
<1>1. IInv => AnswersHold BY DEF IInv, Calm, AnswersHold
<1> QED BY <1>1, Invariance, PTL

\* Two attempts absorb every race between any number of logins.
THEOREM RetryAlwaysAbsorbs == Spec => []RetryAbsorbsRaces
<1>1. IInv => RetryAbsorbsRaces BY DEF IInv, Calm, RetryAbsorbsRaces
<1> QED BY <1>1, Invariance, PTL

-----------------------------------------------------------------------------
(* Who waits for whom.                                                     *)

\* The steps in which a transaction may hold a row of each kind, and be held
\* up by one, are ordered: this is how far a request has come.
Rank(r) ==
    CASE req[r].pc = "newTenant" -> 1
      [] req[r].pc \in {"role", "newRole"} -> 2
      [] req[r].pc \in {"user", "newUser"} -> 3
      [] req[r].pc = "link" -> 4
      [] req[r].pc \in {"grant", "newGrant"} -> 5
      [] req[r].pc = "commit" -> 6
      [] OTHER -> 0

LEMMA Ranks ==
    ASSUME NEW r \in Requests
    PROVE  /\ Rank(r) \in 0 .. 6
           /\ req[r].pc = "newTenant" => Rank(r) = 1
           /\ req[r].pc = "newRole" => Rank(r) = 2
           /\ req[r].pc = "newUser" => Rank(r) = 3
           /\ req[r].pc = "link" => Rank(r) = 4
           /\ req[r].pc = "newGrant" => Rank(r) = 5
           /\ req[r].pc \in TenantKnown => Rank(r) > 1
           /\ req[r].pc \in RoleKnown => Rank(r) > 2
           /\ req[r].pc \in Late => Rank(r) > 3
           /\ req[r].pc \in Bound => Rank(r) > 4
           /\ req[r].pc = "commit" => Rank(r) > 5
  BY DEF Rank

\* Whoever holds a row that another waits for has come further than that one.
LEMMA HolderIsAhead ==
    ASSUME IInv, NEW r \in Requests, Blocked(r)
    PROVE  \E q \in Requests : Active(q) /\ Rank(q) > Rank(r)
<1>1. PICK kind \in Kinds, q \in Requests \ {r} :
        /\ Holds(q, kind)
        /\ \/ kind = "tenant" /\ req[r].pc = "newTenant"
           \/ kind = "role" /\ req[r].pc = "newRole"
           \/ kind = "user" /\ req[r].pc = "newUser"
           \/ kind = "link" /\ req[r].pc = "link"
           \/ kind = "grant" /\ req[r].pc = "newGrant"
  BY DEF Blocked, Waits
<1>2. Shape(req[q]) BY DEF IInv
<1>3. req[q].pc \in TenantKnown BY <1>1, <1>2 DEF Shape, Holds
<1>4. Rank(q) > Rank(r) BY <1>1, <1>2, Ranks DEF Shape, Holds
<1> QED BY <1>3, <1>4 DEF Active

\* Of the requests at work those that have come furthest do not wait, so there
\* is no circle of requests that wait for each other, whatever they provision.
THEOREM NeverCircularWait == Spec => []NoCircularWait
<1>1. IInv => NoCircularWait
  <2> SUFFICES ASSUME IInv, NEW r0 \in Requests, Active(r0),
                      \A r \in Requests : Active(r) => Blocked(r)
               PROVE  FALSE
    BY DEF NoCircularWait
  <2> DEFINE Ahead(n) == \E r \in Requests : Active(r) /\ Rank(r) >= n
  <2>1. ASSUME NEW n \in 0 .. 6, Ahead(n) PROVE Ahead(n + 1)
    <3>1. PICK r \in Requests : Active(r) /\ Rank(r) >= n BY <2>1
    <3>2. PICK q \in Requests : Active(q) /\ Rank(q) > Rank(r) BY <3>1, HolderIsAhead
    <3>3. Rank(q) >= n + 1 BY <3>1, <3>2, Ranks
    <3> QED BY <3>2, <3>3
  <2>2. Ahead(0) BY Ranks
  <2> HIDE DEF Ahead
  <2>3. Ahead(1) /\ Ahead(2) /\ Ahead(3) /\ Ahead(4) /\ Ahead(5) /\ Ahead(6) /\ Ahead(7)
    <3>1. Ahead(1) BY <2>1, <2>2
    <3>2. Ahead(2) BY <2>1, <3>1
    <3>3. Ahead(3) BY <2>1, <3>2
    <3>4. Ahead(4) BY <2>1, <3>3
    <3>5. Ahead(5) BY <2>1, <3>4
    <3>6. Ahead(6) BY <2>1, <3>5
    <3>7. Ahead(7) BY <2>1, <3>6
    <3> QED BY <3>1, <3>2, <3>3, <3>4, <3>5, <3>6, <3>7
  <2> QED BY <2>3, Ranks DEF Ahead
<1> QED BY <1>1, Invariance, PTL

-----------------------------------------------------------------------------
(* What a commit adds.                                                     *)

\* A step of a request leaves the users alone unless it is a commit.
LEMMA OnlyCommitAddsUsers ==
    ASSUME IInv, [Next]_vars, admin' = admin
    PROVE  email' = email \/ \E r \in Requests : Commit(r)
<1>1. CASE UNCHANGED vars BY <1>1 DEF vars
<1>2. CASE \E r \in Requests : \E s \in Subjects, e \in Emails \cup {NoEmail} : Login(r, s, e)
  BY <1>2 DEF Login, rows
<1>3. CASE \E r \in Requests : Step(r) /\ ~Commit(r)
  BY <1>3 DEF Step, Lookup, SelectTenant, InsertTenant, SelectRole, InsertRole, SelectUser,
     InsertUser, InsertLink, SelectGrant, InsertGrant, Recheck, Select, Insert, RequestOnly,
     rows
<1>4. CASE \E r \in Requests : Crash(r)
  BY <1>4 DEF Crash, RequestOnly, rows
<1>5. ~Administer
  BY DEF IInv, TypeOK, Administer
<1> QED
  BY <1>1, <1>2, <1>3, <1>4, <1>5 DEF Next, CreateTenant, CreateRole, CreateUser,
     ChangeEmail, CreateLink, DeleteLink, DeleteRole, Assign, Unassign

\* Provisioning adds a user, its link and its grant together or not at all.
THEOREM ProvisionIsWhole == Spec => WholeProvision
<1> DEFINE Whole ==
      admin' = admin =>
        \A u \in Users : ~Exists(u) /\ Exists(u)' => Linked(u)' /\ role' /\ u \in granted'
<1>1. IInv /\ IInv' /\ [Next]_vars => [Whole]_vars
  <2> SUFFICES ASSUME IInv, IInv', [Next]_vars, admin' = admin,
                      NEW u \in Users, ~Exists(u), Exists(u)'
               PROVE  Linked(u)' /\ role' /\ u \in granted'
    OBVIOUS
  <2>1. PICK r \in Requests : Commit(r)
    BY OnlyCommitAddsUsers DEF Exists
  <2>2. req[r].pc = "commit" /\ req[r].sub \in Subjects /\ req[r].user \in Users
    BY <2>1, Known DEF Commit, Shape
  <2>3. "user" \in req[r].new /\ u = req[r].user
    BY <2>1, <2>2 DEF IInv, TypeOK, Commit, Holds, Exists
  <2>4. "grant" \in req[r].new /\ (role \/ "role" \in req[r].new)
    BY <2>2, <2>3, Known DEF Shape, Open
  <2>5. link'[req[r].sub] = u /\ role' /\ u \in granted'
    BY <2>1, <2>2, <2>3, <2>4 DEF IInv, TypeOK, Commit, Holds
  <2> QED BY <2>2, <2>5 DEF Linked
<1>2. QED BY <1>1, Invariance, PTL DEF Spec, WholeProvision

-----------------------------------------------------------------------------
(* The refinement.                                                         *)

Asked == [r \in Requests |-> IF Active(r) THEN req[r].sub ELSE NoSubject]
Given == [r \in Requests |-> IF req[r].pc = "ok" THEN req[r].user ELSE NoUser]

\* What a step of r to x looks like from outside.
LEMMA Seen ==
    ASSUME IInv, NEW r \in Requests, NEW x, Become(r, x)
    PROVE  /\ Asked[r] = IF req[r].pc \in Steps THEN req[r].sub ELSE NoSubject
           /\ Asked' = [Asked EXCEPT ![r] = IF x.pc \in Steps THEN x.sub ELSE NoSubject]
           /\ Given' = [Given EXCEPT ![r] = IF x.pc = "ok" THEN x.user ELSE NoUser]
<1>1. req'[r] = x /\ \A q \in Requests \ {r} : req'[q] = req[q]
  BY DEF IInv, TypeOK, Become
<1> QED BY <1>1 DEF Asked, Given, Active

LEMMA Unseen ==
    ASSUME IInv, NEW r \in Requests, NEW x, Become(r, x),
           req[r].pc \in Steps, x.pc \in Steps, x.sub = req[r].sub
    PROVE  Asked' = Asked /\ Given' = Given
<1>1. /\ Asked[r] = x.sub /\ Given[r] = NoUser
      /\ Asked' = [Asked EXCEPT ![r] = x.sub] /\ Given' = [Given EXCEPT ![r] = NoUser]
  BY Seen DEF Given
<1>2. Asked = [q \in Requests |-> Asked[q]] /\ Given = [q \in Requests |-> Given[q]]
  BY DEF Asked, Given
<1> QED BY <1>1, <1>2

LEMMA UnseenGoto ==
    ASSUME IInv, NEW r \in Requests, NEW pc \in Steps, NEW u, NEW K, Goto(r, pc, u, K),
           req[r].pc \in Steps
    PROVE  Asked' = Asked /\ Given' = Given
  BY Unseen, ReqFields DEF Goto

LEMMA AnswerSeen ==
    ASSUME IInv, NEW r \in Requests, req[r].pc \in Steps,
           NEW u \in Users, Answer(r, u), link[req[r].sub] = u, link' = link
    PROVE  Abstract!Answer(r, req[r].sub, u)
<1>1. /\ Asked[r] = req[r].sub
      /\ Asked' = [Asked EXCEPT ![r] = NoSubject] /\ Given' = [Given EXCEPT ![r] = u]
  BY Seen, ReqFields DEF Answer
<1> QED BY <1>1 DEF Abstract!Answer, Abstract!Reply, Asked, Given

LEMMA RefuseSeen ==
    ASSUME IInv, NEW r \in Requests, req[r].pc \in Steps,
           NEW x, Become(r, x), x.pc \in Answered \ {"ok"}, link' = link
    PROVE  Abstract!Refuse(r)
<1>1. /\ Asked[r] = req[r].sub
      /\ Asked' = [Asked EXCEPT ![r] = NoSubject] /\ Given' = [Given EXCEPT ![r] = NoUser]
  BY Seen
<1>2. req[r].sub # NoSubject BY Known DEF Shape
<1> QED BY <1>1, <1>2 DEF Abstract!Refuse, Abstract!Reply, Asked, Given

LEMMA LoginSeen ==
    ASSUME IInv, NEW r \in Requests, NEW s \in Subjects, NEW e \in Emails \cup {NoEmail},
           Login(r, s, e)
    PROVE  Abstract!Ask(r, s)
<1>1. /\ Asked[r] = NoSubject /\ link' = link
      /\ Asked' = [Asked EXCEPT ![r] = s] /\ Given' = [Given EXCEPT ![r] = NoUser]
  BY Seen, ReqFields DEF Login, rows
<1> QED BY <1>1 DEF Abstract!Ask, Asked, Given

LEMMA LookupSeen ==
    ASSUME IInv, NEW r \in Requests, Lookup(r)
    PROVE  \/ \E u \in Users : Abstract!Answer(r, req[r].sub, u)
           \/ Abstract!Refuse(r)
           \/ Asked' = Asked /\ Given' = Given
<1> DEFINE u == link[req[r].sub]
<1>1. req[r].pc \in Steps /\ link' = link /\ u \in Users \cup {NoUser}
  BY Known DEF Lookup, RequestOnly, rows, Shape, IInv, TypeOK
<1>2. CASE u # NoUser
  BY <1>1, <1>2, AnswerSeen DEF Lookup
<1>3. CASE u = NoUser /\ req[r].email = NoEmail
  BY <1>1, <1>3, RefuseSeen, ReqFields DEF Lookup, Reject
<1>4. CASE u = NoUser /\ req[r].email # NoEmail
  BY <1>1, <1>4, UnseenGoto DEF Lookup
<1> QED BY <1>2, <1>3, <1>4

LEMMA RecheckSeen ==
    ASSUME IInv, NEW r \in Requests, Recheck(r)
    PROVE  \/ \E u \in Users : Abstract!Answer(r, req[r].sub, u)
           \/ Abstract!Refuse(r)
           \/ Asked' = Asked /\ Given' = Given
<1> DEFINE u == link[req[r].sub]
<1>1. req[r].pc \in Steps /\ link' = link /\ u \in Users \cup {NoUser}
  BY Known DEF Recheck, RequestOnly, rows, Shape, IInv, TypeOK
<1>2. CASE u # NoUser
  BY <1>1, <1>2, AnswerSeen DEF Recheck
<1>3. CASE u = NoUser /\ ~(req[r].attempt < MaxAttempts)
  BY <1>1, <1>3, RefuseSeen, ReqFields DEF Recheck, Reject
<1>4. CASE u = NoUser /\ req[r].attempt < MaxAttempts
  BY <1>1, <1>4, Unseen, ReqFields DEF Recheck
<1> QED BY <1>2, <1>3, <1>4

LEMMA CommitSeen ==
    ASSUME IInv, NEW r \in Requests, Commit(r)
    PROVE  Abstract!Answer(r, req[r].sub, req[r].user) /\ req[r].user \in Users
<1> DEFINE s == req[r].sub
           u == req[r].user
<1>1. /\ req[r].pc = "commit" /\ s \in Subjects /\ u \in Users
      /\ link[s] = NoUser /\ ~Linked(u)
  BY Known DEF Commit, Shape, Open
<1>2. /\ Asked[r] = s
      /\ Asked' = [Asked EXCEPT ![r] = NoSubject] /\ Given' = [Given EXCEPT ![r] = u]
  BY <1>1, Seen, ReqFields DEF Commit, Answer
<1>3. link' = [link EXCEPT ![s] = u] BY DEF Commit
<1> QED
  BY <1>1, <1>2, <1>3 DEF Abstract!Answer, Abstract!Free, Abstract!Reply, Asked, Given, Linked

\* Reads and inserts are not seen, whether they succeed or not.
LEMMA WorkSeen ==
    ASSUME IInv, NEW r \in Requests,
           \/ SelectTenant(r) \/ InsertTenant(r) \/ SelectRole(r) \/ InsertRole(r)
           \/ SelectUser(r) \/ InsertUser(r) \/ InsertLink(r)
           \/ SelectGrant(r) \/ InsertGrant(r)
    PROVE  link' = link /\ Asked' = Asked /\ Given' = Given
<1>1. ASSUME NEW pc \in Steps, NEW u, NEW kind, NEW next \in Steps, req[r].pc = pc,
             Insert(r, kind, u, next)
      PROVE  link' = link /\ Asked' = Asked /\ Given' = Given
  BY <1>1, UnseenGoto DEF Insert, RequestOnly, rows
<1>2. ASSUME NEW pc \in Steps, NEW exists, NEW u, NEW found \in Steps, NEW missing \in Steps,
             Select(r, pc, exists, u, found, missing)
      PROVE  link' = link /\ Asked' = Asked /\ Given' = Given
  BY <1>2, UnseenGoto DEF Select, rows
<1>3. CASE InsertTenant(r) \/ InsertRole(r) \/ InsertUser(r) \/ InsertLink(r) \/ InsertGrant(r)
  BY <1>1, <1>3 DEF InsertTenant, InsertRole, InsertUser, InsertLink, InsertGrant
<1>4. CASE SelectTenant(r) \/ SelectRole(r) \/ SelectUser(r) \/ SelectGrant(r)
  BY <1>2, <1>4 DEF SelectTenant, SelectRole, SelectUser, SelectGrant
<1> QED BY <1>3, <1>4

LEMMA AdminSeen ==
    ASSUME IInv, Administer,
           \/ CreateTenant \/ CreateRole \/ DeleteRole
           \/ \E u \in Users :
                 \/ \E e \in Emails : CreateUser(u, e) \/ ChangeEmail(u, e)
                 \/ Assign(u) \/ Unassign(u)
           \/ \E s \in Subjects : DeleteLink(s) \/ \E u \in Users : CreateLink(s, u)
    PROVE  /\ Asked' = Asked /\ Given' = Given
           /\ \/ link' = link
              \/ \E s \in Subjects :
                    Abstract!Withdraw(s) \/ \E u \in Users : Abstract!Assign(s, u)
<1>1. Asked' = Asked /\ Given' = Given
  BY DEF Administer, Asked, Given, Active
<1>2. ASSUME NEW s \in Subjects, DeleteLink(s) PROVE Abstract!Withdraw(s)
  BY <1>1, <1>2 DEF DeleteLink, Abstract!Withdraw, Asked, Given
<1>3. ASSUME NEW s \in Subjects, NEW u \in Users, CreateLink(s, u) PROVE Abstract!Assign(s, u)
  BY <1>1, <1>3 DEF CreateLink, Abstract!Assign, Abstract!Free, Linked, Asked, Given
<1> QED
  BY <1>1, <1>2, <1>3 DEF CreateTenant, CreateRole, DeleteRole, CreateUser, ChangeEmail,
     Assign, Unassign

LEMMA AbstractInit == Init => Abstract!Init
<1> SUFFICES ASSUME Init PROVE Abstract!Init OBVIOUS
<1>1. \A r \in Requests : req[r].pc = "idle"
  BY ReqFields DEF Init, Idle
<1> QED BY <1>1 DEF Init, Abstract!Init, Active

LEMMA AbstractNext == IInv /\ [Next]_vars => [Abstract!Next]_(Abstract!vars)
<1> SUFFICES ASSUME IInv, [Next]_vars PROVE [Abstract!Next]_(Abstract!vars) OBVIOUS
<1>1. ASSUME link' = link, Asked' = Asked, Given' = Given PROVE UNCHANGED Abstract!vars
  BY <1>1 DEF Abstract!vars, Asked, Given
<1>2. CASE UNCHANGED vars
  <2>1. link' = link /\ Asked' = Asked /\ Given' = Given
    BY <1>2 DEF vars, Asked, Given, Active
  <2> QED BY <1>1, <2>1
<1>3. CASE \E r \in Requests : \E s \in Subjects, e \in Emails \cup {NoEmail} : Login(r, s, e)
  BY <1>3, LoginSeen DEF Abstract!Next
<1>4. CASE \E r \in Requests : Step(r)
  <2>1. PICK r \in Requests : Step(r) BY <1>4
  <2>2. CASE Lookup(r) \/ Recheck(r)
    <3>1. req[r].sub \in Subjects /\ link' = link
      BY <2>2, Known DEF Lookup, Recheck, RequestOnly, rows, Shape
    <3> QED BY <1>1, <2>2, <3>1, LookupSeen, RecheckSeen DEF Abstract!Next
  <2>3. CASE Commit(r)
    <3>1. req[r].sub \in Subjects BY <2>3, Known DEF Commit, Shape
    <3> QED BY <2>3, <3>1, CommitSeen DEF Abstract!Next
  <2>4. CASE \/ SelectTenant(r) \/ InsertTenant(r) \/ SelectRole(r) \/ InsertRole(r)
             \/ SelectUser(r) \/ InsertUser(r) \/ InsertLink(r)
             \/ SelectGrant(r) \/ InsertGrant(r)
    BY <1>1, <2>4, WorkSeen
  <2> QED BY <2>1, <2>2, <2>3, <2>4 DEF Step
<1>5. CASE \E r \in Requests : Crash(r)
  <2>1. PICK r \in Requests : Crash(r) BY <1>5
  <2>2. Abstract!Refuse(r)
    BY <2>1, RefuseSeen, ReqFields DEF Crash, Active, Idle, RequestOnly, rows
  <2> QED BY <2>2 DEF Abstract!Next
<1>6. CASE \/ CreateTenant \/ CreateRole \/ DeleteRole
           \/ \E u \in Users :
                 \/ \E e \in Emails : CreateUser(u, e) \/ ChangeEmail(u, e)
                 \/ Assign(u) \/ Unassign(u)
           \/ \E s \in Subjects : DeleteLink(s) \/ \E u \in Users : CreateLink(s, u)
  <2>1. Administer
    BY <1>6 DEF CreateTenant, CreateRole, DeleteRole, CreateUser, ChangeEmail, Assign,
       Unassign, CreateLink, DeleteLink
  <2> QED BY <1>1, <1>6, <2>1, AdminSeen DEF Abstract!Next
<1> QED BY <1>2, <1>3, <1>4, <1>5, <1>6 DEF Next

\* From outside, any number of concurrent logins are atomic: provisioning
\* implements FirstLogin.
THEOREM ImplementsFirstLogin == Spec => LoginIsAtomic
<1>1. Init => Abstract!Init BY AbstractInit
<1>2. IInv /\ [Next]_vars => [Abstract!Next]_(Abstract!vars) BY AbstractNext
<1> QED BY <1>1, <1>2, Invariance, PTL DEF Spec, LoginIsAtomic, Abstract!Spec
=============================================================================
