------------------------------ MODULE RoleStore ------------------------------
(***************************************************************************)
(* What the administration of roles promises whoever reads: definitions,   *)
(* grants and assignments that go by names, as the API does, and change by *)
(* whole operations.  The ids behind the names, how an operation is put    *)
(* together, what it waits for and what Descope has are not visible here.  *)
(***************************************************************************)
CONSTANTS
    Names,
    Members

VARIABLES
    roles,          \* names in use
    permissions,
    grants,         \* <<r, x>>: the role r grants the permission x
    holders         \* <<m, r>>: the member m holds the role r

vars == <<roles, permissions, grants, holders>>

Init ==
    /\ roles \in SUBSET Names
    /\ permissions \in SUBSET Names
    /\ grants \in SUBSET (roles \X permissions)
    /\ holders \in SUBSET (Members \X roles)

\* A role appears with all it grants, and nobody holds it yet.
CreateRole(n, P) ==
    /\ n \notin roles
    /\ roles' = roles \cup {n}
    /\ grants' = grants \cup ({n} \X P)
    /\ UNCHANGED <<permissions, holders>>

CreatePermission(n) ==
    /\ n \notin permissions
    /\ permissions' = permissions \cup {n}
    /\ UNCHANGED <<roles, grants, holders>>

\* Grants and assignments follow the name.
Renamed(n, new, x) == IF x = n THEN new ELSE x

RenameRole(n, new) ==
    /\ n \in roles /\ new \notin roles
    /\ roles' = (roles \ {n}) \cup {new}
    /\ grants' = {<<Renamed(n, new, g[1]), g[2]>> : g \in grants}
    /\ holders' = {<<h[1], Renamed(n, new, h[2])>> : h \in holders}
    /\ UNCHANGED permissions

RenamePermission(n, new) ==
    /\ n \in permissions /\ new \notin permissions
    /\ permissions' = (permissions \ {n}) \cup {new}
    /\ grants' = {<<g[1], Renamed(n, new, g[2])>> : g \in grants}
    /\ UNCHANGED <<roles, holders>>

\* What refers to the name goes with it.
DeleteRole(n) ==
    /\ n \in roles
    /\ roles' = roles \ {n}
    /\ grants' = {g \in grants : g[1] # n}
    /\ holders' = {h \in holders : h[2] # n}
    /\ UNCHANGED permissions

DeletePermission(n) ==
    /\ n \in permissions
    /\ permissions' = permissions \ {n}
    /\ grants' = {g \in grants : g[2] # n}
    /\ UNCHANGED <<roles, holders>>

Assign(m, n) ==
    /\ n \in roles
    /\ holders' = holders \cup {<<m, n>>}
    /\ UNCHANGED <<roles, permissions, grants>>

Remove(m, n) ==
    /\ holders' = holders \ {<<m, n>>}
    /\ UNCHANGED <<roles, permissions, grants>>

\* New definitions come from Descope bare, all at once.
Adopt(R, P) ==
    /\ R \cap roles = {} /\ P \cap permissions = {}
    /\ roles' = roles \cup R
    /\ permissions' = permissions \cup P
    /\ UNCHANGED <<grants, holders>>

Next ==
    \/ \E n \in Names :
          \/ CreatePermission(n) \/ DeleteRole(n) \/ DeletePermission(n)
          \/ \E P \in SUBSET permissions : CreateRole(n, P)
          \/ \E new \in Names : RenameRole(n, new) \/ RenamePermission(n, new)
          \/ \E m \in Members : Assign(m, n) \/ Remove(m, n)
    \/ \E R, P \in SUBSET Names : Adopt(R, P)

Spec == Init /\ [][Next]_vars
=============================================================================
