CONSTANTS
    u1 = u1
    u2 = u2
    e1 = e1
    e2 = e2
    s1 = s1
    s2 = s2
    Users = {u1, u2}
    Subjects = {s1, s2}
    Emails = {e1, e2}
    Requests = {r1, r2}
    NoUser = NoUser
    NoSubject = NoSubject
    NoEmail = NoEmail
    MaxEvents = 2
SPECIFICATION MCSpec
INVARIANTS TypeOK DriftHasCause ZombieHasCause
PROPERTIES OnlyDecisionsReinstate ReconcileSettles SyncConverges
