CONSTANTS
    r1 = r1
    u1 = u1
    u2 = u2
    s1 = s1
    s2 = s2
    e1 = e1
    e2 = e2
    Requests = {r1}
    Subjects = {s1, s2}
    Emails = {e1, e2}
    Users = {u1, u2}
    NoUser = NoUser
    NoSubject = NoSubject
    NoEmail = NoEmail
    MaxAttempts = 2
    MaxAdmin = 0
SPECIFICATION Spec
INVARIANT AloneNeverConflicts
