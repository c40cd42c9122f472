CONSTANTS
    t1 = t1
    t2 = t2
    s1 = s1
    k1 = k1
    Tokens <- SmallTokens
    Subjects = {s1}
    Tenants = {t1, t2}
    RoleNames = {"owner", "admin"}
    Keys = {k1, k2}
    Requests = {r1}
    Admins = {"owner", "admin"}
    Canonical = {"Ory"}
    Absent = Absent
    Junk = Junk
    NoKey = NoKey
    NoTenant = NoTenant
    Leeway = 1
    MaxLife = 1
    MaxTime = 1
    MaxEvents = 3
SPECIFICATION MCSpec
INVARIANTS TypeOK SameVerdict DecisionWarranted
PROPERTIES KeysBounded KeyOpsInTenant
CHECK_DEADLOCK FALSE
