CONSTANTS
    s1 = s1
    s2 = s2
    t1 = t1
    t2 = t2
    Subjects = {s1, s2}
    Tenants = {t1, t2}
    Routes = {home, login}
    Memberships <- SmallMemberships
    NoSubject = NoSubject
    NoTenant = NoTenant
    MaxChanges = 4
SPECIFICATION FairSpec
INVARIANTS TypeOK OwnIdentityOnly OneLoadCounts WaitsForItsLoad
PROPERTIES LoadingEnds
CHECK_DEADLOCK FALSE
