CONSTANTS
    u1 = u1
    r1 = r1
    s1 = s1
    Users = {u1, u2}
    NoUser = NoUser
    Broad = Broad
    Keys = {k1}
    NoKey = NoKey
    Readers = {r1, r2}
    Writers = {w1}
    Subscribers = {s1, s2}
    TTL = 2
    MaxCommits = 1
    MaxInbox = 1
SPECIFICATION MCSpec
INVARIANTS TypeOK StaleHasCause IndexOutlivesEntry
PROPERTIES OnlyOvertakenExecHides StaleIsTemporary
