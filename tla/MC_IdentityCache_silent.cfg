CONSTANTS
    u1 = u1
    r1 = r1
    s1 = s1
    Users = {u1}
    NoUser = NoUser
    Broad = Broad
    Keys = {k1}
    NoKey = NoKey
    Readers = {r1}
    Writers = {w1}
    Subscribers = {s1}
    TTL = 1
    MaxCommits = 1
    MaxInbox = 1
SPECIFICATION Spec
INVARIANTS EveryCommitIsPublished
