CONSTANTS
    a = a
    b = b
    d1 = d1
    d2 = d2
    x1 = x1
    x2 = x2
    Roles = {d1, d2, d3}
    Permissions = {x1, x2}
    Names = {a, b}
    Members = {m}
    Requests = {p1, p2}
    NoName = NoName
    NoId = NoId
    NoMember = NoMember
    MaxNames = 2
    MaxEvents = 2
SPECIFICATION MCSpec
INVARIANTS TypeOK Consistent MissingHasCause PrefixDone
PROPERTIES CreatedWhole ByName Answered Adopted
