CONSTANTS
    Users = {"ann", "bob"}
    Author = "ann"
    Requests = {p1, p2}
    Faults = {"timeout","crash", "rollback","doubt"}
    AdminTuples <- AdminShare
    NoTuple = NoTuple
    MaxCleanup = 2
    MaxStraggling = 1
SPECIFICATION MCSpec
INVARIANTS TypeOK GrantsSurvive OrphansAreStray
PROPERTIES LockoutIsTransient
CHECK_DEADLOCK FALSE
