CONSTANTS
    Users = {"ann", "bob"}
    Author = "ann"
    Requests = {p1, p2}
    Faults = {"timeout"}
    AdminTuples <- NoAdmin
    NoTuple = NoTuple
    MaxCleanup = 2
    MaxStraggling = 1
SPECIFICATION Spec
INVARIANTS FailedDeleteKeepsOwner
CHECK_DEADLOCK FALSE
