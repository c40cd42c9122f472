CONSTANTS
    Users = {"ann", "bob"}
    Author = "ann"
    Requests = {p1, p2}
    Faults = {}
    AdminTuples <- NoAdmin
    NoTuple = NoTuple
    MaxCleanup = 2
    MaxStraggling = 0
SPECIFICATION Spec
PROPERTIES DeletedStaysDeleted
CHECK_DEADLOCK FALSE
