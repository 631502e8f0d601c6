SPECIFICATION Spec
CONSTANTS
    client = client
    lawyer = lawyer
    p1 = p1
    p2 = p2
    User <- Users
    Proc <- Workers
    EndTime = 2
    LastTime = 3
SYMMETRY Symmetric
CHECK_DEADLOCK FALSE
INVARIANTS ActiveHasSomeone DurationIsMeasured
PROPERTIES EndedStaysEnded
