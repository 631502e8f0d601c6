SPECIFICATION Spec
CONSTANTS
    r1 = r1
    r2 = r2
    r3 = r3
    basic = basic
    premium = premium
    w1 = w1
    Row <- Rows
    Offering <- Offerings
    WeekLength = 2
    Time <- Times
    LastDate = 1
    Horizon = 1
    Proc <- OneWorker
SYMMETRY Symmetric
CHECK_DEADLOCK FALSE
INVARIANTS NoOverlap OneOfferingPerWindow CalendarIsBookable
