SPECIFICATION Spec
CONSTANTS
    r1 = r1
    r2 = r2
    r3 = r3
    l1 = l1
    c1 = c1
    c2 = c2
    k1 = k1
    k2 = k2
    p1 = p1
    p2 = p2
    Request <- Requests
    Lawyer <- Lawyers
    Client <- Clients
    Key <- Keys
    LawyerOf <- OneLawyer
    ClientOf <- TheClients
    KeyOf <- TheKeys
    Length <- Lengths
    Paid <- FirstTwo
    Time <- ThreeTimes
    Proc <- Workers
    Handler = {"create", "cancel", "expire", "fail"}
CHECK_DEADLOCK FALSE
INVARIANTS NoLawyerDoubleBooking
