SPECIFICATION FairSpec
CONSTANTS
    a1 = a1
    a2 = a2
    k1 = k1
    k2 = k2
    p1 = p1
    p2 = p2
    p3 = p3
    Appointment <- TwoAppointments
    Payout <- TwoPayouts
    Fee <- Fees
    Amount <- Amounts
    Proc <- TwoWorkers
    Handler <- AllHandlers
    MaxSelected = 2
CHECK_DEADLOCK FALSE
PROPERTIES ReleasedOnce RequestsFinish
