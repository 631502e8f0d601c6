SPECIFICATION Spec
CONSTANTS
    a1 = a1
    a2 = a2
    k1 = k1
    k2 = k2
    p1 = p1
    p2 = p2
    p3 = p3
    Appointment <- TwoAppointments
    Payout <- TwoPayouts
    Fee <- Fees
    Amount <- Amounts
    Proc <- OneWorker
    Handler <- AllHandlers
    MaxSelected = 1
CHECK_DEADLOCK FALSE
PROPERTY LedgerImplemented
