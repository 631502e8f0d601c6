SPECIFICATION FairSpec
CONSTANTS
    v1 = v1
    p1 = p1
    Appointment <- VideoAndOffice
    Paid <- OneVideo
    MaxRefunds = 2
INVARIANTS CreditedAtMostOnce CreditedOnlyAfterEnd EscrowOrRefund ReviewedEscrowIsClosed DeletedLeavesNothingPending
PROPERTIES DisputeFreezesEscrow SettlementImplemented PendingIsTemporary StripeRefundIsRecorded
CHECK_DEADLOCK FALSE
