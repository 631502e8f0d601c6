SPECIFICATION Spec
CONSTANTS
    v1 = v1
    c1 = c1
    c2 = c2
    p1 = p1
    p2 = p2
    Vendor <- OneVendor
    Card <- TwoCards
    Proc <- TwoWorkers
    UsageLimit = 1
    MaxVersion = 3
SYMMETRY Symmetric
CONSTRAINT OneAtATime
CHECK_DEADLOCK FALSE
INVARIANTS UnpaidIsDelisted ListedIffPaid UnpaidRowIsDelisted AtMostOneDefault AppliedWithinLimit
