SPECIFICATION Spec
CONSTANTS
    s1 = s1
    s2 = s2
    p1 = p1
    p2 = p2
    Session <- TwoSessions
    Category <- Others
    Required <- Fields
    Proc <- TwoWorkers
SYMMETRY Symmetric
CONSTRAINTS CheckAlone StepAlone InOrder OneExpires
CHECK_DEADLOCK FALSE
INVARIANTS CompletedHasProfile OneOpenSession KycAgrees VerifiedByStripe
