SPECIFICATION Spec
CONSTANTS
    e1 = e1
    e2 = e2
    p1 = p1
    p2 = p2
    Email <- TwoEmails
    Proc <- TwoWorkers
    MaxAttempts = 2
    Cooldown = 1
    Validity = 2
    SignedAge = 3
    ResendAge = 2
    MaxTokens = 2
    MaxPassword = 1
SYMMETRY Symmetric
CONSTRAINT CodesApart
CHECK_DEADLOCK FALSE
INVARIANTS CodeWorksOnce TriesAreCounted CooldownIsKept LiveTokenIsKnown PasswordChangeRevokes
