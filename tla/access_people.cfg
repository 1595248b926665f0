SPECIFICATION Spec
CONSTANTS
    Workers = {w1, w2}
    Emails = {e1, e2, e3}
    Secrets = {}
    None = None
    w1 = w1
    w2 = w2
    e1 = e1
    e2 = e2
    e3 = e3
    s1 = s1
    Threshold = 0
    Backoffs <- ShortBackoffs
    Lifetime <- BriefLives
    PendingTTL = 1
    InvitationTTL = 1
    CodesPerSet = 0
    MaxUsers = 3
    MaxSessions = 2
    MaxInvitations = 1
    MaxCodes = 0
    MaxFailures = 0
    MaxNow = 1
    MaxPendings = 0
SYMMETRY AccessSymmetry
INVARIANTS
    LastAdmin
PROPERTIES
    RevokedStaysRevoked
    ImplementsMembership
CHECK_DEADLOCK FALSE
