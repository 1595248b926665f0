SPECIFICATION Spec
CONSTANTS
    Workers = {w1, w2}
    Emails = {e1}
    Secrets = {s1}
    None = None
    w1 = w1
    w2 = w2
    e1 = e1
    e2 = e2
    e3 = e3
    s1 = s1
    Threshold = 0
    Backoffs <- ShortBackoffs
    Lifetime <- SingleLife
    PendingTTL = 1
    InvitationTTL = 1
    CodesPerSet = 1
    MaxUsers = 1
    MaxSessions = 2
    MaxInvitations = 0
    MaxCodes = 2
    MaxFailures = 1
    MaxNow = 1
    MaxPendings = 1
SYMMETRY WorkerSymmetry
INVARIANTS
    TypeOK
    FactorHasSecret
    BackupCodeOnce
CHECK_DEADLOCK FALSE
