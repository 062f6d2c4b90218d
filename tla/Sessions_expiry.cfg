SPECIFICATION Spec
CONSTANTS
    Users = {u1}
    Requests = {r1}
    Sids = {s1}
    sessionTTL = 1
    rememberTTL = 2
    impersonationTTL = 1
    twoFactorPendingTTL = 1
    MaxTime = 3
    MaxSeq = 0
    OIDC = TRUE
    Durable = TRUE
    RecordFaults = TRUE
    RevokeFaults = TRUE
    LookupFaults = TRUE
    None = None
SYMMETRY MCSymmetry
INVARIANTS  RecordOutlivesCookie
CHECK_DEADLOCK FALSE
