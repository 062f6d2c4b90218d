SPECIFICATION Spec
CONSTANTS
    Users = {u1}
    Requests = {r1, r2}
    Sids = {s1, s2}
    sessionTTL = 1
    rememberTTL = 1
    impersonationTTL = 1
    twoFactorPendingTTL = 1
    MaxTime = 1
    MaxSeq = 1
    OIDC = FALSE
    Durable = FALSE
    RecordFaults = FALSE
    RevokeFaults = FALSE
    LookupFaults = FALSE
    None = None
SYMMETRY MCSymmetry
INVARIANTS OffboardedUnlessOverlapping 
PROPERTY ImplementsSessionAbs
CHECK_DEADLOCK FALSE
