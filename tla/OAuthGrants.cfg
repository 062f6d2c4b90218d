SPECIFICATION Spec
CHECK_DEADLOCK FALSE
SYMMETRY MCSymmetry
CONSTANTS
    Users = {u1}
    Procs = {p1}
    Requests = {r1, r2}
    Scopes = {x}
    Refreshes = TRUE
    Ends = {1}
    authRequestTTL = 1
    codeTTL = 0
    AccessTokenTTL = 2
    RefreshTokenTTL = 2
    MaxAuth = 1
    MaxCodes = 1
    MaxGrants = 1
    MaxTokens = 2
    MaxTime = 2
    None = None
INVARIANTS WithinApproval OneRefreshChain ReplayEndsGrant CodeOncePerProcess
PROPERTIES CleanUpIsInvisible TokensEndForGood
