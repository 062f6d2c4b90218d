SPECIFICATION Spec
CHECK_DEADLOCK FALSE
CONSTANTS
    Emails = {a, b}
    Requests = {r1, r2}
    MaxId = 3
    MaxTokens = 1
    MaxPasskeys = 1
    MaxPassword = 1
    Socials = {1}
    OIDCSubs = {1}
    Seed = a
    Handlers = {"signup", "oidc", "change", "redeem", "login", "social"}
    Dir = TRUE
    SQL = TRUE
    UnprovenOIDC = FALSE
    StaleCost = TRUE
    None = None
INVARIANTS OneRowPerEmail VerifiedWasProven
