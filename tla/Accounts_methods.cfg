SPECIFICATION Spec
CHECK_DEADLOCK FALSE
SYMMETRY MCSymmetry
CONSTANTS
    Emails = {a}
    Requests = {r1, r2}
    MaxId = 1
    MaxTokens = 1
    MaxPasskeys = 2
    MaxPassword = 2
    Socials = {1, 2}
    OIDCSubs = {1}
    Seed = None
    Handlers = {"otp", "admin", "social", "login", "password", "passkey", "remove", "delete", "block", "mail", "reset"}
    Dir = TRUE
    SQL = FALSE
    UnprovenOIDC = FALSE
    StaleCost = FALSE
    None = None
INVARIANTS LinkWorksOnce
PROPERTIES  BlockSticks PasswordNotReverted
