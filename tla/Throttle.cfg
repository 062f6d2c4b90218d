SPECIFICATION FairSpec
CONSTANTS
    Attempts = {r1, r2}
    IPs = {i1}
    Emails = {e}
    OwnerEmail = NoEmail
    Others = {"signup"}
    window = 3
    limit = 2
    lockWindow = 1
    maxFailures = 1
    MaxLag = 1
    NoEmail = NoEmail
INVARIANTS BudgetKept 
PROPERTIES BudgetReopens LockLifts
