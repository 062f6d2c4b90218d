SPECIFICATION Spec
CHECK_DEADLOCK FALSE
SYMMETRY MCSymmetry
CONSTANTS
    Requests = {r1, r2}
    maxOTPAttempts = 3
    ttlEmailOTP = 1
    MaxCodes = 3
    MaxTime = 4
    None = None
INVARIANTS GuessesCapped CodeWorksOnce
PROPERTIES NotBurnedEarly
