SPECIFICATION Spec
CONSTANTS
    Requests = {r1, r2}
    MaxSecret = 2
    MaxBatch = 2
    BatchSize = 1
    MaxStep = 3
    Serial = TRUE
    StoreFaults = TRUE
    None = None
SYMMETRY MCSymmetry
INVARIANTS NoReplayInPeriod RecoveryCodeOnce  EnabledWasConfirmed
 
CHECK_DEADLOCK FALSE
