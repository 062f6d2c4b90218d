SPECIFICATION Spec
CONSTANTS
    Requests = {r1, r2}
    MaxSecret = 2
    MaxBatch = 2
    BatchSize = 1
    MaxStep = 3
    Serial = TRUE
    StoreFaults = FALSE
    None = None
SYMMETRY MCSymmetry
INVARIANT NoReplay
CHECK_DEADLOCK FALSE
