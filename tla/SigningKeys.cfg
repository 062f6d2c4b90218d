SPECIFICATION FairSpec
CHECK_DEADLOCK FALSE
CONSTANTS
    Replicas = {s1, s2}
    Workers = {w1, w2}
    Ids = {1, 2}
    keyRefresh = 1
    keySkew = 1
    idTokenTTL = 1
    cfgGrace = 1
    KeyRotation = 2
    Slow = FALSE
    MaxTime = 2
    MaxFails = 1
    MaxForced = 1
    None = None
INVARIANTS SomeKeySigns TokensVerify
PROPERTIES Settles
