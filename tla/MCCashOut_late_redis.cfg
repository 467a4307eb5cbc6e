SPECIFICATION Spec
CONSTANTS
    Rows = {r1}
    Hashes = {h1}
    Workers = {w1}
    Admins = {a1}
    NoRow = NoRow
    NoHash = NoHash
    Window = 1
    MaxLedger = 5
    MaxGaps = 1
    MaxAttempts = 2
    MaxMsgs = 1
    MaxFaults = 1
    SlowRpc = FALSE
    LateRedisError = TRUE
INVARIANTS
    RestoredOnlyIfDead
