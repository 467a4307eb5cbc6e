SPECIFICATION Spec
CONSTANTS
    Rows = {t1}
    Hashes = {h1, h2}
    Workers = {w1}
    Admins = {a1}
    NoRow = NoRow
    NoHash = NoHash
    Window = 1
    MaxLedger = 5
    MaxGaps = 1
    MaxAttempts = 1
    MaxMsgs = 1
    MaxFaults = 1
    SlowRpc = TRUE
INVARIANTS
    NoDoublePayment
