SPECIFICATION Spec
CONSTANTS
    Rows = {r1}
    Hashes = {h1, h2}
    Workers = {w1, w2}
    Admins = {a1, a2}
    NoRow = NoRow
    NoHash = NoHash
    Window = 1
    MaxLedger = 5
    MaxGaps = 1
    MaxAttempts = 2
    MaxMsgs = 1
    MaxFaults = 2
    SlowRpc = FALSE
    LateRedisError = FALSE
SYMMETRY Symmetry
INVARIANTS
    TypeOK
    MoneyFollowsStatus
    RestoredOnlyIfDead
    OneBurn
    PaidOnlyIfBurned
PROPERTIES
    Frozen
    ImplementsPromise
