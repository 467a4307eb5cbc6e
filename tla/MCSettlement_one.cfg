SPECIFICATION Spec
CONSTANTS
    Rows = {t1}
    Hashes = {h1, h2}
    Workers = {w1, w2}
    Admins = {a1, a2}
    NoRow = NoRow
    NoHash = NoHash
    Window = 1
    MaxLedger = 5
    MaxGaps = 1
    MaxAttempts = 2
    MaxMsgs = 1
    MaxFaults = 1
    SlowRpc = FALSE
SYMMETRY Symmetry
INVARIANTS
    TypeOK
    NoDoublePayment
    CreditedOnce
    Traceable
    RetiredAreDead
    QueuedIsClaimable
    Inductive
PROPERTIES
    HashIsKept
    ForwardOnly
    ImplementsPromise
