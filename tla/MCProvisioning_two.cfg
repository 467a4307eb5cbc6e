SPECIFICATION ProvisionedSpec
CONSTANTS
    Rows = {t1, t2}
    Hashes = {h1, h2}
    Workers = {w1, w2}
    Admins = {a1}
    Accounts = {x1, x2}
    NoAccount = NoAccount
    NoRow = NoRow
    NoHash = NoHash
    Window = 1
    MaxLedger = 4
    MaxGaps = 0
    MaxAttempts = 1
    MaxMsgs = 1
    MaxFaults = 1
    SlowRpc = FALSE
SYMMETRY Symmetry
INVARIANTS
    ProvisioningTypeOK
    OneSigner
    CashBeforePayment
    PaidToTheWallet
    ClashOnlyUnseen
