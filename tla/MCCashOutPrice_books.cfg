SPECIFICATION PriceSpec
CONSTANTS
    p1 = p1
    p2 = p2
    r1 = r1
    r2 = r2
    Transfers = {p1, p2}
    CashOuts = {r1, r2}
    Sessions = {s1, s2, s3}
    Amount <- MCAmount
    NoItem = NoItem
    Configs <- MCConfigs
    Currency <- MCCurrency
    ZarUnit = 1
    Unit = 1
    PctUnit = 10
CONSTRAINT FeesOrRaces
SYMMETRY Symmetry
INVARIANTS
    PriceTypeOK
    BooksBalanceUnlessLost
    RequestsCovered
    NeverNegative
    AgreedPayout
