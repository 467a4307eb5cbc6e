SPECIFICATION Spec
CONSTANTS
    ZarUnit = 10
    Unit = 1000
    PctUnit = 100
    Tabs = {t1, t2}
    Contacts = {c1, c2}
    None = None
    Amounts = {100}
    Configs <- MCConfigs
    Tiers <- MCTiers
    Days = {0, 1, 2}
    MonthOf <- MCMonthOf
    MaxSends = 2
    Overlap = FALSE
CONSTRAINT FeesOrLimits
SYMMETRY Symmetry
INVARIANTS
    TypeOK
    FitsAllowance
    PricedAsShown
    ConvertedFairly
    LinkFollowsContact
