SPECIFICATION Spec
CONSTANTS
    ZarUnit = 10
    Unit = 1000
    PctUnit = 100
    Tabs = {t1, t2}
    Contacts = {c1, c2}
    None = None
    Amounts = {100}
    Configs <- MCConfigs
    Tiers <- MCTiers
    Days = {0}
    MonthOf <- MCMonthOf
    MaxSends = 2
    Overlap = TRUE
SYMMETRY Symmetry
INVARIANT LinkFollowsContact
