SPECIFICATION Spec
CONSTANTS
    p1 = p1
    p2 = p2
    r1 = r1
    r2 = r2
    Transfers = {p1, p2}
    CashOuts = {r1, r2}
    Sessions = {s1, s2}
    Amount <- MCAmount
    NoItem = NoItem
SYMMETRY Symmetry
CHECK_DEADLOCK FALSE
INVARIANTS
    BooksBalance
