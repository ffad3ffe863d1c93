SPECIFICATION Spec
CONSTANTS
    c1 = c1
    c2 = c2
    c3 = c3
    f1 = f1
    t1 = t1
    Charges = {c1, c2, c3}
    MarketplaceCharges = {c3}
    Amounts = {1, 2}
    LastDay = 1
    Refs = {f1}
    NoRef = NoRef
    Topups = {t1}
    Budgets = {2}
    Settings = {FALSE}
    Threshold = 0
    Recharge = 2
    None = None
CONSTRAINT TwoRequests
SYMMETRY ChargeSymmetry
INVARIANTS
    StatusTellsTruth
    BalanceAccountsForAll
    CountersMatchRows
PROPERTIES
    ReplayShortCircuits
CHECK_DEADLOCK FALSE
