SPECIFICATION FairSpec
CONSTANTS
    c1 = c1
    c2 = c2
    c3 = c3
    f1 = f1
    t1 = t1
    Charges = {c1, c2}
    MarketplaceCharges = {}
    Amounts = {1, 2}
    LastDay = 0
    Refs = {}
    NoRef = NoRef
    Topups = {t1}
    Budgets = {0}
    Settings = {FALSE, TRUE}
    Threshold = 1
    Recharge = 1
    None = None
INVARIANTS
    EveryCreditHasASource
PROPERTIES
    FundsSpec
    CapturedIsCredited
CHECK_DEADLOCK FALSE
