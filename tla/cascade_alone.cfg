SPECIFICATION Spec
CONSTANTS
    c1 = c1
    c2 = c2
    s1 = s1
    s2 = s2
    Charges = {c1, c2}
    MarketplaceCharges = {}
    Amounts = {1, 2}
    Budgets = {0}
    LastDay = 0
    Sagas = {s1}
    Target = c1
    None = None
    MaxFunds = 2
CONSTRAINT FundsBound
INVARIANTS
    BalanceMatchesRows
    PartnersAgree
PROPERTIES
    IsSaga
CHECK_DEADLOCK FALSE
