SPECIFICATION DeskSpec
CONSTANTS
    c1 = c1
    c2 = c2
    r1 = r1
    r2 = r2
    r3 = r3
    r4 = r4
    Charges = {c1}
    MarketplaceCharges = {}
    Amounts = {1, 2}
    Budgets = {0}
    LastDay = 0
    Handlers = {r1, r2, r3, r4}
    AutoRefundUnder = 2
    RefundRollsBack = TRUE
    NoOne = NoOne
    MaxFunds = 2
CONSTRAINTS FundsBound FourthIsLate
SYMMETRY HandlerSymmetry
CHECK_DEADLOCK FALSE
INVARIANTS
    RepaidWithinCharge
    RecordedRefundsArePaid
    DeskAddsUp
