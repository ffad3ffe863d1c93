SPECIFICATION PoolSpec
CONSTANTS
    Brands = {1, 2, 3}
    Keys <- LegKeys
    Amounts = {1, 2, 3, 4, 5, 6}
    Currency <- OneCurrency
    Units <- Cents
    KeyTtl = 1
    LastTick = 2
    Callers = {w1, w2}
    Idle = Idle
    Faces = {3}
    Percent <- HalfAtThree
    Cap = 0
    VoucherTtl = 0
    WeekLength = 7
    Txns = {t1, t2}
    Storefronts = {h1, h2}
    Leavers = {3}
    Funds = 3
    MaxVouchers = 2
CONSTRAINT Bounds
SYMMETRY Alike
CHECK_DEADLOCK FALSE
INVARIANTS
    FlowsAreRedemptions
    PlanZeroesPositions
    RerunsPayOnce
    OneEntryPerWindow
