SPECIFICATION Spec
CONSTANTS
    b1 = b1
    b2 = b2
    k1 = k1
    h1 = h1
    a1 = a1
    r1 = r1
    r2 = r2
    Brands = {b1, b2}
    Keys = {k1}
    Amounts = {1}
    Currency <- OneCurrency
    Units <- Cents
    KeyTtl = 2
    LastTick = 2
    Callers = {h1}
    Idle = Idle
    Sellers = {b1}
    Admins = {a1}
    Crons = {r1, r2}
    Floors = {1}
    Period = 1
    MaxPayouts = 2
    MaxIncome = 2
CONSTRAINT IncomeBound
SYMMETRY CronSymmetry
CHECK_DEADLOCK FALSE
INVARIANTS
    MoneyConserved
    CountersMatchPayouts
    NothingOverdrawn
    OnePayoutPerCycle
