SPECIFICATION Spec
CONSTANTS
    n1 = n1
    MaxSessions = 3
    Ends = {e1}
    Logins = {l1}
    Codes = {n1}
    IssuedAt <- CodesIssued
    None = None
    Starting = 3
    Cap = 3
    Overcap = 4
    Costs = {2}
    GrantAmount = 2
    WelcomeBonus = 2
    Interval = 2
    MinPlay = 1
    SessionTtl = 2
    SessionLife = 4
    NonceTtl = 2
    Cooldown = 4
    CodeLife = 3
    WelcomeAfter = 3
    DayLength = 4
    LastTime = 5
INVARIANTS
    NoFreeEnergy
    AloneUnlessUnlocked
CHECK_DEADLOCK FALSE
