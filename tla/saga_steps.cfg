SPECIFICATION FairSpec
CONSTANTS
    N = 4
    BestEffort = {2, 4}
INVARIANTS
    StatusTellsEffects
    UndoneInReverse
PROPERTY EndsUnlessKilled
CHECK_DEADLOCK FALSE
