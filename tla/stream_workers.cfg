SPECIFICATION StreamSpec
CONSTANTS
    honored = honored
    other = other
    Events = {honored, other}
    Mixes <- MixesSmall
    MaxWorkers = 3
    Replicas = 2
    MaxDeliveries = 2
    BackpressureLag = 1
    MaxFaults = 1
INVARIANTS
    CriticalIsHandled
    OnceWithoutFaults
PROPERTY
    EverythingSettles
CHECK_DEADLOCK FALSE
