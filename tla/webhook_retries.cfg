SPECIFICATION Spec
CONSTANTS
    Deliveries = {d1}
    Senders = {s1, s2}
    Admins = {a1, a2, a3}
    MaxRetries = 3
    MaxCrashes = 1
    NoDelivery = NoDelivery
PROPERTIES
    FinalIsFinal
    EveryDeliveryEnds
CHECK_DEADLOCK FALSE
