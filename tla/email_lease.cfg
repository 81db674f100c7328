\* Sends end within their lease: exclusion, and settling under fairness.
SPECIFICATION FairSpec
CONSTANTS
    Deliveries = {d1}
    Workers = {w1, w2}
    MaxEpoch = 1
    MaxReceives = 1
    QueueModes = {TRUE, FALSE}
    SendsMayOutliveLease = FALSE
INVARIANTS NoConcurrentSends
PROPERTIES EveryDeliverySettles
CHECK_DEADLOCK FALSE
