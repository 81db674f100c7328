\* Sends may hang past their lease; one row, requeued once, two workers.
SPECIFICATION Spec
CONSTANTS
    Deliveries = {d1}
    Workers = {w1, w2}
    MaxEpoch = 1
    MaxReceives = 2
    QueueModes = {TRUE, FALSE}
    SendsMayOutliveLease = TRUE
SYMMETRY Symmetry
INVARIANTS NoLostDelivery AtMostOneEmailPerEpoch
PROPERTIES KeepsPromise
CHECK_DEADLOCK FALSE
