CONSTANTS
    e1 = e1
    e2 = e2
    e3 = e3
    e4 = e4
    p1 = p1
    p2 = p2
    noId = noId
    noPayment = noPayment
    Servers = {s1}
    Deliveries <- Errors
    Payments = {p1}
    EventIds = {e1, e2, e3, e4}
    NoId = noId
    NoPayment = noPayment
    PipelineMayFail = TRUE
    MaxCrashes = 1
SPECIFICATION FairSpec
CHECK_DEADLOCK FALSE
INVARIANTS
    OneFirstSighting
PROPERTIES
    EveryDeliveryAcked
