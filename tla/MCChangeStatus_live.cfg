\* Two requests and every fault, with the fairness of the event loop.
SPECIFICATION FairSpec
CONSTANTS
    s1 = s1
    s2 = s2
    Product = {p1}
    Seller = {s1}
    Owner <- MCOwner
    Request = {r1, r2}
    NoRequest = NoRequest
    MaxTries = 3
    Faults = {"http", "read", "publish", "confirm", "commit", "crash"}
    Overlap = TRUE
CHECK_DEADLOCK FALSE
PROPERTY
    EveryRequestEnds
