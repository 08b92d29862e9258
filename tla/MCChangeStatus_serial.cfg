\* Requests one after the other, every step may fail.
SPECIFICATION Spec
CONSTANTS
    s1 = s1
    s2 = s2
    Product = {p1}
    Seller = {s1}
    Owner <- MCOwner
    Request = {r1, r2, r3}
    NoRequest = NoRequest
    MaxTries = 2
    Faults = {"http", "read", "publish", "confirm", "commit", "crash"}
    Overlap = FALSE
SYMMETRY RequestSymmetry
CHECK_DEADLOCK FALSE
INVARIANTS
    ActiveIffOnSale
    DriftHasCulprit
PROPERTY
    LifecycleIsKept
