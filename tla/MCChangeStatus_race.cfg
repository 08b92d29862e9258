\* Three requests race on one product, every step may fail.
SPECIFICATION Spec
CONSTANTS
    s1 = s1
    s2 = s2
    Product = {p1}
    Seller = {s1, s2}
    Owner <- MCOwner
    Request = {r1, r2, r3}
    NoRequest = NoRequest
    MaxTries = 2
    Faults = {"http", "read", "publish", "confirm", "commit", "crash"}
    Overlap = TRUE
SYMMETRY RequestSymmetry
CHECK_DEADLOCK FALSE
INVARIANTS
    TypeOK
    OnSaleWasAnnounced
    AppliedChangeWasAnnounced
    AnswerTellsEffect
    CopiesAreBounded
