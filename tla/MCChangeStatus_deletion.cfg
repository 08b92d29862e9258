\* Nothing fails, two requests overlap: what the endpoint's test asserts of a deletion.
SPECIFICATION Spec
CONSTANTS
    s1 = s1
    s2 = s2
    Product = {p1}
    Seller = {s1}
    Owner <- MCOwner
    Request = {r1, r2}
    NoRequest = NoRequest
    MaxTries = 2
    Faults = {}
    Overlap = TRUE
CHECK_DEADLOCK FALSE
INVARIANT
    DeletionIsFinal
