\* Two requests share a pool of one connection while products are added.
SPECIFICATION FairSpec
CONSTANTS
    Seller = {s1, s2}
    Reader = {r1, r2}
    Page = {1, 2}
    PageSize = {2}
    PoolSize = 1
    MaxTries = 2
    MaxProducts = 3
    Faults = {"connect", "query"}
CHECK_DEADLOCK FALSE
INVARIANTS
    TypeOK
    PageHasItsShare
    TotalIsCurrent
PROPERTY
    EveryReaderLetsGo
