\* Three readers share the key while the table changes twice.
SPECIFICATION FairSpec
CONSTANTS
    Reader = {r1, r2, r3}
    MaxVersion = 2
    Faults = {"redis", "db"}
INVARIANTS
    TypeOK
    MissIsFresh
PROPERTY
    KeyCatchesUp
