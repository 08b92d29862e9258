\* Three containers start together; PostgreSQL goes away or begins to refuse once.
SPECIFICATION FairSpec
CONSTANTS
    Container = {c1, c2, c3}
    Nobody = Nobody
    Retries = 2
    MaxOutages = 1
CHECK_DEADLOCK FALSE
INVARIANTS
    TypeOK
    SchemaBeforeService
    CrashHasCause
PROPERTY
    EveryContainerStarts
