\* The container of docker-compose.yml, one of production and a developer's process
\* start over a database of an earlier release, or over none; PostgreSQL goes away
\* or begins to refuse once, somebody downgrades once.
SPECIFICATION FairDeployment
CONSTANTS
    Container = {c1, g1}
    Gunicorn = {g1}
    Unmigrated = {d1}
    Nobody = Nobody
    Retries = 1
    MaxOutages = 1
    Version0 = {0, 1, 5, 6, 7}
    BrokerLimit = 3
    MaxDowngrades = 1
CHECK_DEADLOCK FALSE
INVARIANTS
    DeploymentTypeOK
    MisfitIsUnmigrated
PROPERTIES
    HistoryIsKept
    PrestartIsKept
    DocumentsKeepTheirFile
    EveryEntrypointEnds
