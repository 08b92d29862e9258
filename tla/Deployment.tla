------------------------------ MODULE Deployment ------------------------------
(***************************************************************************)
(* From docker-entrypoint.sh to a server that answers, and back: a         *)
(* container runs prestart.py (Prestart.tla), then `alembic upgrade head`, *)
(* then a server, which runs startup() of app/main.py.  The production     *)
(* target runs gunicorn with one worker; the development target, the one   *)
(* docker-compose.yml starts and restarts, runs uvicorn --reload.  Several *)
(* containers share PostgreSQL and RabbitMQ.  A developer's process        *)
(* (`make service-start-dev`) runs uvicorn --reload without prestart or    *)
(* migrations.                                                             *)
(*                                                                         *)
(* alembic/env.py runs all pending revisions in one transaction: each      *)
(* container works on its own copy of the schema until it commits.         *)
(***************************************************************************)
EXTENDS Prestart, Migrations, Integers

CONSTANTS
    Gunicorn,       \* the containers of the production target
    Unmigrated,     \* the developer's processes
    Version0,       \* the revisions the database may be at
    BrokerLimit,    \* how many connections RabbitMQ accepts
    MaxDowngrades   \* a bound on how often somebody runs `alembic downgrade -1`

Process == Container \cup Unmigrated
Composed == Container \ Gunicorn

ASSUME DeploymentAssumption ==
    /\ Gunicorn \subseteq Container /\ Container \cap Unmigrated = {} /\ Version0 \subseteq 0..Head
    /\ BrokerLimit \in Nat /\ MaxDowngrades \in Nat

VARIABLES
    objects, version,   \* the schema, and the row of alembic_version
    rows,               \* which of the rows that matter to a revision there are
    stage,              \* where each process is
    work,               \* the transaction of each migration under way
    sockets,            \* the connections open at RabbitMQ: <<process, number>>
    downgrades

later == <<objects, version, rows, stage, work, sockets, downgrades>>
deployment == <<vars, later>>

NoWork == [version |-> 0, objects |-> {}, from |-> 0]

DeploymentInit ==
    /\ Init
    /\ version \in IF schema = {} THEN {0} ELSE Version0
    /\ objects = ObjectsAt[version]
    /\ rows \in SUBSET RowsAt(version)
    /\ stage = [p \in Process |-> IF p \in Container THEN "prestart" ELSE "off"]
    /\ work = [p \in Process |-> NoWork]
    /\ sockets = {}
    /\ downgrades = 0
------------------------------------------------------------------------------
GoTo(p, next) == stage' = [stage EXCEPT ![p] = next]

\* With `set -e` the first program that fails ends the entrypoint.
Fail(c) == GoTo(c, "failed")

RunPrestart(c) ==
    /\ stage[c] = "prestart"
    /\ Step(c)
    /\ UNCHANGED later

\* A mutant: alembic does not look at the version the database is at.
BeginMigrationFromBase(c) ==
    /\ stage[c] = "prestart" /\ pc[c] = "exit 0"
    /\ \/ db # "up" /\ Fail(c) /\ UNCHANGED work
       \/ db = "up" /\ work' = [work EXCEPT ![c] = [NoWork EXCEPT !.objects = objects]] /\ GoTo(c, "migrating")
    /\ UNCHANGED <<vars, objects, version, rows, sockets, downgrades>>

\* alembic upgrade head: connect, begin, read the version.
BeginMigration(c) ==
    /\ stage[c] = "prestart" /\ pc[c] = "exit 0"
    /\ \/ db # "up" /\ Fail(c) /\ UNCHANGED work
       \/ db = "up" /\ version = Head /\ GoTo(c, "startup") /\ UNCHANGED work
       \/ /\ db = "up" /\ version < Head /\ GoTo(c, "migrating")
          /\ work' = [work EXCEPT ![c] = [version |-> version, objects |-> objects, from |-> version]]
    /\ UNCHANGED <<vars, objects, version, rows, sockets, downgrades>>

\* A mutant: the transaction of a failed migration is left open.
RunRevisionWithoutRollback(c) ==
    LET n == work[c].version + 1
    IN  /\ stage[c] = "migrating" /\ n <= Head
        /\ IF Possible(Upgrade[n], work[c].objects, rows)
           THEN work' = [work EXCEPT ![c].version = n, ![c].objects = Applied(Upgrade[n], @)]
                /\ UNCHANGED stage
           ELSE Fail(c) /\ UNCHANGED work
        /\ UNCHANGED <<vars, objects, version, rows, sockets, downgrades>>

\* A mutant: no `set -e` in the entrypoint.
RunRevisionThenGoOn(c) ==
    LET n == work[c].version + 1
    IN  /\ stage[c] = "migrating" /\ n <= Head
        /\ IF Possible(Upgrade[n], work[c].objects, rows)
           THEN work' = [work EXCEPT ![c].version = n, ![c].objects = Applied(Upgrade[n], @)]
                /\ UNCHANGED stage
           ELSE GoTo(c, "startup") /\ work' = [work EXCEPT ![c] = NoWork]
        /\ UNCHANGED <<vars, objects, version, rows, sockets, downgrades>>

\* A mutant: every revision is a transaction of its own.
RunRevisionAndCommit(c) ==
    LET n == work[c].version + 1
    IN  /\ stage[c] = "migrating" /\ n <= Head
        /\ IF work[c].from = version /\ Possible(Upgrade[n], objects, rows)
           THEN /\ objects' = Applied(Upgrade[n], objects) /\ version' = n
                /\ work' = [work EXCEPT ![c] = [version |-> n, objects |-> objects', from |-> n]]
                /\ UNCHANGED stage
           ELSE Fail(c) /\ work' = [work EXCEPT ![c] = NoWork] /\ UNCHANGED <<objects, version>>
        /\ UNCHANGED <<vars, rows, sockets, downgrades>>

\* The next revision in the transaction; one that fails rolls all of them back
\* and, with `set -e`, ends the entrypoint.
RunRevision(c) ==
    LET n == work[c].version + 1
    IN  /\ stage[c] = "migrating" /\ n <= Head
        /\ IF Possible(Upgrade[n], work[c].objects, rows)
           THEN work' = [work EXCEPT ![c].version = n, ![c].objects = Applied(Upgrade[n], @)]
                /\ UNCHANGED stage
           ELSE Fail(c) /\ work' = [work EXCEPT ![c] = NoWork]
        /\ UNCHANGED <<vars, objects, version, rows, sockets, downgrades>>

\* Of several migrations from the same version one commits.  The others wait
\* for its locks and fail: a table exists, or alembic_version has changed.
CommitMigration(c) ==
    /\ stage[c] = "migrating" /\ work[c].version = Head
    /\ IF work[c].from = version
       THEN objects' = work[c].objects /\ version' = Head /\ GoTo(c, "startup")
       ELSE Fail(c) /\ UNCHANGED <<objects, version>>
    /\ work' = [work EXCEPT ![c] = NoWork]
    /\ UNCHANGED <<vars, rows, sockets, downgrades>>
------------------------------------------------------------------------------
\* When startup() raises, gunicorn's worker cannot boot and gunicorn halts; the
\* supervisor of uvicorn --reload stays, without a server.
FailStartup(p) == GoTo(p, IF p \in Gunicorn THEN "failed" ELSE "stalled")

\* A mutant: the session that creates the schema commits.
InitDbCommitting(p) ==
    /\ stage[p] = "startup"
    /\ \/ /\ db = "up" /\ database # {} /\ GoTo(p, "broker")
          /\ schema' = IF schema = {} THEN {Nobody} ELSE schema
       \/ (db # "up" \/ database = {}) /\ FailStartup(p) /\ UNCHANGED schema
    /\ UNCHANGED <<db, outages, refused, database, pc, retries, cut>>
    /\ UNCHANGED <<objects, version, rows, work, sockets, downgrades>>

\* init_db: CREATE SCHEMA IF NOT EXISTS in a session that is closed without a
\* commit, then create_all over a MetaData no model is registered in: neither
\* leaves anything behind.
InitDb(p) ==
    /\ stage[p] = "startup"
    /\ IF db = "up" /\ database # {} THEN GoTo(p, "broker") ELSE FailStartup(p)
    /\ UNCHANGED <<vars, objects, version, rows, work, sockets, downgrades>>

Sockets(p) == {s \in sockets : s[1] = p}
BrokerFull == Cardinality(sockets) >= BrokerLimit
Open(p) == sockets' = sockets \cup {<<p, Cardinality(Sockets(p)) + 1>>}
CloseAll(p) == sockets' = sockets \ Sockets(p)

\* RabbitMQ.connect, the connection that no request uses; then the server serves.
\* A broker that cannot be reached, refuses or has no room fails the startup.
ConnectBroker(p) ==
    /\ stage[p] = "broker"
    /\ \/ FailStartup(p) /\ UNCHANGED sockets
       \/ ~BrokerFull /\ GoTo(p, "serving") /\ Open(p)
    /\ UNCHANGED <<vars, objects, version, rows, work, downgrades>>

\* The writers of the rows that matter here: POST adds a product with its
\* specification and perhaps documents, PATCH adds documents or drops them.
WriteProduct(p) ==
    /\ stage[p] = "serving" /\ db # "down" /\ database # {} /\ Fits(objects)
    /\ \/ \E documents \in SUBSET {"document"} :
             rows' = rows \cup {"manually_filled_specification"} \cup documents
       \/ "manually_filled_specification" \in rows /\ rows' = rows \ {"document"}
    /\ UNCHANGED <<vars, objects, version, stage, work, sockets, downgrades>>

\* An attempt of RabbitMQ.send_message opens a connection of its own and leaves
\* it open; without room at the broker it fails.
SendMessage(p) ==
    /\ stage[p] = "serving" /\ ~BrokerFull
    /\ Open(p)
    /\ UNCHANGED <<vars, objects, version, rows, stage, work, downgrades>>

\* gunicorn kills a worker that has not been heard of for timeout seconds and
\* starts another, which goes through startup() but not through the entrypoint.
KillWorker(c) ==
    /\ stage[c] = "serving"
    /\ GoTo(c, "startup") /\ CloseAll(c)
    /\ UNCHANGED <<vars, objects, version, rows, work, downgrades>>

\* A source file has changed: the supervisor of uvicorn ends the server, if there
\* is one, and starts another, which does not go through the entrypoint either.
Reload(p) ==
    /\ stage[p] \in {"broker", "serving", "stalled"}
    /\ GoTo(p, "startup") /\ CloseAll(p)
    /\ UNCHANGED <<vars, objects, version, rows, work, downgrades>>

\* The server is stopped: shutdown() closes one of its connections, the end of
\* the process all of them.
Shutdown(p) ==
    /\ stage[p] \in {"serving", "stalled"}
    /\ GoTo(p, "off") /\ CloseAll(p)
    /\ UNCHANGED <<vars, objects, version, rows, work, downgrades>>

StartUnmigrated(p) ==
    /\ stage[p] = "off"
    /\ GoTo(p, "startup")
    /\ UNCHANGED <<vars, objects, version, rows, work, sockets, downgrades>>

\* Somebody starts a container that was stopped.
StartContainer(c) ==
    /\ stage[c] = "off"
    /\ Rerun(c) /\ GoTo(c, "prestart")
    /\ UNCHANGED <<objects, version, rows, work, sockets, downgrades>>

\* A container that has ended by itself is started again, its entrypoint from the
\* beginning: by docker where `restart: always` says so, else by somebody.
RestartContainer(c) ==
    /\ \/ stage[c] = "prestart" /\ Restart(c) /\ UNCHANGED stage
       \/ stage[c] = "failed" /\ Rerun(c) /\ GoTo(c, "prestart")
    /\ UNCHANGED <<objects, version, rows, work, sockets, downgrades>>
------------------------------------------------------------------------------
\* Somebody takes one revision back while no container runs.
RunDowngrade ==
    /\ db = "up" /\ version > 0 /\ downgrades < MaxDowngrades
    /\ \A c \in Container : stage[c] \in {"prestart", "failed", "off"}
    /\ Reversible(version) /\ Possible(Downgrade(version), objects, rows)
    /\ objects' = Applied(Downgrade(version), objects)
    /\ version' = version - 1
    /\ rows' = IF version = 1 THEN {} ELSE rows
    /\ downgrades' = downgrades + 1
    /\ UNCHANGED <<vars, stage, work, sockets>>

\* PostgreSQL goes away, and the migrations under way fail.
Outage ==
    /\ PostgresStops
    /\ stage' = [p \in Process |-> IF stage[p] = "migrating" THEN "failed" ELSE stage[p]]
    /\ work' = [p \in Process |-> NoWork]
    /\ UNCHANGED <<objects, version, rows, sockets, downgrades>>

\* The other changes of PostgreSQL leave the open connections and the programs alone.
Refusal == (PostgresRefuses \/ PostgresComesUp) /\ UNCHANGED later
Recovery == PostgresStarts /\ UNCHANGED later

EntrypointStep(c) ==
    \/ RunPrestart(c) \/ BeginMigration(c) \/ RunRevision(c) \/ CommitMigration(c)
    \/ InitDb(c) \/ ConnectBroker(c)

DeploymentNext ==
    \/ Outage \/ Refusal \/ Recovery \/ RunDowngrade
    \/ \E c \in Container : EntrypointStep(c) \/ RestartContainer(c) \/ StartContainer(c)
    \/ \E c \in Gunicorn : KillWorker(c)
    \/ \E p \in Process \ Gunicorn : Reload(p)
    \/ \E p \in Unmigrated : StartUnmigrated(p) \/ InitDb(p) \/ ConnectBroker(p)
    \/ \E p \in Process : WriteProduct(p) \/ SendMessage(p) \/ Shutdown(p)

DeploymentSpec == DeploymentInit /\ [][DeploymentNext]_deployment

\* PostgreSQL comes back; a program that can take its next step takes it; docker
\* restarts what docker-compose.yml tells it to, and nothing else.
FairDeployment ==
    /\ DeploymentSpec
    /\ WF_deployment(Recovery)
    /\ \A c \in Container : WF_deployment(EntrypointStep(c))
    /\ \A c \in Composed : WF_deployment(RestartContainer(c))
------------------------------------------------------------------------------
Stage == {"prestart", "migrating", "startup", "broker", "serving", "stalled", "failed", "off"}

\* Every variable has its type, a transaction is open exactly while a container
\* migrates, and connections are those of processes that serve.
DeploymentTypeOK ==
    /\ objects \subseteq Object /\ version \in 0..Head /\ rows \subseteq Row
    /\ stage \in [Process -> Stage]
    /\ \A p \in Process : stage[p] # "migrating" => work[p] = NoWork
    /\ Cardinality(sockets) <= BrokerLimit
    /\ \A s \in sockets : stage[s[1]] = "serving"
    /\ downgrades \in 0..MaxDowngrades

\* A server over a schema that its statements do not fit was started by a
\* developer: an entrypoint never gets past a migration that failed, that lost
\* against another container or that PostgreSQL has cut off.
MisfitIsUnmigrated ==
    \A p \in Process : stage[p] = "serving" /\ ~Fits(objects) => p \in Unmigrated

\* Migrations are all or nothing, whoever else migrates: the schema is always
\* that of the version it is stamped with, goes to the newest one in one step
\* and back one revision at a time.
Release ==
    IF objects = ObjectsAt[version] THEN version
    ELSE IF version = 0 /\ objects = EnumTypes THEN -1 ELSE -2
History == INSTANCE SchemaHistory WITH Head <- Head, release <- Release
HistoryIsKept == History!Spec

\* What prestart.py promises of database and schema holds with the rest of the
\* entrypoint and with servers over them: no later step changes either.
PrestartIsKept == Spec

\* As long as there are documents, no migration takes away the column that says
\* where their files are: it would have to fill the one that replaces it.
DocumentsKeepTheirFile ==
    [][\A o \in {"document.url", "document.key"} :
          o \in objects /\ "document" \in rows' => o \in objects']_deployment

\* The rows that are there, or what a downgrade has left, stop a revision: nothing
\* that the container does helps.
Blocked ==
    \E n \in version + 1 .. Head :
        ~Possible(Upgrade[n], IF n = version + 1 THEN objects ELSE ObjectsAt[n - 1], rows)

\* Whatever fails and whoever wins the races, a container that docker restarts
\* does not fail for ever: again and again its entrypoint is behind it, unless the
\* rows block its migration.
EveryEntrypointEnds ==
    \A c \in Composed : []<>(stage[c] \notin {"prestart", "migrating", "failed"} \/ Blocked)
===============================================================================
