------------------------------- MODULE Prestart -------------------------------
(***************************************************************************)
(* prestart.py, which docker-entrypoint.sh runs before the migrations and  *)
(* the server: it waits for PostgreSQL and creates the database and the    *)
(* schema when they are missing.  Several containers start together over   *)
(* one PostgreSQL, which may go away or refuse connections; a container of  *)
(* docker-compose.yml whose prestart.py fails is started again (restart:   *)
(* always).                                                                *)
(***************************************************************************)
EXTENDS Integers, FiniteSets

CONSTANTS
    Container,   \* the containers that start
    Nobody,      \* the creator of what was there before
    Retries,     \* 100 in the code
    MaxOutages   \* a bound on how often PostgreSQL stops or begins to refuse

ASSUME PrestartAssumption == Nobody \notin Container /\ Retries \in Nat \ {0} /\ MaxOutages \in Nat

VARIABLES
    db,         \* "up"; "down", so that connect() ends in an OSError; or "refusing":
                \* starting up, shutting down or out of connections
    outages,    \* how often it has stopped or begun to refuse
    refused,    \* it has been refusing at some time
    database,   \* who created the database, if it is there: a set of at most one
    schema,     \* who created the schema
    pc,         \* where each container is
    retries,    \* the attempts that remain to it
    cut         \* the containers whose connection PostgreSQL has cut

postgres == <<db, outages, refused, database, schema>>
vars == <<postgres, pc, retries, cut>>

Init ==
    /\ db \in {"up", "refusing", "down"}
    /\ outages = 0
    /\ refused = (db = "refusing")
    /\ database \in {{}, {Nobody}}
    /\ schema \in {{}, database}
    /\ pc = [c \in Container |-> "connect"]
    /\ retries = [c \in Container |-> Retries]
    /\ cut = {}
------------------------------------------------------------------------------
Goto(c, next) == pc' = [pc EXCEPT ![c] = next]

\* A mutant: one attempt too many.
WaitOnceMore(c) ==
    /\ retries' = [retries EXCEPT ![c] = @ - 1]
    /\ Goto(c, IF retries[c] = 0 THEN "exit 1" ELSE "connect")

\* except OSError: one attempt less, and exit(1) after the last.
WaitOrGiveUp(c) ==
    /\ retries' = [retries EXCEPT ![c] = @ - 1]
    /\ Goto(c, IF retries[c] = 1 THEN "exit 1" ELSE "connect")

\* A mutant: a missing database is waited for.
ConnectAndWait(c) ==
    /\ pc[c] = "connect"
    /\ \/ db = "up" /\ database # {} /\ Goto(c, "check schema") /\ UNCHANGED retries
       \/ db = "refusing" /\ Goto(c, "crashed") /\ UNCHANGED retries
       \/ db = "down" /\ WaitOrGiveUp(c)
       \/ db = "up" /\ database = {} /\ WaitOrGiveUp(c)
    /\ UNCHANGED <<postgres, cut>>

\* get_connection(db_name): connected, or InvalidCatalogNameError, or an OSError.
\* A PostgreSQL that answers and refuses raises CannotConnectNowError or
\* TooManyConnectionsError, which are neither: nothing catches them.
Connect(c) ==
    /\ pc[c] = "connect"
    /\ \/ db = "up" /\ database # {} /\ Goto(c, "check schema") /\ UNCHANGED retries
       \/ db = "up" /\ database = {} /\ Goto(c, "connect default") /\ UNCHANGED retries
       \/ db = "refusing" /\ Goto(c, "crashed") /\ UNCHANGED retries
       \/ db = "down" /\ WaitOrGiveUp(c)
    /\ cut' = cut \ {c}
    /\ UNCHANGED postgres

\* A mutant: the schema is created without a look at what is there.
CheckSchemaNever(c) ==
    /\ pc[c] = "check schema" /\ c \notin cut
    /\ Goto(c, "create schema")
    /\ UNCHANGED <<postgres, retries, cut>>

\* A mutant: the test for the missing schema is the wrong way round.
CheckSchemaNegated(c) ==
    /\ pc[c] = "check schema" /\ c \notin cut
    /\ Goto(c, IF schema = {} THEN "exit 0" ELSE "create schema")
    /\ UNCHANGED <<postgres, retries, cut>>

CheckSchema(c) ==
    /\ pc[c] = "check schema" /\ c \notin cut
    /\ Goto(c, IF schema = {} THEN "create schema" ELSE "exit 0")
    /\ UNCHANGED <<postgres, retries, cut>>

\* CREATE SCHEMA has no IF NOT EXISTS, and nothing catches its error.
CreateSchema(c) ==
    /\ pc[c] = "create schema" /\ c \notin cut
    /\ IF schema = {}
       THEN schema' = {c} /\ Goto(c, "exit 0")
       ELSE Goto(c, "crashed") /\ UNCHANGED schema
    /\ UNCHANGED <<db, outages, refused, database, retries, cut>>

\* get_connection() inside the except clause: nothing catches what it raises.
ConnectDefault(c) ==
    /\ pc[c] = "connect default"
    /\ Goto(c, IF db = "up" THEN "check database" ELSE "crashed")
    /\ UNCHANGED <<postgres, retries, cut>>

CheckDatabase(c) ==
    /\ pc[c] = "check database" /\ c \notin cut
    /\ Goto(c, IF database = {} THEN "create database" ELSE "connect")
    /\ UNCHANGED <<postgres, retries, cut>>

\* CREATE DATABASE fails in the same way; then the loop starts again.
CreateDatabase(c) ==
    /\ pc[c] = "create database" /\ c \notin cut
    /\ IF database = {}
       THEN database' = {c} /\ Goto(c, "connect")
       ELSE Goto(c, "crashed") /\ UNCHANGED database
    /\ UNCHANGED <<db, outages, refused, schema, retries, cut>>

\* A query over a cut connection: asyncpg raises its own exception, or lets a
\* ConnectionResetError, an OSError, through; inside the except clause either
\* ends the program.
QueryFails(c) ==
    /\ c \in cut
    /\ \/ Goto(c, "crashed") /\ UNCHANGED retries
       \/ pc[c] \in {"check schema", "create schema"} /\ WaitOrGiveUp(c)
    /\ cut' = cut \ {c}
    /\ UNCHANGED postgres

Step(c) ==
    \/ Connect(c) \/ CheckSchema(c) \/ CreateSchema(c)
    \/ ConnectDefault(c) \/ CheckDatabase(c) \/ CreateDatabase(c)
    \/ QueryFails(c)
------------------------------------------------------------------------------
\* docker starts a container again whose entrypoint has failed.
Restart(c) ==
    /\ pc[c] \in {"crashed", "exit 1"}
    /\ Goto(c, "connect")
    /\ retries' = [retries EXCEPT ![c] = Retries]
    /\ UNCHANGED <<postgres, cut>>

\* What the entrypoint runs after prestart has failed, or the server has ended:
\* docker runs the whole of it again.
Rerun(c) ==
    /\ pc[c] = "exit 0"
    /\ Goto(c, "connect")
    /\ retries' = [retries EXCEPT ![c] = Retries]
    /\ UNCHANGED <<postgres, cut>>

Connected == {c \in Container :
                pc[c] \in {"check schema", "create schema", "check database", "create database"}}

PostgresStops ==
    /\ db # "down" /\ outages < MaxOutages
    /\ db' = "down"
    /\ outages' = outages + 1
    /\ cut' = cut \cup Connected
    /\ UNCHANGED <<refused, database, schema, pc, retries>>

\* No connection is free: those that are open stay.
PostgresRefuses ==
    /\ db = "up" /\ outages < MaxOutages
    /\ db' = "refusing" /\ refused' = TRUE
    /\ outages' = outages + 1
    /\ UNCHANGED <<database, schema, pc, retries, cut>>

\* It can be reached before it accepts connections.
PostgresComesUp ==
    /\ db = "down"
    /\ db' = "refusing" /\ refused' = TRUE
    /\ UNCHANGED <<outages, database, schema, pc, retries, cut>>

PostgresStarts ==
    /\ db # "up"
    /\ db' = "up"
    /\ UNCHANGED <<outages, refused, database, schema, pc, retries, cut>>

Next ==
    \/ PostgresStops \/ PostgresRefuses \/ PostgresComesUp \/ PostgresStarts
    \/ \E c \in Container : Step(c) \/ Restart(c) \/ Rerun(c)

Spec == Init /\ [][Next]_vars

\* PostgreSQL comes back, and docker restarts the containers, which are those of
\* docker-compose.yml here; the operating system runs them and reports the
\* connections that are gone.
FairSpec ==
    /\ Spec
    /\ WF_vars(PostgresStarts)
    /\ \A c \in Container : WF_vars(Step(c)) /\ WF_vars(Restart(c))
------------------------------------------------------------------------------
\* Every variable has its type; only an open connection is cut.
TypeOK ==
    /\ db \in {"up", "refusing", "down"} /\ outages \in 0..MaxOutages /\ refused \in BOOLEAN
    /\ \A made \in {database, schema} :
          made \subseteq Container \cup {Nobody} /\ Cardinality(made) <= 1
    /\ pc \in [Container -> {"connect", "check schema", "create schema", "connect default",
                             "check database", "create database", "exit 0", "exit 1", "crashed"}]
    /\ retries \in [Container -> 0..Retries]
    /\ cut \subseteq Connected

\* The migrations and the server only start over a schema that is there, in a
\* database that is there.
SchemaBeforeService ==
    \A c \in Container : pc[c] = "exit 0" => schema # {} /\ database # {}

\* An unhandled exception has a cause outside the container: PostgreSQL went
\* away, or could be reached and refused, or another container created the same
\* thing between the look and the CREATE.  A PostgreSQL that cannot be reached
\* yet is waited for, and what is missing is created.
CrashHasCause ==
    \A c \in Container :
        pc[c] = "crashed" =>
            outages > 0 \/ refused \/ \E other \in Container \ {c} : other \in database \cup schema

\* However the containers race, each of them is ready in the end.
EveryContainerStarts == \A c \in Container : <>(pc[c] = "exit 0")
===============================================================================
