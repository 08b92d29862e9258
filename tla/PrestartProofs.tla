---------------------------- MODULE PrestartProofs ----------------------------
(***************************************************************************)
(* Prestart for any number of containers, retries and outages.             *)
(***************************************************************************)
EXTENDS Prestart, FiniteSetTheorems, TLAPS

\* The schema lies in the database, neither is ever dropped, and each place in
\* main() is reached with what it relies on.
PlaceInv ==
    /\ pc \in [Container -> {"connect", "check schema", "create schema", "connect default",
                             "check database", "create database", "exit 0", "exit 1", "crashed"}]
    /\ schema # {} => database # {}
    /\ \A c \in Container :
          /\ pc[c] \in {"check schema", "create schema", "exit 0"} => database # {}
          /\ pc[c] = "exit 0" => schema # {}

LEMMA PlaceInit == Init => PlaceInv
  BY DEF Init, PlaceInv

LEMMA PlaceStep == PlaceInv /\ [Next]_vars => PlaceInv'
  <1> SUFFICES ASSUME PlaceInv, [Next]_vars PROVE PlaceInv'
    OBVIOUS
  <1> USE DEF PlaceInv, Goto
  <1>1. CASE PostgresStops \/ PostgresRefuses \/ PostgresComesUp \/ PostgresStarts
    BY <1>1 DEF PostgresStops, PostgresRefuses, PostgresComesUp, PostgresStarts
  <1>2. ASSUME NEW c \in Container, Restart(c) \/ Rerun(c) PROVE PlaceInv'
    BY <1>2 DEF Restart, Rerun, postgres
  <1>3. ASSUME NEW c \in Container, Connect(c) PROVE PlaceInv'
    BY <1>3 DEF Connect, WaitOrGiveUp, postgres
  <1>4. ASSUME NEW c \in Container, CheckSchema(c) PROVE PlaceInv'
    BY <1>4 DEF CheckSchema, postgres
  <1>5. ASSUME NEW c \in Container, CreateSchema(c) PROVE PlaceInv'
    BY <1>5 DEF CreateSchema
  <1>6. ASSUME NEW c \in Container, ConnectDefault(c) PROVE PlaceInv'
    BY <1>6 DEF ConnectDefault, postgres
  <1>7. ASSUME NEW c \in Container, CheckDatabase(c) PROVE PlaceInv'
    BY <1>7 DEF CheckDatabase, postgres
  <1>8. ASSUME NEW c \in Container, CreateDatabase(c) PROVE PlaceInv'
    BY <1>8 DEF CreateDatabase
  <1>9. ASSUME NEW c \in Container, QueryFails(c) PROVE PlaceInv'
    BY <1>9 DEF QueryFails, WaitOrGiveUp, postgres
  <1>10. CASE UNCHANGED vars
    BY <1>10 DEF vars, postgres
  <1> QED
    BY <1>1, <1>2, <1>3, <1>4, <1>5, <1>6, <1>7, <1>8, <1>9, <1>10 DEF Next, Step

\* However many containers start and however often PostgreSQL goes away, the
\* entrypoint reaches the migrations only when database and schema are there.
THEOREM ServiceFindsItsSchema == Spec => []SchemaBeforeService
  <1>1. PlaceInv => SchemaBeforeService
    BY DEF PlaceInv, SchemaBeforeService
  <1> QED
    BY <1>1, PlaceInit, PlaceStep, PTL DEF Spec

------------------------------------------------------------------------------
\* What has to be remembered of the look before the CREATE: the thing was not
\* there, and if it is there now then another container has made it.
MadeByOther(c, made) == \E other \in Container \ {c} : other \in made

\* PostgreSQL has not been there all along since it could first be reached.
Troubled == outages > 0 \/ refused

Cause(c) ==
    /\ pc[c] = "connect default" => db = "up" \/ Troubled
    /\ pc[c] = "create schema" => schema = {} \/ MadeByOther(c, schema)
    /\ pc[c] = "create database" => database = {} \/ MadeByOther(c, database)
    /\ pc[c] = "crashed" => Troubled \/ MadeByOther(c, schema) \/ MadeByOther(c, database)

CauseInv ==
    /\ outages \in Nat /\ db \in {"up", "refusing", "down"}
    /\ db = "refusing" => refused
    /\ cut # {} => outages > 0
    /\ \A c \in Container : Cause(c)

LEMMA CauseInit == Init => CauseInv
  <1> SUFFICES ASSUME Init PROVE CauseInv
    OBVIOUS
  <1>1. db = "refusing" => refused
    BY Zenon DEF Init
  <1>2. /\ outages = 0 /\ db \in {"up", "refusing", "down"} /\ cut = {}
        /\ \A c \in Container : pc[c] = "connect"
    BY DEF Init
  <1> QED BY <1>1, <1>2 DEF CauseInv, Cause

LEMMA CauseStep == PlaceInv /\ CauseInv /\ [Next]_vars => CauseInv'
  <1> SUFFICES ASSUME PlaceInv, CauseInv, [Next]_vars PROVE CauseInv'
    OBVIOUS
  <1> USE DEF Goto
  <1>0. /\ pc \in [Container -> {"connect", "check schema", "create schema", "connect default",
                                 "check database", "create database", "exit 0", "exit 1", "crashed"}]
        /\ outages \in Nat /\ db \in {"up", "refusing", "down"}
    BY DEF PlaceInv, CauseInv
  <1>1. /\ cut # {} => outages > 0
        /\ db = "refusing" => refused
        /\ \A c \in Container : Cause(c)
    BY DEF CauseInv
  \* A container that stays where it is keeps its cause when nothing is created.
  <1>2. ASSUME NEW d \in Container, pc'[d] = pc[d], UNCHANGED <<db, outages, refused, database, schema>>
        PROVE  Cause(d)'
    <2>1. Cause(d)
      BY <1>1
    <2> QED BY <1>2, <2>1 DEF Cause, MadeByOther, Troubled
  \* Neither does one that moves to a place that relies on nothing.
  <1>3. ASSUME NEW d, pc'[d] \in {"connect", "check schema", "check database", "exit 0", "exit 1"}
        PROVE  Cause(d)'
    BY <1>3 DEF Cause
  \* Trouble that begins, or is over, takes nobody's cause away.
  <1>4. ASSUME UNCHANGED <<database, schema, pc>>, Troubled' \/ (Troubled' = Troubled /\ db' = "up")
        PROVE  \A d \in Container : Cause(d)'
    <2> TAKE d \in Container
    <2>1. Cause(d)
      BY <1>1
    <2> QED BY <1>4, <2>1 DEF Cause, MadeByOther, Troubled
  <1>5. CASE PostgresStops \/ PostgresRefuses \/ PostgresComesUp \/ PostgresStarts
    <2>1. CASE PostgresStops
      <3>1. outages' = outages + 1 /\ db' = "down" /\ UNCHANGED <<database, schema, pc>>
        BY <2>1 DEF PostgresStops
      <3>2. outages \in Nat
        BY <1>0
      <3>3. outages' > 0 /\ outages' \in Nat
        BY <3>1, <3>2
      <3> QED BY <1>4, <3>1, <3>3 DEF CauseInv, Troubled
    <2>2. CASE PostgresRefuses
      <3>1. outages' = outages + 1 /\ db' = "refusing" /\ refused' /\ UNCHANGED <<database, schema, pc, cut>>
        BY <2>2 DEF PostgresRefuses
      <3>2. outages \in Nat
        BY <1>0
      <3>3. outages' > 0 /\ outages' \in Nat
        BY <3>1, <3>2
      <3> QED BY <1>4, <3>1, <3>3 DEF CauseInv, Troubled
    <2>3. CASE PostgresComesUp
      <3>1. db' = "refusing" /\ refused' /\ UNCHANGED <<outages, database, schema, pc, cut>>
        BY <2>3 DEF PostgresComesUp
      <3> QED BY <1>0, <1>1, <1>4, <3>1 DEF CauseInv, Troubled
    <2>4. CASE PostgresStarts
      <3>1. db' = "up" /\ UNCHANGED <<outages, refused, database, schema, pc, cut>>
        BY <2>4 DEF PostgresStarts
      <3> QED BY <1>0, <1>1, <1>4, <3>1 DEF CauseInv, Troubled
    <2> QED BY <1>5, <2>1, <2>2, <2>3, <2>4
  <1>6. ASSUME NEW c \in Container, UNCHANGED <<db, outages, refused, database, schema>>, Cause(c)',
               cut' = cut \/ cut' = cut \ {c}, \A d \in Container \ {c} : pc'[d] = pc[d]
        PROVE  CauseInv'
    <2>1. ASSUME NEW d \in Container PROVE Cause(d)'
      <3>1. CASE d = c
        BY <1>6, <3>1
      <3>2. CASE d # c
        BY <1>2, <1>6, <3>2
      <3> QED BY <3>1, <3>2
    <2>2. cut' # {} => cut # {}
      BY <1>6
    <2> QED BY <1>0, <1>1, <1>6, <2>1, <2>2 DEF CauseInv
  <1>7. ASSUME NEW c \in Container, Restart(c) \/ Rerun(c) PROVE CauseInv'
    <2>1. pc' = [pc EXCEPT ![c] = "connect"] /\ UNCHANGED <<db, outages, refused, database, schema, cut>>
      BY <1>7 DEF Restart, Rerun, postgres
    <2>2. Cause(c)'
      <3>1. pc'[c] = "connect"
        BY <1>0, <2>1
      <3> QED BY <3>1 DEF Cause
    <2> QED BY <1>0, <1>6, <2>1, <2>2
  <1>8. ASSUME NEW c \in Container, Connect(c) PROVE CauseInv'
    <2>1. /\ UNCHANGED <<db, outages, refused, database, schema>> /\ cut' = cut \ {c}
          /\ \E next \in {"check schema", "connect default", "exit 1", "connect", "crashed"} :
                /\ pc' = [pc EXCEPT ![c] = next]
                /\ next = "connect default" => db = "up"
                /\ next = "crashed" => db = "refusing"
      <3>1. CASE db = "up"
        BY <1>8, <3>1 DEF Connect, postgres
      <3>2. CASE db = "refusing"
        BY <1>8, <3>2 DEF Connect, postgres
      <3>3. CASE db = "down"
        BY <1>8, <3>3 DEF Connect, WaitOrGiveUp, postgres
      <3> QED BY <1>0, <3>1, <3>2, <3>3
    <2>2. Cause(c)'
      BY <1>0, <1>1, <2>1 DEF Cause, Troubled
    <2> QED BY <1>0, <1>6, <2>1, <2>2
  <1>9. ASSUME NEW c \in Container, CheckSchema(c) PROVE CauseInv'
    <2>1. /\ UNCHANGED <<db, outages, refused, database, schema, cut>>
          /\ pc' = [pc EXCEPT ![c] = IF schema = {} THEN "create schema" ELSE "exit 0"]
      BY <1>9 DEF CheckSchema, postgres
    <2>2. Cause(c)'
      BY <1>0, <2>1 DEF Cause
    <2> QED BY <1>0, <1>6, <2>1, <2>2
  <1>10. ASSUME NEW c \in Container, CheckDatabase(c) PROVE CauseInv'
    <2>1. /\ UNCHANGED <<db, outages, refused, database, schema, cut>>
          /\ pc' = [pc EXCEPT ![c] = IF database = {} THEN "create database" ELSE "connect"]
      BY <1>10 DEF CheckDatabase, postgres
    <2>2. Cause(c)'
      BY <1>0, <2>1 DEF Cause
    <2> QED BY <1>0, <1>6, <2>1, <2>2
  <1>11. ASSUME NEW c \in Container, ConnectDefault(c) PROVE CauseInv'
    <2>1. /\ UNCHANGED <<db, outages, refused, database, schema, cut>> /\ pc[c] = "connect default"
          /\ \E next \in {"check database", "crashed"} :
                pc' = [pc EXCEPT ![c] = next] /\ (next = "crashed" => db # "up")
      <3>1. CASE db = "up"
        BY <1>11, <3>1 DEF ConnectDefault, postgres
      <3>2. CASE db # "up"
        BY <1>11, <3>2 DEF ConnectDefault, postgres
      <3> QED BY <3>1, <3>2
    <2>2. db = "up" \/ Troubled
      BY <1>1, <2>1 DEF Cause
    <2>3. Cause(c)'
      BY <1>0, <2>1, <2>2 DEF Cause, Troubled
    <2> QED BY <1>0, <1>6, <2>1, <2>3
  <1>12. ASSUME NEW c \in Container, CreateSchema(c) PROVE CauseInv'
    <2>1. UNCHANGED <<db, outages, refused, database, cut>> /\ pc[c] = "create schema" /\ Cause(c)
      BY <1>1, <1>12 DEF CreateSchema
    <2>2. CASE schema = {}
      <3>1. schema' = {c} /\ pc' = [pc EXCEPT ![c] = "exit 0"]
        BY <1>12, <2>2 DEF CreateSchema
      <3>2. ASSUME NEW d \in Container PROVE Cause(d)'
        <4>1. CASE d = c
          <5>1. pc'[d] = "exit 0"
            BY <1>0, <3>1, <4>1
          <5> QED BY <5>1 DEF Cause
        <4>2. CASE d # c
          <5>1. Cause(d) /\ pc'[d] = pc[d]
            BY <1>0, <1>1, <3>1, <4>2
          <5> QED BY <2>1, <2>2, <3>1, <4>2, <5>1 DEF Cause, MadeByOther, Troubled
        <4> QED BY <4>1, <4>2
      <3> QED BY <1>0, <1>1, <2>1, <3>2 DEF CauseInv
    <2>3. CASE schema # {}
      <3>1. schema' = schema /\ pc' = [pc EXCEPT ![c] = "crashed"]
        BY <1>12, <2>3 DEF CreateSchema
      <3>2. Cause(c)'
        BY <1>0, <2>1, <2>3, <3>1 DEF Cause, MadeByOther, Troubled
      <3> QED BY <1>0, <1>6, <2>1, <3>1, <3>2
    <2> QED BY <2>2, <2>3
  <1>13. ASSUME NEW c \in Container, CreateDatabase(c) PROVE CauseInv'
    <2>1. UNCHANGED <<db, outages, refused, schema, cut>> /\ pc[c] = "create database" /\ Cause(c)
      BY <1>1, <1>13 DEF CreateDatabase
    <2>2. CASE database = {}
      <3>1. database' = {c} /\ pc' = [pc EXCEPT ![c] = "connect"]
        BY <1>13, <2>2 DEF CreateDatabase
      <3>2. ASSUME NEW d \in Container PROVE Cause(d)'
        <4>1. CASE d = c
          <5>1. pc'[d] = "connect"
            BY <1>0, <3>1, <4>1
          <5> QED BY <5>1 DEF Cause
        <4>2. CASE d # c
          <5>1. Cause(d) /\ pc'[d] = pc[d]
            BY <1>0, <1>1, <3>1, <4>2
          <5> QED BY <2>1, <2>2, <3>1, <4>2, <5>1 DEF Cause, MadeByOther, Troubled
        <4> QED BY <4>1, <4>2
      <3> QED BY <1>0, <1>1, <2>1, <3>2 DEF CauseInv
    <2>3. CASE database # {}
      <3>1. database' = database /\ pc' = [pc EXCEPT ![c] = "crashed"]
        BY <1>13, <2>3 DEF CreateDatabase
      <3>2. Cause(c)'
        BY <1>0, <2>1, <2>3, <3>1 DEF Cause, MadeByOther, Troubled
      <3> QED BY <1>0, <1>6, <2>1, <3>1, <3>2
    <2> QED BY <2>2, <2>3
  <1>14. ASSUME NEW c \in Container, QueryFails(c) PROVE CauseInv'
    <2>1. /\ UNCHANGED <<db, outages, refused, database, schema>> /\ cut' = cut \ {c} /\ outages > 0
          /\ \E next \in {"crashed", "exit 1", "connect"} : pc' = [pc EXCEPT ![c] = next]
      BY <1>1, <1>14 DEF QueryFails, WaitOrGiveUp, postgres
    <2>2. Cause(c)'
      BY <1>0, <2>1 DEF Cause, Troubled
    <2> QED BY <1>0, <1>6, <2>1, <2>2
  <1>15. CASE UNCHANGED vars
    <2>1. UNCHANGED <<db, outages, refused, database, schema, pc, cut>>
      BY <1>15 DEF vars, postgres
    <2>2. \A d \in Container : Cause(d)'
      BY <1>2, <2>1
    <2> QED BY <1>0, <1>1, <2>1, <2>2 DEF CauseInv
  <1> QED
    BY <1>5, <1>7, <1>8, <1>9, <1>10, <1>11, <1>12, <1>13, <1>14, <1>15 DEF Next, Step

\* Left alone, a container never crashes, not even while PostgreSQL cannot be
\* reached yet: only an outage, a PostgreSQL that refuses, or another container
\* that was faster between its look and its CREATE makes it.
THEOREM CrashesHaveCauses == Spec => []CrashHasCause
  <1>1. CauseInv => CrashHasCause
    BY DEF CauseInv, Cause, MadeByOther, Troubled, CrashHasCause
  <1> QED
    BY <1>1, PlaceInit, PlaceStep, CauseInit, CauseStep, PTL DEF Spec
------------------------------------------------------------------------------
\* Types.  A container that has not given up has an attempt left.
Made(made) == made = {} \/ \E c \in Container \cup {Nobody} : made = {c}

PrestartTypeInv ==
    /\ db \in {"up", "refusing", "down"} /\ outages \in 0..MaxOutages /\ refused \in BOOLEAN
    /\ Made(database) /\ Made(schema)
    /\ retries \in [Container -> 0..Retries]
    /\ \A c \in Container : pc[c] # "exit 1" => retries[c] > 0
    /\ cut \subseteq Connected

LEMMA PrestartTypeStep == PlaceInv /\ PrestartTypeInv /\ [Next]_vars => PrestartTypeInv'
  <1> SUFFICES ASSUME PlaceInv, PrestartTypeInv, [Next]_vars PROVE PrestartTypeInv'
    OBVIOUS
  <1> USE DEF Goto
  <1>0. pc \in [Container -> {"connect", "check schema", "create schema", "connect default",
                              "check database", "create database", "exit 0", "exit 1", "crashed"}]
    BY DEF PlaceInv
  <1>t. /\ db \in {"up", "refusing", "down"} /\ outages \in 0..MaxOutages /\ refused \in BOOLEAN
        /\ Made(database) /\ Made(schema)
        /\ retries \in [Container -> 0..Retries]
        /\ \A c \in Container : pc[c] # "exit 1" => retries[c] > 0
        /\ cut \subseteq Connected
    BY DEF PrestartTypeInv
  <1>1. CASE PostgresStops
    <2>1. /\ outages < MaxOutages /\ outages' = outages + 1
          /\ db' = "down" /\ cut' = cut \cup Connected /\ UNCHANGED <<refused, database, schema, pc, retries>>
      BY <1>1 DEF PostgresStops
    <2>2. outages' \in 0..MaxOutages
      <3>1. outages \in 0..MaxOutages
        BY <1>t
      <3> QED BY <2>1, <3>1, PrestartAssumption
    <2>3. Connected' = Connected
      BY <2>1 DEF Connected
    <2>4. cut' \subseteq Connected'
      BY <1>t, <2>1, <2>3
    <2>5. Made(database)' /\ Made(schema)'
      BY <1>t, <2>1 DEF Made
    <2>6. /\ retries' \in [Container -> 0..Retries]
          /\ \A c \in Container : pc'[c] # "exit 1" => retries'[c] > 0
      BY <1>t, <2>1
    <2> QED BY <2>1, <2>2, <2>4, <2>5, <2>6 DEF PrestartTypeInv
  <1>2. CASE PostgresRefuses \/ PostgresComesUp \/ PostgresStarts
    <2>1. /\ db' \in {"up", "refusing"} /\ refused' \in BOOLEAN
          /\ outages' = outages \/ (outages < MaxOutages /\ outages' = outages + 1)
          /\ UNCHANGED <<database, schema, pc, retries, cut>>
      BY <1>2, <1>t DEF PostgresRefuses, PostgresComesUp, PostgresStarts
    <2>2. outages' \in 0..MaxOutages
      <3>1. outages \in 0..MaxOutages
        BY <1>t
      <3> QED BY <2>1, <3>1, PrestartAssumption
    <2> QED BY <1>t, <2>1, <2>2 DEF PrestartTypeInv, Made, Connected
  \* What is left for a step of one container: its own place, its attempts, and
  \* that it does not leave a cut connection behind.
  <1>3. ASSUME NEW c \in Container, NEW next, UNCHANGED <<db, outages, refused>>,
               Made(database)', Made(schema)', pc' = [pc EXCEPT ![c] = next],
               NEW left \in 0..Retries, retries' = [retries EXCEPT ![c] = left],
               next # "exit 1" => left > 0,
               cut' = cut \/ cut' = cut \ {c}, c \notin cut'
        PROVE  PrestartTypeInv'
    <2>1. retries' \in [Container -> 0..Retries]
      BY <1>3, <1>t
    <2>2. ASSUME NEW d \in Container, pc'[d] # "exit 1" PROVE retries'[d] > 0
      <3>1. CASE d = c
        BY <1>0, <1>t, <1>3, <2>2, <3>1
      <3>2. CASE d # c
        <4>1. pc'[d] = pc[d] /\ retries'[d] = retries[d]
          BY <1>0, <1>t, <1>3, <3>2
        <4> QED BY <1>t, <2>2, <4>1
      <3> QED BY <3>1, <3>2
    <2>3. ASSUME NEW d \in cut' PROVE d \in Connected'
      <3>1. d \in cut /\ d # c /\ d \in Connected
        BY <1>3, <1>t, <2>3
      <3>2. d \in Container /\ pc'[d] = pc[d]
        BY <1>0, <1>3, <3>1 DEF Connected
      <3> QED BY <3>1, <3>2 DEF Connected
    <2>4. db' \in {"up", "refusing", "down"} /\ outages' \in 0..MaxOutages /\ refused' \in BOOLEAN
      BY <1>3, <1>t
    <2> QED BY <1>3, <2>1, <2>2, <2>3, <2>4 DEF PrestartTypeInv
  \* Most steps leave the attempts alone and start from a place that has one.
  <1>4. ASSUME NEW c \in Container, NEW next, UNCHANGED <<db, outages, refused, retries>>,
               Made(database)', Made(schema)', pc' = [pc EXCEPT ![c] = next],
               pc[c] # "exit 1",
               cut' = cut \/ cut' = cut \ {c}, c \notin cut'
        PROVE  PrestartTypeInv'
    <2>1. retries[c] \in 0..Retries /\ retries[c] > 0
      BY <1>4, <1>t
    <2>2. retries' = [retries EXCEPT ![c] = retries[c]]
      BY <1>4, <1>t
    <2> QED BY <1>3, <1>4, <2>1, <2>2
  <1>5. ASSUME NEW c \in Container, UNCHANGED postgres, WaitOrGiveUp(c), pc[c] # "exit 1",
               cut' = cut \ {c}
        PROVE  PrestartTypeInv'
    <2>1. UNCHANGED <<db, outages, refused>> /\ Made(database)' /\ Made(schema)'
      BY <1>5, <1>t DEF postgres, Made
    <2>2. retries[c] \in 0..Retries /\ retries[c] > 0
      BY <1>5, <1>t
    <2>3. retries' = [retries EXCEPT ![c] = retries[c] - 1]
      BY <1>5 DEF WaitOrGiveUp
    <2>4. PICK next : /\ next = IF retries[c] = 1 THEN "exit 1" ELSE "connect"
                      /\ pc' = [pc EXCEPT ![c] = next]
      BY <1>5 DEF WaitOrGiveUp
    <2>5. retries[c] - 1 \in 0..Retries
      <3>1. ASSUME NEW n \in 0..Retries, n > 0 PROVE n - 1 \in 0..Retries
        BY <3>1, PrestartAssumption
      <3> QED BY <2>2, <3>1
    <2>6. next # "exit 1" => retries[c] - 1 > 0
      <3>1. next # "exit 1" => retries[c] # 1
        BY <2>4
      <3>2. ASSUME NEW n \in 0..Retries, n > 0, n # 1 PROVE n - 1 > 0
        BY <3>2, PrestartAssumption
      <3> QED BY <2>2, <3>1, <3>2
    <2>7. c \notin cut'
      BY <1>5
    <2> QED BY <1>3, <1>5, <2>1, <2>3, <2>4, <2>5, <2>6, <2>7
  <1>6. ASSUME NEW c \in Container, Restart(c) \/ Rerun(c) PROVE PrestartTypeInv'
    <2>1. c \notin cut
      BY <1>6, <1>t DEF Restart, Rerun, Connected
    <2>2. UNCHANGED <<db, outages, refused, cut>> /\ Made(database)' /\ Made(schema)'
      BY <1>6, <1>t DEF Restart, Rerun, postgres, Made
    <2>3. /\ pc' = [pc EXCEPT ![c] = "connect"]
          /\ retries' = [retries EXCEPT ![c] = Retries]
      BY <1>6 DEF Restart, Rerun
    <2>4. Retries \in 0..Retries /\ Retries > 0
      BY PrestartAssumption
    <2> QED BY <1>3, <2>1, <2>2, <2>3, <2>4
  <1>7. ASSUME NEW c \in Container, Connect(c) PROVE PrestartTypeInv'
    <2>1. UNCHANGED postgres /\ cut' = cut \ {c} /\ pc[c] = "connect"
      BY <1>7 DEF Connect
    <2>2. CASE WaitOrGiveUp(c)
      BY <1>5, <2>1, <2>2
    <2>3. CASE ~WaitOrGiveUp(c)
      <3>1. PICK next : pc' = [pc EXCEPT ![c] = next] /\ UNCHANGED retries
        BY <1>7, <2>3 DEF Connect
      <3>2. UNCHANGED <<db, outages, refused>> /\ Made(database)' /\ Made(schema)'
        BY <1>t, <2>1 DEF postgres, Made
      <3> QED BY <1>4, <2>1, <3>1, <3>2
    <2> QED BY <2>2, <2>3
  <1>8. ASSUME NEW c \in Container, CheckSchema(c) \/ CheckDatabase(c) PROVE PrestartTypeInv'
    <2>1. UNCHANGED <<postgres, retries, cut>> /\ c \notin cut /\ pc[c] # "exit 1"
      BY <1>8 DEF CheckSchema, CheckDatabase
    <2>2. PICK next : pc' = [pc EXCEPT ![c] = next]
      BY <1>8 DEF CheckSchema, CheckDatabase
    <2>3. UNCHANGED <<db, outages, refused>> /\ Made(database)' /\ Made(schema)'
      BY <1>t, <2>1 DEF postgres, Made
    <2> QED BY <1>4, <2>1, <2>2, <2>3
  <1>9. ASSUME NEW c \in Container, ConnectDefault(c) PROVE PrestartTypeInv'
    <2>1. UNCHANGED <<postgres, retries, cut>> /\ pc[c] = "connect default"
      BY <1>9 DEF ConnectDefault
    <2>2. PICK next : pc' = [pc EXCEPT ![c] = next]
      BY <1>9 DEF ConnectDefault
    <2>3. UNCHANGED <<db, outages, refused>> /\ Made(database)' /\ Made(schema)'
      BY <1>t, <2>1 DEF postgres, Made
    <2>4. c \notin cut'
      BY <1>t, <2>1 DEF Connected
    <2> QED BY <1>4, <2>1, <2>2, <2>3, <2>4
  <1>10. ASSUME NEW c \in Container, CreateSchema(c) \/ CreateDatabase(c) PROVE PrestartTypeInv'
    <2>1. UNCHANGED <<db, outages, refused, retries, cut>> /\ c \notin cut /\ pc[c] # "exit 1"
      BY <1>10 DEF CreateSchema, CreateDatabase
    <2>2. PICK next : pc' = [pc EXCEPT ![c] = next]
      BY <1>10 DEF CreateSchema, CreateDatabase
    <2>3. Made(database)' /\ Made(schema)'
      BY <1>10, <1>t DEF CreateSchema, CreateDatabase, Made
    <2> QED BY <1>4, <2>1, <2>2, <2>3
  <1>11. ASSUME NEW c \in Container, QueryFails(c) PROVE PrestartTypeInv'
    <2>1. UNCHANGED postgres /\ cut' = cut \ {c} /\ pc[c] # "exit 1"
      BY <1>11, <1>t DEF QueryFails, Connected
    <2>2. CASE WaitOrGiveUp(c)
      BY <1>5, <2>1, <2>2
    <2>3. CASE ~WaitOrGiveUp(c)
      <3>1. pc' = [pc EXCEPT ![c] = "crashed"] /\ UNCHANGED retries
        BY <1>11, <2>3 DEF QueryFails
      <3>2. UNCHANGED <<db, outages, refused>> /\ Made(database)' /\ Made(schema)'
        BY <1>t, <2>1 DEF postgres, Made
      <3> QED BY <1>4, <2>1, <3>1, <3>2
    <2> QED BY <2>2, <2>3
  <1>12. CASE UNCHANGED vars
    BY <1>t, <1>12 DEF vars, postgres, PrestartTypeInv, Made, Connected
  <1> QED
    BY <1>1, <1>2, <1>6, <1>7, <1>8, <1>9, <1>10, <1>11, <1>12 DEF Next, Step

\* Types, one creator at most, the bound on the attempts, and that only an open
\* connection is ever cut.
THEOREM PrestartTypes == Spec => []TypeOK
  <1>1. Init => PrestartTypeInv
    BY PrestartAssumption DEF Init, PrestartTypeInv, Made
  <1>2. PlaceInv /\ PrestartTypeInv => TypeOK
    <2> SUFFICES ASSUME PlaceInv, PrestartTypeInv PROVE TypeOK
      OBVIOUS
    <2>1. ASSUME NEW made, Made(made)
          PROVE  made \subseteq Container \cup {Nobody} /\ Cardinality(made) <= 1
      <3>1. CASE made = {}
        <4>1. Cardinality({}) = 0
          BY FS_EmptySet
        <4> QED BY <3>1, <4>1
      <3>2. CASE made # {}
        <4>1. PICK c \in Container \cup {Nobody} : made = {c}
          BY <2>1, <3>2 DEF Made
        <4>2. Cardinality({c}) = 1
          BY FS_Singleton
        <4> QED BY <4>1, <4>2
      <3> QED BY <3>1, <3>2
    <2> QED BY <2>1 DEF PlaceInv, PrestartTypeInv, TypeOK
  <1> QED
    BY <1>1, <1>2, PlaceInit, PlaceStep, PrestartTypeStep, PTL DEF Spec
===============================================================================
