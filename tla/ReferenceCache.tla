---------------------------- MODULE ReferenceCache ----------------------------
(***************************************************************************)
(* GET /sizes, /colors, /brands and /categories: each is served from one   *)
(* key of Redis and, when the key is not there, from its table, whose rows *)
(* are then put under the key for redis_settings.expire seconds.  Nothing  *)
(* ever invalidates a key.  The four keys have nothing in common, so one   *)
(* key and one table are enough; the table's contents are versions.        *)
(***************************************************************************)
EXTENDS Naturals

CONSTANTS
    Reader,      \* the requests being served at a time
    MaxVersion,  \* a bound on the changes of the table
    Faults       \* which steps may fail

CacheFaultKinds == {"redis", "db"}
ASSUME CacheAssumption == MaxVersion \in Nat /\ Faults \subseteq CacheFaultKinds

VARIABLES
    table,     \* the version of the table
    cached,    \* what the key holds
    pc,        \* where each reader is
    rows,      \* the version its SELECT returned
    since,     \* the version of the table when its request came in
    response   \* what it was answered with, and from where

vars == <<table, cached, pc, rows, since, response>>

Empty == [held |-> FALSE, version |-> 0, expires |-> FALSE]
Held(version, expires) == [held |-> TRUE, version |-> version, expires |-> expires]
Contents(latest) == [held : BOOLEAN, version : 0..latest, expires : BOOLEAN]
Response == [from : {"nowhere", "error", "cache", "table"}, version : Nat]
Nothing == [from |-> "nowhere", version |-> 0]

Init ==
    /\ table = 0
    /\ cached \in {Empty, Held(0, TRUE)}
    /\ pc = [r \in Reader |-> "idle"]
    /\ rows = [r \in Reader |-> 0]
    /\ since = [r \in Reader |-> 0]
    /\ response = [r \in Reader |-> Nothing]
------------------------------------------------------------------------------
Goto(r, next) == pc' = [pc EXCEPT ![r] = next]

Answer(r, what) ==
    /\ Goto(r, "idle")
    /\ response' = [response EXCEPT ![r] = what]

\* A mutant: an error is reported, and the handler goes on.
FailAndGoOn(r) ==
    /\ Goto(r, "set")
    /\ response' = [response EXCEPT ![r] = [from |-> "error", version |-> 0]]

Fail(r) == Answer(r, [from |-> "error", version |-> 0])

\* The table is changed by a migration, by populate_db or by hand.
ChangeTable ==
    /\ table < MaxVersion
    /\ table' = table + 1
    /\ UNCHANGED <<cached, pc, rows, since, response>>

Arrive(r) ==
    /\ pc[r] = "idle"
    /\ since' = [since EXCEPT ![r] = table]
    /\ response' = [response EXCEPT ![r] = Nothing]
    /\ Goto(r, "get")
    /\ UNCHANGED <<table, cached, rows>>

\* A hit is answered at once; the coroutine of the SELECT is never awaited.
\* A Redis that does not answer fails the request.
GetValue(r) ==
    /\ pc[r] = "get"
    /\ \/ cached.held /\ Answer(r, [from |-> "cache", version |-> cached.version])
       \/ ~cached.held /\ Goto(r, "select") /\ UNCHANGED response
       \/ "redis" \in Faults /\ Fail(r)
    /\ UNCHANGED <<table, cached, rows, since>>

Select(r) ==
    /\ pc[r] = "select"
    /\ \/ rows' = [rows EXCEPT ![r] = table] /\ Goto(r, "set") /\ UNCHANGED response
       \/ "db" \in Faults /\ Fail(r) /\ UNCHANGED rows
    /\ UNCHANGED <<table, cached, since>>

\* A mutant: the key is set without an expiry.
SetValueForever(r) ==
    /\ pc[r] = "set"
    /\ cached' = Held(rows[r], FALSE)
    /\ Answer(r, [from |-> "table", version |-> rows[r]])
    /\ UNCHANGED <<table, rows, since>>

\* A mutant: the key is set only if it is empty, and then read back.
SetValueOnce(r) ==
    /\ pc[r] = "set"
    /\ cached' = IF cached.held THEN cached ELSE Held(rows[r], TRUE)
    /\ Answer(r, [from |-> "table", version |-> cached'.version])
    /\ UNCHANGED <<table, rows, since>>

\* SET with EX, over whatever another reader may have put there meanwhile;
\* it may fail after Redis has done it.
SetValue(r) ==
    /\ pc[r] = "set"
    /\ \/ cached' = Held(rows[r], TRUE)
          /\ Answer(r, [from |-> "table", version |-> rows[r]])
       \/ "redis" \in Faults /\ cached' \in {cached, Held(rows[r], TRUE)} /\ Fail(r)
    /\ UNCHANGED <<table, rows, since>>

\* Redis drops the key when its time is over.
Expire ==
    /\ cached.held /\ cached.expires
    /\ cached' = Empty
    /\ UNCHANGED <<table, pc, rows, since, response>>

Step(r) == GetValue(r) \/ Select(r) \/ SetValue(r)

Next == ChangeTable \/ Expire \/ \E r \in Reader : Arrive(r) \/ Step(r)

Spec == Init /\ [][Next]_vars

\* Redis keeps time, and the event loop resumes the coroutines; nothing makes
\* requests come in or the table change.
FairSpec == Spec /\ WF_vars(Expire) /\ \A r \in Reader : WF_vars(Step(r))
------------------------------------------------------------------------------
\* Every variable has its type, nothing is newer than the table, and a reader
\* that is being served has not been answered.
TypeOK ==
    /\ table \in 0..MaxVersion
    /\ cached \in Contents(table)
    /\ pc \in [Reader -> {"idle", "get", "select", "set"}]
    /\ rows \in [Reader -> 0..table]
    /\ since \in [Reader -> 0..table]
    /\ response \in [Reader -> Response]
    /\ \A r \in Reader :
          response[r].version <= table /\ (pc[r] # "idle" => response[r] = Nothing)

\* A request that missed is never answered with rows older than its arrival,
\* whatever the other readers put under the key meanwhile.
MissIsFresh ==
    \A r \in Reader : response[r].from = "table" => response[r].version >= since[r]

\* Once the table stops changing, the key ends up empty or current for good:
\* a slow reader may put old rows back, but each time they expire.
KeyCatchesUp ==
    <>[](~cached.held \/ cached.version = table)
===============================================================================
