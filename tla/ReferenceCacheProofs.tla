------------------------- MODULE ReferenceCacheProofs -------------------------
(***************************************************************************)
(* ReferenceCache for any number of readers and of changes.                *)
(***************************************************************************)
EXTENDS ReferenceCache, TLAPS

\* What a reader knows is ordered in time: it came in, then it selected.
RowsInv ==
    /\ table \in Nat
    /\ pc \in [Reader -> {"idle", "get", "select", "set"}]
    /\ since \in [Reader -> Nat]
    /\ rows \in [Reader -> Nat]
    /\ response \in [Reader -> Response]
    /\ cached.version \in Nat
    /\ \A r \in Reader :
          /\ since[r] <= table
          /\ pc[r] = "set" => since[r] <= rows[r]
          /\ response[r].from = "table" => response[r].version >= since[r]

LEMMA RowsInit == Init => RowsInv
  BY DEF Init, RowsInv, Nothing, Response, Empty, Held

LEMMA RowsStep == RowsInv /\ [Next]_vars => RowsInv'
  <1> SUFFICES ASSUME RowsInv, [Next]_vars PROVE RowsInv'
    OBVIOUS
  <1> USE DEF Response, Empty, Held
  <1>1. CASE ChangeTable
    BY <1>1 DEF ChangeTable, RowsInv
  <1>2. CASE Expire
    BY <1>2 DEF Expire, RowsInv
  <1>3. ASSUME NEW r \in Reader, Arrive(r) PROVE RowsInv'
    BY <1>3 DEF Arrive, Goto, RowsInv, Nothing
  <1>4. ASSUME NEW r \in Reader, GetValue(r) PROVE RowsInv'
    <2>1. CASE cached.held /\ Answer(r, [from |-> "cache", version |-> cached.version])
      BY <1>4, <2>1 DEF GetValue, Answer, Goto, RowsInv
    <2>2. CASE Goto(r, "select") /\ UNCHANGED response
      BY <1>4, <2>2 DEF GetValue, Goto, RowsInv
    <2>3. CASE Fail(r)
      BY <1>4, <2>3 DEF GetValue, Answer, Fail, Goto, RowsInv
    <2> QED
      BY <1>4, <2>1, <2>2, <2>3 DEF GetValue
  <1>5. ASSUME NEW r \in Reader, Select(r) PROVE RowsInv'
    <2>1. CASE rows' = [rows EXCEPT ![r] = table] /\ Goto(r, "set") /\ UNCHANGED response
      BY <1>5, <2>1 DEF Select, Goto, RowsInv
    <2>2. CASE Fail(r) /\ UNCHANGED rows
      BY <1>5, <2>2 DEF Select, Answer, Fail, Goto, RowsInv
    <2> QED
      BY <1>5, <2>1, <2>2 DEF Select
  <1>6. ASSUME NEW r \in Reader, SetValue(r) PROVE RowsInv'
    <2>1. CASE /\ cached' = Held(rows[r], TRUE)
                /\ Answer(r, [from |-> "table", version |-> rows[r]])
      BY <1>6, <2>1 DEF SetValue, Answer, Goto, RowsInv
    <2>2. CASE cached' \in {cached, Held(rows[r], TRUE)} /\ Fail(r)
      BY <1>6, <2>2 DEF SetValue, Answer, Fail, Goto, RowsInv
    <2> QED
      BY <1>6, <2>1, <2>2 DEF SetValue
  <1>7. CASE UNCHANGED vars
    BY <1>7 DEF vars, RowsInv
  <1> QED
    BY <1>1, <1>2, <1>3, <1>4, <1>5, <1>6, <1>7 DEF Next, Step

\* A request that missed the cache is answered with rows no older than its
\* arrival, for any number of concurrent readers (_get_data_in_cache_or_db).
THEOREM MissesAreFresh == Spec => []MissIsFresh
  <1>1. RowsInv => MissIsFresh
    BY DEF RowsInv, MissIsFresh
  <1> QED
    BY <1>1, RowsInit, RowsStep, PTL DEF Spec
------------------------------------------------------------------------------
\* What the key may hold, by the version of the table.
LEMMA ContentsGrow ==
  ASSUME NEW n \in Nat
  PROVE  /\ Empty \in Contents(n)
         /\ \A v \in 0..n : Held(v, TRUE) \in Contents(n)
         /\ Contents(n) \subseteq Contents(n + 1)
         /\ \A c \in Contents(n) : c.held => c.version \in 0..n
  <1>1. 0..n \subseteq 0..(n + 1)
    OBVIOUS
  <1> QED
    BY <1>1 DEF Contents, Empty, Held

LEMMA CacheTypesInit == Init => TypeOK
  <1> SUFFICES ASSUME Init PROVE TypeOK
    OBVIOUS
  <1>1. table \in Nat /\ 0 \in 0..table /\ table \in 0..MaxVersion
    BY CacheAssumption DEF Init
  <1>2. cached = Empty \/ cached = Held(0, TRUE)
    BY DEF Init
  <1>3. cached \in Contents(table)
    BY <1>1, <1>2, ContentsGrow
  <1> QED
    BY <1>1, <1>3 DEF Init, TypeOK, Nothing, Response

\* One reader moves and may be answered, with nothing newer than the table and
\* only when its request is over; what the key holds is no newer either.
LEMMA OneReaderMoves ==
  ASSUME TypeOK, NEW r \in Reader, UNCHANGED <<table, since>>,
         cached' \in Contents(table),
         NEW next \in {"idle", "get", "select", "set"}, Goto(r, next),
         rows' = rows \/ rows' = [rows EXCEPT ![r] = table],
         NEW what \in Response, what.version <= table, next # "idle" => what = Nothing,
         \/ response' = response /\ pc[r] # "idle"
         \/ response' = [response EXCEPT ![r] = what]
  PROVE  TypeOK'
  <1>1. table \in 0..MaxVersion /\ table \in Nat /\ table' = table
    BY CacheAssumption DEF TypeOK
  <1>2. pc' = [pc EXCEPT ![r] = next] /\ pc' \in [Reader -> {"idle", "get", "select", "set"}]
    BY DEF TypeOK, Goto
  <1>3. rows' \in [Reader -> 0..table'] /\ since' \in [Reader -> 0..table']
    BY <1>1 DEF TypeOK
  <1>4. response' \in [Reader -> Response]
    BY DEF TypeOK
  <1>5. ASSUME NEW q \in Reader
        PROVE  response'[q].version <= table' /\ (pc'[q] # "idle" => response'[q] = Nothing)
    BY <1>1, <1>2 DEF TypeOK
  <1> QED
    BY <1>1, <1>2, <1>3, <1>4, <1>5 DEF TypeOK

LEMMA CacheTypesStep == TypeOK /\ [Next]_vars => TypeOK'
  <1> SUFFICES ASSUME TypeOK, [Next]_vars PROVE TypeOK'
    OBVIOUS
  <1>0. table \in Nat /\ cached \in Contents(table)
    BY CacheAssumption DEF TypeOK
  <1>a. Nothing \in Response /\ Nothing.version <= table
    BY <1>0 DEF Nothing, Response
  <1>1. ASSUME ChangeTable PROVE TypeOK'
    <2>1. table' = table + 1 /\ table' \in 0..MaxVersion /\ 0..table \subseteq 0..table'
      BY <1>0, <1>1, CacheAssumption DEF ChangeTable
    <2>2. cached' \in Contents(table')
      BY <1>0, <1>1, <2>1, ContentsGrow DEF ChangeTable
    <2>3. UNCHANGED <<pc, rows, since, response>>
      BY <1>1 DEF ChangeTable
    <2>4. ASSUME NEW q \in Reader PROVE response[q].version <= table'
      BY <1>0, <2>1 DEF TypeOK, Response
    <2> QED
      BY <2>1, <2>2, <2>3, <2>4 DEF TypeOK
  <1>2. ASSUME Expire PROVE TypeOK'
    BY <1>0, <1>2, ContentsGrow DEF Expire, TypeOK
  <1>3. ASSUME NEW r \in Reader, Arrive(r) PROVE TypeOK'
    BY <1>0, <1>3 DEF Arrive, Goto, TypeOK, Nothing, Response
  \* The ways in which a reader is answered.
  <1>b. ASSUME NEW r \in Reader, NEW what \in Response, what.version <= table, Answer(r, what),
               UNCHANGED <<table, since, rows>>, cached' \in Contents(table)
        PROVE  TypeOK'
    <2>1. Goto(r, "idle") /\ response' = [response EXCEPT ![r] = what]
      BY <1>b DEF Answer
    <2> QED
      BY <1>b, <2>1, OneReaderMoves
  <1>4. ASSUME NEW r \in Reader, Fail(r), UNCHANGED <<table, since, rows>>,
               cached' \in Contents(table)
        PROVE TypeOK'
    <2>1. [from |-> "error", version |-> 0] \in Response
      BY DEF Response
    <2> QED
      BY <1>0, <1>4, <2>1, <1>b DEF Fail
  <1>5. ASSUME NEW r \in Reader, GetValue(r) PROVE TypeOK'
    <2>0. cached' = cached /\ UNCHANGED <<table, since, rows>> /\ pc[r] # "idle"
      BY <1>5 DEF GetValue
    <2>1. CASE cached.held /\ Answer(r, [from |-> "cache", version |-> cached.version])
      <3>1. cached.version \in 0..table
        BY <1>0, <2>1, ContentsGrow
      <3>2. [from |-> "cache", version |-> cached.version] \in Response
        BY <1>0, <3>1 DEF Response
      <3> QED
        BY <1>0, <2>0, <2>1, <3>1, <3>2, <1>b
    <2>2. CASE Goto(r, "select") /\ UNCHANGED response
      BY <1>0, <1>a, <2>0, <2>2, OneReaderMoves
    <2>3. CASE Fail(r)
      BY <1>0, <1>4, <2>0, <2>3
    <2> QED
      BY <1>5, <2>1, <2>2, <2>3 DEF GetValue
  <1>6. ASSUME NEW r \in Reader, Select(r) PROVE TypeOK'
    <2>0. cached' = cached /\ UNCHANGED <<table, since>> /\ pc[r] # "idle"
      BY <1>6 DEF Select
    <2>1. CASE rows' = [rows EXCEPT ![r] = table] /\ Goto(r, "set") /\ UNCHANGED response
      BY <1>0, <1>a, <2>0, <2>1, OneReaderMoves
    <2>2. CASE Fail(r) /\ UNCHANGED rows
      BY <1>0, <1>4, <2>0, <2>2
    <2> QED
      BY <1>6, <2>1, <2>2 DEF Select
  <1>7. ASSUME NEW r \in Reader, SetValue(r) PROVE TypeOK'
    <2>0. UNCHANGED <<table, since, rows>> /\ rows[r] \in 0..table
      BY <1>7 DEF SetValue, TypeOK
    <2>1. Held(rows[r], TRUE) \in Contents(table)
      BY <1>0, <2>0, ContentsGrow
    <2>2. CASE /\ cached' = Held(rows[r], TRUE)
               /\ Answer(r, [from |-> "table", version |-> rows[r]])
      <3> DEFINE what == [from |-> "table", version |-> rows[r]]
      <3>1. what \in Response /\ what.version <= table
        BY <1>0, <2>0 DEF Response
      <3>2. Answer(r, what) /\ cached' \in Contents(table)
        BY <2>1, <2>2
      <3> HIDE DEF what
      <3> QED
        BY <2>0, <3>1, <3>2, <1>b
    <2>3. CASE cached' \in {cached, Held(rows[r], TRUE)} /\ Fail(r)
      BY <1>0, <1>4, <2>0, <2>1, <2>3
    <2> QED
      BY <1>7, <2>2, <2>3 DEF SetValue
  <1>8. CASE UNCHANGED vars
    BY <1>8 DEF vars, TypeOK
  <1> QED
    BY <1>1, <1>2, <1>3, <1>5, <1>6, <1>7, <1>8 DEF Next, Step

\* Neither the key nor an answer is ever newer than the table, and a reader has
\* no answer while it is served, for any number of readers and of changes.
THEOREM CacheKeepsItsTypes == Spec => []TypeOK
  BY CacheTypesInit, CacheTypesStep, PTL DEF Spec
===============================================================================
