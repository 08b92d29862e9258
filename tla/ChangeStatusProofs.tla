-------------------------- MODULE ChangeStatusProofs --------------------------
(***************************************************************************)
(* What holds of ChangeStatus for every set of products, sellers and       *)
(* requests, every bound on retries and every choice of faults.            *)
(***************************************************************************)
EXTENDS ChangeStatus, FiniteSetTheorems, TLAPS

(***************************************************************************)
(* Type correctness.  TypeOK is not inductive alone: a failed attempt adds *)
(* one to tries, so a request that may still attempt must be below the     *)
(* bound, and the handler reads fields of the call it serves.              *)
(***************************************************************************)
TriesLeft == \A r \in Request : pc[r] # "done" => tries[r] < MaxTries
CallIsKnown == \A r \in Request : InFlight(r) => call[r] \in Call
TypeInv == TypeOK /\ TriesLeft /\ CallIsKnown

\* Short tuples are sequences.
LEMMA ShortSeq ==
    ASSUME NEW S, NEW a \in S, NEW b \in S
    PROVE  <<a>> \in Seq(S) /\ <<a, b>> \in Seq(S)
OBVIOUS

\* The rows and messages the steps build are of the types above.
LEMMA BuiltWell ==
    /\ Absent \in Row
    /\ \A s \in ProductStatus : Settled(s) \in Row
    /\ \A s \in ProductStatus \cup {"absent"} : History(s) \in Seq(Message)
    /\ \A current \in Row, seen \in Row, wanted \in ProductStatusForChange :
          Updated(current, seen, wanted) \in Row
<1>1. Absent \in Row
    BY DEF Row
<1>2. ASSUME NEW s \in ProductStatus PROVE Settled(s) \in Row
    BY DEF Row, Settled
<1>3. ASSUME NEW s \in ProductStatus \cup {"absent"} PROVE History(s) \in Seq(Message)
  <2>1. \A a \in BOOLEAN : [active |-> a, by |-> NoRequest] \in Message
      BY DEF Message
  <2>2. CASE s = "on_sale"
    <3>1. History(s) = <<[active |-> TRUE, by |-> NoRequest]>>
        BY <2>2 DEF History
    <3> QED BY <2>1, <3>1, ShortSeq, Zenon
  <2>3. CASE s = "not_for_sale"
    <3>1. History(s) = <<[active |-> TRUE, by |-> NoRequest], [active |-> FALSE, by |-> NoRequest]>>
        BY <2>3 DEF History
    <3> QED BY <2>1, <3>1, ShortSeq, Zenon
  <2>4. CASE s \notin {"on_sale", "not_for_sale"}
      BY <2>4 DEF History
  <2> QED BY <2>2, <2>3, <2>4
<1>4. ASSUME NEW current \in Row, NEW seen \in Row, NEW wanted \in ProductStatusForChange
      PROVE  Updated(current, seen, wanted) \in Row
  <2>1. current.active \in BOOLEAN
    <3>1. CASE current = Absent
        BY <3>1 DEF Absent
    <3>2. CASE current \in [status : ProductStatus, active : BOOLEAN]
        BY <3>2
    <3> QED BY <3>1, <3>2 DEF Row
  <2> QED BY <2>1 DEF Row, Updated, ActiveAfter, ProductStatus
<1> QED BY <1>1, <1>2, <1>3, <1>4

\* Init establishes the types.
LEMMA TypeInit == Init => TypeInv
<1> SUFFICES ASSUME Init PROVE TypeInv
    OBVIOUS
<1>1. row \in [Product -> Row]
    BY BuiltWell DEF Init
<1>2. log \in [Product -> Seq(Message)]
  <2>1. \A p \in Product : row[p].status \in ProductStatus \cup {"absent"}
      BY DEF Init, Settled, Absent
  <2> QED BY <2>1, BuiltWell DEF Init
<1>3. indexed \in [Product -> Nat]
    BY <1>2 DEF Init
<1> QED
    BY <1>1, <1>2, <1>3, TriesAssumption
    DEF Init, TypeInv, TypeOK, TriesLeft, CallIsKnown, InFlight, Serving, Answer, Absent, Row

\* Every step keeps the types.
LEMMA TypeStep == TypeInv /\ [Next]_vars => TypeInv'
<1> SUFFICES ASSUME TypeInv, [Next]_vars PROVE TypeInv'
    OBVIOUS
<1> USE TriesAssumption DEF TypeInv, TypeOK, TriesLeft, CallIsKnown, InFlight, Serving, Answer
<1>1. ASSUME NEW r \in Request, Arrive(r) PROVE TypeInv'
    BY <1>1 DEF Arrive, Goto, store
<1>2. ASSUME NEW r \in Request, VerifySeller(r) PROVE TypeInv'
    BY <1>2 DEF VerifySeller, Goto, Reply, store
<1>3. ASSUME NEW r \in Request, LoadProduct(r) PROVE TypeInv'
  <2>1. call[r] \in Call /\ call[r].product \in Product
      BY <1>3 DEF LoadProduct, Call
  <2>2. AfterMatch(call[r].wanted, row[call[r].product].status) \in {"seller", "send", "commit"}
      BY DEF AfterMatch
  <2> QED BY <1>3, <2>1, <2>2 DEF LoadProduct, Goto, Reply, store
<1>4. ASSUME NEW r \in Request, GetSellerData(r) PROVE TypeInv'
    BY <1>4 DEF GetSellerData, ExternalService, Goto, Reply, store
<1>5. ASSUME NEW r \in Request, GetStorageQuantity(r) PROVE TypeInv'
    BY <1>5 DEF GetStorageQuantity, ExternalService, Goto, Reply, store
<1>6. ASSUME NEW r \in Request, ReadCategory(r) PROVE TypeInv'
    BY <1>6 DEF ReadCategory, Goto, Reply, store
<1>7. ASSUME NEW r \in Request, SendMessage(r) PROVE TypeInv'
  <2>1. /\ call[r].product \in Product
        /\ [active |-> ActiveAfter(call[r].wanted), by |-> r] \in Message
      BY <1>7 DEF SendMessage, Call, Message, ActiveAfter
  <2>2. Publish(r) => log' \in [Product -> Seq(Message)]
      BY <2>1 DEF Publish
  <2>3. tries[r] < MaxTries /\ tries[r] \in Nat
      BY <1>7 DEF SendMessage
  <2>4. ASSUME RetryOrGiveUp(r)
        PROVE  /\ tries' \in [Request -> 0..MaxTries]
               /\ pc' \in [Request -> Serving \cup {"idle", "done"}]
               /\ answer' \in [Request -> Answer]
               /\ \A q \in Request : pc'[q] # "done" => tries'[q] < MaxTries
               /\ \A q \in Request : q # r => pc'[q] = pc[q]
    <3>1. tries' = [tries EXCEPT ![r] = tries[r] + 1]
        BY <2>4 DEF RetryOrGiveUp
    <3>2. tries' \in [Request -> 0..MaxTries]
        BY <2>3, <3>1
    <3>3. CASE tries[r] + 1 < MaxTries
      <4>1. pc' = [pc EXCEPT ![r] = "send"] /\ answer' = answer
          BY <2>4, <3>3 DEF RetryOrGiveUp, Goto
      <4> QED BY <3>1, <3>2, <3>3, <4>1
    <3>4. CASE ~(tries[r] + 1 < MaxTries)
      <4>1. pc' = [pc EXCEPT ![r] = "done"] /\ answer' = [answer EXCEPT ![r] = "500"]
          BY <2>4, <3>4 DEF RetryOrGiveUp, Reply
      <4> QED BY <3>1, <3>2, <4>1
    <3> QED BY <3>3, <3>4
  <2> QED BY <1>7, <2>2, <2>4 DEF SendMessage, Goto
<1>8. ASSUME NEW r \in Request, Commit(r) PROVE TypeInv'
  <2>1. /\ call[r].product \in Product
        /\ call[r].wanted \in ProductStatusForChange
      BY <1>8 DEF Commit, Call
  <2>2. ASSUME Write(r) PROVE row' \in [Product -> Row] /\ applied' \subseteq Request
    <3>1. row[call[r].product] \in Row /\ loaded[r] \in Row
        BY <2>1
    <3>2. Updated(row[call[r].product], loaded[r], call[r].wanted) \in Row
        BY <2>1, <3>1, BuiltWell
    <3> QED BY <2>2, <3>2 DEF Write
  <2>3. row' \in [Product -> Row] /\ applied' \subseteq Request
      BY <1>8, <2>2 DEF Commit
  <2>4. /\ pc' \in [Request -> Serving \cup {"idle", "done"}]
        /\ answer' \in [Request -> Answer]
        /\ \A q \in Request : pc'[q] = pc[q] \/ (q = r /\ pc'[q] \in {"refresh", "done"})
      BY <1>8 DEF Commit, Goto, Reply
  <2> QED BY <1>8, <2>3, <2>4 DEF Commit
<1>9. ASSUME NEW r \in Request, Refresh(r) PROVE TypeInv'
    BY <1>9 DEF Refresh, Goto, Reply, store
<1>10. ASSUME Crash PROVE TypeInv'
    BY <1>10 DEF Crash, store
<1>11. ASSUME NEW p \in Product, CreateProduct(p) PROVE TypeInv'
    BY <1>11, BuiltWell DEF CreateProduct, ProductStatus
<1>12. ASSUME NEW p \in Product, Moderate(p) PROVE TypeInv'
  <2>1. row' \in [Product -> Row]
    <3>1. row[p] \in [status : ProductStatus, active : BOOLEAN]
        BY <1>12 DEF Moderate, Row, Absent
    <3>2. \A v \in {"ready_for_sale", "needs_fix"} : [status |-> v, active |-> row[p].active] \in Row
        BY <3>1 DEF Row, ProductStatus
    <3> QED BY <1>12, <3>2 DEF Moderate
  <2> QED BY <1>12, <2>1 DEF Moderate
<1>13. ASSUME NEW p \in Product, Consume(p) PROVE TypeInv'
    BY <1>13 DEF Consume
<1>14. CASE UNCHANGED vars
    BY <1>14 DEF vars
<1> QED
    BY <1>1, <1>2, <1>3, <1>4, <1>5, <1>6, <1>7, <1>8, <1>9, <1>10, <1>11, <1>12, <1>13, <1>14
    DEF Next, Step

\* The variables of the handler, the table and the queue keep their types,
\* and no request makes more than MaxTries attempts to send its message.
THEOREM TypeCorrect == Spec => []TypeOK
<1>1. Spec => []TypeInv
    BY TypeInit, TypeStep, PTL DEF Spec
<1>2. TypeInv => TypeOK
    BY DEF TypeInv
<1> QED BY <1>1, <1>2, PTL
------------------------------------------------------------------------------
(***************************************************************************)
(* What the queue and the table owe each other.  The inductive invariant   *)
(* says for every place of the handler what the request has already done.  *)
(***************************************************************************)
Matched == {"seller", "storage", "category", "send", "commit", "refresh"}
Early == {"idle", "check", "load", "seller", "storage", "category"}
Refusal == {"403", "404", "406", "502"}

Told(r) ==
    \E i \in 1..Len(log[call[r].product]) :
        log[call[r].product][i] = [active |-> ActiveAfter(call[r].wanted), by |-> r]

AnsweredAtTheEnd == \A r \in Request : pc[r] # "done" => answer[r] = "none"
OnlyAccepted ==
    \A r \in Request :
        pc[r] \in Matched \/ r \in applied =>
            call[r] \in Call /\ Accepts(call[r].wanted, loaded[r].status)
ToldBeforeCommit ==
    \A r \in Request :
        /\ pc[r] = "commit" \/ r \in applied
        /\ Announces(call[r].wanted, loaded[r].status)
        => Told(r)
NothingEarly ==
    \A r \in Request :
        pc[r] \in Early \/ answer[r] \in Refusal =>
            /\ r \notin applied
            /\ \A p \in Product : \A i \in 1..Len(log[p]) : log[p][i].by # r
AppliedBeforeOk ==
    \A r \in Request : pc[r] = "refresh" \/ answer[r] = "200" => r \in applied

HandlerInv ==
    /\ AnsweredAtTheEnd /\ OnlyAccepted /\ ToldBeforeCommit
    /\ NothingEarly /\ AppliedBeforeOk
    /\ OnSaleWasAnnounced

\* Appending changes nothing that was there.
LEMMA AppendKeeps ==
    ASSUME NEW S, NEW s \in Seq(S), NEW e \in S
    PROVE  /\ Len(s) \in Nat
           /\ Len(Append(s, e)) = Len(s) + 1
           /\ \A i \in 1..Len(s) : Append(s, e)[i] = s[i]
           /\ Append(s, e)[Len(s) + 1] = e
OBVIOUS

\* What publishing does to the log of every product.
LEMMA Publishing ==
    ASSUME TypeOK, NEW r \in Request, call[r] \in Call, Publish(r)
    PROVE  /\ \A p \in Product : \A i \in 1..Len(log[p]) :
                  i \in 1..Len(log'[p]) /\ log'[p][i] = log[p][i]
           /\ \A p \in Product : \A i \in 1..Len(log'[p]) :
                  i \in 1..Len(log[p]) \/ log'[p][i].by = r
           /\ \E i \in 1..Len(log'[call[r].product]) :
                  log'[call[r].product][i] = [active |-> ActiveAfter(call[r].wanted), by |-> r]
<1> DEFINE m == [active |-> ActiveAfter(call[r].wanted), by |-> r]
           c == call[r].product
<1>1. m \in Message /\ m.by = r /\ c \in Product
    BY DEF Message, ActiveAfter, Call
<1>2. log' = [log EXCEPT ![c] = Append(log[c], m)]
    BY DEF Publish
<1>3. log[c] \in Seq(Message) /\ log'[c] = Append(log[c], m)
    BY <1>1, <1>2 DEF TypeOK
<1>4. \A p \in Product : p # c => log'[p] = log[p]
    BY <1>2 DEF TypeOK
<1> HIDE DEF m, c
<1>5. /\ Len(log[c]) \in Nat
      /\ Len(log'[c]) = Len(log[c]) + 1
      /\ \A i \in 1..Len(log[c]) : log'[c][i] = log[c][i]
      /\ log'[c][Len(log[c]) + 1] = m
    BY <1>1, <1>3, AppendKeeps
<1>6. /\ \A p \in Product : \A i \in 1..Len(log[p]) :
             i \in 1..Len(log'[p]) /\ log'[p][i] = log[p][i]
      /\ \A p \in Product : \A i \in 1..Len(log'[p]) :
             i \in 1..Len(log[p]) \/ log'[p][i].by = r
    BY <1>1, <1>4, <1>5
<1>7. \E i \in 1..Len(log'[c]) : log'[c][i] = m
  <2>1. Len(log[c]) + 1 \in 1..Len(log'[c])
      BY <1>5
  <2> QED BY <1>5, <2>1
<1> QED BY <1>6, <1>7 DEF m, c

\* Every step leaves the log alone or publishes for a request that is sending.
LEMMA LogStep ==
    ASSUME [Next]_vars
    PROVE  log' = log \/ \E r \in Request : pc[r] = "send" /\ Publish(r) /\ SendMessage(r)
BY DEF Next, vars, store, Step, Arrive, VerifySeller, LoadProduct, GetSellerData,
       GetStorageQuantity, ReadCategory, SendMessage, Commit, Refresh, Crash,
       CreateProduct, Moderate, Consume

\* Messages are never lost or changed once published.
LEMMA LogGrows ==
    ASSUME TypeInv, [Next]_vars
    PROVE  \A p \in Product : \A i \in 1..Len(log[p]) :
               i \in 1..Len(log'[p]) /\ log'[p][i] = log[p][i]
<1>1. CASE log' = log
    BY <1>1
<1>2. ASSUME NEW r \in Request, pc[r] = "send", Publish(r)
      PROVE  \A p \in Product : \A i \in 1..Len(log[p]) :
                 i \in 1..Len(log'[p]) /\ log'[p][i] = log[p][i]
  <2>1. TypeOK /\ call[r] \in Call
      BY <1>2 DEF TypeInv, CallIsKnown, InFlight, Serving
  <2> QED BY <1>2, <2>1, Publishing
<1> QED BY <1>1, <1>2, LogStep

\* Init establishes the invariant of the handler.
LEMMA HandlerInit == Init => HandlerInv
<1> SUFFICES ASSUME Init PROVE HandlerInv
    OBVIOUS
<1>1. AnsweredAtTheEnd /\ OnlyAccepted /\ ToldBeforeCommit /\ AppliedBeforeOk
    BY DEF Init, AnsweredAtTheEnd, OnlyAccepted, ToldBeforeCommit, AppliedBeforeOk, Matched
<1>2. ASSUME NEW p \in Product
      PROVE  /\ row[p].status = "on_sale" => \E i \in 1..Len(log[p]) : log[p][i].active
             /\ \A i \in 1..Len(log[p]) : log[p][i].by = NoRequest
  <2>1. log[p] = History(row[p].status)
      BY DEF Init
  <2>2. CASE row[p].status = "on_sale"
    <3>1. log[p] = <<[active |-> TRUE, by |-> NoRequest]>>
        BY <2>1, <2>2 DEF History
    <3> QED BY <3>1
  <2>3. CASE row[p].status = "not_for_sale"
    <3>1. log[p] = <<[active |-> TRUE, by |-> NoRequest], [active |-> FALSE, by |-> NoRequest]>>
        BY <2>1, <2>3 DEF History
    <3> QED BY <2>3, <3>1
  <2>4. CASE row[p].status \notin {"on_sale", "not_for_sale"}
    <3>1. log[p] = <<>>
        BY <2>1, <2>4 DEF History
    <3> QED BY <2>4, <3>1
  <2> QED BY <2>2, <2>3, <2>4
<1>3. OnSaleWasAnnounced
    BY <1>2 DEF OnSaleWasAnnounced
<1>4. NothingEarly
    BY <1>2, RequestAssumption DEF NothingEarly, Init
<1> QED BY <1>1, <1>3, <1>4 DEF HandlerInv

\* A step of one request that leaves the table, the log and the set of
\* applied requests alone keeps the invariant if the request meets the
\* obligations of the place it moves to.
LEMMA QuietMove ==
    ASSUME TypeInv, HandlerInv, NEW r \in Request, pc[r] # "done",
           UNCHANGED <<row, log, applied>>,
           \A q \in Request : q # r =>
              /\ pc'[q] = pc[q] /\ answer'[q] = answer[q]
              /\ call'[q] = call[q] /\ loaded'[q] = loaded[q],
           r \in applied => call'[r] = call[r] /\ loaded'[r] = loaded[r],
           pc'[r] # "done" => answer'[r] = "none",
           pc'[r] \in Matched =>
              call'[r] \in Call /\ Accepts(call'[r].wanted, loaded'[r].status),
           pc'[r] = "commit" /\ Announces(call'[r].wanted, loaded'[r].status) => Told(r)',
           pc'[r] \in Early \/ answer'[r] \in Refusal => pc[r] \in Early,
           pc'[r] = "refresh" \/ answer'[r] = "200" => r \in applied
    PROVE  HandlerInv'
<1>1. AnsweredAtTheEnd'
    BY DEF HandlerInv, AnsweredAtTheEnd
<1>2. OnlyAccepted'
    BY DEF HandlerInv, OnlyAccepted
<1>3. ToldBeforeCommit'
    BY DEF HandlerInv, ToldBeforeCommit, Told
<1>4. NothingEarly'
    BY DEF HandlerInv, NothingEarly
<1>5. AppliedBeforeOk'
    BY DEF HandlerInv, AppliedBeforeOk
<1>6. OnSaleWasAnnounced'
    BY DEF HandlerInv, OnSaleWasAnnounced
<1> QED BY <1>1, <1>2, <1>3, <1>4, <1>5, <1>6 DEF HandlerInv

\* Every step keeps the invariant of the handler.
LEMMA HandlerStep == TypeInv /\ HandlerInv /\ [Next]_vars => HandlerInv'
<1> SUFFICES ASSUME TypeInv, HandlerInv, [Next]_vars PROVE HandlerInv'
    OBVIOUS
<1>t. TypeOK /\ CallIsKnown
    BY DEF TypeInv
<1>h. /\ \A r \in Request : pc[r] # "done" => answer[r] = "none"
      /\ \A r \in Request : pc[r] \in Matched =>
            call[r] \in Call /\ Accepts(call[r].wanted, loaded[r].status)
      /\ \A r \in Request : pc[r] \in Early => r \notin applied
    BY DEF HandlerInv, AnsweredAtTheEnd, OnlyAccepted, NothingEarly
<1>1. ASSUME NEW r \in Request, Arrive(r) PROVE HandlerInv'
  <2>1. /\ pc[r] = "idle" /\ pc' = [pc EXCEPT ![r] = "check"] /\ answer' = answer
        /\ UNCHANGED <<row, log, applied, loaded>>
        /\ \E c \in Call : call' = [call EXCEPT ![r] = c]
      BY <1>1 DEF Arrive, Goto, store
  <2> QED BY <2>1, <1>t, <1>h, QuietMove DEF TypeOK, Early, Matched, Refusal
<1>2. ASSUME NEW r \in Request, VerifySeller(r) PROVE HandlerInv'
  <2>1. /\ pc[r] = "check"
        /\ UNCHANGED <<row, log, applied, loaded, call>>
        /\ \/ pc' = [pc EXCEPT ![r] = "load"] /\ answer' = answer
           \/ pc' = [pc EXCEPT ![r] = "done"] /\ answer' = [answer EXCEPT ![r] = "403"]
      BY <1>2 DEF VerifySeller, Goto, Reply, store
  <2> QED BY <2>1, <1>t, <1>h, QuietMove DEF TypeOK, Early, Matched, Refusal
<1>3. ASSUME NEW r \in Request, LoadProduct(r) PROVE HandlerInv'
  <2>1. /\ pc[r] = "load" /\ call[r] \in Call
        /\ UNCHANGED <<row, log, applied, call>>
      BY <1>3, <1>t DEF LoadProduct, store, CallIsKnown, InFlight, Serving
  <2> DEFINE current == row[call[r].product]
             next == AfterMatch(call[r].wanted, current.status)
  <2>2. CASE /\ loaded' = loaded
             /\ \E code \in {"404", "500"} :
                   pc' = [pc EXCEPT ![r] = "done"] /\ answer' = [answer EXCEPT ![r] = code]
      BY <2>1, <2>2, <1>t, <1>h, QuietMove DEF TypeOK, Early, Matched, Refusal
  <2>3. CASE /\ loaded' = [loaded EXCEPT ![r] = current]
             /\ Accepts(call[r].wanted, current.status)
             /\ pc' = [pc EXCEPT ![r] = next] /\ answer' = answer
    <3>1. /\ next \in {"seller", "send", "commit"}
          /\ next = "commit" => ~Announces(call[r].wanted, current.status)
        BY DEF AfterMatch, Announces, AnnouncedChange
    <3>2. loaded'[r] = current /\ pc'[r] = next
        BY <2>3, <1>t DEF TypeOK
    <3> QED BY <2>1, <2>3, <3>1, <3>2, <1>t, <1>h, QuietMove DEF TypeOK, Early, Matched, Refusal
  <2>4. CASE /\ loaded' = [loaded EXCEPT ![r] = current]
             /\ pc' = [pc EXCEPT ![r] = "done"] /\ answer' = [answer EXCEPT ![r] = "406"]
      BY <2>1, <2>4, <1>t, <1>h, QuietMove DEF TypeOK, Early, Matched, Refusal
  <2> QED BY <1>3, <2>2, <2>3, <2>4 DEF LoadProduct, Goto, Reply
<1>4. ASSUME NEW r \in Request, GetSellerData(r) PROVE HandlerInv'
  <2>1. /\ pc[r] = "seller"
        /\ UNCHANGED <<row, log, applied, loaded, call>>
        /\ \/ pc' = [pc EXCEPT ![r] = "storage"] /\ answer' = answer
           \/ \E code \in {"500", "502"} :
                 pc' = [pc EXCEPT ![r] = "done"] /\ answer' = [answer EXCEPT ![r] = code]
      BY <1>4 DEF GetSellerData, ExternalService, Goto, Reply, store
  <2> QED BY <2>1, <1>t, <1>h, QuietMove DEF TypeOK, Early, Matched, Refusal
<1>5. ASSUME NEW r \in Request, GetStorageQuantity(r) PROVE HandlerInv'
  <2>1. /\ pc[r] = "storage"
        /\ UNCHANGED <<row, log, applied, loaded, call>>
        /\ \/ pc' = [pc EXCEPT ![r] = "category"] /\ answer' = answer
           \/ \E code \in {"500", "502"} :
                 pc' = [pc EXCEPT ![r] = "done"] /\ answer' = [answer EXCEPT ![r] = code]
      BY <1>5 DEF GetStorageQuantity, ExternalService, Goto, Reply, store
  <2> QED BY <2>1, <1>t, <1>h, QuietMove DEF TypeOK, Early, Matched, Refusal
<1>6. ASSUME NEW r \in Request, ReadCategory(r) PROVE HandlerInv'
  <2>1. /\ pc[r] = "category"
        /\ UNCHANGED <<row, log, applied, loaded, call>>
        /\ \/ pc' = [pc EXCEPT ![r] = "send"] /\ answer' = answer
           \/ \E code \in {"404", "500"} :
                 pc' = [pc EXCEPT ![r] = "done"] /\ answer' = [answer EXCEPT ![r] = code]
      BY <1>6 DEF ReadCategory, Goto, Reply, store
  <2> QED BY <2>1, <1>t, <1>h, QuietMove DEF TypeOK, Early, Matched, Refusal
<1>7. ASSUME NEW r \in Request, SendMessage(r) PROVE HandlerInv'
  <2>1. /\ pc[r] = "send" /\ call[r] \in Call
        /\ UNCHANGED <<row, applied, loaded, call>>
      BY <1>7, <1>t DEF SendMessage, CallIsKnown, InFlight, Serving
  <2>2. /\ \A q \in Request : q # r => pc'[q] = pc[q] /\ answer'[q] = answer[q]
        /\ \/ pc'[r] \in {"send", "commit"} /\ answer'[r] = "none"
           \/ pc'[r] = "done" /\ answer'[r] = "500"
        /\ pc'[r] = "commit" => Publish(r)
    <3>1. CASE Publish(r) /\ Goto(r, "commit")
      <4>1. pc' = [pc EXCEPT ![r] = "commit"] /\ answer' = answer
          BY <3>1 DEF Goto
      <4> QED BY <2>1, <3>1, <4>1, <1>t, <1>h DEF TypeOK
    <3>2. CASE RetryOrGiveUp(r)
      <4>1. \/ pc' = [pc EXCEPT ![r] = "send"] /\ answer' = answer
            \/ pc' = [pc EXCEPT ![r] = "done"] /\ answer' = [answer EXCEPT ![r] = "500"]
          BY <3>2 DEF RetryOrGiveUp, Goto, Reply
      <4> QED BY <2>1, <4>1, <1>t, <1>h DEF TypeOK
    <3> QED BY <1>7, <3>1, <3>2 DEF SendMessage
  <2>3. CASE log' = log /\ pc'[r] # "commit"
      BY <2>1, <2>2, <2>3, <1>t, <1>h, QuietMove DEF Early, Matched, Refusal
  <2>4. CASE Publish(r)
    <3>1. /\ \A p \in Product : \A i \in 1..Len(log[p]) :
                 i \in 1..Len(log'[p]) /\ log'[p][i] = log[p][i]
          /\ \A p \in Product : \A i \in 1..Len(log'[p]) :
                 i \in 1..Len(log[p]) \/ log'[p][i].by = r
          /\ \E i \in 1..Len(log'[call[r].product]) :
                 log'[call[r].product][i] = [active |-> ActiveAfter(call[r].wanted), by |-> r]
        BY <2>1, <2>4, <1>t, Publishing
    <3>2. AnsweredAtTheEnd'
        BY <2>1, <2>2 DEF HandlerInv, AnsweredAtTheEnd
    <3>3. OnlyAccepted'
        BY <2>1, <2>2 DEF HandlerInv, OnlyAccepted, Matched
    <3>4. ToldBeforeCommit'
      <4>1. ASSUME NEW q \in Request, q # r, pc[q] = "commit" \/ q \in applied,
                   Announces(call[q].wanted, loaded[q].status)
            PROVE  Told(q)'
        <5>1. Told(q) /\ call[q].product \in Product
            BY <4>1 DEF HandlerInv, ToldBeforeCommit, OnlyAccepted, Matched, Call
        <5> QED BY <2>1, <3>1, <5>1 DEF Told
      <4>2. Told(r)'
          BY <2>1, <3>1 DEF Told
      <4> QED BY <2>1, <2>2, <4>1, <4>2 DEF ToldBeforeCommit
    <3>5. NothingEarly'
      <4>1. ASSUME NEW q \in Request, q # r, pc[q] \in Early \/ answer[q] \in Refusal
            PROVE  /\ q \notin applied
                   /\ \A p \in Product : \A i \in 1..Len(log'[p]) : log'[p][i].by # q
          BY <4>1, <3>1 DEF HandlerInv, NothingEarly
      <4>2. pc'[r] \notin Early /\ answer'[r] \notin Refusal
          BY <2>2 DEF Early, Refusal
      <4> QED BY <2>1, <2>2, <4>1, <4>2 DEF NothingEarly
    <3>6. AppliedBeforeOk'
        BY <2>1, <2>2 DEF HandlerInv, AppliedBeforeOk
    <3>7. OnSaleWasAnnounced'
        BY <2>1, <3>1 DEF HandlerInv, OnSaleWasAnnounced
    <3> QED BY <3>2, <3>3, <3>4, <3>5, <3>6, <3>7 DEF HandlerInv
  <2> QED BY <1>7, <2>2, <2>3, <2>4 DEF SendMessage
<1>8. ASSUME NEW r \in Request, Commit(r) PROVE HandlerInv'
  <2>1. /\ pc[r] = "commit" /\ call[r] \in Call
        /\ Accepts(call[r].wanted, loaded[r].status)
        /\ UNCHANGED <<log, loaded, call>>
      BY <1>8, <1>h DEF Commit, Matched
  <2>2. /\ \A q \in Request : q # r => pc'[q] = pc[q] /\ answer'[q] = answer[q]
        /\ \/ pc'[r] = "refresh" /\ answer'[r] = "none" /\ r \in applied'
           \/ pc'[r] = "done" /\ answer'[r] = "500"
    <3>1. CASE Goto(r, "refresh") /\ Write(r)
      <4>1. pc' = [pc EXCEPT ![r] = "refresh"] /\ answer' = answer /\ applied' = applied \cup {r}
          BY <3>1 DEF Goto, Write
      <4> QED BY <2>1, <4>1, <1>t, <1>h DEF TypeOK
    <3>2. CASE Reply(r, "500")
        BY <2>1, <3>2, <1>t, <1>h DEF Reply, TypeOK
    <3> QED BY <1>8, <3>1, <3>2 DEF Commit
  <2>3. CASE UNCHANGED <<row, applied>>
      BY <2>1, <2>2, <2>3, <1>t, <1>h, QuietMove DEF Early, Matched, Refusal
  <2>4. CASE Write(r)
    <3>1. applied' = applied \cup {r}
        BY <2>4 DEF Write
    <3>2. AnsweredAtTheEnd'
        BY <2>1, <2>2 DEF HandlerInv, AnsweredAtTheEnd
    <3>3. OnlyAccepted'
        BY <2>1, <2>2, <3>1 DEF HandlerInv, OnlyAccepted
    <3>4. ToldBeforeCommit'
        BY <2>1, <2>2, <3>1 DEF HandlerInv, ToldBeforeCommit, Told
    <3>5. NothingEarly'
      <4>1. pc'[r] \notin Early /\ answer'[r] \notin Refusal
          BY <2>2 DEF Early, Refusal
      <4> QED BY <2>1, <2>2, <3>1, <4>1 DEF HandlerInv, NothingEarly
    <3>6. AppliedBeforeOk'
        BY <2>1, <2>2, <3>1 DEF HandlerInv, AppliedBeforeOk
    <3>7. OnSaleWasAnnounced'
      <4> DEFINE c == call[r].product
      <4>1. /\ c \in Product
            /\ \A p \in Product : p # c => row'[p] = row[p]
            /\ row'[c].status = call[r].wanted
          BY <2>1, <2>4, <1>t DEF Write, Updated, TypeOK, Call
      <4>2. CASE call[r].wanted = "on_sale"
        <5>1. Announces(call[r].wanted, loaded[r].status)
            BY <2>1, <4>2 DEF Accepts, Announces, AnnouncedChange, SilentChange
        <5>2. Told(r)
            BY <2>1, <5>1 DEF HandlerInv, ToldBeforeCommit
        <5>3. \E i \in 1..Len(log[c]) : log[c][i].active
          <6>1. [active |-> ActiveAfter(call[r].wanted), by |-> r] = [active |-> TRUE, by |-> r]
              BY <4>2 DEF ActiveAfter
          <6> QED BY <5>2, <6>1 DEF Told
        <5> QED BY <2>1, <4>1, <5>3 DEF HandlerInv, OnSaleWasAnnounced
      <4>3. CASE call[r].wanted # "on_sale"
          BY <2>1, <4>1, <4>3 DEF HandlerInv, OnSaleWasAnnounced
      <4> QED BY <4>2, <4>3
    <3> QED BY <3>2, <3>3, <3>4, <3>5, <3>6, <3>7 DEF HandlerInv
  <2> QED BY <1>8, <2>3, <2>4 DEF Commit
<1>9. ASSUME NEW r \in Request, Refresh(r) PROVE HandlerInv'
  <2>1. /\ pc[r] = "refresh" /\ r \in applied
        /\ UNCHANGED <<row, log, applied, loaded, call>>
        /\ \E code \in {"200", "500"} :
              pc' = [pc EXCEPT ![r] = "done"] /\ answer' = [answer EXCEPT ![r] = code]
      BY <1>9 DEF Refresh, Reply, store, HandlerInv, AppliedBeforeOk
  <2> QED BY <2>1, <1>t, <1>h, QuietMove DEF TypeOK, Early, Matched, Refusal
<1>10. ASSUME Crash PROVE HandlerInv'
  <2>1. /\ UNCHANGED <<row, log, applied, loaded, call>>
        /\ \A q \in Request :
              \/ pc'[q] = "done" /\ answer'[q] = "lost"
              \/ pc'[q] = pc[q] /\ answer'[q] = answer[q]
      BY <1>10, <1>t DEF Crash, store
  <2>2. AnsweredAtTheEnd' /\ OnlyAccepted' /\ AppliedBeforeOk' /\ OnSaleWasAnnounced'
      BY <2>1 DEF HandlerInv, AnsweredAtTheEnd, OnlyAccepted, AppliedBeforeOk,
                  OnSaleWasAnnounced, Matched
  <2>3. ToldBeforeCommit'
      BY <2>1 DEF HandlerInv, ToldBeforeCommit, Told
  <2>4. NothingEarly'
      BY <2>1 DEF HandlerInv, NothingEarly, Early, Refusal
  <2> QED BY <2>2, <2>3, <2>4 DEF HandlerInv
<1>11. ASSUME NEW p \in Product, CreateProduct(p) \/ Moderate(p) \/ Consume(p) PROVE HandlerInv'
  <2>1. /\ UNCHANGED <<log, applied, loaded, call, pc, answer>>
        /\ \A q \in Product : row'[q].status = "on_sale" => row[q].status = "on_sale"
    <3>1. CASE CreateProduct(p)
        BY <3>1, <1>t DEF CreateProduct, Settled, TypeOK
    <3>2. CASE Moderate(p)
        BY <3>2, <1>t DEF Moderate, TypeOK
    <3>3. CASE Consume(p)
        BY <3>3 DEF Consume
    <3> QED BY <1>11, <3>1, <3>2, <3>3
  <2>2. AnsweredAtTheEnd' /\ OnlyAccepted' /\ AppliedBeforeOk' /\ OnSaleWasAnnounced'
      BY <2>1 DEF HandlerInv, AnsweredAtTheEnd, OnlyAccepted, AppliedBeforeOk, OnSaleWasAnnounced
  <2>3. ToldBeforeCommit' /\ NothingEarly'
      BY <2>1 DEF HandlerInv, ToldBeforeCommit, Told, NothingEarly
  <2> QED BY <2>2, <2>3 DEF HandlerInv
<1>12. CASE UNCHANGED vars
    BY <1>12 DEF vars, HandlerInv, AnsweredAtTheEnd, OnlyAccepted, ToldBeforeCommit, Told,
                 NothingEarly, AppliedBeforeOk, OnSaleWasAnnounced
<1> QED
    BY <1>1, <1>2, <1>3, <1>4, <1>5, <1>6, <1>7, <1>8, <1>9, <1>10, <1>11, <1>12 DEF Next, Step

\* The handler's invariant holds in every behaviour.
LEMMA HandlerCorrect == Spec => [](TypeInv /\ HandlerInv)
<1>1. Init => TypeInv /\ HandlerInv
    BY TypeInit, HandlerInit
<1>2. TypeInv /\ HandlerInv /\ [Next]_vars => (TypeInv /\ HandlerInv)'
    BY TypeStep, HandlerStep
<1> QED BY <1>1, <1>2, PTL DEF Spec

\* No product is on sale in the table before its activation is in the queue,
\* however requests race, fail, retry or are lost to crashes.
THEOREM OnSaleIsAnnounced == Spec => []OnSaleWasAnnounced
<1>1. HandlerInv => OnSaleWasAnnounced
    BY DEF HandlerInv
<1> QED BY <1>1, HandlerCorrect, PTL

\* Whatever a request changed of what buyers may see it had published first.
THEOREM AppliedChangeIsAnnounced == Spec => []AppliedChangeWasAnnounced
<1>1. TypeInv /\ HandlerInv => AppliedChangeWasAnnounced
    BY DEF TypeInv, TypeOK, HandlerInv, ToldBeforeCommit, Told, AppliedChangeWasAnnounced
<1> QED BY <1>1, HandlerCorrect, PTL

\* 200 is only answered when the row was written, and a refusal or a bad
\* gateway only when neither table nor queue has been touched.
THEOREM AnswerIsTruthful == Spec => []AnswerTellsEffect
<1>1. TypeInv /\ HandlerInv => AnswerTellsEffect
    BY DEF HandlerInv, AppliedBeforeOk, NothingEarly, Refusal, AnswerTellsEffect, Published
<1> QED BY <1>1, HandlerCorrect, PTL
------------------------------------------------------------------------------
(***************************************************************************)
(* How often a message can be in the queue.  Before its publish is         *)
(* confirmed a request has put no more copies there than it has failed     *)
(* attempts behind it; the last attempt adds at most one.                  *)
(***************************************************************************)
Trying == Early \cup {"send"}
CopiesInv ==
    \A r \in Request, p \in Product :
        /\ Cardinality(Published(r, p)) <= MaxTries
        /\ pc[r] \in Trying => Cardinality(Published(r, p)) <= tries[r]

\* Adding an element adds at most one to the size of a set.
LEMMA OneMore ==
    ASSUME NEW S, NEW x, IsFiniteSet(S)
    PROVE  Cardinality(S \cup {x}) <= Cardinality(S) + 1
<1>1. Cardinality(S) \in Nat
    BY FS_CardinalityType
<1>2. CASE x \in S
    BY <1>1, <1>2, FS_AddElement
<1>3. CASE x \notin S
  <2>1. Cardinality(S \cup {x}) = Cardinality(S) + 1
      BY <1>3, FS_AddElement
  <2> QED BY <1>1, <2>1
<1> QED BY <1>2, <1>3

\* Places in a sequence are finitely many.
LEMMA PlacesAreFinite ==
    ASSUME NEW n \in Nat, NEW T \in SUBSET (1..n)
    PROVE  IsFiniteSet(T) /\ Cardinality(T) \in Nat
<1>1. IsFiniteSet(1..n)
    BY FS_Interval
<1>2. IsFiniteSet(T)
    BY <1>1, FS_Subset
<1> QED BY <1>2, FS_CardinalityType

\* What a request has published of a product is a finite set.
LEMMA PublishedIsFinite ==
    ASSUME TypeOK, NEW r \in Request, NEW p \in Product
    PROVE  IsFiniteSet(Published(r, p)) /\ Cardinality(Published(r, p)) \in Nat
<1>1. Len(log[p]) \in Nat
    BY DEF TypeOK
<1>2. Published(r, p) \in SUBSET (1..Len(log[p]))
    BY DEF Published
<1> QED BY <1>1, <1>2, PlacesAreFinite

\* A publish adds one copy of the publisher's message and none of another's.
LEMMA PublishAddsOne ==
    ASSUME TypeOK, NEW r \in Request, call[r] \in Call, Publish(r),
           NEW q \in Request, NEW p \in Product
    PROVE  /\ Cardinality(Published(q, p)') <= Cardinality(Published(q, p)) + 1
           /\ q # r => Published(q, p)' = Published(q, p)
<1> DEFINE m == [active |-> ActiveAfter(call[r].wanted), by |-> r]
           c == call[r].product
<1>1. m \in Message /\ m.by = r /\ c \in Product
    BY DEF Message, ActiveAfter, Call
<1>2. log' = [log EXCEPT ![c] = Append(log[c], m)]
    BY DEF Publish
<1>3. IsFiniteSet(Published(q, p)) /\ Cardinality(Published(q, p)) \in Nat
    BY PublishedIsFinite
<1>4. CASE p # c
  <2>1. log'[p] = log[p]
      BY <1>2, <1>4 DEF TypeOK
  <2>2. Published(q, p)' = Published(q, p)
      BY <2>1 DEF Published
  <2> QED BY <1>3, <2>2
<1>5. CASE p = c
  <2>1. log[p] \in Seq(Message) /\ log'[p] = Append(log[p], m)
      BY <1>1, <1>2, <1>5 DEF TypeOK
  <2> HIDE DEF m, c
  <2>2. /\ Len(log[p]) \in Nat
        /\ Len(log'[p]) = Len(log[p]) + 1
        /\ \A i \in 1..Len(log[p]) : log'[p][i] = log[p][i]
        /\ log'[p][Len(log[p]) + 1] = m
      BY <1>1, <2>1, AppendKeeps
  <2>3. CASE q = r
    <3>1. Published(q, p)' = Published(q, p) \cup {Len(log[p]) + 1}
        BY <1>1, <2>2, <2>3 DEF Published
    <3> DEFINE before == Published(q, p)
    <3>2. /\ IsFiniteSet(before)
          /\ Cardinality(before) \in Nat
          /\ Published(q, p)' = before \cup {Len(log[p]) + 1}
        BY <1>3, <3>1
    <3> HIDE DEF before
    <3>3. Cardinality(before \cup {Len(log[p]) + 1}) <= Cardinality(before) + 1
        BY <3>2, OneMore
    <3> QED BY <2>3, <3>2, <3>3 DEF before
  <2>4. CASE q # r
    <3>1. Published(q, p)' = Published(q, p)
        BY <1>1, <2>2, <2>4 DEF Published
    <3> QED BY <1>3, <3>1
  <2> QED BY <2>3, <2>4
<1> QED BY <1>4, <1>5

LEMMA CopiesInit == Init => CopiesInv
<1> SUFFICES ASSUME Init, NEW r \in Request, NEW p \in Product
             PROVE  Cardinality(Published(r, p)) = 0 /\ tries[r] = 0
    BY TriesAssumption DEF CopiesInv
<1>1. Published(r, p) = {}
    BY HandlerInit DEF Init, HandlerInv, NothingEarly, Early, Published
<1> QED BY <1>1, FS_EmptySet DEF Init

\* A request that is still trying was trying before, and every failed attempt
\* is counted.
LEMMA StillTrying ==
    ASSUME TypeInv, [Next]_vars, NEW r \in Request
    PROVE  /\ pc'[r] \in Trying => pc[r] \in Trying /\ tries[r] <= tries'[r]
           /\ pc'[r] \in Trying /\ SendMessage(r) => tries'[r] = tries[r] + 1
<1> USE DEF TypeInv, TypeOK, Trying, Early
<1>1. ASSUME NEW q \in Request, Step(q) \/ Arrive(q)
      PROVE  /\ pc'[r] \in Trying => pc[r] \in Trying /\ tries[r] <= tries'[r]
  <2>1. CASE q # r
    <3>1. pc'[r] = pc[r] /\ tries'[r] = tries[r]
        BY <1>1, <2>1
        DEF Arrive, Step, VerifySeller, LoadProduct, GetSellerData, GetStorageQuantity, ReadCategory,
            ExternalService, SendMessage, RetryOrGiveUp, Commit, Refresh, Goto, Reply
    <3> QED BY <3>1
  <2>2. CASE q = r
    <3>1. pc[r] \in Trying \cup {"commit", "refresh"}
        BY <1>1, <2>2
        DEF Arrive, Step, VerifySeller, LoadProduct, GetSellerData, GetStorageQuantity, ReadCategory,
            SendMessage, Commit, Refresh
    <3>2. CASE pc[r] \in {"commit", "refresh"}
      <4>1. Commit(r) \/ Refresh(r)
          BY <1>1, <2>2, <3>2
          DEF Arrive, Step, VerifySeller, LoadProduct, GetSellerData, GetStorageQuantity, ReadCategory,
              SendMessage
      <4>2. pc'[r] \in {"refresh", "done"}
          BY <4>1 DEF Commit, Refresh, Goto, Reply
      <4> QED BY <4>2
    <3>3. tries'[r] = tries[r] \/ tries'[r] = tries[r] + 1
        BY <1>1, <2>2
        DEF Arrive, Step, VerifySeller, LoadProduct, GetSellerData, GetStorageQuantity, ReadCategory,
            SendMessage, RetryOrGiveUp, Commit, Refresh
    <3> QED BY <3>1, <3>2, <3>3
  <2> QED BY <2>1, <2>2
<1>2. ASSUME Crash PROVE pc'[r] \in Trying => pc[r] \in Trying /\ tries[r] <= tries'[r]
    BY <1>2 DEF Crash, InFlight, Serving
<1>3. ASSUME NEW p \in Product, CreateProduct(p) \/ Moderate(p) \/ Consume(p)
      PROVE  UNCHANGED <<pc, tries>>
    BY <1>3 DEF CreateProduct, Moderate, Consume
<1>4. ASSUME UNCHANGED vars PROVE UNCHANGED <<pc, tries>>
    BY <1>4 DEF vars
<1>5. pc'[r] \in Trying => pc[r] \in Trying /\ tries[r] <= tries'[r]
    BY <1>1, <1>2, <1>3, <1>4 DEF Next
<1>6. ASSUME pc'[r] \in Trying, SendMessage(r) PROVE tries'[r] = tries[r] + 1
  <2>1. ~Goto(r, "commit")
      BY <1>6 DEF Goto
  <2>2. RetryOrGiveUp(r)
      BY <1>6, <2>1 DEF SendMessage
  <2> QED BY <2>2 DEF RetryOrGiveUp
<1> QED BY <1>5, <1>6

LEMMA CopiesStep == TypeInv /\ CopiesInv /\ [Next]_vars => CopiesInv'
<1> SUFFICES ASSUME TypeInv, CopiesInv, [Next]_vars,
                    NEW q \in Request, NEW p \in Product
             PROVE  /\ Cardinality(Published(q, p)') <= MaxTries
                    /\ pc'[q] \in Trying => Cardinality(Published(q, p)') <= tries'[q]
    BY DEF CopiesInv
<1>1. TypeOK' /\ TypeOK
    BY TypeStep DEF TypeInv
<1>2. /\ Cardinality(Published(q, p)) <= MaxTries
      /\ pc[q] \in Trying => Cardinality(Published(q, p)) <= tries[q]
      /\ Cardinality(Published(q, p)) \in Nat
    BY <1>1, PublishedIsFinite DEF CopiesInv
<1>3. pc'[q] \in Trying => pc[q] \in Trying /\ tries[q] <= tries'[q]
    BY StillTrying
<1>4. tries[q] \in Nat /\ tries'[q] \in Nat /\ MaxTries \in Nat
    BY <1>1, TriesAssumption DEF TypeOK
<1>5. CASE Published(q, p)' = Published(q, p)
    BY <1>2, <1>3, <1>4, <1>5
<1>6. CASE log' = log
  <2>1. Published(q, p)' = Published(q, p)
      BY <1>6 DEF Published
  <2> QED BY <1>5, <2>1
<1>7. ASSUME NEW r \in Request, pc[r] = "send", Publish(r), SendMessage(r)
      PROVE  /\ Cardinality(Published(q, p)') <= MaxTries
             /\ pc'[q] \in Trying => Cardinality(Published(q, p)') <= tries'[q]
  <2>1. call[r] \in Call
      BY <1>7 DEF TypeInv, CallIsKnown, InFlight, Serving
  <2>2. /\ Cardinality(Published(q, p)') <= Cardinality(Published(q, p)) + 1
        /\ q # r => Published(q, p)' = Published(q, p)
      BY <1>1, <1>7, <2>1, PublishAddsOne
  <2>3. CASE q = r
    <3>1. tries[q] + 1 <= MaxTries
        BY <1>4, <1>7, <2>3 DEF TypeInv, TriesLeft
    <3>2. pc[q] \in Trying
        BY <1>7, <2>3 DEF Trying
    <3>3. pc'[q] \in Trying => tries'[q] = tries[q] + 1
        BY <1>7, <2>3, StillTrying
    <3>4. Cardinality(Published(q, p)') \in Nat
      <4>1. Len(log'[p]) \in Nat
          BY <1>1 DEF TypeOK
      <4>2. Published(q, p)' \in SUBSET (1..Len(log'[p]))
          BY DEF Published
      <4> QED BY <4>1, <4>2, PlacesAreFinite
    <3> QED BY <1>2, <1>4, <2>2, <3>1, <3>2, <3>3, <3>4
  <2>4. CASE q # r
      BY <1>5, <2>2, <2>4
  <2> QED BY <2>3, <2>4
<1> QED BY <1>6, <1>7, LogStep

\* However requests race, and whichever confirmations are lost, the retries of
\* send_message put at most MaxTries copies of a message in the queue.
THEOREM CopiesStayBounded == Spec => []CopiesAreBounded
<1>1. CopiesInv => CopiesAreBounded
    BY DEF CopiesInv, CopiesAreBounded
<1> QED BY <1>1, CopiesInit, CopiesStep, TypeInit, TypeStep, PTL DEF Spec
===============================================================================
