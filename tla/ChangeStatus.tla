---------------------------- MODULE ChangeStatus ----------------------------
(***************************************************************************)
(* PATCH /products/change-status/{product_id}: every step of the handler   *)
(* Service.change_product_status between two awaits, for requests whose    *)
(* steps interleave on the event loop, over the product table (PostgreSQL, *)
(* READ COMMITTED, no row lock between the SELECT and the UPDATE), the     *)
(* RabbitMQ queue "products.updated" and the search index fed from it.     *)
(*                                                                         *)
(* A request is served once.  The queue is kept per product, as the log of *)
(* everything ever published and the position the consumer has reached.    *)
(***************************************************************************)
EXTENDS ProductStatus, Naturals, Sequences, FiniteSets

CONSTANTS
    Product,     \* product ids
    Seller,      \* seller ids
    Owner,       \* Owner[p]: the seller_id of product p, fixed at creation
    Request,     \* the PATCH requests of the behaviour
    NoRequest,   \* the publisher of what was in the queue at the start
    MaxTries,    \* backoff's max_tries on RabbitMQ.send_message (5 in the code)
    Faults,      \* which steps may fail
    Overlap      \* FALSE: a request is only sent when no other is being served

FaultKinds == {"http", "read", "publish", "confirm", "commit", "crash"}

ASSUME OwnerAssumption == Owner \in [Product -> Seller]
ASSUME RequestAssumption == NoRequest \notin Request
ASSUME TriesAssumption == MaxTries \in Nat \ {0}
ASSUME FaultsAssumption == Faults \subseteq FaultKinds
ASSUME OverlapAssumption == Overlap \in BOOLEAN

VARIABLES
    row,        \* the product table: status and is_active
    log,        \* log[p]: the messages about p published so far
    indexed,    \* how many of them the search index has taken in
    pc,         \* where each request is
    call,       \* what it asks for
    loaded,     \* the row its SELECT returned
    tries,      \* failed attempts of its send_message
    answer,     \* the HTTP status it was answered with
    applied     \* the requests whose UPDATE reached the table

store == <<row, log, indexed>>
vars == <<row, log, indexed, pc, call, loaded, tries, answer, applied>>
------------------------------------------------------------------------------
Absent == [status |-> "absent", active |-> FALSE]
Row == [status : ProductStatus, active : BOOLEAN] \cup {Absent}
Message == [active : BOOLEAN, by : Request \cup {NoRequest}]
Call == [product : Product, seller : Seller, wanted : ProductStatusForChange]
NoCall == [wanted |-> "nothing"]
Serving == {"check", "load", "seller", "storage", "category", "send", "commit", "refresh"}
Answer == {"none", "200", "403", "404", "406", "500", "502", "lost"}

\* A product whose past changes all went well, and what they published.
Settled(status) == [status |-> status, active |-> status = "on_sale"]
History(status) ==
    LET told(active) == [active |-> active, by |-> NoRequest]
    IN  CASE status = "on_sale"      -> <<told(TRUE)>>
          [] status = "not_for_sale" -> <<told(TRUE), told(FALSE)>>
          [] OTHER                   -> <<>>

\* The service starts over whatever an earlier run left behind.
Init ==
    /\ row \in [Product -> {Settled(s) : s \in ProductStatus} \cup {Absent}]
    /\ log = [p \in Product |-> History(row[p].status)]
    /\ indexed = [p \in Product |-> Len(log[p])]
    /\ pc = [r \in Request |-> "idle"]
    /\ call = [r \in Request |-> NoCall]
    /\ loaded = [r \in Request |-> Absent]
    /\ tries = [r \in Request |-> 0]
    /\ answer = [r \in Request |-> "none"]
    /\ applied = {}
------------------------------------------------------------------------------
InFlight(r) == pc[r] \in Serving

Goto(r, next) == pc' = [pc EXCEPT ![r] = next] /\ UNCHANGED answer

Reply(r, code) ==
    /\ pc' = [pc EXCEPT ![r] = "done"]
    /\ answer' = [answer EXCEPT ![r] = code]

\* A client sends the request.
Arrive(r) ==
    /\ pc[r] = "idle"
    /\ Overlap \/ \A q \in Request : ~InFlight(q)
    /\ \E c \in Call : call' = [call EXCEPT ![r] = c]
    /\ Goto(r, "check")
    /\ UNCHANGED <<store, loaded, tries, applied>>

\* SellerCheck asks the sellers service who the token belongs to; every
\* failure, the network's included, is a 403.
VerifySeller(r) ==
    /\ pc[r] = "check"
    /\ Goto(r, "load") \/ Reply(r, "403")
    /\ UNCHANGED <<store, call, loaded, tries, applied>>

\* A mutant: the withdrawals from sale commit without a message.
AfterMatchSilently(wanted, current) == IF wanted = "on_sale" THEN "seller" ELSE "commit"

\* What the match decides, in the same step as the SELECT returns.
AfterMatch(wanted, current) ==
    CASE wanted = "on_sale"        -> "seller"
      [] Announces(wanted, current) -> "send"
      [] OTHER                     -> "commit"

\* SELECT ... WHERE id AND seller_id, then the match: no await between them.
LoadProduct(r) ==
    LET p == call[r].product
        mine == row[p].status # "absent" /\ Owner[p] = call[r].seller
    IN  /\ pc[r] = "load"
        /\ \/ "read" \in Faults /\ Reply(r, "500") /\ UNCHANGED loaded
           \/ ~mine /\ Reply(r, "404") /\ UNCHANGED loaded
           \/ /\ mine
              /\ loaded' = [loaded EXCEPT ![r] = row[p]]
              /\ IF Accepts(call[r].wanted, row[p].status)
                 THEN Goto(r, AfterMatch(call[r].wanted, row[p].status))
                 ELSE Reply(r, "406")
        /\ UNCHANGED <<store, call, tries, applied>>

\* _get_response_from_external_service: a service that is out of reach or
\* answers with an error ends in 502, an answer that is not JSON in 500.
ExternalService(r, next) ==
    \/ Goto(r, next)
    \/ "http" \in Faults /\ \E code \in {"500", "502"} : Reply(r, code)

\* create_product_info_for_ETL: two calls to other services, then a SELECT.
GetSellerData(r) ==
    /\ pc[r] = "seller"
    /\ ExternalService(r, "storage")
    /\ UNCHANGED <<store, call, loaded, tries, applied>>

\* A mutant: when the storages service fails, both services are asked again.
GetStorageQuantityForever(r) ==
    /\ pc[r] = "storage"
    /\ Goto(r, "category") \/ ("http" \in Faults /\ Goto(r, "seller"))
    /\ UNCHANGED <<store, call, loaded, tries, applied>>

GetStorageQuantity(r) ==
    /\ pc[r] = "storage"
    /\ ExternalService(r, "category")
    /\ UNCHANGED <<store, call, loaded, tries, applied>>

\* A mutant: the row is committed before its message is sent.
ReadCategoryThenCommit(r) ==
    /\ pc[r] = "category"
    /\ Goto(r, "commit")
    /\ UNCHANGED <<store, call, loaded, tries, applied>>

\* A product without a subcategory ends in 500, a subcategory without one in 404.
ReadCategory(r) ==
    /\ pc[r] = "category"
    /\ \/ Goto(r, "send")
       \/ "read" \in Faults /\ \E code \in {"404", "500"} : Reply(r, code)
    /\ UNCHANGED <<store, call, loaded, tries, applied>>
------------------------------------------------------------------------------
Publish(r) ==
    log' = [log EXCEPT ![call[r].product] =
                Append(@, [active |-> ActiveAfter(call[r].wanted), by |-> r])]

\* A mutant: one attempt too many.
RetryOnceMore(r) ==
    /\ tries' = [tries EXCEPT ![r] = @ + 1]
    /\ IF tries[r] < MaxTries THEN Goto(r, "send") ELSE Reply(r, "500")

\* backoff: another attempt until max_tries have failed, then the exception.
RetryOrGiveUp(r) ==
    /\ tries' = [tries EXCEPT ![r] = @ + 1]
    /\ IF tries[r] + 1 < MaxTries THEN Goto(r, "send") ELSE Reply(r, "500")

\* One attempt of send_message: it is confirmed, or fails before the broker
\* has the message, or fails after.
SendMessage(r) ==
    /\ pc[r] = "send"
    /\ \/ Publish(r) /\ Goto(r, "commit") /\ UNCHANGED tries
       \/ "publish" \in Faults /\ RetryOrGiveUp(r) /\ UNCHANGED log
       \/ "confirm" \in Faults /\ Publish(r) /\ RetryOrGiveUp(r)
    /\ UNCHANGED <<row, indexed, call, loaded, applied>>

\* A mutant: is_active is not reset before the match.
UpdatedWithoutReset(current, seen, wanted) ==
    [status |-> wanted, active |-> current.active \/ ActiveAfter(wanted)]

\* The UPDATE writes the columns whose value differs from the loaded one.
Updated(current, seen, wanted) ==
    [status |-> wanted,
     active |-> IF ActiveAfter(wanted) = seen.active THEN current.active ELSE ActiveAfter(wanted)]

Write(r) ==
    /\ row' = [row EXCEPT ![call[r].product] = Updated(@, loaded[r], call[r].wanted)]
    /\ applied' = applied \cup {r}

\* A mutant: the exception of a failed commit is swallowed.
CommitSwallowingErrors(r) ==
    /\ pc[r] = "commit"
    /\ Goto(r, "refresh")
    /\ Write(r) \/ ("commit" \in Faults /\ UNCHANGED <<row, applied>>)
    /\ UNCHANGED <<log, indexed, call, loaded, tries>>

\* session.commit(): done, refused, or done with the confirmation lost.
Commit(r) ==
    /\ pc[r] = "commit"
    /\ \/ Write(r) /\ Goto(r, "refresh")
       \/ "commit" \in Faults /\ Reply(r, "500") /\ UNCHANGED <<row, applied>>
       \/ "commit" \in Faults /\ Write(r) /\ Reply(r, "500")
    /\ UNCHANGED <<log, indexed, call, loaded, tries>>

\* session.refresh() reads the row again before the handler returns.
Refresh(r) ==
    /\ pc[r] = "refresh"
    /\ Reply(r, "200") \/ ("read" \in Faults /\ Reply(r, "500"))
    /\ UNCHANGED <<store, call, loaded, tries, applied>>

Step(r) ==
    \/ VerifySeller(r) \/ LoadProduct(r)
    \/ GetSellerData(r) \/ GetStorageQuantity(r) \/ ReadCategory(r)
    \/ SendMessage(r) \/ Commit(r) \/ Refresh(r)
------------------------------------------------------------------------------
\* One of the server's processes dies with the requests it is serving: their
\* transactions roll back, their clients get no answer.
Crash ==
    \E served \in SUBSET {r \in Request : InFlight(r)} :
        /\ "crash" \in Faults /\ served # {}
        /\ pc' = [r \in Request |-> IF r \in served THEN "done" ELSE pc[r]]
        /\ answer' = [r \in Request |-> IF r \in served THEN "lost" ELSE answer[r]]
        /\ UNCHANGED <<store, call, loaded, tries, applied>>

\* POST /products commits a row with the column defaults.
CreateProduct(p) ==
    /\ row[p] = Absent
    /\ row' = [row EXCEPT ![p] = Settled("new")]
    /\ UNCHANGED <<log, indexed, pc, call, loaded, tries, answer, applied>>

\* The moderation service, which nothing under src/ shows, decides.
Moderate(p) ==
    /\ row[p].status = "on_moderation"
    /\ \E verdict \in {"ready_for_sale", "needs_fix"} :
          row' = [row EXCEPT ![p] = [status |-> verdict, active |-> @.active]]
    /\ UNCHANGED <<log, indexed, pc, call, loaded, tries, answer, applied>>

\* ETL_Products takes the next message into the search index.
Consume(p) ==
    /\ indexed[p] < Len(log[p])
    /\ indexed' = [indexed EXCEPT ![p] = @ + 1]
    /\ UNCHANGED <<row, log, pc, call, loaded, tries, answer, applied>>

Next ==
    \/ \E r \in Request : Arrive(r) \/ Step(r)
    \/ Crash
    \/ \E p \in Product : CreateProduct(p) \/ Moderate(p) \/ Consume(p)

Spec == Init /\ [][Next]_vars

\* The event loop resumes every coroutine whose await has ended (httpx and
\* aio_pika time out), and the consumer keeps consuming.
Fairness ==
    /\ \A r \in Request : WF_vars(Step(r))
    /\ \A p \in Product : WF_vars(Consume(p))

FairSpec == Spec /\ Fairness
------------------------------------------------------------------------------
\* Every variable has its type; retries stay within the bound of backoff.
TypeOK ==
    /\ row \in [Product -> Row]
    /\ log \in [Product -> Seq(Message)]
    /\ indexed \in [Product -> Nat]
    /\ pc \in [Request -> Serving \cup {"idle", "done"}]
    /\ call \in [Request -> Call \cup {NoCall}]
    /\ loaded \in [Request -> Row]
    /\ tries \in [Request -> 0..MaxTries]
    /\ answer \in [Request -> Answer]
    /\ applied \subseteq Request

\* The messages about p that request r has published.
Published(r, p) == {i \in 1..Len(log[p]) : log[p][i].by = r}

\* What a search for p shows once the index has taken in indexed[p] messages.
Visible(p) == indexed[p] > 0 /\ log[p][indexed[p]].active

\* A product is never on sale in the table unless its activation was
\* published: send_message comes before the commit, also when requests race.
OnSaleWasAnnounced ==
    \A p \in Product :
        row[p].status = "on_sale" => \E i \in 1..Len(log[p]) : log[p][i].active

\* A change of what buyers may see that reached the table was published by
\* the same request, with the same meaning.
AppliedChangeWasAnnounced ==
    \A r \in applied :
        Announces(call[r].wanted, loaded[r].status) =>
            \E i \in 1..Len(log[call[r].product]) :
                log[call[r].product][i] = [active |-> ActiveAfter(call[r].wanted), by |-> r]

\* The answer tells the effect: 200 means the row was written; 403, 404, 406
\* and 502 mean that neither the table nor the queue has seen the request.
\* Only 500 and a lost answer leave the client in the dark.
AnswerTellsEffect ==
    \A r \in Request :
        /\ answer[r] = "200" => r \in applied
        /\ answer[r] \in {"403", "404", "406", "502"} =>
              r \notin applied /\ \A p \in Product : Published(r, p) = {}

\* Delivery is at least once: the retries of send_message put at most
\* MaxTries copies of a request's message in the queue.
CopiesAreBounded ==
    \A r \in Request, p \in Product : Cardinality(Published(r, p)) <= MaxTries

\* Without overlapping requests, is_active says whether the product is on sale.
ActiveIffOnSale ==
    \A p \in Product : row[p].active <=> row[p].status = "on_sale"

\* Without overlapping requests every change of a row is an edge of the
\* lifecycle: the handler's many steps implement one step of it.
Lifecycle == INSTANCE StatusLifecycle WITH Product <- Product, row <- row
LifecycleIsKept == Lifecycle!Spec

\* Without overlapping requests, when search and table disagree for good it
\* is because some request published its message and then failed to commit
\* (the message cannot be taken back) and the client was not told.
Settling(p) == indexed[p] < Len(log[p]) \/ \E r \in Request : InFlight(r)
DriftHasCulprit ==
    \A p \in Product :
        ~Settling(p) /\ (Visible(p) # (row[p].status = "on_sale")) =>
            \E r \in Request \ applied : Published(r, p) # {} /\ answer[r] \in {"500", "lost"}

\* Every request that was sent is answered, or lost to a crash.
EveryRequestEnds == \A r \in Request : pc[r] = "check" ~> pc[r] = "done"

\* What the test of the endpoint asserts after a deletion was answered 200:
\* the row is deleted and inactive.
DeletionIsFinal ==
    \A r \in Request :
        answer[r] = "200" /\ call[r].wanted = "deleted" =>
            row[call[r].product] = Settled("deleted")
===============================================================================
