------------------------------- MODULE Listing -------------------------------
(***************************************************************************)
(* GET /products/get-all: how many products the seller has, then one page  *)
(* of them: two statements of one session, between which POST may add      *)
(* products.  No statement takes rows away (a deleted product keeps its    *)
(* row).  A session takes a connection of the engine's pool at its first   *)
(* statement and keeps it until it is closed; both statements are retried  *)
(* by backoff, on the same session.  The page has no ORDER BY, so only the *)
(* number of its rows is modelled.                                         *)
(***************************************************************************)
EXTENDS Integers, FiniteSets, Functions

CONSTANTS
    Seller,       \* seller ids
    Reader,       \* the requests of the behaviour
    Page,         \* the pages they may ask for (ge=1)
    PageSize,     \* and the sizes (1 to 100 in the code)
    PoolSize,     \* pool_size + max_overflow (15, SQLAlchemy's defaults)
    MaxTries,     \* backoff's max_tries (5 in the code)
    MaxProducts,  \* a bound on the products of a seller
    Faults        \* which steps may fail

ListingFaultKinds == {"connect", "query"}
ASSUME QueryAssumption == Page \subseteq Nat \ {0} /\ PageSize \subseteq Nat \ {0}
ASSUME LimitAssumption == {PoolSize, MaxTries, MaxProducts} \subseteq Nat \ {0}
ASSUME ListingFaultsAssumption == Faults \subseteq ListingFaultKinds

VARIABLES
    products,   \* how many products each seller has
    pc,         \* where each request is
    asked,      \* the seller, page and size of its request
    since,      \* how many products the seller had when it came in
    held,       \* the requests whose session holds a connection
    aborted,    \* those whose transaction has failed
    tries,      \* failed attempts of its current statement
    total,      \* what it counted
    response    \* what it is answered

sessions == <<held, aborted, tries>>
vars == <<products, pc, asked, since, sessions, total, response>>

Query == [seller : Seller, page : Page, size : PageSize]
Response == [code : {"none", "200", "403", "500"}, page : Nat, pages : Nat, results : Nat]
Nothing == [code |-> "none", page |-> 0, pages |-> 0, results |-> 0]

Init ==
    /\ products \in [Seller -> 0..MaxProducts]
    /\ pc = [r \in Reader |-> "idle"]
    /\ asked \in [Reader -> Query]
    /\ since = [r \in Reader |-> 0]
    /\ held = {}
    /\ aborted = {}
    /\ tries = [r \in Reader |-> 0]
    /\ total = [r \in Reader |-> 0]
    /\ response = [r \in Reader |-> Nothing]
------------------------------------------------------------------------------
Goto(r, next) == pc' = [pc EXCEPT ![r] = next]

Answer(r, what) ==
    /\ Goto(r, "close")
    /\ response' = [response EXCEPT ![r] = what]

Refuse(r, code) == Answer(r, [Nothing EXCEPT !.code = code])

\* POST /products/create.
CreateProduct(s) ==
    /\ products[s] < MaxProducts
    /\ products' = [products EXCEPT ![s] = @ + 1]
    /\ UNCHANGED <<pc, asked, since, sessions, total, response>>

Arrive(r) ==
    /\ pc[r] = "idle"
    /\ since' = [since EXCEPT ![r] = products[asked[r].seller]]
    /\ Goto(r, "check")
    /\ UNCHANGED <<products, asked, sessions, total, response>>

\* SellerCheck, before the session has a connection.
VerifySeller(r) ==
    /\ pc[r] = "check"
    /\ \/ Goto(r, "count") /\ UNCHANGED response
       \/ Refuse(r, "403")
    /\ UNCHANGED <<products, asked, since, sessions, total>>
------------------------------------------------------------------------------
\* A mutant: one attempt too many.
RetryOnceMore(r) ==
    /\ tries' = [tries EXCEPT ![r] = @ + 1]
    /\ IF tries[r] < MaxTries THEN UNCHANGED <<pc, response>> ELSE Refuse(r, "500")

\* backoff: the same statement again, until max_tries attempts have failed.
RetryOrGiveUp(r) ==
    /\ tries' = [tries EXCEPT ![r] = @ + 1]
    /\ IF tries[r] + 1 < MaxTries THEN UNCHANGED <<pc, response>> ELSE Refuse(r, "500")

\* The first statement takes a connection: PostgreSQL may refuse a new one,
\* and a full pool is waited for until the wait times out.
TakeConnection(r) ==
    /\ pc[r] = "count" /\ r \notin held
    /\ \/ Cardinality(held) < PoolSize /\ held' = held \cup {r} /\ UNCHANGED <<pc, tries, response>>
       \/ /\ "connect" \in Faults \/ Cardinality(held) = PoolSize
          /\ RetryOrGiveUp(r) /\ UNCHANGED held
    /\ UNCHANGED <<products, asked, since, aborted, total>>

\* A statement fails and with it the transaction: nothing rolls it back, so
\* that every further attempt fails, too.
StatementFails(r) ==
    /\ pc[r] \in {"count", "select"} /\ r \in held
    /\ "query" \in Faults
    /\ aborted' = aborted \cup {r}
    /\ RetryOrGiveUp(r)
    /\ UNCHANGED <<products, asked, since, held, total>>

\* A mutant: the count is of all sellers' products.
CountEverything(r) ==
    /\ pc[r] = "count" /\ r \in held \ aborted
    /\ total' = [total EXCEPT ![r] = FoldFunction(LAMBDA n, sum : n + sum, 0, products)]
    /\ tries' = [tries EXCEPT ![r] = 0]
    /\ Goto(r, "select")
    /\ UNCHANGED <<products, asked, since, held, aborted, response>>

\* SELECT count(*): without products the page that was asked for is answered,
\* with total_pages' default of 1.
Count(r) ==
    LET n == products[asked[r].seller]
    IN  /\ pc[r] = "count" /\ r \in held \ aborted
        /\ total' = [total EXCEPT ![r] = n]
        /\ tries' = [tries EXCEPT ![r] = 0]
        /\ IF n = 0
           THEN Answer(r, [code |-> "200", page |-> asked[r].page, pages |-> 1, results |-> 0])
           ELSE Goto(r, "select") /\ UNCHANGED response
        /\ UNCHANGED <<products, asked, since, held, aborted>>

\* ceil(total_count / size)
TotalPages(count, size) == (count + size - 1) \div size

\* A mutant: a page beyond the last is not replaced.
PageAsAsked(page, pages) == page

PageShown(page, pages) == IF page > pages THEN pages ELSE page

\* LIMIT size OFFSET skipped.
RowsOfPage(rows, skipped, size) ==
    IF rows <= skipped THEN 0 ELSE IF rows - skipped < size THEN rows - skipped ELSE size

\* The page, of the rows that are there by now.  A row that ProductRead does
\* not validate makes it a 500, whatever else the page holds.
SelectPage(r) ==
    LET size == asked[r].size
        pages == TotalPages(total[r], size)
        page == PageShown(asked[r].page, pages)
        rows == RowsOfPage(products[asked[r].seller], (page - 1) * size, size)
    IN  /\ pc[r] = "select" /\ r \in held \ aborted
        /\ \/ Answer(r, [code |-> "200", page |-> page, pages |-> pages, results |-> rows])
           \/ rows > 0 /\ Refuse(r, "500")
        /\ UNCHANGED <<products, asked, since, sessions, total>>

\* A mutant: only a request that succeeds closes its session.
CloseSessionOfSuccess(r) ==
    /\ pc[r] = "close"
    /\ Goto(r, "done")
    /\ held' = IF response[r].code = "200" THEN held \ {r} ELSE held
    /\ UNCHANGED <<products, asked, since, aborted, tries, total, response>>

\* get_session's "async with" ends, also after an exception, and the
\* connection, rolled back, returns to the pool.
CloseSession(r) ==
    /\ pc[r] = "close"
    /\ Goto(r, "done")
    /\ held' = held \ {r}
    /\ UNCHANGED <<products, asked, since, aborted, tries, total, response>>

Step(r) ==
    \/ VerifySeller(r) \/ TakeConnection(r) \/ StatementFails(r)
    \/ Count(r) \/ SelectPage(r) \/ CloseSession(r)

Next == (\E s \in Seller : CreateProduct(s)) \/ \E r \in Reader : Arrive(r) \/ Step(r)

Spec == Init /\ [][Next]_vars

\* The event loop resumes every coroutine whose await has ended; the wait for
\* a connection, the statement and the pause of backoff all end.
FairSpec == Spec /\ \A r \in Reader : WF_vars(Step(r))
------------------------------------------------------------------------------
\* Every variable has its type; neither the pool nor the retries exceed their
\* limits.
TypeOK ==
    /\ products \in [Seller -> 0..MaxProducts]
    /\ pc \in [Reader -> {"idle", "check", "count", "select", "close", "done"}]
    /\ asked \in [Reader -> Query]
    /\ since \in [Reader -> 0..MaxProducts]
    /\ held \subseteq Reader /\ Cardinality(held) <= PoolSize
    /\ aborted \subseteq Reader
    /\ tries \in [Reader -> 0..MaxTries]
    /\ total \in [Reader -> 0..MaxProducts]
    /\ response \in [Reader -> Response]

\* A seller who has products never gets an empty page, nor a page outside the
\* pages announced: whatever page is asked for and however the table grows
\* between the count and the SELECT, the page has what the count promises.
PageHasItsShare ==
    \A r \in Reader :
        response[r].code = "200" /\ total[r] > 0 =>
            LET skipped == (response[r].page - 1) * asked[r].size
            IN  /\ 1 <= response[r].page /\ response[r].page <= response[r].pages
                /\ 1 <= response[r].results /\ response[r].results <= asked[r].size
                /\ response[r].results < asked[r].size => skipped + response[r].results >= total[r]

\* The total is the seller's own, as it was at some time while the request
\* was served, whichever attempt of the count succeeded.
TotalIsCurrent ==
    \A r \in Reader :
        response[r].code = "200" =>
            since[r] <= total[r] /\ total[r] <= products[asked[r].seller]

\* Requests that wait for a connection wait for one only, and time out: each
\* is answered in the end, and its connection returns to the pool.
EveryReaderLetsGo ==
    \A r \in Reader : pc[r] = "check" ~> pc[r] = "done" /\ r \notin held
===============================================================================
