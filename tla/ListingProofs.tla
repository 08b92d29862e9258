---------------------------- MODULE ListingProofs ----------------------------
(***************************************************************************)
(* Listing for any sellers, requests, pages, sizes and numbers of products.*)
(***************************************************************************)
EXTENDS Listing, FiniteSetTheorems, TLAPS

\* What a division rounded up gives: pages are full but for the last, and the
\* last is not empty.
LEMMA RoundedUp ==
  ASSUME NEW count \in Nat \ {0}, NEW size \in Nat \ {0}
  PROVE  /\ TotalPages(count, size) \in Nat \ {0}
         /\ TotalPages(count, size) * size <= count + size - 1
         /\ count <= TotalPages(count, size) * size
  <1> DEFINE x == count + size - 1
             q == x \div size
  <1>1. x \in Nat /\ x >= size
    OBVIOUS
  <1>2. q \in Int /\ x = size * q + (x % size) /\ x % size \in 0..(size - 1)
    BY <1>1
  <1>3. size * q <= x /\ x < size * q + size
    BY <1>2
  <1>4. q >= 1
    <2> SUFFICES ASSUME q <= 0 PROVE FALSE
      BY <1>2
    <2>1. size * q <= 0
      BY <1>2
    <2> QED
      BY <1>1, <1>3, <2>1
  <1>5. size * q = q * size
    BY <1>2
  <1> QED
    BY <1>2, <1>3, <1>4, <1>5 DEF TotalPages

\* No page up to the last begins behind the rows that were counted.
LEMMA PageBegins ==
  ASSUME NEW count \in Nat \ {0}, NEW size \in Nat \ {0}, NEW page \in Nat \ {0},
         page <= TotalPages(count, size)
  PROVE  (page - 1) * size \in Nat /\ (page - 1) * size < count
  <1> DEFINE pages == TotalPages(count, size)
  <1>1. pages \in Nat \ {0} /\ pages * size <= count + size - 1
    BY RoundedUp
  <1> HIDE DEF pages
  <1>2. page * size <= pages * size
    BY <1>1 DEF pages
  <1>3. (page - 1) * size = page * size - size
    OBVIOUS
  <1>4. page * size \in Nat /\ page * size >= size
    OBVIOUS
  <1> QED
    BY <1>1, <1>2, <1>3, <1>4

\* What the page shown has, when no counted row has gone away.
Share(count, size, page, pages, results) ==
    /\ 1 <= page /\ page <= pages
    /\ 1 <= results /\ results <= size
    /\ results < size => (page - 1) * size + results >= count

LEMMA PageFilled ==
  ASSUME NEW count \in Nat \ {0}, NEW size \in Nat \ {0}, NEW wanted \in Nat \ {0},
         NEW rows \in Nat, count <= rows
  PROVE  LET pages == TotalPages(count, size)
             page == PageShown(wanted, pages)
             results == RowsOfPage(rows, (page - 1) * size, size)
         IN  /\ page \in Nat /\ pages \in Nat /\ results \in Nat
             /\ Share(count, size, page, pages, results)
  <1> DEFINE pages == TotalPages(count, size)
             page == PageShown(wanted, pages)
             skipped == (page - 1) * size
             results == RowsOfPage(rows, skipped, size)
  <1>1. pages \in Nat \ {0}
    BY RoundedUp
  <1>2. page \in Nat \ {0} /\ page <= pages
    <2> HIDE DEF pages
    <2> QED
      BY <1>1 DEF PageShown
  <1>3. skipped \in Nat /\ skipped < count
    <2> HIDE DEF page
    <2> QED
      BY <1>2, PageBegins
  <1>4. results \in Nat /\ 1 <= results /\ results <= size
        /\ (results < size => skipped + results >= count)
    <2> HIDE DEF skipped
    <2> QED
      BY <1>3 DEF RowsOfPage
  <1> HIDE DEF pages, page, results
  <1>5. Share(count, size, page, pages, results)
    BY <1>1, <1>2, <1>4 DEF Share
  <1> QED
    BY <1>1, <1>2, <1>4, <1>5 DEF pages, page, results
------------------------------------------------------------------------------
\* The types that the pages depend on.
ListingTypes ==
    /\ products \in [Seller -> Nat]
    /\ pc \in [Reader -> {"idle", "check", "count", "select", "close", "done"}]
    /\ asked \in [Reader -> Query]
    /\ since \in [Reader -> Nat]
    /\ total \in [Reader -> Nat]
    /\ response \in [Reader -> Response]

\* The count lies between what was there at first and what is there now.
Between(r) == since[r] <= total[r] /\ total[r] <= products[asked[r].seller]

\* What holds of a request at each place: rows are only added, so that what it
\* counted stays a lower bound until its page is selected.
PageInv ==
    /\ ListingTypes
    /\ \A r \in Reader :
          /\ pc[r] # "idle" => since[r] <= products[asked[r].seller]
          /\ pc[r] \in {"idle", "check", "count", "select"} => response[r].code # "200"
          /\ pc[r] = "select" => total[r] # 0 /\ Between(r)
          /\ response[r].code = "200" => Between(r)
          /\ response[r].code = "200" /\ total[r] > 0 =>
                Share(total[r], asked[r].size, response[r].page, response[r].pages,
                      response[r].results)

LEMMA PageInit == Init => PageInv
  BY LimitAssumption DEF Init, PageInv, ListingTypes, Nothing, Response

\* Only one request's own places and answer change, and the answer is no page.
LEMMA NoPage ==
  ASSUME PageInv, NEW r \in Reader,
         UNCHANGED <<products, asked, since, total>>,
         \/ /\ (pc[r] = "check" /\ Goto(r, "count")) \/ Goto(r, "done")
            /\ UNCHANGED response
         \/ \E code \in {"403", "500"} : Refuse(r, code)
         \/ UNCHANGED <<pc, response>>,
         pc[r] # "idle"
  PROVE  PageInv'
  <1> USE DEF PageInv, ListingTypes, Between, Goto
  <1>1. CASE ((pc[r] = "check" /\ Goto(r, "count")) \/ Goto(r, "done")) /\ UNCHANGED response
    BY <1>1
  <1>2. ASSUME NEW code \in {"403", "500"}, Refuse(r, code) PROVE PageInv'
    BY <1>2 DEF Refuse, Answer, Nothing, Response
  <1>3. CASE UNCHANGED <<pc, response>>
    BY <1>3
  <1> QED
    BY <1>1, <1>2, <1>3
LEMMA PageStep == PageInv /\ [Next]_vars => PageInv'
  <1> SUFFICES ASSUME PageInv, [Next]_vars PROVE PageInv'
    OBVIOUS
  <1>1. ASSUME NEW s \in Seller, CreateProduct(s) PROVE PageInv'
    BY <1>1 DEF CreateProduct, sessions, PageInv, ListingTypes, Between, Query
  <1>2. ASSUME NEW r \in Reader, Arrive(r) PROVE PageInv'
    BY <1>2 DEF Arrive, Goto, sessions, PageInv, ListingTypes, Between, Query
  <1>3. ASSUME NEW r \in Reader, VerifySeller(r) PROVE PageInv'
    BY <1>3, NoPage DEF VerifySeller, sessions
  <1>4. ASSUME NEW r \in Reader, TakeConnection(r) PROVE PageInv'
    BY <1>4, NoPage DEF TakeConnection, RetryOrGiveUp
  <1>5. ASSUME NEW r \in Reader, StatementFails(r) PROVE PageInv'
    BY <1>5, NoPage DEF StatementFails, RetryOrGiveUp
  <1>6. ASSUME NEW r \in Reader, Count(r) PROVE PageInv'
    <2> USE DEF PageInv, ListingTypes, Between
    <2> DEFINE n == products[asked[r].seller]
    <2>0. n \in Nat /\ since[r] <= n /\ asked[r] \in Query /\ asked[r].page \in Nat
      BY <1>6, QueryAssumption DEF Count, Query
    <2>1. CASE n = 0
      <3>1. response' = [response EXCEPT ![r] = [code |-> "200", page |-> asked[r].page,
                                                 pages |-> 1, results |-> 0]]
        BY <1>6, <2>1 DEF Count, Answer
      <3> QED
        BY <1>6, <2>0, <2>1, <3>1 DEF Count, Answer, Goto, Response
    <2>2. CASE n # 0
      BY <1>6, <2>0, <2>2 DEF Count, Goto
    <2> QED
      BY <2>1, <2>2
  <1>7. ASSUME NEW r \in Reader, SelectPage(r) PROVE PageInv'
    <2> DEFINE size == asked[r].size
               rows == products[asked[r].seller]
               pages == TotalPages(total[r], size)
               page == PageShown(asked[r].page, pages)
               results == RowsOfPage(rows, (page - 1) * size, size)
    <2>1. /\ total[r] \in Nat \ {0} /\ size \in Nat \ {0} /\ asked[r].page \in Nat \ {0}
          /\ rows \in Nat /\ total[r] <= rows /\ Between(r)
      BY <1>7, QueryAssumption DEF SelectPage, PageInv, ListingTypes, Between, Query
    <2>2. /\ page \in Nat /\ pages \in Nat /\ results \in Nat
          /\ Share(total[r], size, page, pages, results)
      <3> HIDE DEF size, rows
      <3> QED
        BY <2>1, PageFilled
    <2>4. CASE Refuse(r, "500")
      BY <1>7, <2>4, NoPage DEF SelectPage, sessions
    <2>5. CASE ~Refuse(r, "500")
      <3>1. /\ response' = [response EXCEPT ![r] =
                               [code |-> "200", page |-> page, pages |-> pages, results |-> results]]
            /\ pc' = [pc EXCEPT ![r] = "close"]
            /\ UNCHANGED <<products, asked, since, total>>
        BY <1>7, <2>5 DEF SelectPage, Answer, Goto, sessions
      <3> HIDE DEF page, pages, results
      <3> QED
        BY <2>1, <2>2, <3>1 DEF PageInv, ListingTypes, Between, Response
    <2> QED
      BY <2>4, <2>5
  <1>8. ASSUME NEW r \in Reader, CloseSession(r) PROVE PageInv'
    BY <1>8, NoPage DEF CloseSession
  <1>9. CASE UNCHANGED vars
    BY <1>9 DEF vars, PageInv, ListingTypes, Between
  <1> QED
    BY <1>1, <1>2, <1>3, <1>4, <1>5, <1>6, <1>7, <1>8, <1>9 DEF Next, Step

LEMMA PageCorrect == Spec => []PageInv
  BY PageInit, PageStep, PTL DEF Spec

\* For every page and size, and however many products are added while the
\* request is served, a seller who has products gets a page inside the pages
\* announced that has what the count promises (Service.get_all).
THEOREM PagesHaveTheirShare == Spec => []PageHasItsShare
  <1>1. PageInv => PageHasItsShare
    BY DEF PageInv, PageHasItsShare, Share
  <1> QED
    BY <1>1, PageCorrect, PTL

\* The total is the seller's own, as it was while the request was served.
THEOREM TotalsAreCurrent == Spec => []TotalIsCurrent
  <1>1. PageInv => TotalIsCurrent
    BY DEF PageInv, TotalIsCurrent, Between
  <1> QED
    BY <1>1, PageCorrect, PTL
------------------------------------------------------------------------------
\* What limits are kept: a statement is only tried while attempts are left, and
\* a connection is only taken while the pool has one.
Connections == IsFiniteSet(held) /\ held \subseteq Reader /\ Cardinality(held) <= PoolSize
Attempts ==
    /\ tries \in [Reader -> 0..MaxTries]
    /\ \A r \in Reader : pc[r] \notin {"close", "done"} => tries[r] < MaxTries
Numbers ==
    /\ products \in [Seller -> 0..MaxProducts]
    /\ since \in [Reader -> 0..MaxProducts]
    /\ total \in [Reader -> 0..MaxProducts]
Limits == Connections /\ Attempts /\ Numbers /\ aborted \subseteq Reader

LEMMA LimitsInit == Init => Limits
  <1> SUFFICES ASSUME Init PROVE Limits
    OBVIOUS
  <1>1. PoolSize \in Nat /\ MaxTries \in Nat \ {0} /\ MaxProducts \in Nat
    BY LimitAssumption
  <1>2. Connections
    BY <1>1, FS_EmptySet DEF Init, Connections
  <1> QED
    BY <1>1, <1>2 DEF Init, Limits, Attempts, Numbers

\* One more connection is within the limit when there was one left.
LEMMA OneConnectionMore ==
  ASSUME NEW S, NEW x, NEW n \in Nat, IsFiniteSet(S), x \notin S, Cardinality(S) < n
  PROVE  IsFiniteSet(S \cup {x}) /\ Cardinality(S \cup {x}) <= n
  <1>1. IsFiniteSet(S \cup {x}) /\ Cardinality(S \cup {x}) = Cardinality(S) + 1
    BY FS_AddElement
  <1>2. Cardinality(S) \in Nat
    BY FS_CardinalityType
  <1> QED
    BY <1>1, <1>2

LEMMA OneConnectionLess ==
  ASSUME NEW S, NEW x, NEW n \in Nat, IsFiniteSet(S), Cardinality(S) <= n
  PROVE  IsFiniteSet(S \ {x}) /\ Cardinality(S \ {x}) <= n
  <1>1. IsFiniteSet(S \ {x}) /\ Cardinality(S \ {x}) <= Cardinality(S)
    BY FS_Subset, S \ {x} \subseteq S
  <1>2. Cardinality(S) \in Nat /\ Cardinality(S \ {x}) \in Nat
    BY <1>1, FS_CardinalityType
  <1> QED
    BY <1>1, <1>2

\* A failed attempt is counted, and the last one ends the request.
LEMMA AttemptsCounted ==
  ASSUME Attempts, NEW r \in Reader,
         pc \in [Reader -> {"idle", "check", "count", "select", "close", "done"}],
         pc[r] \in {"count", "select"}, RetryOrGiveUp(r)
  PROVE  Attempts'
  <1>0. MaxTries \in Nat /\ tries[r] \in Nat /\ tries[r] < MaxTries
    BY LimitAssumption DEF Attempts
  <1>1. tries' = [tries EXCEPT ![r] = @ + 1] /\ tries' \in [Reader -> 0..MaxTries]
    BY <1>0 DEF RetryOrGiveUp, Attempts
  <1>2. CASE tries[r] + 1 < MaxTries /\ pc' = pc
    BY <1>0, <1>1, <1>2 DEF Attempts
  <1>3. CASE pc' = [pc EXCEPT ![r] = "close"]
    BY <1>0, <1>1, <1>3 DEF Attempts
  <1> QED
    BY <1>2, <1>3 DEF RetryOrGiveUp, Refuse, Answer, Goto

\* A request that goes on or ends keeps its attempts, or forgets them.
LEMMA AttemptsKept ==
  ASSUME Attempts, NEW r \in Reader, NEW next, Goto(r, next),
         pc \in [Reader -> {"idle", "check", "count", "select", "close", "done"}],
         tries' = [tries EXCEPT ![r] = 0] \/ tries' = tries,
         pc[r] \notin {"close", "done"} \/ next \in {"close", "done"}
  PROVE  Attempts'
  BY LimitAssumption DEF Attempts, Goto

LEMMA LimitsStep == PageInv /\ Limits /\ [Next]_vars => Limits'
  <1> SUFFICES ASSUME PageInv, Limits, [Next]_vars PROVE Limits'
    OBVIOUS
  <1>0. /\ pc \in [Reader -> {"idle", "check", "count", "select", "close", "done"}]
        /\ asked \in [Reader -> Query] /\ MaxProducts \in Nat /\ PoolSize \in Nat
    BY LimitAssumption DEF PageInv, ListingTypes
  <1>a. Connections /\ Attempts /\ Numbers /\ aborted \subseteq Reader
    BY DEF Limits
  <1>1. ASSUME NEW s \in Seller, CreateProduct(s) PROVE Limits'
    <2>1. Numbers'
      BY <1>0, <1>a, <1>1 DEF CreateProduct, Numbers
    <2> QED
      BY <1>a, <1>1, <2>1 DEF CreateProduct, sessions, Limits, Connections, Attempts
  <1>2. ASSUME NEW r \in Reader, Arrive(r) PROVE Limits'
    <2>1. Goto(r, "check") /\ pc[r] = "idle" /\ tries' = tries
      BY <1>2 DEF Arrive, sessions
    <2>2. Attempts'
      BY <1>0, <1>a, <2>1, AttemptsKept
    <2>3. Numbers'
      BY <1>0, <1>a, <1>2 DEF Arrive, Numbers, Query
    <2> QED
      BY <1>a, <1>2, <2>2, <2>3 DEF Arrive, sessions, Limits, Connections
  <1>3. ASSUME NEW r \in Reader, VerifySeller(r) PROVE Limits'
    <2>1. pc[r] = "check" /\ tries' = tries /\ (Goto(r, "count") \/ Goto(r, "close"))
      BY <1>3 DEF VerifySeller, sessions, Refuse, Answer
    <2>2. Attempts'
      BY <1>0, <1>a, <2>1, AttemptsKept
    <2> QED
      BY <1>a, <1>3, <2>2 DEF VerifySeller, sessions, Limits, Connections, Numbers
  <1>4. ASSUME NEW r \in Reader, TakeConnection(r) PROVE Limits'
    <2>0. pc[r] = "count" /\ r \notin held /\ UNCHANGED <<products, since, aborted, total>>
      BY <1>4 DEF TakeConnection
    <2>1. CASE /\ Cardinality(held) < PoolSize /\ held' = held \cup {r}
               /\ UNCHANGED <<pc, tries, response>>
      <3>1. Connections'
        BY <1>0, <1>a, <2>0, <2>1, OneConnectionMore DEF Connections
      <3> QED
        BY <1>a, <2>0, <2>1, <3>1 DEF Limits, Attempts, Numbers
    <2>2. CASE RetryOrGiveUp(r) /\ UNCHANGED held
      <3>1. Attempts'
        BY <1>0, <1>a, <2>0, <2>2, AttemptsCounted
      <3> QED
        BY <1>a, <2>0, <2>2, <3>1 DEF Limits, Connections, Numbers
    <2> QED
      BY <1>4, <2>1, <2>2 DEF TakeConnection
  <1>5. ASSUME NEW r \in Reader, StatementFails(r) PROVE Limits'
    <2>1. Attempts'
      BY <1>0, <1>a, <1>5, AttemptsCounted DEF StatementFails
    <2> QED
      BY <1>a, <1>5, <2>1 DEF StatementFails, Limits, Connections, Numbers
  <1>6. ASSUME NEW r \in Reader, Count(r) PROVE Limits'
    <2>1. /\ pc[r] = "count" /\ tries' = [tries EXCEPT ![r] = 0]
          /\ Goto(r, "select") \/ Goto(r, "close")
      BY <1>6 DEF Count, Answer
    <2>2. Attempts'
      BY <1>0, <1>a, <2>1, AttemptsKept
    <2>3. Numbers'
      BY <1>0, <1>a, <1>6 DEF Count, Numbers, Query
    <2> QED
      BY <1>a, <1>6, <2>2, <2>3 DEF Count, Limits, Connections
  <1>7. ASSUME NEW r \in Reader, SelectPage(r) PROVE Limits'
    <2>1. pc[r] = "select" /\ Goto(r, "close") /\ UNCHANGED <<products, since, sessions, total>>
      BY <1>7 DEF SelectPage, Refuse, Answer
    <2>2. Attempts'
      BY <1>0, <1>a, <2>1, AttemptsKept DEF sessions
    <2> QED
      BY <1>a, <2>1, <2>2 DEF sessions, Limits, Connections, Numbers
  <1>8. ASSUME NEW r \in Reader, CloseSession(r) PROVE Limits'
    <2>1. /\ Goto(r, "done") /\ held' = held \ {r}
          /\ UNCHANGED <<products, since, aborted, tries, total>>
      BY <1>8 DEF CloseSession
    <2>2. Attempts'
      BY <1>0, <1>a, <2>1, AttemptsKept
    <2>3. Connections'
      BY <1>0, <1>a, <2>1, OneConnectionLess DEF Connections
    <2> QED
      BY <1>a, <2>1, <2>2, <2>3 DEF Limits, Numbers
  <1>9. CASE UNCHANGED vars
    BY <1>a, <1>9 DEF vars, sessions, Limits, Connections, Attempts, Numbers
  <1> QED
    BY <1>1, <1>2, <1>3, <1>4, <1>5, <1>6, <1>7, <1>8, <1>9 DEF Next, Step

\* However many requests wait for a connection, fail and try again, the pool
\* never gives out more than it has and no statement is tried too often.
THEOREM LimitsAreKept == Spec => []TypeOK
  <1>1. PageInv /\ Limits => TypeOK
    BY DEF PageInv, ListingTypes, Limits, Connections, Attempts, Numbers, TypeOK
  <1> QED
    BY <1>1, PageInit, PageStep, LimitsInit, LimitsStep, PTL DEF Spec
===============================================================================
