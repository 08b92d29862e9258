----------------------- MODULE ChangeStatusSerialProofs -----------------------
(***************************************************************************)
(* Requests that do not overlap: the handler implements the lifecycle of   *)
(* StatusLifecycle, whatever fails and however far moderation gets while a *)
(* request is being served.                                                *)
(***************************************************************************)
EXTENDS ChangeStatusProofs

OneAtATime == \A q, r \in Request : InFlight(q) /\ InFlight(r) => q = r

\* What a request has loaded is what it will overwrite, except that the
\* moderator may have decided meanwhile.
StillTrue(seen, now) ==
    /\ seen.active = now.active
    /\ \/ seen.status = now.status
       \/ seen.status = "on_moderation" /\ now.status \in {"ready_for_sale", "needs_fix"}

LoadedIsFresh ==
    \A r \in Request :
        pc[r] \in Matched \ {"refresh"} => StillTrue(loaded[r], row[call[r].product])

SerialInv == OneAtATime /\ LoadedIsFresh /\ ActiveIffOnSale

\* Any status but on_sale stands inactive.
LEMMA InactiveStanding ==
    ASSUME NEW s, s # "on_sale"
    PROVE  Lifecycle!Standing(s) = [status |-> s, active |-> FALSE]
<1>1. (s = "on_sale") = FALSE
    OBVIOUS
<1> QED BY <1>1 DEF Lifecycle!Standing

\* A settled row is active exactly when it is on sale.
LEMMA SettledIsActive ==
    ASSUME NEW s, NEW settled, settled = Settled(s)
    PROVE  settled.active <=> settled.status = "on_sale"
<1>1. CASE s = "on_sale"
    BY <1>1 DEF Settled
<1>2. CASE s # "on_sale"
    BY <1>2 DEF Settled
<1> QED BY <1>1, <1>2

\* A product with its activity in step with its status is in standing.
LEMMA InStanding ==
    ASSUME TypeInv, ActiveIffOnSale, NEW p \in Product
    PROVE  row[p] = Lifecycle!Standing(row[p].status)
<1>1. row[p] \in Row
    BY DEF TypeInv, TypeOK
<1>2. CASE row[p] = Absent
    BY <1>2, InactiveStanding DEF Absent
<1>3. CASE row[p] \in [status : ProductStatus, active : BOOLEAN]
  <2>1. row[p] = [status |-> row[p].status, active |-> row[p].active] /\ row[p].active \in BOOLEAN
      BY <1>3
  <2>2. row[p].active <=> row[p].status = "on_sale"
      BY DEF ActiveIffOnSale
  <2>3. CASE row[p].status = "on_sale"
    <3>1. row[p].active = TRUE
        BY <2>1, <2>2, <2>3
    <3> QED BY <2>1, <2>3, <3>1 DEF Lifecycle!Standing
  <2>4. CASE row[p].status # "on_sale"
    <3>1. row[p].active = FALSE
        BY <2>1, <2>2, <2>4
    <3> QED BY <2>1, <2>4, <3>1 DEF Lifecycle!Standing
  <2> QED BY <2>3, <2>4
<1> QED BY <1>1, <1>2, <1>3 DEF Row

\* The UPDATE of a request whose row is still true puts it in standing,
\* along an edge of the lifecycle.
LEMMA FreshWrite ==
    ASSUME TypeInv, HandlerInv, SerialInv, NEW r \in Request, pc[r] = "commit", Write(r)
    PROVE  LET c == call[r].product IN
           /\ c \in Product
           /\ row' = [row EXCEPT ![c] = Lifecycle!Standing(call[r].wanted)]
           /\ <<row[c].status, call[r].wanted>> \in Lifecycle!SellerEdge
<1> DEFINE c == call[r].product
           wanted == call[r].wanted
<1>1. c \in Product /\ wanted \in ProductStatusForChange /\ Accepts(wanted, loaded[r].status)
    BY DEF HandlerInv, OnlyAccepted, Matched, Call
<1>2. StillTrue(loaded[r], row[c])
    BY DEF SerialInv, LoadedIsFresh, Matched
<1>3. row[c].active <=> row[c].status = "on_sale"
    BY <1>1 DEF SerialInv, ActiveIffOnSale
<1>4. <<row[c].status, wanted>> \in Lifecycle!SellerEdge
    BY <1>1, <1>2 DEF StillTrue, Accepts, AnnouncedChange, SilentChange, Lifecycle!SellerEdge
<1>5. Updated(row[c], loaded[r], wanted) = Lifecycle!Standing(wanted)
  <2>1. row[c].active \in BOOLEAN
    <3>1. CASE row[c] = Absent
        BY <3>1 DEF Absent
    <3>2. CASE row[c] \in [status : ProductStatus, active : BOOLEAN]
        BY <3>2
    <3> QED BY <1>1, <3>1, <3>2 DEF TypeInv, TypeOK, Row
  <2>2. CASE wanted = "on_sale"
    <3>1. loaded[r].status = "ready_for_sale"
        BY <1>1, <2>2 DEF Accepts, AnnouncedChange, SilentChange
    <3>2. row[c].active = FALSE
        BY <1>2, <1>3, <2>1, <3>1 DEF StillTrue
    <3>3. loaded[r].active = FALSE
        BY <1>2, <3>2 DEF StillTrue
    <3> QED BY <2>2, <3>3 DEF Updated, ActiveAfter, Lifecycle!Standing
  <2>3. CASE wanted # "on_sale"
    <3>1. CASE loaded[r].active = FALSE
      <4>1. row[c].active = FALSE
          BY <1>2, <3>1 DEF StillTrue
      <4> QED BY <2>3, <4>1 DEF Updated, ActiveAfter, Lifecycle!Standing
    <3>2. CASE loaded[r].active = TRUE
        BY <2>3, <3>2 DEF Updated, ActiveAfter, Lifecycle!Standing
    <3> QED BY <1>2, <2>1, <3>1, <3>2 DEF StillTrue
  <2> QED BY <2>2, <2>3
<1>6. row' = [row EXCEPT ![c] = Updated(row[c], loaded[r], wanted)]
    BY DEF Write
<1> QED BY <1>1, <1>4, <1>5, <1>6

\* Every step changes the rows along an edge of the lifecycle, or not at all.
LEMMA LifecycleStep ==
    ASSUME TypeInv, HandlerInv, SerialInv, [Next]_vars
    PROVE  [Lifecycle!Next]_row
<1>1. ASSUME NEW r \in Request, Commit(r) PROVE [Lifecycle!Next]_row
  <2>1. pc[r] = "commit"
      BY <1>1 DEF Commit
  <2>2. CASE Write(r)
    <3> DEFINE c == call[r].product
    <3>1. /\ c \in Product
          /\ row' = [row EXCEPT ![c] = Lifecycle!Standing(call[r].wanted)]
          /\ <<row[c].status, call[r].wanted>> \in Lifecycle!SellerEdge
        BY <2>1, <2>2, FreshWrite
    <3>2. row[c] = Lifecycle!Standing(row[c].status)
        BY <3>1, InStanding DEF SerialInv
    <3>3. Lifecycle!Move(c, Lifecycle!SellerEdge)
        BY <3>1, <3>2 DEF Lifecycle!Move
    <3> QED BY <3>1, <3>3 DEF Lifecycle!Next
  <2> QED BY <1>1, <2>2 DEF Commit
<1>2. ASSUME NEW p \in Product, CreateProduct(p) PROVE [Lifecycle!Next]_row
  <2>1. Lifecycle!Create(p)
      BY <1>2 DEF CreateProduct, Lifecycle!Create, Absent, Settled, Lifecycle!Standing
  <2> QED BY <2>1 DEF Lifecycle!Next
<1>3. ASSUME NEW p \in Product, Moderate(p) PROVE [Lifecycle!Next]_row
  <2>1. row[p] = Lifecycle!Standing("on_moderation")
      BY <1>3, InStanding DEF SerialInv, Moderate
  <2>2. row[p].active = FALSE
      BY <2>1, InactiveStanding
  <2>3. PICK verdict \in {"ready_for_sale", "needs_fix"} :
            row' = [row EXCEPT ![p] = [status |-> verdict, active |-> FALSE]]
      BY <1>3, <2>2 DEF Moderate
  <2>4. row' = [row EXCEPT ![p] = Lifecycle!Standing(verdict)]
      BY <2>3, InactiveStanding
  <2>5. Lifecycle!Move(p, Lifecycle!ModeratorEdge)
    <3> DEFINE e == <<"on_moderation", verdict>>
    <3>1. e \in Lifecycle!ModeratorEdge
        BY DEF Lifecycle!ModeratorEdge
    <3>2. row[p] = Lifecycle!Standing(e[1]) /\ row' = [row EXCEPT ![p] = Lifecycle!Standing(e[2])]
        BY <2>1, <2>4
    <3> QED BY <3>1, <3>2 DEF Lifecycle!Move
  <2> QED BY <2>5 DEF Lifecycle!Next
<1> QED
    BY <1>1, <1>2, <1>3
    DEF Next, vars, store, Step, Arrive, VerifySeller, LoadProduct, GetSellerData,
        GetStorageQuantity, ReadCategory, SendMessage, Refresh, Crash, Consume

\* The invariant of requests that do not overlap holds at the start ...
LEMMA SerialInit == Init => SerialInv
<1> SUFFICES ASSUME Init PROVE SerialInv
    OBVIOUS
<1>1. OneAtATime /\ LoadedIsFresh
    BY DEF Init, OneAtATime, LoadedIsFresh, InFlight, Serving, Matched
<1>2. ASSUME NEW p \in Product PROVE row[p].active <=> row[p].status = "on_sale"
  <2>1. row[p] = Absent \/ \E s \in ProductStatus : row[p] = Settled(s)
      BY DEF Init
  <2>2. CASE row[p] = Absent
      BY <2>2 DEF Absent
  <2>3. ASSUME NEW s \in ProductStatus, row[p] = Settled(s)
        PROVE  row[p].active <=> row[p].status = "on_sale"
      BY <2>3, SettledIsActive
  <2> QED BY <2>1, <2>2, <2>3
<1> QED BY <1>1, <1>2 DEF SerialInv, ActiveIffOnSale

\* With one request at a time a process that dies takes the only one along.
LEMMA CrashTakesAll ==
    ASSUME TypeOK, OneAtATime, Crash
    PROVE  /\ UNCHANGED <<store, call, loaded, applied>>
           /\ \A q \in Request :
                 \/ InFlight(q) /\ pc'[q] = "done" /\ answer'[q] = "lost"
                 \/ ~InFlight(q) /\ pc'[q] = pc[q] /\ answer'[q] = answer[q]
<1>1. PICK served \in SUBSET {r \in Request : InFlight(r)} :
          /\ served # {}
          /\ pc' = [r \in Request |-> IF r \in served THEN "done" ELSE pc[r]]
          /\ answer' = [r \in Request |-> IF r \in served THEN "lost" ELSE answer[r]]
    BY DEF Crash
<1>2. \A q \in Request : InFlight(q) <=> q \in served
    BY <1>1 DEF OneAtATime
<1> QED BY <1>1, <1>2 DEF Crash

\* ... and after every step.
LEMMA SerialStep ==
    ASSUME ~Overlap, TypeInv, HandlerInv, SerialInv, [Next]_vars
    PROVE  SerialInv'
<1>t. TypeOK /\ CallIsKnown
    BY DEF TypeInv
<1>s. OneAtATime /\ LoadedIsFresh /\ ActiveIffOnSale
    BY DEF SerialInv
<1>1. ASSUME NEW r \in Request, Arrive(r) PROVE OneAtATime' /\ LoadedIsFresh'
  <2>1. /\ \A q \in Request : ~InFlight(q)
        /\ pc' = [pc EXCEPT ![r] = "check"] /\ UNCHANGED <<row, loaded>>
      BY <1>1 DEF Arrive, Goto, store
  <2>2. \A q \in Request : pc'[q] \notin Matched
      BY <2>1, <1>t DEF TypeOK, InFlight, Serving, Matched
  <2> QED BY <2>1, <2>2, <1>t DEF TypeOK, OneAtATime, LoadedIsFresh, InFlight
<1>2. ASSUME NEW r \in Request, Step(r) PROVE OneAtATime' /\ LoadedIsFresh'
  <2>1. /\ InFlight(r) /\ call' = call
        /\ \/ \E next \in Serving : pc' = [pc EXCEPT ![r] = next]
           \/ pc' = [pc EXCEPT ![r] = "done"]
    <3>1. AfterMatch(call[r].wanted, row[call[r].product].status) \in Serving
        BY DEF AfterMatch, Serving
    <3> QED BY <1>2, <3>1
            DEF Step, VerifySeller, LoadProduct, GetSellerData, GetStorageQuantity, ReadCategory,
                ExternalService, SendMessage, RetryOrGiveUp, Commit, Refresh, Goto, Reply, InFlight,
                Serving, store
  <2>2. \A q \in Request : q # r => ~InFlight(q) /\ pc'[q] = pc[q]
      BY <2>1, <1>s, <1>t DEF OneAtATime, TypeOK
  <2>3. OneAtATime'
      BY <2>2 DEF OneAtATime, InFlight
  <2>4. pc'[r] \in Matched \ {"refresh"} => StillTrue(loaded[r], row[call[r].product])'
    <3>1. CASE LoadProduct(r)
      <4>1. /\ row' = row
            /\ loaded' = [loaded EXCEPT ![r] = row[call[r].product]] \/ pc'[r] = "done"
          BY <3>1, <1>t DEF LoadProduct, store, Reply, TypeOK
      <4> QED BY <2>1, <4>1, <1>t DEF StillTrue, TypeOK, Matched
    <3>2. CASE VerifySeller(r)
        BY <3>2, <1>t DEF VerifySeller, Goto, Reply, TypeOK, Matched
    <3>3. CASE Commit(r)
        BY <3>3, <1>t DEF Commit, Goto, Reply, TypeOK, Matched
    <3>4. CASE Refresh(r)
        BY <3>4, <1>t DEF Refresh, Goto, Reply, TypeOK, Matched
    <3>5. CASE \/ GetSellerData(r) \/ GetStorageQuantity(r) \/ ReadCategory(r) \/ SendMessage(r)
      <4>1. pc[r] \in {"seller", "storage", "category", "send"} /\ UNCHANGED <<row, call, loaded>>
          BY <3>5 DEF GetSellerData, ExternalService, GetStorageQuantity, ReadCategory, SendMessage, store
      <4> QED BY <4>1, <1>s DEF LoadedIsFresh, StillTrue, Matched
    <3> QED BY <1>2, <3>1, <3>2, <3>3, <3>4, <3>5 DEF Step
  <2>5. LoadedIsFresh'
      BY <2>2, <2>4, <1>t DEF LoadedIsFresh, InFlight, Serving, Matched
  <2> QED BY <2>3, <2>5
<1>3. ASSUME Crash PROVE OneAtATime' /\ LoadedIsFresh'
  <2>1. \A q \in Request : pc'[q] \notin Serving
      BY <1>3, <1>s, <1>t, CrashTakesAll DEF InFlight, Serving
  <2> QED BY <2>1 DEF OneAtATime, LoadedIsFresh, InFlight, Serving, Matched
<1>4. ASSUME NEW p \in Product, CreateProduct(p) \/ Moderate(p) \/ Consume(p)
      PROVE  OneAtATime' /\ LoadedIsFresh'
  <2>1. UNCHANGED <<pc, call, loaded>>
      BY <1>4 DEF CreateProduct, Moderate, Consume
  <2>2. ASSUME NEW r \in Request, pc[r] \in Matched \ {"refresh"}
        PROVE  StillTrue(loaded[r], row'[call[r].product])
    <3>1. /\ call[r].product \in Product
          /\ StillTrue(loaded[r], row[call[r].product])
          /\ loaded[r].status # "absent"
        BY <2>2, <1>s DEF LoadedIsFresh, HandlerInv, OnlyAccepted, Accepts, AnnouncedChange,
                          SilentChange, Call
    <3>2. CASE CreateProduct(p)
      <4>1. call[r].product # p
          BY <3>1, <3>2 DEF CreateProduct, StillTrue, Absent
      <4> QED BY <3>1, <3>2, <4>1, <1>t DEF CreateProduct, TypeOK
    <3>3. CASE Moderate(p)
        BY <3>1, <3>3, <1>t DEF Moderate, TypeOK, StillTrue
    <3>4. CASE Consume(p)
        BY <3>1, <3>4 DEF Consume
    <3> QED BY <1>4, <3>2, <3>3, <3>4
  <2> QED BY <2>1, <2>2, <1>s DEF OneAtATime, LoadedIsFresh, InFlight
<1>5. ASSUME UNCHANGED vars PROVE OneAtATime' /\ LoadedIsFresh'
    BY <1>5, <1>s DEF vars, OneAtATime, LoadedIsFresh, InFlight, StillTrue
<1>6. OneAtATime' /\ LoadedIsFresh'
    BY <1>1, <1>2, <1>3, <1>4, <1>5 DEF Next
<1>7. ActiveIffOnSale'
  <2>1. [Lifecycle!Next]_row
      BY LifecycleStep
  <2>2. CASE row' = row
      BY <2>2, <1>s DEF ActiveIffOnSale
  <2>3. ASSUME NEW p \in Product, NEW s, row' = [row EXCEPT ![p] = Lifecycle!Standing(s)]
        PROVE  ActiveIffOnSale'
    <3>1. row'[p].active <=> row'[p].status = "on_sale"
        BY <2>3, <1>t DEF Lifecycle!Standing, TypeOK
    <3>2. \A q \in Product : q # p => row'[q] = row[q]
        BY <2>3, <1>t DEF TypeOK
    <3> QED BY <3>1, <3>2, <1>s DEF ActiveIffOnSale
  <2> QED BY <2>1, <2>2, <2>3 DEF Lifecycle!Next, Lifecycle!Create, Lifecycle!Move
<1> QED BY <1>6, <1>7 DEF SerialInv

\* Requests that do not overlap keep is_active in step with the status.
THEOREM SerialIsActive ==
    ASSUME ~Overlap
    PROVE  Spec => []ActiveIffOnSale
<1>1. Init => SerialInv
    BY SerialInit
<1>2. TypeInv /\ HandlerInv /\ SerialInv /\ [Next]_vars => SerialInv'
    BY SerialStep
<1>3. SerialInv => ActiveIffOnSale
    BY DEF SerialInv
<1> QED BY <1>1, <1>2, <1>3, HandlerCorrect, PTL DEF Spec

\* Requests that do not overlap implement the lifecycle: every commit, crash
\* and moderation maps to one of its steps or to none.
THEOREM SerialImplementsLifecycle ==
    ASSUME ~Overlap
    PROVE  Spec => LifecycleIsKept
<1>1. Init => Lifecycle!Init
  <2> SUFFICES ASSUME Init PROVE Lifecycle!Init
      OBVIOUS
  <2>1. ASSUME NEW p \in Product PROVE row[p] \in {Lifecycle!Standing(s) : s \in Lifecycle!Status}
    <3>1. row[p] = Lifecycle!Standing(row[p].status)
        BY TypeInit, SerialInit, InStanding DEF SerialInv
    <3>2. row[p].status \in Lifecycle!Status
        BY DEF Init, Settled, Absent, ProductStatus, ProductStatusForChange, Lifecycle!Status
    <3> QED BY <3>1, <3>2
  <2> QED BY <2>1 DEF Init, Lifecycle!Init
<1>2. Init => SerialInv
    BY SerialInit
<1>3. TypeInv /\ HandlerInv /\ SerialInv /\ [Next]_vars => SerialInv'
    BY SerialStep
<1>4. TypeInv /\ HandlerInv /\ SerialInv /\ [Next]_vars => [Lifecycle!Next]_row
    BY LifecycleStep
<1> QED BY <1>1, <1>2, <1>3, <1>4, HandlerCorrect, PTL DEF Spec, LifecycleIsKept, Lifecycle!Spec
------------------------------------------------------------------------------
(***************************************************************************)
(* Search and table.  What a product's last message says of it agrees with *)
(* its row, except for a request that has published its message and has    *)
(* not committed: it is still at work, or left its client in the dark.     *)
(***************************************************************************)
LastSays(p) == Len(log[p]) > 0 /\ log[p][Len(log[p])].active
Spoke(r, p) == \E i \in 1..Len(log[p]) : log[p][i].by = r
Announcing == {"seller", "storage", "category", "send"}

IndexIsBehind == \A p \in Product : indexed[p] <= Len(log[p])
SpeaksOfItsProduct ==
    \A r \in Request, p \in Product : Spoke(r, p) => pc[r] \notin Early /\ p = call[r].product
AppliedLate == \A r \in Request : r \in applied => pc[r] \in {"refresh", "done"}
AnnouncesAhead ==
    \A r \in Request : pc[r] \in Announcing => Announces(call[r].wanted, loaded[r].status)

\* At its commit a request has had the last word, or has said nothing.
HadItsSay(r) ==
    LET told == log[call[r].product]
    IN  IF Announces(call[r].wanted, loaded[r].status)
        THEN Len(told) > 0 /\ (told[Len(told)].active <=> ActiveAfter(call[r].wanted))
        ELSE ~Spoke(r, call[r].product)
HadItsSayAtCommit == \A r \in Request : pc[r] = "commit" => HadItsSay(r)

Culprit(r, p) ==
    r \notin applied /\ Spoke(r, p) /\ (InFlight(r) \/ answer[r] \in {"500", "lost"})
DriftIsExplained ==
    \A p \in Product :
        (LastSays(p) <=> row[p].status = "on_sale") \/ \E r \in Request : Culprit(r, p)

DriftInv ==
    /\ IndexIsBehind /\ SpeaksOfItsProduct /\ AppliedLate /\ AnnouncesAhead /\ HadItsSayAtCommit
    /\ DriftIsExplained

\* The history of a settled product ends in what its row says.
LEMMA DriftInit == Init => DriftInv
<1> SUFFICES ASSUME Init PROVE DriftInv
    OBVIOUS
<1>1. ASSUME NEW p \in Product
      PROVE  /\ Len(log[p]) \in Nat
             /\ LastSays(p) <=> row[p].status = "on_sale"
             /\ \A r \in Request : ~Spoke(r, p)
  <2>1. log[p] = History(row[p].status)
      BY DEF Init
  <2>2. CASE row[p].status = "on_sale"
    <3>1. log[p] = <<[active |-> TRUE, by |-> NoRequest]>>
        BY <2>1, <2>2 DEF History
    <3> QED BY <2>2, <3>1, RequestAssumption DEF LastSays, Spoke
  <2>3. CASE row[p].status = "not_for_sale"
    <3>1. log[p] = <<[active |-> TRUE, by |-> NoRequest], [active |-> FALSE, by |-> NoRequest]>>
        BY <2>1, <2>3 DEF History
    <3>2. Len(log[p]) = 2 /\ log[p][1].by = NoRequest /\ log[p][2] = [active |-> FALSE, by |-> NoRequest]
        BY <3>1
    <3> QED BY <2>3, <3>2, RequestAssumption DEF LastSays, Spoke
  <2>4. CASE row[p].status \notin {"on_sale", "not_for_sale"}
    <3>1. log[p] = <<>>
        BY <2>1, <2>4 DEF History
    <3> QED BY <2>4, <3>1 DEF LastSays, Spoke
  <2> QED BY <2>2, <2>3, <2>4
<1> QED
    BY <1>1
    DEF Init, DriftInv, IndexIsBehind, SpeaksOfItsProduct, AppliedLate, AnnouncesAhead, Announcing,
        HadItsSayAtCommit, DriftIsExplained

\* A step of one request that publishes and writes nothing keeps the invariant
\* if the request meets the obligations of the place it moves to.
LEMMA QuietDrift ==
    ASSUME DriftInv, NEW r \in Request, UNCHANGED <<store, applied>>,
           \A q \in Request : q # r =>
              /\ pc'[q] = pc[q] /\ answer'[q] = answer[q]
              /\ call'[q] = call[q] /\ loaded'[q] = loaded[q],
           pc'[r] \in Early => pc[r] \in Early,
           call'[r] = call[r] \/ pc[r] \in Early,
           r \in applied => pc'[r] \in {"refresh", "done"},
           pc'[r] \in Announcing => Announces(call'[r].wanted, loaded'[r].status),
           pc'[r] = "commit" => HadItsSay(r)',
           pc[r] \notin Early /\ r \notin applied /\ (InFlight(r) \/ answer[r] \in {"500", "lost"}) =>
              InFlight(r)' \/ answer'[r] \in {"500", "lost"}
    PROVE  DriftInv'
<1>1. UNCHANGED <<row, log, indexed, applied>>
    BY DEF store
<1>2. \A q \in Request, p \in Product : Spoke(q, p)' <=> Spoke(q, p)
    BY <1>1 DEF Spoke
<1>3. IndexIsBehind'
    BY <1>1 DEF DriftInv, IndexIsBehind
<1>4. SpeaksOfItsProduct'
    BY <1>2 DEF DriftInv, SpeaksOfItsProduct
<1>5. AppliedLate'
    BY <1>1 DEF DriftInv, AppliedLate
<1>6. AnnouncesAhead'
    BY DEF DriftInv, AnnouncesAhead
<1>7. HadItsSayAtCommit'
  <2>1. ASSUME NEW q \in Request, q # r, pc'[q] = "commit" PROVE HadItsSay(q)'
    <3>1. HadItsSay(q)
        BY <2>1 DEF DriftInv, HadItsSayAtCommit
    <3> QED BY <1>1, <2>1, <3>1 DEF HadItsSay, Spoke
  <2> QED BY <2>1 DEF HadItsSayAtCommit
<1>8. DriftIsExplained'
  <2>1. ASSUME NEW p \in Product, NEW q \in Request, Culprit(q, p) PROVE Culprit(q, p)'
    <3>1. CASE q = r
        BY <1>1, <1>2, <2>1, <3>1 DEF Culprit, DriftInv, SpeaksOfItsProduct
    <3>2. CASE q # r
        BY <1>1, <1>2, <2>1, <3>2 DEF Culprit, InFlight
    <3> QED BY <3>1, <3>2
  <2>2. \A p \in Product : (LastSays(p)' <=> LastSays(p))
      BY <1>1 DEF LastSays
  <2> QED BY <1>1, <2>1, <2>2 DEF DriftInv, DriftIsExplained
<1> QED BY <1>3, <1>4, <1>5, <1>6, <1>7, <1>8 DEF DriftInv

\* A publish makes the publisher's message the last one; others spoke as before.
LEMMA LastWord ==
    ASSUME TypeOK, NEW r \in Request, call[r] \in Call, Publish(r)
    PROVE  LET c == call[r].product
           IN  /\ c \in Product
               /\ Len(log'[c]) > 0 /\ (log'[c][Len(log'[c])].active <=> ActiveAfter(call[r].wanted))
               /\ \A p \in Product \ {c} : log'[p] = log[p]
               /\ \A p \in Product : Len(log[p]) \in Nat /\ Len(log[p]) <= Len(log'[p])
               /\ \A q \in Request, p \in Product : Spoke(q, p) => Spoke(q, p)'
               /\ \A q \in Request \ {r}, p \in Product : Spoke(q, p)' => Spoke(q, p)
               /\ \A p \in Product : p = c => Spoke(r, p)'
<1> DEFINE m == [active |-> ActiveAfter(call[r].wanted), by |-> r]
           c == call[r].product
<1>1. m \in Message /\ m.by = r /\ c \in Product /\ (m.active <=> ActiveAfter(call[r].wanted))
    BY DEF Message, ActiveAfter, Call
<1>2. log' = [log EXCEPT ![c] = Append(log[c], m)]
    BY DEF Publish
<1>3. log[c] \in Seq(Message) /\ log'[c] = Append(log[c], m)
    BY <1>1, <1>2 DEF TypeOK
<1>4. \A p \in Product \ {c} : log'[p] = log[p]
    BY <1>2 DEF TypeOK
<1>5. \A p \in Product : Len(log[p]) \in Nat
    BY DEF TypeOK
<1> HIDE DEF m, c
<1>6. /\ Len(log'[c]) = Len(log[c]) + 1
      /\ \A i \in 1..Len(log[c]) : log'[c][i] = log[c][i]
      /\ log'[c][Len(log'[c])] = m
    BY <1>1, <1>3, AppendKeeps
<1>7. \A p \in Product : Len(log[p]) <= Len(log'[p])
    BY <1>4, <1>5, <1>6
<1>8. ASSUME NEW q \in Request, NEW p \in Product
      PROVE  /\ Spoke(q, p) => Spoke(q, p)'
             /\ q # r => (Spoke(q, p)' => Spoke(q, p))
             /\ q = r /\ p = c => Spoke(q, p)'
  <2>1. CASE p # c
      BY <1>4, <2>1 DEF Spoke
  <2>2. CASE p = c
    <3>1. \A i \in 1..Len(log'[c]) : i \in 1..Len(log[c]) \/ i = Len(log'[c])
        BY <1>1, <1>5, <1>6
    <3>2. \A i \in 1..Len(log[c]) : i \in 1..Len(log'[c])
        BY <1>1, <1>5, <1>6
    <3>3. Len(log'[c]) \in 1..Len(log'[c])
        BY <1>1, <1>5, <1>6
    <3> QED BY <1>1, <1>6, <2>2, <3>1, <3>2, <3>3 DEF Spoke
  <2> QED BY <2>1, <2>2
<1> QED BY <1>1, <1>4, <1>5, <1>6, <1>7, <1>8 DEF m, c

\* One attempt of send_message: whoever has published and not committed
\* explains the difference it makes.
LEMMA SendKeepsDrift ==
    ASSUME TypeInv, HandlerInv, SerialInv, DriftInv, NEW r \in Request, SendMessage(r)
    PROVE  DriftInv'
<1>t. TypeOK /\ CallIsKnown
    BY DEF TypeInv
<1>1. /\ pc[r] = "send" /\ call[r] \in Call /\ r \notin applied
      /\ Announces(call[r].wanted, loaded[r].status)
      /\ UNCHANGED <<row, indexed, call, loaded, applied>>
    BY <1>t DEF SendMessage, CallIsKnown, InFlight, Serving, DriftInv, AppliedLate, AnnouncesAhead,
                Announcing
<1>2. /\ \A q \in Request : q # r => pc'[q] = pc[q] /\ answer'[q] = answer[q]
      /\ pc'[r] \in {"send", "commit"} \/ (pc'[r] = "done" /\ answer'[r] = "500")
      /\ Publish(r) \/ (log' = log /\ pc'[r] # "commit")
  <2>1. CASE Publish(r) /\ Goto(r, "commit")
      BY <2>1, <1>t DEF Goto, TypeOK
  <2>2. CASE RetryOrGiveUp(r)
    <3>1. Goto(r, "send") \/ Reply(r, "500")
        BY <2>2 DEF RetryOrGiveUp
    <3>2. /\ \A q \in Request : q # r => pc'[q] = pc[q] /\ answer'[q] = answer[q]
          /\ pc'[r] = "send" \/ (pc'[r] = "done" /\ answer'[r] = "500")
        BY <3>1, <1>t DEF Goto, Reply, TypeOK
    <3> QED BY <1>1, <2>2, <3>2, <1>t DEF SendMessage
  <2> QED BY <1>1, <2>1, <2>2 DEF SendMessage
<1>3. CASE log' = log /\ pc'[r] # "commit"
    BY <1>1, <1>2, <1>3, QuietDrift DEF store, Early, Announcing, InFlight, Serving
<1>4. CASE Publish(r)
  <2> DEFINE c == call[r].product
  <2>1. /\ c \in Product
        /\ Len(log'[c]) > 0
        /\ log'[c][Len(log'[c])].active <=> ActiveAfter(call[r].wanted)
        /\ \A p \in Product \ {c} : log'[p] = log[p]
        /\ \A p \in Product : Len(log[p]) \in Nat /\ Len(log[p]) <= Len(log'[p])
        /\ \A q \in Request, p \in Product : Spoke(q, p) => Spoke(q, p)'
        /\ \A q \in Request \ {r}, p \in Product : Spoke(q, p)' => Spoke(q, p)
        /\ \A p \in Product : p = c => Spoke(r, p)'
      BY <1>1, <1>4, <1>t, LastWord
  <2>2. IndexIsBehind'
    <3>1. \A p \in Product : indexed[p] \in Nat /\ Len(log'[p]) \in Nat
      <4>1. log' \in [Product -> Seq(Message)]
        <5>1. c \in Product /\ [active |-> ActiveAfter(call[r].wanted), by |-> r] \in Message
            BY <2>1 DEF Message, ActiveAfter
        <5> QED BY <1>4, <5>1, <1>t DEF Publish, TypeOK
      <4> QED BY <4>1, <1>t DEF TypeOK
    <3> QED BY <1>1, <2>1, <3>1 DEF DriftInv, IndexIsBehind
  <2>3. SpeaksOfItsProduct'
    <3>1. ASSUME NEW p \in Product, Spoke(r, p)' PROVE p = c
      <4>1. CASE p # c
        <5>1. log'[p] = log[p]
            BY <2>1, <4>1
        <5>2. Spoke(r, p)
            BY <3>1, <5>1 DEF Spoke
        <5> QED BY <5>2 DEF DriftInv, SpeaksOfItsProduct
      <4> QED BY <4>1
    <3> QED BY <1>1, <1>2, <2>1, <3>1 DEF DriftInv, SpeaksOfItsProduct, Early
  <2>4. AppliedLate'
      BY <1>1, <1>2, <1>t DEF DriftInv, AppliedLate, TypeOK
  <2>5. AnnouncesAhead'
      BY <1>1, <1>2 DEF DriftInv, AnnouncesAhead
  <2>6. HadItsSayAtCommit'
    <3>1. ASSUME NEW q \in Request, q # r PROVE pc'[q] # "commit"
        BY <1>1, <1>2, <3>1 DEF SerialInv, OneAtATime, InFlight, Serving
    <3>2. HadItsSay(r)'
        BY <1>1, <2>1 DEF HadItsSay
    <3> QED BY <3>1, <3>2 DEF HadItsSayAtCommit
  <2>7. DriftIsExplained'
    <3>1. ASSUME NEW p \in Product, p = c PROVE Culprit(r, p)'
        BY <1>1, <1>2, <2>1, <3>1 DEF Culprit, InFlight, Serving
    <3>2. ASSUME NEW p \in Product, p # c
          PROVE  (LastSays(p)' <=> row'[p].status = "on_sale") \/ \E q \in Request : Culprit(q, p)'
      <4>1. LastSays(p)' <=> LastSays(p)
          BY <2>1, <3>2 DEF LastSays
      <4>2. ASSUME NEW q \in Request, Culprit(q, p) PROVE Culprit(q, p)'
        <5>1. q # r
            BY <3>2, <4>2 DEF Culprit, DriftInv, SpeaksOfItsProduct
        <5> QED BY <1>1, <1>2, <2>1, <4>2, <5>1 DEF Culprit, InFlight
      <4> QED BY <1>1, <4>1, <4>2 DEF DriftInv, DriftIsExplained
    <3> QED BY <3>1, <3>2 DEF DriftIsExplained
  <2> QED BY <2>2, <2>3, <2>4, <2>5, <2>6, <2>7 DEF DriftInv
<1> QED BY <1>2, <1>3, <1>4

\* The commit makes the row agree with the last message, or leaves both sides
\* of an unannounced change out of the search.
LEMMA CommitKeepsDrift ==
    ASSUME TypeInv, HandlerInv, SerialInv, DriftInv, NEW r \in Request, Commit(r)
    PROVE  DriftInv'
<1>t. TypeOK /\ CallIsKnown
    BY DEF TypeInv
<1>1. /\ pc[r] = "commit" /\ call[r] \in Call /\ r \notin applied
      /\ Accepts(call[r].wanted, loaded[r].status)
      /\ HadItsSay(r)
      /\ UNCHANGED <<log, indexed, call, loaded>>
    BY DEF Commit, HandlerInv, OnlyAccepted, Matched, DriftInv, AppliedLate, HadItsSayAtCommit
<1>2. /\ \A q \in Request : q # r => pc'[q] = pc[q] /\ answer'[q] = answer[q]
      /\ pc'[r] \in {"refresh", "done"}
      /\ \/ Write(r)
         \/ UNCHANGED <<row, applied>> /\ pc'[r] = "done" /\ answer'[r] = "500"
    BY <1>t DEF Commit, Goto, Reply, TypeOK
<1>3. CASE UNCHANGED <<row, applied>> /\ pc'[r] = "done" /\ answer'[r] = "500"
    BY <1>1, <1>2, <1>3, QuietDrift DEF store, Early, Announcing
<1>4. CASE Write(r)
  <2> DEFINE c == call[r].product
             wanted == call[r].wanted
  <2>1. /\ c \in Product
        /\ row' = [row EXCEPT ![c] = Updated(row[c], loaded[r], wanted)]
        /\ applied' = applied \cup {r}
      BY <1>1, <1>4 DEF Write, Call
  <2>2. row'[c].status = wanted /\ \A p \in Product \ {c} : row'[p] = row[p]
      BY <2>1, <1>t DEF TypeOK, Updated
  <2>3. \A q \in Request, p \in Product : (Spoke(q, p)' <=> Spoke(q, p)) /\ (LastSays(p)' <=> LastSays(p))
      BY <1>1 DEF Spoke, LastSays
  <2>4. ASSUME NEW p \in Product, NEW q \in Request, Culprit(q, p), q # r PROVE Culprit(q, p)'
      BY <1>2, <2>1, <2>3, <2>4 DEF Culprit, InFlight
  <2>5. ASSUME NEW p \in Product, p = c
        PROVE  (LastSays(p)' <=> row'[p].status = "on_sale") \/ \E q \in Request : Culprit(q, p)'
    <3>1. CASE Announces(wanted, loaded[r].status)
      <4>1. LastSays(p) <=> wanted = "on_sale"
          BY <1>1, <2>5, <3>1 DEF HadItsSay, LastSays, ActiveAfter
      <4> QED BY <2>2, <2>3, <2>5, <4>1
    <3>2. CASE ~Announces(wanted, loaded[r].status)
      <4>1. wanted # "on_sale" /\ loaded[r].status # "on_sale"
          BY <1>1, <3>2 DEF Accepts, Announces, AnnouncedChange, SilentChange
      <4>2. row[p].status # "on_sale"
          BY <1>1, <2>5, <4>1 DEF SerialInv, LoadedIsFresh, StillTrue, Matched
      <4>3. ~Spoke(r, p)
          BY <1>1, <2>5, <3>2 DEF HadItsSay
      <4>4. ~LastSays(p) \/ \E q \in Request : Culprit(q, p)
          BY <4>2 DEF DriftInv, DriftIsExplained
      <4>5. ASSUME NEW q \in Request, Culprit(q, p) PROVE Culprit(q, p)'
        <5>1. q # r
            BY <4>3, <4>5 DEF Culprit
        <5> QED BY <2>4, <4>5, <5>1
      <4>6. row'[p].status # "on_sale"
          BY <2>2, <2>5, <4>1
      <4> QED BY <2>3, <4>4, <4>5, <4>6
    <3> QED BY <3>1, <3>2
  <2>6. ASSUME NEW p \in Product, p # c
        PROVE  (LastSays(p)' <=> row'[p].status = "on_sale") \/ \E q \in Request : Culprit(q, p)'
    <3>1. ASSUME NEW q \in Request, Culprit(q, p) PROVE Culprit(q, p)'
      <4>1. q # r
          BY <2>6, <3>1 DEF Culprit, DriftInv, SpeaksOfItsProduct
      <4> QED BY <2>4, <3>1, <4>1
    <3> QED BY <2>2, <2>3, <2>6, <3>1 DEF DriftInv, DriftIsExplained
  <2>7. DriftIsExplained'
      BY <2>5, <2>6 DEF DriftIsExplained
  <2>8. IndexIsBehind'
      BY <1>1 DEF DriftInv, IndexIsBehind
  <2>9. SpeaksOfItsProduct'
      BY <1>1, <1>2, <2>3 DEF DriftInv, SpeaksOfItsProduct, Early
  <2>10. AppliedLate'
      BY <1>1, <1>2, <2>1, <1>t DEF DriftInv, AppliedLate, TypeOK
  <2>11. AnnouncesAhead'
      BY <1>1, <1>2 DEF DriftInv, AnnouncesAhead, Announcing
  <2>12. HadItsSayAtCommit'
      BY <1>1, <1>2 DEF DriftInv, HadItsSayAtCommit, HadItsSay, Spoke
  <2> QED BY <2>7, <2>8, <2>9, <2>10, <2>11, <2>12 DEF DriftInv
<1> QED BY <1>2, <1>3, <1>4

\* Every step keeps the invariant.
LEMMA DriftStep ==
    ASSUME ~Overlap, TypeInv, HandlerInv, SerialInv, DriftInv, [Next]_vars
    PROVE  DriftInv'
<1>t. TypeOK /\ CallIsKnown
    BY DEF TypeInv
<1>d. /\ \A r \in Request : pc[r] \in Early => r \notin applied
      /\ AppliedLate /\ AnnouncesAhead
    BY DEF HandlerInv, NothingEarly, DriftInv
<1>1. ASSUME NEW r \in Request, Arrive(r) \/ VerifySeller(r) PROVE DriftInv'
  <2>1. /\ pc[r] \in {"idle", "check"} /\ UNCHANGED <<store, loaded, applied>>
        /\ call' = call \/ \E k \in Call : call' = [call EXCEPT ![r] = k]
        /\ Goto(r, "check") \/ Goto(r, "load") \/ Reply(r, "403")
      BY <1>1 DEF Arrive, VerifySeller
  <2>2. /\ \A q \in Request : q # r => pc'[q] = pc[q] /\ answer'[q] = answer[q] /\ call'[q] = call[q]
        /\ pc'[r] \in {"check", "load", "done"}
      BY <2>1, <1>t DEF Goto, Reply, TypeOK
  <2> QED BY <2>1, <2>2, <1>d, QuietDrift DEF Early, Announcing
<1>2. ASSUME NEW r \in Request, LoadProduct(r) PROVE DriftInv'
  <2> DEFINE current == row[call[r].product]
             next == AfterMatch(call[r].wanted, current.status)
  <2>1. /\ pc[r] = "load" /\ UNCHANGED <<store, call, applied>>
        /\ \/ \E code \in Answer : Reply(r, code) /\ (loaded' = loaded \/ loaded' = [loaded EXCEPT ![r] = current])
           \/ /\ Goto(r, next) /\ loaded' = [loaded EXCEPT ![r] = current]
              /\ Accepts(call[r].wanted, current.status)
      BY <1>2 DEF LoadProduct, Answer
  <2>2. /\ \A q \in Request : q # r => pc'[q] = pc[q] /\ answer'[q] = answer[q] /\ loaded'[q] = loaded[q]
        /\ \/ pc'[r] = "done"
           \/ pc'[r] = next /\ loaded'[r] = current /\ Accepts(call[r].wanted, current.status)
      BY <2>1, <1>t DEF Goto, Reply, TypeOK
  <2>3. ASSUME Accepts(call[r].wanted, current.status)
        PROVE  /\ next \in {"seller", "send", "commit"}
               /\ next \in Announcing => Announces(call[r].wanted, current.status)
               /\ next = "commit" => ~Announces(call[r].wanted, current.status)
      BY <2>3 DEF AfterMatch, Announces, Accepts, AnnouncedChange, SilentChange, Announcing
  <2>4. /\ call[r].product \in Product
        /\ ~Spoke(r, call[r].product)
      BY <2>1, <1>t DEF DriftInv, SpeaksOfItsProduct, Early, CallIsKnown, InFlight, Serving, Call
  <2>5. pc'[r] = "commit" => HadItsSay(r)'
      BY <2>1, <2>2, <2>3, <2>4 DEF HadItsSay, Spoke, store
  <2>6. pc'[r] \in Announcing => Announces(call'[r].wanted, loaded'[r].status)
      BY <2>1, <2>2, <2>3 DEF Announcing
  <2>7. pc'[r] \in Early => pc[r] \in Early
      BY <2>1 DEF Early
  <2> QED BY <2>1, <2>2, <2>5, <2>6, <2>7, <1>d, QuietDrift DEF Early
<1>3. ASSUME NEW r \in Request, GetSellerData(r) \/ GetStorageQuantity(r) \/ ReadCategory(r)
      PROVE  DriftInv'
  <2>1. /\ pc[r] \in {"seller", "storage", "category"} /\ UNCHANGED <<store, call, loaded, applied>>
        /\ \/ Goto(r, "storage") \/ Goto(r, "category") \/ Goto(r, "send")
           \/ \E code : Reply(r, code)
      BY <1>3 DEF GetSellerData, GetStorageQuantity, ReadCategory, ExternalService
  <2>2. /\ \A q \in Request : q # r => pc'[q] = pc[q] /\ answer'[q] = answer[q]
        /\ pc'[r] \in {"storage", "category", "send", "done"}
      BY <2>1, <1>t DEF Goto, Reply, TypeOK
  <2> QED BY <2>1, <2>2, <1>d, QuietDrift DEF Early, Announcing, AnnouncesAhead
<1>4. ASSUME NEW r \in Request, Refresh(r) PROVE DriftInv'
  <2>1. /\ pc[r] = "refresh" /\ r \in applied /\ UNCHANGED <<store, call, loaded, applied>>
        /\ \E code : Reply(r, code)
      BY <1>4 DEF Refresh, HandlerInv, AppliedBeforeOk
  <2>2. /\ \A q \in Request : q # r => pc'[q] = pc[q] /\ answer'[q] = answer[q]
        /\ pc'[r] = "done"
      BY <2>1, <1>t DEF Reply, TypeOK
  <2> QED BY <2>1, <2>2, QuietDrift DEF Early, Announcing
<1>5. ASSUME Crash PROVE DriftInv'
  <2>1. /\ UNCHANGED <<row, log, indexed, applied, loaded, call>>
        /\ \A q \in Request :
              \/ InFlight(q) /\ pc'[q] = "done" /\ answer'[q] = "lost"
              \/ ~InFlight(q) /\ pc'[q] = pc[q] /\ answer'[q] = answer[q]
      BY <1>5, <1>t, CrashTakesAll DEF SerialInv, store
  <2>2. \A q \in Request, p \in Product : (Spoke(q, p)' <=> Spoke(q, p)) /\ (LastSays(p)' <=> LastSays(p))
      BY <2>1 DEF Spoke, LastSays
  <2>3. IndexIsBehind' /\ SpeaksOfItsProduct' /\ AppliedLate' /\ AnnouncesAhead' /\ HadItsSayAtCommit'
    <3>1. \A q \in Request : pc'[q] \in {"idle", "done"} /\ (pc'[q] = "idle" => pc[q] = "idle")
        BY <2>1, <1>t DEF InFlight, TypeOK
    <3>2. IndexIsBehind'
        BY <2>1 DEF DriftInv, IndexIsBehind
    <3>3. SpeaksOfItsProduct'
        BY <2>1, <2>2, <3>1 DEF DriftInv, SpeaksOfItsProduct, Early
    <3>4. AppliedLate'
        BY <2>1, <3>1, <1>t, <1>d DEF AppliedLate, TypeOK, Early
    <3> QED BY <3>1, <3>2, <3>3, <3>4 DEF AnnouncesAhead, Announcing, HadItsSayAtCommit
  <2>4. DriftIsExplained'
    <3>1. ASSUME NEW p \in Product, NEW q \in Request, Culprit(q, p) PROVE Culprit(q, p)'
        BY <2>1, <2>2, <3>1 DEF Culprit
    <3>2. ASSUME NEW p \in Product
          PROVE  (LastSays(p)' <=> row'[p].status = "on_sale") \/ \E q \in Request : Culprit(q, p)'
      <4>1. LastSays(p)' <=> LastSays(p)
          BY <2>1 DEF LastSays
      <4> QED BY <2>1, <3>1, <4>1 DEF DriftInv, DriftIsExplained
    <3> QED BY <3>2 DEF DriftIsExplained
  <2> QED BY <2>3, <2>4 DEF DriftInv
<1>6. ASSUME NEW p \in Product, CreateProduct(p) \/ Moderate(p) \/ Consume(p) PROVE DriftInv'
  <2>1. /\ UNCHANGED <<log, applied, loaded, call, pc, answer>>
        /\ \A q \in Product : (row'[q].status = "on_sale") = (row[q].status = "on_sale")
    <3>1. CASE CreateProduct(p)
        BY <3>1, <1>t DEF CreateProduct, Settled, Absent, TypeOK
    <3>2. CASE Moderate(p)
        BY <3>2, <1>t DEF Moderate, TypeOK
    <3>3. CASE Consume(p)
        BY <3>3 DEF Consume
    <3> QED BY <1>6, <3>1, <3>2, <3>3
  <2>2. IndexIsBehind'
    <3>1. CASE indexed' = indexed
        BY <2>1, <3>1 DEF DriftInv, IndexIsBehind
    <3>2. CASE Consume(p)
      <4>1. /\ indexed' = [indexed EXCEPT ![p] = indexed[p] + 1] /\ indexed[p] < Len(log[p])
            /\ indexed[p] \in Nat /\ Len(log[p]) \in Nat
          BY <3>2, <1>t DEF Consume, TypeOK
      <4>2. indexed'[p] <= Len(log'[p]) /\ \A q \in Product \ {p} : indexed'[q] = indexed[q]
          BY <2>1, <4>1, <1>t DEF TypeOK
      <4> QED BY <2>1, <4>2 DEF DriftInv, IndexIsBehind
    <3> QED BY <1>6, <3>1, <3>2 DEF CreateProduct, Moderate
  <2>3. SpeaksOfItsProduct' /\ AppliedLate' /\ AnnouncesAhead' /\ HadItsSayAtCommit'
      BY <2>1 DEF DriftInv, SpeaksOfItsProduct, AppliedLate, AnnouncesAhead, HadItsSayAtCommit,
                  HadItsSay, Spoke
  <2>4. DriftIsExplained'
      BY <2>1 DEF DriftInv, DriftIsExplained, Culprit, Spoke, LastSays, InFlight
  <2> QED BY <2>2, <2>3, <2>4 DEF DriftInv
<1>7. CASE UNCHANGED vars
  <2>1. UNCHANGED <<row, log, indexed, pc, call, loaded, answer, applied>>
      BY <1>7 DEF vars
  <2>2. IndexIsBehind' /\ SpeaksOfItsProduct' /\ AppliedLate' /\ AnnouncesAhead' /\ HadItsSayAtCommit'
      BY <2>1 DEF DriftInv, IndexIsBehind, SpeaksOfItsProduct, AppliedLate, AnnouncesAhead,
                  HadItsSayAtCommit, HadItsSay, Spoke
  <2>3. DriftIsExplained'
      BY <2>1 DEF DriftInv, DriftIsExplained, Culprit, Spoke, LastSays, InFlight
  <2> QED BY <2>2, <2>3 DEF DriftInv
<1> QED
    BY <1>1, <1>2, <1>3, <1>4, <1>5, <1>6, <1>7, SendKeepsDrift, CommitKeepsDrift DEF Next, Step

\* Requests that do not overlap leave search and table apart for good only when
\* a request has published its message, failed to commit, and left its client
\* without knowing.
THEOREM SerialDriftHasCulprit ==
    ASSUME ~Overlap
    PROVE  Spec => []DriftHasCulprit
<1>1. Init => SerialInv /\ DriftInv
    BY SerialInit, DriftInit
<1>2. TypeInv /\ HandlerInv /\ SerialInv /\ DriftInv /\ [Next]_vars => (SerialInv /\ DriftInv)'
    BY SerialStep, DriftStep
<1>3. TypeInv /\ DriftInv => DriftHasCulprit
  <2> SUFFICES ASSUME TypeInv, DriftInv, NEW p \in Product,
                      ~Settling(p), Visible(p) # (row[p].status = "on_sale")
               PROVE  \E r \in Request \ applied :
                         Published(r, p) # {} /\ answer[r] \in {"500", "lost"}
      BY DEF DriftHasCulprit
  <2>1. /\ indexed[p] \in Nat /\ Len(log[p]) \in Nat
        /\ indexed[p] <= Len(log[p]) /\ ~(indexed[p] < Len(log[p]))
      BY DEF TypeInv, TypeOK, DriftInv, IndexIsBehind, Settling
  <2>2. indexed[p] = Len(log[p])
      BY <2>1
  <2>3. ~(LastSays(p) <=> row[p].status = "on_sale")
      BY <2>2 DEF Visible, LastSays
  <2>4. PICK r \in Request : Culprit(r, p)
      BY <2>3 DEF DriftInv, DriftIsExplained
  <2>5. r \notin applied /\ Published(r, p) # {}
      BY <2>4 DEF Culprit, Spoke, Published
  <2>6. answer[r] \in {"500", "lost"}
      BY <2>4 DEF Culprit, Settling
  <2> QED BY <2>5, <2>6
<1> QED BY <1>1, <1>2, <1>3, HandlerCorrect, PTL DEF Spec
===============================================================================
