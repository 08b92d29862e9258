-------------------------- MODULE ProductMediaProofs --------------------------
(***************************************************************************)
(* ProductMedia for any requests, wishes, images, documents and faults,    *)
(* whether the requests overlap or not.                                    *)
(***************************************************************************)
EXTENDS ProductMedia, FiniteSetTheorems, SequenceTheorems, TLAPS

\* What is known of one request: whose place it is in, that it has not been
\* answered before its end, and that it is at its last SELECT or at its end
\* when the tables have its change.
Proper(r) ==
    /\ pc[r] \in {"validate", "new_images", "new_documents"} => r \in Create
    /\ pc[r] \in {"load", "documents", "documents_up", "images", "images_up", "images_swap",
                  "images_rm"} => r \in Edit
    /\ pc[r] \in {"find", "fetch"} => r \in Download
    /\ r \in applied => pc[r] \in {"refresh", "done"}
    /\ pc[r] = "refresh" => r \in applied
    /\ pc[r] # "done" => answer[r] = "none"
    /\ r \in Create \cup Edit =>
          /\ answer[r] \in {"200", "201"} => r \in applied
          /\ answer[r] \in {"403", "404"} => r \notin applied
          /\ answer[r] = "422" /\ r \in Edit => r \notin applied

MediaPlaces ==
    /\ pc \in [Request -> Serving \cup {"idle", "done"}]
    /\ DOMAIN answer = Request
    /\ \A r \in Request : Proper(r)

LEMMA PlacesInit == Init => MediaPlaces
  BY DEF Init, MediaPlaces, Proper

\* A step of one request disturbs no other.
LEMMA OneMoves ==
  ASSUME MediaPlaces, NEW r \in Request,
         NEW next \in Serving \cup {"idle", "done"}, pc' = [pc EXCEPT ![r] = next],
         \/ answer' = answer
         \/ \E code : answer' = [answer EXCEPT ![r] = code],
         applied' = applied \/ applied' = applied \cup {r},
         Proper(r)'
  PROVE  MediaPlaces'
  <1>1. ASSUME NEW q \in Request, q # r PROVE Proper(q)'
    <2>1. /\ Proper(q) /\ pc'[q] = pc[q] /\ answer'[q] = answer[q]
          /\ q \in applied' <=> q \in applied
      BY <1>1 DEF MediaPlaces
    <2> QED BY <2>1 DEF Proper
  <1> QED BY <1>1 DEF MediaPlaces

\* A request is answered: with an error that says nothing, with one that says
\* that nothing was changed when nothing was, or the file of a download.
LEMMA Answered ==
  ASSUME MediaPlaces, NEW r \in Request, NEW code, Reply(r, code), UNCHANGED applied,
         \/ code \in {"500", "no file"}
         \/ code \in {"403", "404", "422"} /\ r \notin applied
         \/ code = "422" /\ r \notin Edit
         \/ code \in {"200", "201"} /\ r \in applied
         \/ r \notin Create \cup Edit
  PROVE  MediaPlaces'
  <1>1. /\ pc' = [pc EXCEPT ![r] = "done"] /\ answer' = [answer EXCEPT ![r] = code]
        /\ applied' = applied
    BY DEF Reply
  <1>2. pc'[r] = "done" /\ answer'[r] = code
    BY <1>1 DEF MediaPlaces
  <1>3. Proper(r)'
    BY <1>1, <1>2 DEF Proper
  <1> QED BY <1>1, <1>3, OneMoves

\* A request goes on, neither at its end nor at its last SELECT yet.
LEMMA GoesOn ==
  ASSUME MediaPlaces, NEW r \in Request, NEW next, Goto(r, next), UNCHANGED applied,
         pc[r] \notin {"refresh", "done"},
         \/ next = "commit"
         \/ next \in {"validate", "new_images", "new_documents"} /\ r \in Create
         \/ next \in {"find", "fetch"} /\ r \in Download
         \/ /\ next \in {"load", "documents", "documents_up", "images", "images_up", "images_swap",
                         "images_rm"}
            /\ r \in Edit
  PROVE  MediaPlaces'
  <1>1. pc' = [pc EXCEPT ![r] = next] /\ answer' = answer /\ applied' = applied
    BY DEF Goto
  <1>2. pc'[r] = next /\ next \in Serving
    BY <1>1 DEF MediaPlaces, Serving
  <1>3. Proper(r) /\ answer[r] = "none" /\ r \notin applied
    BY DEF MediaPlaces, Proper
  <1>4. Proper(r)'
    BY <1>1, <1>2, <1>3 DEF Proper
  <1> QED BY <1>1, <1>2, <1>4, OneMoves

\* A crash ends the requests and the upload threads of some processes and
\* leaves all the others as they are.
LEMMA CrashStops ==
  ASSUME MediaPlaces, Crash
  PROVE  /\ UNCHANGED <<tables, s3, local, applied>>
         /\ DOMAIN pc' = Request /\ DOMAIN answer' = Request /\ DOMAIN pending' = Request
         /\ \A r \in Request :
               \/ /\ pc'[r] = "done" /\ pending'[r] = {}
                  /\ answer'[r] = "lost" \/ (~InFlight(r) /\ answer'[r] = answer[r])
               \/ pc'[r] = pc[r] /\ pending'[r] = pending[r] /\ answer'[r] = answer[r]
  <1>1. PICK dead \in SUBSET {r \in Request : InFlight(r) \/ pending[r] # {}} :
           /\ pc' = [r \in Request |-> IF r \in dead THEN "done" ELSE pc[r]]
           /\ answer' = [r \in Request |-> IF r \in dead /\ InFlight(r) THEN "lost" ELSE answer[r]]
           /\ pending' = [r \in Request |-> IF r \in dead THEN {} ELSE pending[r]]
           /\ UNCHANGED <<tables, s3, local, applied>>
    BY DEF Crash
  <1>2. DOMAIN pc' = Request /\ DOMAIN answer' = Request /\ DOMAIN pending' = Request
    BY <1>1
  <1>3. ASSUME NEW r \in Request
        PROVE  \/ /\ pc'[r] = "done" /\ pending'[r] = {}
                  /\ answer'[r] = "lost" \/ (~InFlight(r) /\ answer'[r] = answer[r])
               \/ pc'[r] = pc[r] /\ pending'[r] = pending[r] /\ answer'[r] = answer[r]
    <2>1. CASE r \in dead
      BY <1>1, <2>1
    <2>2. CASE r \notin dead
      BY <1>1, <2>2
    <2> QED BY <2>1, <2>2
  <1> QED BY <1>1, <1>2, <1>3

LEMMA PlacesStep == MediaPlaces /\ [Next]_vars => MediaPlaces'
  <1> SUFFICES ASSUME MediaPlaces, [Next]_vars PROVE MediaPlaces'
    OBVIOUS
  <1>0. ASSUME NEW r \in Request PROVE Proper(r) /\ pc[r] \in Serving \cup {"idle", "done"}
    BY <1>0 DEF MediaPlaces
  \* What waits for its uploads or its turn has not written anything.
  <1>1. ASSUME NEW r \in Request, pc[r] \notin {"refresh", "done"} PROVE r \notin applied
    BY <1>0, <1>1 DEF Proper
  <1>2. ASSUME NEW r \in Request, Arrive(r) PROVE MediaPlaces'
    <2>1. pc[r] = "idle" /\ applied' = applied
      BY <1>2 DEF Arrive
    <2>2. CASE r \in Create
      <3>1. Goto(r, "validate")
        BY <1>2, <2>2 DEF Arrive
      <3> QED BY <2>1, <2>2, <3>1, GoesOn
    <2>3. CASE r \in Edit
      <3>1. Goto(r, "load")
        BY <1>2, <2>3, KindAssumption DEF Arrive
      <3> QED BY <2>1, <2>3, <3>1, GoesOn
    <2>4. CASE r \in Download
      <3>1. Goto(r, "find")
        BY <1>2, <2>4, KindAssumption DEF Arrive
      <3> QED BY <2>1, <2>4, <3>1, GoesOn
    <2> QED BY <2>2, <2>3, <2>4 DEF Request
  <1>3. ASSUME NEW r \in Request, NEW key \in pending[r], Upload(r, key) PROVE MediaPlaces'
    <2>1. applied' = applied /\ (UNCHANGED <<pc, answer>> \/ Reply(r, "500"))
      BY <1>3 DEF Upload
    <2>2. CASE Reply(r, "500")
      BY <2>1, <2>2, Answered
    <2>3. CASE UNCHANGED <<pc, answer>>
      BY <2>1, <2>3 DEF MediaPlaces, Proper
    <2> QED BY <2>1, <2>2, <2>3
  <1>4. ASSUME NEW r \in Request, Validate(r) PROVE MediaPlaces'
    <2>1. pc[r] = "validate" /\ applied' = applied /\ r \in Create /\ r \notin applied
      BY <1>0, <1>4 DEF Validate, Proper
    <2>2. \/ Reply(r, "403") \/ Reply(r, "422") \/ Reply(r, "500") \/ Goto(r, "new_images")
      BY <1>4 DEF Validate, StartUploads, Undecodable
    <2> QED BY <2>1, <2>2, Answered, GoesOn
  <1>5. ASSUME NEW r \in Request, NewImagesUploaded(r) \/ NewDocumentsUploaded(r)
        PROVE MediaPlaces'
    <2>1. pc[r] \in {"new_images", "new_documents"} /\ applied' = applied
      BY <1>5 DEF NewImagesUploaded, NewDocumentsUploaded
    <2>2. r \in Create
      BY <1>0, <2>1 DEF Proper
    <2>3. Goto(r, "new_documents") \/ Goto(r, "commit")
      BY <1>5 DEF NewImagesUploaded, NewDocumentsUploaded, StartUploads
    <2> QED BY <2>1, <2>2, <2>3, GoesOn
  <1>6. ASSUME NEW r \in Request, LoadProduct(r) PROVE MediaPlaces'
    <2>1. pc[r] = "load" /\ applied' = applied /\ r \in Edit /\ r \notin applied
      BY <1>0, <1>6 DEF LoadProduct, Proper
    <2>2. \/ Reply(r, "403") \/ Reply(r, "404") \/ Reply(r, "422") \/ Goto(r, "documents")
          \/ Goto(r, "images") \/ Goto(r, "commit")
      BY <1>6 DEF LoadProduct, AfterLoad, AfterDocuments
    <2> QED BY <2>1, <2>2, Answered, GoesOn
  <1>7. ASSUME NEW r \in Request, CheckDocuments(r) \/ CheckImages(r) \/ UpdateImages(r)
        PROVE MediaPlaces'
    <2>1. pc[r] \in {"documents", "images", "images_up"} /\ applied' = applied
      BY <1>7 DEF CheckDocuments, CheckImages, UpdateImages
    <2>2. r \in Edit /\ r \notin applied
      BY <1>0, <2>1 DEF Proper
    <2>3. \/ Reply(r, "422") \/ Reply(r, "404") \/ Reply(r, "500")
          \/ Goto(r, "documents_up") \/ Goto(r, "images_up") \/ Goto(r, "images_swap")
      BY <1>7 DEF CheckDocuments, CheckImages, UpdateImages, StartUploads, Undecodable
    <2> QED BY <2>1, <2>2, <2>3, Answered, GoesOn
  <1>8. ASSUME NEW r \in Request, DeleteDocuments(r) \/ DeleteReplaced(r) \/ DeleteImages(r)
        PROVE MediaPlaces'
    <2>1. pc[r] \in {"documents_up", "images_swap", "images_rm"} /\ applied' = applied
      BY <1>8 DEF DeleteDocuments, DeleteReplaced, DeleteImages
    <2>2. r \in Edit
      BY <1>0, <2>1 DEF Proper
    <2>3. Reply(r, "500") \/ Goto(r, "images") \/ Goto(r, "commit") \/ Goto(r, "images_rm")
      BY <1>8 DEF DeleteDocuments, DeleteReplaced, DeleteImages, DeleteFiles, AfterDocuments
    <2> QED BY <2>1, <2>2, <2>3, Answered, GoesOn
  <1>9. ASSUME NEW r \in Request, Commit(r) PROVE MediaPlaces'
    <2>1. pc[r] = "commit" /\ r \notin applied /\ answer[r] = "none"
      BY <1>0, <1>9 DEF Commit, Proper
    <2>2. CASE Write(r) /\ Goto(r, "refresh")
      <3>1. /\ pc' = [pc EXCEPT ![r] = "refresh"] /\ answer' = answer
            /\ applied' = applied \cup {r}
        BY <2>2 DEF Goto, Write
      <3>2. pc'[r] = "refresh"
        BY <3>1 DEF MediaPlaces
      <3>3. Proper(r)'
        BY <2>1, <3>1, <3>2 DEF Proper
      <3> QED BY <3>1, <3>3, OneMoves DEF Serving
    <2>3. CASE (Reply(r, "422") \/ Reply(r, "500")) /\ applied' = applied
      BY <2>1, <2>3, Answered
    <2>4. ASSUME NEW code, Write(r), Reply(r, code), code = "500" \/ (code = "422" /\ r \notin Edit)
          PROVE  MediaPlaces'
      <3>1. /\ pc' = [pc EXCEPT ![r] = "done"] /\ answer' = [answer EXCEPT ![r] = code]
            /\ applied' = applied \cup {r}
        BY <2>4 DEF Reply, Write
      <3>2. pc'[r] = "done" /\ answer'[r] = code
        BY <3>1 DEF MediaPlaces
      <3>3. Proper(r)'
        BY <2>4, <3>1, <3>2 DEF Proper
      <3> QED BY <3>1, <3>3, OneMoves
    <2>5. \/ Write(r) /\ Goto(r, "refresh")
          \/ /\ applied' = applied \/ Write(r)
             /\ Reply(r, IF r \in Create THEN "422" ELSE "500")
      BY <1>9 DEF Commit
    <2>6. CASE r \in Create
      BY <2>2, <2>3, <2>4, <2>5, <2>6, KindAssumption
    <2>7. CASE r \notin Create
      BY <2>2, <2>3, <2>4, <2>5, <2>7
    <2> QED BY <2>6, <2>7
  <1>10. ASSUME NEW r \in Request, Refresh(r) PROVE MediaPlaces'
    <2>1. pc[r] = "refresh" /\ applied' = applied /\ r \in applied
      BY <1>0, <1>10 DEF Refresh, Proper
    <2>2. Reply(r, "201") \/ Reply(r, "200") \/ Reply(r, "500")
      BY <1>10 DEF Refresh
    <2> QED BY <2>1, <2>2, Answered
  <1>11. ASSUME NEW r \in Request, FindDocument(r) \/ FetchFile(r) PROVE MediaPlaces'
    <2>1. pc[r] \in {"find", "fetch"} /\ applied' = applied
      BY <1>11 DEF FindDocument, FetchFile
    <2>2. r \in Download /\ r \notin Create \cup Edit
      BY <1>0, <2>1, KindAssumption DEF Proper
    <2>3. Goto(r, "fetch") \/ \E code : Reply(r, code)
      BY <1>11 DEF FindDocument, FetchFile
    <2> QED BY <2>1, <2>2, <2>3, Answered, GoesOn
  <1>12. ASSUME NEW r \in Request, QueryFails(r) PROVE MediaPlaces'
    <2>1. applied' = applied
      BY <1>12 DEF QueryFails
    <2>2. Reply(r, "500") \/ (Reply(r, "422") /\ r \notin Edit)
      BY <1>12, KindAssumption DEF QueryFails
    <2> QED BY <2>1, <2>2, Answered
  <1>13. CASE Crash
    <2>1. applied' = applied /\ DOMAIN answer' = Request
      BY <1>13, CrashStops
    <2>2. ASSUME NEW r \in Request
          PROVE  Proper(r)' /\ pc'[r] \in Serving \cup {"idle", "done"}
      <3>1. CASE pc'[r] = "done" /\ (answer'[r] = "lost" \/ answer'[r] = answer[r])
        BY <1>0, <2>1, <3>1 DEF Proper
      <3>2. CASE pc'[r] = pc[r] /\ answer'[r] = answer[r]
        BY <1>0, <2>1, <3>2 DEF Proper
      <3> QED BY <1>13, <3>1, <3>2, CrashStops
    <2>3. pc' = [r \in Request |-> pc'[r]]
      BY <1>13 DEF Crash
    <2> QED BY <2>1, <2>2, <2>3 DEF MediaPlaces
  <1>14. CASE UNCHANGED vars
    BY <1>14 DEF vars, MediaPlaces, Proper
  <1> QED
    BY <1>2, <1>3, <1>4, <1>5, <1>6, <1>7, <1>8, <1>9, <1>10, <1>11, <1>12, <1>13, <1>14
    DEF Next, Step

LEMMA PlacesHold == Spec => []MediaPlaces
  BY PlacesInit, PlacesStep, PTL DEF Spec

\* Whatever fails, and whatever other requests do meanwhile, an edit that is
\* answered 200 has been written, and one that is answered 403, 404 or 422 has
\* not; so has a created product that is answered 201 or 403.
THEOREM AnswersTellTheTruth == Spec => []AnswerTellsMedia
  <1>1. MediaPlaces => AnswerTellsMedia
    BY DEF MediaPlaces, Proper, AnswerTellsMedia, Request
  <1> QED
    BY <1>1, PlacesHold, PTL
------------------------------------------------------------------------------
\* The files.  A key is accounted for when its file is there or some request
\* asked the store to delete it: no step takes that away.
Accounted == DOMAIN s3 \cup Doomed

\* What a request uploads in its three gathers.
DocumentUploads(r) == {DocumentKey(id) : id \in NewDocuments(r)}
ImageUploads(r) == ImageKeys(NewImages(r))
FormatUploads(r) == {ImageKey(id, size, r) : id \in Replaced(r, "other"), size \in Size}

Sent(r, keys) == keys \subseteq Accounted \cup pending[r]

\* Where a request is tells which of its gathers it has started; it is at the
\* places between two gathers only when the first has ended.
Uploads(r) ==
    /\ pc[r] \in {"idle", "validate", "load", "documents", "images", "images_rm", "commit"} =>
          pending[r] = {}
    /\ pc[r] \in {"new_documents", "documents_up", "images", "images_up", "images_swap",
                  "images_rm", "commit"} => Sent(r, DocumentUploads(r))
    /\ pc[r] \in {"new_images", "new_documents", "images_up", "images_swap", "images_rm",
                  "commit"} => Sent(r, ImageUploads(r))
    /\ pc[r] \in {"images_swap", "images_rm", "commit"} => Sent(r, FormatUploads(r))

\* A download has one document at most before it; a POST replaces nothing.
Looked(r) ==
    /\ r \in Download =>
          /\ \A key \in Range(seen[r].documents) :
                key \in Accounted /\ Range(seen[r].documents) = {key}
          /\ answer[r] = "no file" => Range(seen[r].documents) \subseteq Doomed
    /\ r \in Create => Replaced(r, "other") = {}

MediaDomains ==
    /\ DOMAIN doomed = Request /\ DOMAIN pending = Request
    /\ DOMAIN want = Request /\ DOMAIN seen = Request
    /\ \A r \in Request :
          seen[r] = [images |-> seen[r].images, documents |-> seen[r].documents,
                     name |-> seen[r].name]

FilesInv ==
    /\ MediaDomains
    /\ Named \subseteq Accounted
    /\ \A r \in Request : Uploads(r) /\ Looked(r)

LEMMA FilesInit == Init => FilesInv
  <1> SUFFICES ASSUME Init PROVE FilesInv
    OBVIOUS
  <1>1. MediaDomains
    BY DEF Init, MediaDomains, Nothing
  <1>2. Named \subseteq DOMAIN s3
    BY DEF Init, Named
  <1>3. ASSUME NEW r \in Request PROVE Uploads(r)
    BY DEF Init, Uploads
  <1>4. ASSUME NEW r \in Request PROVE Looked(r)
    <2>1. want[r] = NoWish /\ seen[r] = Nothing /\ answer[r] = "none"
      BY DEF Init
    <2>2. Replaced(r, "other") = {}
      BY <2>1 DEF Replaced, NoWish
    <2>3. Range(seen[r].documents) = {}
      BY <2>1 DEF Nothing, Range
    <2> QED BY <2>1, <2>2, <2>3 DEF Looked
  <1> QED BY <1>1, <1>2, <1>3, <1>4 DEF FilesInv, Accounted

\* What a step of r may do to the store: nothing, add a file, or take files
\* away that it notes as doomed.
StoreStep(r) ==
    \/ DOMAIN s3 \subseteq DOMAIN s3' /\ doomed' = doomed
    \/ \E keys : /\ doomed' = [doomed EXCEPT ![r] = @ \cup keys]
                 /\ DOMAIN s3 \ keys \subseteq DOMAIN s3'

LEMMA StoreGrows ==
  ASSUME MediaDomains, NEW r \in Request, StoreStep(r)
  PROVE  /\ Accounted \subseteq Accounted' /\ Doomed \subseteq Doomed'
         /\ DOMAIN doomed' = Request
  <1>1. CASE DOMAIN s3 \subseteq DOMAIN s3' /\ doomed' = doomed
    BY <1>1 DEF MediaDomains, Accounted, Doomed
  <1>2. ASSUME NEW keys, doomed' = [doomed EXCEPT ![r] = @ \cup keys],
               DOMAIN s3 \ keys \subseteq DOMAIN s3'
        PROVE  /\ Accounted \subseteq Accounted' /\ Doomed \subseteq Doomed'
               /\ DOMAIN doomed' = Request
    <2>1. DOMAIN doomed' = Request /\ doomed'[r] = doomed[r] \cup keys
      BY <1>2 DEF MediaDomains
    <2>2. ASSUME NEW q \in Request PROVE doomed[q] \subseteq doomed'[q]
      BY <1>2, <2>1 DEF MediaDomains
    <2>3. Doomed \subseteq Doomed'
      BY <2>2 DEF Doomed
    <2>4. keys \subseteq Doomed'
      BY <2>1 DEF Doomed
    <2>5. Accounted \subseteq Accounted'
      BY <1>2, <2>3, <2>4 DEF Accounted
    <2> QED BY <2>1, <2>3, <2>5
  <1> QED BY <1>1, <1>2 DEF StoreStep

\* A request that stays where it is keeps what holds of it.
LEMMA StaysPut ==
  ASSUME FilesInv, NEW r \in Request, Accounted \subseteq Accounted', Doomed \subseteq Doomed',
         pc'[r] = pc[r], want'[r] = want[r], seen'[r] = seen[r], answer'[r] = answer[r],
         pending'[r] = pending[r]
  PROVE  Uploads(r)' /\ Looked(r)'
  <1>1. Uploads(r) /\ Looked(r)
    BY DEF FilesInv
  <1>2. /\ DocumentUploads(r)' = DocumentUploads(r) /\ ImageUploads(r)' = ImageUploads(r)
        /\ FormatUploads(r)' = FormatUploads(r) /\ Replaced(r, "other")' = Replaced(r, "other")
    BY DEF DocumentUploads, NewDocuments, ImageUploads, NewImages, FormatUploads, Replaced
  <1>3. Uploads(r)'
    BY <1>1, <1>2 DEF Uploads, Sent
  <1>4. Looked(r)'
    BY <1>1, <1>2 DEF Looked
  <1> QED BY <1>3, <1>4

\* A step of one request that leaves the tables alone.
LEMMA FilesMove ==
  ASSUME FilesInv, MediaPlaces, NEW r \in Request, NEW next, pc' = [pc EXCEPT ![r] = next],
         \/ answer' = answer
         \/ \E code : answer' = [answer EXCEPT ![r] = code],
         \/ pending' = pending
         \/ \E keys : pending' = [pending EXCEPT ![r] = keys],
         StoreStep(r), UNCHANGED tables,
         \A q \in Request \ {r} : want'[q] = want[q] /\ seen'[q] = seen[q],
         DOMAIN want' = Request /\ DOMAIN seen' = Request,
         seen'[r] = [images |-> seen'[r].images, documents |-> seen'[r].documents,
                     name |-> seen'[r].name],
         Uploads(r)', Looked(r)'
  PROVE  FilesInv'
  <1>1. /\ Accounted \subseteq Accounted' /\ Doomed \subseteq Doomed'
        /\ DOMAIN doomed' = Request
    BY StoreGrows DEF FilesInv
  <1>2. DOMAIN pending' = Request
    BY DEF FilesInv, MediaDomains
  <1>3. ASSUME NEW q \in Request, q # r PROVE Uploads(q)' /\ Looked(q)'
    <2>1. pc'[q] = pc[q] /\ answer'[q] = answer[q]
      BY <1>3 DEF MediaPlaces
    <2>2. pending'[q] = pending[q]
      BY <1>3 DEF FilesInv, MediaDomains
    <2>3. want'[q] = want[q] /\ seen'[q] = seen[q]
      BY <1>3
    <2> QED BY <1>1, <2>1, <2>2, <2>3, StaysPut
  <1>4. MediaDomains'
    <2>1. ASSUME NEW q \in Request
          PROVE  seen'[q] = [images |-> seen'[q].images, documents |-> seen'[q].documents,
                             name |-> seen'[q].name]
      <3>1. CASE q = r
        BY <3>1
      <3>2. CASE q # r
        <4>1. seen'[q] = seen[q]
          BY <3>2
        <4> QED BY <4>1 DEF FilesInv, MediaDomains
      <3> QED BY <3>1, <3>2
    <2> QED BY <1>1, <1>2, <2>1 DEF MediaDomains
  <1>5. Named' = Named
    BY DEF Named, tables
  <1>6. Named' \subseteq Accounted'
    BY <1>1, <1>5 DEF FilesInv
  <1> QED BY <1>3, <1>4, <1>6 DEF FilesInv

\* A request is answered without having looked at anything new.
LEMMA FilesReply ==
  ASSUME FilesInv, MediaPlaces, NEW r \in Request, NEW code, Reply(r, code), code # "no file",
         \/ pending' = pending
         \/ \E keys : pending' = [pending EXCEPT ![r] = keys],
         StoreStep(r), UNCHANGED <<tables, want, seen>>
  PROVE  FilesInv'
  <1>1. pc' = [pc EXCEPT ![r] = "done"] /\ answer' = [answer EXCEPT ![r] = code]
    BY DEF Reply
  <1>2. pc'[r] = "done" /\ answer'[r] = code
    BY <1>1 DEF MediaPlaces
  <1>3. Uploads(r)'
    BY <1>2 DEF Uploads
  <1>4. Looked(r)'
    <2>1. Accounted \subseteq Accounted'
      BY StoreGrows DEF FilesInv
    <2>2. Looked(r)
      BY DEF FilesInv
    <2>3. Replaced(r, "other")' = Replaced(r, "other") /\ seen'[r] = seen[r]
      BY DEF Replaced
    <2> QED BY <1>2, <2>1, <2>2, <2>3 DEF Looked
  <1> QED BY <1>1, <1>3, <1>4, FilesMove DEF FilesInv, MediaDomains

\* A request goes on to a place at which its uploads are as they must be.
LEMMA FilesGoto ==
  ASSUME FilesInv, MediaPlaces, NEW r \in Request, NEW next, Goto(r, next),
         \/ pending' = pending
         \/ \E keys : pending' = [pending EXCEPT ![r] = keys],
         StoreStep(r), UNCHANGED <<tables, want, seen>>, Uploads(r)'
  PROVE  FilesInv'
  <1>1. pc' = [pc EXCEPT ![r] = next] /\ answer' = answer
    BY DEF Goto
  <1>2. Looked(r)'
    <2>1. Accounted \subseteq Accounted' /\ Doomed \subseteq Doomed'
      BY StoreGrows DEF FilesInv
    <2>2. Looked(r)
      BY DEF FilesInv
    <2>3. Replaced(r, "other")' = Replaced(r, "other") /\ seen'[r] = seen[r]
      BY DEF Replaced
    <2> QED BY <1>1, <2>1, <2>2, <2>3 DEF Looked
  <1> QED BY <1>1, <1>2, FilesMove DEF FilesInv, MediaDomains

LEMMA DeletesAreNoted ==
  ASSUME NEW r, NEW keys, NEW next, DeleteFiles(r, keys, next)
  PROVE  StoreStep(r) /\ (Goto(r, next) \/ Reply(r, "500"))
  <1>1. PICK gone \in SUBSET keys :
           /\ doomed' = [doomed EXCEPT ![r] = @ \cup keys]
           /\ s3' = [k \in DOMAIN s3 \ gone |-> s3[k]]
           /\ Goto(r, next) \/ Reply(r, "500")
    BY DEF DeleteFiles
  <1>2. DOMAIN s3 \ keys \subseteq DOMAIN s3'
    BY <1>1
  <1> QED BY <1>1, <1>2 DEF StoreStep

\* The thread of one upload ends.
LEMMA UploadKeepsFiles ==
  ASSUME FilesInv, MediaPlaces, NEW r \in Request, NEW key \in pending[r], Upload(r, key)
  PROVE  FilesInv'
  <1> DEFINE written == [k \in DOMAIN s3 \cup {key} |-> IF k = key THEN r ELSE s3[k]]
  <1>1. /\ pending' = [pending EXCEPT ![r] = @ \ {key}]
        /\ UNCHANGED <<tables, local, applied>>
        /\ \/ s3' = written /\ UNCHANGED <<pc, answer>>
           \/ /\ s3' \in {s3, written}
              /\ IF InFlight(r) THEN Reply(r, "500") ELSE UNCHANGED <<pc, answer>>
    BY DEF Upload
  <1>2. UNCHANGED <<tables, want, seen, doomed>>
    BY <1>1 DEF local
  <1>3. DOMAIN s3 \subseteq DOMAIN s3'
    BY <1>1
  <1>4. StoreStep(r)
    BY <1>2, <1>3 DEF StoreStep
  <1>5. Uploads(r) /\ pc[r] \notin {"idle", "validate", "load", "documents", "images", "images_rm",
                                    "commit"}
    BY DEF FilesInv, Uploads
  <1>6. CASE Reply(r, "500")
    BY <1>1, <1>2, <1>4, <1>6, FilesReply
  <1>7. CASE UNCHANGED <<pc, answer>>
    <2>1. Goto(r, pc[r])
      BY <1>7 DEF Goto, MediaPlaces
    <2>2. CASE pc[r] = "done"
      <3>1. Uploads(r)'
        BY <1>7, <2>2 DEF Uploads
      <3> QED BY <1>1, <1>2, <1>4, <2>1, <3>1, FilesGoto
    <2>3. CASE pc[r] # "done"
      <3>1. key \in DOMAIN s3'
        BY <1>1, <1>5, <1>7, <2>3 DEF InFlight, Reply, MediaPlaces
      <3>2. Accounted \subseteq Accounted' /\ key \in Accounted'
        BY <1>4, <3>1, StoreGrows DEF FilesInv, Accounted
      <3>3. pending'[r] = pending[r] \ {key}
        BY <1>1 DEF FilesInv, MediaDomains
      <3>4. /\ DocumentUploads(r)' = DocumentUploads(r) /\ ImageUploads(r)' = ImageUploads(r)
            /\ FormatUploads(r)' = FormatUploads(r)
        BY <1>2 DEF DocumentUploads, NewDocuments, ImageUploads, NewImages, FormatUploads, Replaced
      <3>5. Uploads(r)'
        BY <1>5, <1>7, <3>2, <3>3, <3>4 DEF Uploads, Sent
      <3> QED BY <1>1, <1>2, <1>4, <2>1, <3>5, FilesGoto
    <2> QED BY <2>2, <2>3
  <1> QED BY <1>1, <1>6, <1>7

\* The commit gives the rows no keys but those they had and those uploaded.
LEMMA CommitKeepsFiles ==
  ASSUME FilesInv, MediaPlaces, NEW r \in Request, Commit(r)
  PROVE  FilesInv'
  <1>1. pc[r] = "commit" /\ UNCHANGED <<s3, local, pending>>
    BY DEF Commit
  <1>2. UNCHANGED <<s3, want, seen, doomed, pending>>
    BY <1>1 DEF local
  <1>3. StoreStep(r)
    BY <1>2 DEF StoreStep
  <1>4. CASE (Reply(r, "422") \/ Reply(r, "500")) /\ UNCHANGED <<tables, applied>>
    BY <1>2, <1>3, <1>4, FilesReply
  \* Whether the answer of the database arrives or not.
  <1>5. ASSUME NEW next, next \in {"refresh", "done"}, Write(r), pc' = [pc EXCEPT ![r] = next],
               \/ answer' = answer
               \/ \E code : code # "no file" /\ answer' = [answer EXCEPT ![r] = code]
        PROVE  FilesInv'
    <2>1. /\ ImageUploads(r) \subseteq Accounted /\ DocumentUploads(r) \subseteq Accounted
          /\ FormatUploads(r) \subseteq Accounted /\ Named \subseteq Accounted
      BY <1>1 DEF FilesInv, Uploads, Sent
    <2>2. Accounted' = Accounted
      BY <1>2 DEF Accounted, Doomed
    <2>3. ASSUME NEW id \in DOMAIN images', NEW key \in KeysOf(images'[id])
          PROVE  key \in Accounted
      <3>1. images'[id] = IF id \in NewImages(r) THEN Inserted(r, id)
                          ELSE IF id \in UpdatedImages(r) THEN Written(r, id) ELSE images[id]
        BY <1>5 DEF Write
      <3>2. id \in NewImages(r) \/ id \in DOMAIN images
        BY <1>5 DEF Write
      <3>3. CASE id \in NewImages(r)
        <4>1. PICK size \in Size : key = ImageKey(id, size, Nobody)
          BY <2>3, <3>1, <3>3 DEF KeysOf, Inserted, Range
        <4>2. key \in ImageUploads(r)
          BY <3>3, <4>1 DEF ImageUploads, ImageKeys
        <4> QED BY <2>1, <4>2
      <3>4. CASE /\ id \notin NewImages(r) /\ images'[id] = Written(r, id)
                 /\ id \in Replaced(r, "other")
        <4>1. PICK size \in Size : key = ImageKey(id, size, r)
          BY <2>3, <3>4 DEF KeysOf, Written, Range
        <4>2. key \in FormatUploads(r)
          BY <3>4, <4>1 DEF FormatUploads
        <4> QED BY <2>1, <4>2
      <3>5. CASE id \notin NewImages(r) /\ images'[id].files = images[id].files
        <4>1. key \in KeysOf(images[id]) /\ id \in DOMAIN images
          BY <2>3, <3>2, <3>5 DEF KeysOf
        <4> QED BY <2>1, <4>1 DEF Named
      <3>6. id \notin Replaced(r, "other") => Written(r, id).files = images[id].files
        BY DEF Written
      <3> QED BY <3>1, <3>3, <3>4, <3>5, <3>6
    <2>4. ASSUME NEW id \in DOMAIN documents' PROVE documents'[id] \in Accounted
      <3>1. documents'[id] = IF id \in NewDocuments(r) THEN DocumentKey(id) ELSE documents[id]
        BY <1>5 DEF Write
      <3>2. id \in NewDocuments(r) \/ id \in DOMAIN documents
        BY <1>5 DEF Write
      <3>3. CASE id \in NewDocuments(r)
        BY <2>1, <3>1, <3>3 DEF DocumentUploads
      <3>4. CASE id \notin NewDocuments(r)
        BY <2>1, <3>1, <3>2, <3>4 DEF Named, Range
      <3> QED BY <3>3, <3>4
    <2>5. Named' \subseteq Accounted'
      BY <2>2, <2>3, <2>4 DEF Named, Range
    <2>6. \A q \in Request \ {r} : pc'[q] = pc[q] /\ answer'[q] = answer[q]
      BY <1>5 DEF MediaPlaces
    <2>7. ASSUME NEW q \in Request PROVE Uploads(q)' /\ Looked(q)'
      <3>1. CASE q = r
        <4>1. /\ pc'[r] \in {"refresh", "done"}
              /\ answer'[r] = answer[r] \/ answer'[r] # "no file"
          BY <1>5 DEF MediaPlaces
        <4>2. Looked(r) /\ Replaced(r, "other")' = Replaced(r, "other")
          BY <1>2 DEF FilesInv, Replaced
        <4>3. Doomed' = Doomed /\ seen' = seen
          BY <1>2 DEF Doomed
        <4>4. Looked(r)'
          BY <2>2, <4>1, <4>2, <4>3 DEF Looked
        <4> QED BY <3>1, <4>1, <4>4 DEF Uploads
      <3>2. CASE q # r
        <4>1. pc'[q] = pc[q] /\ answer'[q] = answer[q] /\ Doomed' = Doomed
          BY <1>2, <2>6, <3>2 DEF Doomed
        <4> QED BY <1>2, <2>2, <4>1, StaysPut
      <3> QED BY <3>1, <3>2
    <2>8. MediaDomains'
      BY <1>2 DEF FilesInv, MediaDomains
    <2> QED BY <2>5, <2>7, <2>8 DEF FilesInv
  <1>6. CASE Write(r) /\ Goto(r, "refresh")
    BY <1>5, <1>6 DEF Goto
  <1>7. CASE Write(r) /\ (Reply(r, "422") \/ Reply(r, "500"))
    BY <1>5, <1>7 DEF Reply
  <1>8. \/ Write(r) /\ Goto(r, "refresh")
        \/ /\ UNCHANGED <<tables, applied>> \/ Write(r)
           /\ Reply(r, IF r \in Create THEN "422" ELSE "500")
    BY DEF Commit
  <1> QED BY <1>4, <1>6, <1>7, <1>8

\* POST: two gathers, each awaited.
LEMMA CreateKeepsFiles ==
  ASSUME FilesInv, MediaPlaces, NEW r \in Request,
         Validate(r) \/ NewImagesUploaded(r) \/ NewDocumentsUploaded(r)
  PROVE  FilesInv'
  <1>1. UNCHANGED <<tables, s3, local, applied>>
    BY DEF Validate, NewImagesUploaded, NewDocumentsUploaded
  <1>2. UNCHANGED <<tables, want, seen>> /\ StoreStep(r) /\ UNCHANGED Accounted
    BY <1>1 DEF local, StoreStep, Accounted, Doomed
  <1>3. /\ DocumentUploads(r)' = DocumentUploads(r) /\ ImageUploads(r)' = ImageUploads(r)
        /\ FormatUploads(r)' = FormatUploads(r)
    BY <1>2 DEF DocumentUploads, NewDocuments, ImageUploads, NewImages, FormatUploads, Replaced
  <1>4. Uploads(r) /\ Looked(r) /\ Proper(r)
    BY DEF FilesInv, MediaPlaces
  <1>5. CASE Validate(r)
    <2>1. CASE (Reply(r, "403") \/ Reply(r, "422") \/ Reply(r, "500")) /\ UNCHANGED pending
      BY <1>2, <2>1, FilesReply
    <2>2. CASE StartUploads(r, ImageKeys(NewImages(r)), "new_images")
      <3>1. pending' = [pending EXCEPT ![r] = ImageUploads(r)] /\ Goto(r, "new_images")
        BY <2>2 DEF StartUploads, ImageUploads
      <3>2. pending'[r] = ImageUploads(r) /\ pc'[r] = "new_images"
        BY <3>1 DEF FilesInv, MediaDomains, Goto, MediaPlaces
      <3>3. Uploads(r)'
        BY <1>3, <3>2 DEF Uploads, Sent
      <3> QED BY <1>2, <3>1, <3>3, FilesGoto
    <2> QED BY <1>5, <2>1, <2>2 DEF Validate, Undecodable
  <1>6. CASE NewImagesUploaded(r)
    <2>1. /\ pending' = [pending EXCEPT ![r] = DocumentUploads(r)] /\ Goto(r, "new_documents")
          /\ pc[r] = "new_images" /\ pending[r] = {}
      BY <1>6 DEF NewImagesUploaded, StartUploads, DocumentUploads
    <2>2. pending'[r] = DocumentUploads(r) /\ pc'[r] = "new_documents"
      BY <2>1 DEF FilesInv, MediaDomains, Goto, MediaPlaces
    <2>3. Uploads(r)'
      BY <1>2, <1>3, <1>4, <2>1, <2>2 DEF Uploads, Sent
    <2> QED BY <1>2, <2>1, <2>3, FilesGoto
  <1>7. CASE NewDocumentsUploaded(r)
    <2>1. /\ pending' = pending /\ Goto(r, "commit")
          /\ pc[r] = "new_documents" /\ pending[r] = {}
      BY <1>7 DEF NewDocumentsUploaded
    <2>2. pending'[r] = {} /\ pc'[r] = "commit"
      BY <2>1 DEF Goto, MediaPlaces
    <2>3. FormatUploads(r) = {}
      <3>1. r \in Create
        BY <1>4, <2>1 DEF Proper
      <3>2. Replaced(r, "other") = {}
        BY <1>4, <3>1 DEF Looked
      <3> QED BY <3>2 DEF FormatUploads
    <2>4. Uploads(r)'
      BY <1>2, <1>3, <1>4, <2>1, <2>2, <2>3 DEF Uploads, Sent
    <2> QED BY <1>2, <2>1, <2>4, FilesGoto
  <1> QED BY <1>5, <1>6, <1>7

\* PATCH, up to the checks: a list that is left out has no uploads.
LEMMA LoadKeepsFiles ==
  ASSUME FilesInv, MediaPlaces, NEW r \in Request, LoadProduct(r)
  PROVE  FilesInv'
  <1>1. pc[r] = "load" /\ UNCHANGED <<tables, s3, want, pending, doomed, applied>>
    BY DEF LoadProduct
  <1>2. StoreStep(r) /\ UNCHANGED Accounted
    BY <1>1 DEF StoreStep, Accounted, Doomed
  <1>3. Uploads(r) /\ Looked(r) /\ Proper(r)
    BY DEF FilesInv, MediaPlaces
  <1>4. CASE (Reply(r, "403") \/ Reply(r, "404") \/ Reply(r, "422")) /\ UNCHANGED seen
    BY <1>1, <1>2, <1>4, FilesReply
  <1>5. CASE seen' = [seen EXCEPT ![r] = ProductInDB] /\ Goto(r, AfterLoad(r))
    <2>1. /\ DocumentUploads(r)' = DocumentUploads(r) /\ ImageUploads(r)' = ImageUploads(r)
          /\ FormatUploads(r)' = FormatUploads(r)
          /\ Replaced(r, "other")' = Replaced(r, "other")
      BY <1>1 DEF DocumentUploads, NewDocuments, ImageUploads, NewImages, FormatUploads, Replaced
    <2>2. /\ pc' = [pc EXCEPT ![r] = AfterLoad(r)] /\ answer' = answer /\ pc'[r] = AfterLoad(r)
      BY <1>5 DEF Goto, MediaPlaces
    <2>3. pending[r] = {} /\ pending'[r] = {}
      BY <1>1, <1>3 DEF Uploads
    <2>4. want[r].documents = {} => DocumentUploads(r) = {}
      BY DEF DocumentUploads, NewDocuments
    <2>5. want[r].images = {} => ImageUploads(r) = {} /\ FormatUploads(r) = {}
      BY DEF ImageUploads, NewImages, ImageKeys, FormatUploads, Replaced
    <2>6. Uploads(r)'
      BY <2>1, <2>2, <2>3, <2>4, <2>5 DEF Uploads, Sent, AfterLoad, AfterDocuments
    <2>7. /\ DOMAIN seen' = Request /\ \A q \in Request \ {r} : seen'[q] = seen[q]
          /\ seen'[r] = ProductInDB
      BY <1>5 DEF FilesInv, MediaDomains
    <2>8. r \notin Download
      BY <1>1, <1>3, KindAssumption DEF Proper
    <2>9. Looked(r)'
      BY <1>3, <2>1, <2>8 DEF Looked
    <2>10. seen'[r] = [images |-> seen'[r].images, documents |-> seen'[r].documents,
                       name |-> seen'[r].name]
      BY <2>7 DEF ProductInDB
    <2>11. /\ \A q \in Request \ {r} : want'[q] = want[q] /\ seen'[q] = seen[q]
           /\ DOMAIN want' = Request
      BY <1>1, <2>7 DEF FilesInv, MediaDomains
    <2> QED BY <1>1, <1>2, <2>2, <2>6, <2>7, <2>9, <2>10, <2>11, FilesMove
  <1> QED BY <1>4, <1>5 DEF LoadProduct

\* PATCH: three gathers and three deletions.
LEMMA EditKeepsFiles ==
  ASSUME FilesInv, MediaPlaces, NEW r \in Request,
         \/ CheckDocuments(r) \/ DeleteDocuments(r) \/ CheckImages(r) \/ UpdateImages(r)
         \/ DeleteReplaced(r) \/ DeleteImages(r)
  PROVE  FilesInv'
  <1>1. UNCHANGED <<tables, want, seen>>
    BY DEF CheckDocuments, DeleteDocuments, CheckImages, UpdateImages, DeleteReplaced,
           DeleteImages, local
  <1>2. /\ DocumentUploads(r)' = DocumentUploads(r) /\ ImageUploads(r)' = ImageUploads(r)
        /\ FormatUploads(r)' = FormatUploads(r)
    BY <1>1 DEF DocumentUploads, NewDocuments, ImageUploads, NewImages, FormatUploads, Replaced
  <1>3. Uploads(r) /\ Looked(r) /\ Proper(r)
    BY DEF FilesInv, MediaPlaces
  \* A gather is started, or the request is answered before it.
  <1>4. ASSUME NEW keys, NEW next, StartUploads(r, keys, next), UNCHANGED <<s3, doomed>>,
               pending'[r] = keys /\ pc'[r] = next => Uploads(r)'
        PROVE  FilesInv'
    <2>1. StoreStep(r)
      BY <1>4 DEF StoreStep
    <2>2. pending' = [pending EXCEPT ![r] = keys] /\ Goto(r, next)
      BY <1>4 DEF StartUploads
    <2>3. pending'[r] = keys /\ pc'[r] = next
      BY <2>2 DEF Goto, FilesInv, MediaDomains, MediaPlaces
    <2> QED BY <1>1, <1>4, <2>1, <2>2, <2>3, FilesGoto
  <1>5. ASSUME NEW code \in {"404", "422", "500"}, Reply(r, code), UNCHANGED <<s3, doomed, pending>>
        PROVE  FilesInv'
    <2>1. StoreStep(r)
      BY <1>5 DEF StoreStep
    <2> QED BY <1>1, <1>5, <2>1, FilesReply
  \* Files are deleted after the gather before has been awaited.
  <1>6. ASSUME NEW keys, NEW next, DeleteFiles(r, keys, next), pending' = pending, pending[r] = {},
               pc'[r] = next /\ Accounted \subseteq Accounted' => Uploads(r)'
        PROVE  FilesInv'
    <2>1. StoreStep(r) /\ (Goto(r, next) \/ Reply(r, "500"))
      BY <1>6, DeletesAreNoted
    <2>2. CASE Reply(r, "500")
      BY <1>1, <1>6, <2>1, <2>2, FilesReply
    <2>3. CASE Goto(r, next)
      <3>1. Accounted \subseteq Accounted'
        BY <2>1, StoreGrows DEF FilesInv
      <3>2. pc'[r] = next
        BY <2>3 DEF Goto, MediaPlaces
      <3> QED BY <1>1, <1>6, <2>1, <2>3, <3>1, <3>2, FilesGoto
    <2> QED BY <2>1, <2>2, <2>3
  <1>7. UNCHANGED <<s3, doomed>> => UNCHANGED Accounted
    BY DEF Accounted, Doomed
  <1>8. want[r].images = {} => ImageUploads(r) = {} /\ FormatUploads(r) = {}
    BY DEF ImageUploads, NewImages, ImageKeys, FormatUploads, Replaced
  <1>9. CASE CheckDocuments(r)
    <2>1. pc[r] = "documents" /\ UNCHANGED <<s3, doomed>>
      BY <1>9 DEF CheckDocuments, local
    <2>2. CASE StartUploads(r, DocumentUploads(r), "documents_up")
      <3>1. pending'[r] = DocumentUploads(r) /\ pc'[r] = "documents_up" => Uploads(r)'
        BY <1>2 DEF Uploads, Sent
      <3> QED BY <1>4, <2>1, <2>2, <3>1
    <2>3. CASE Reply(r, "422") /\ UNCHANGED pending
      BY <1>5, <2>1, <2>3
    <2> QED BY <1>9, <2>2, <2>3 DEF CheckDocuments, DocumentUploads
  <1>10. CASE CheckImages(r)
    <2>1. pc[r] = "images" /\ UNCHANGED <<s3, doomed>>
      BY <1>10 DEF CheckImages, local
    <2>2. CASE StartUploads(r, ImageUploads(r), "images_up")
      <3>1. pending'[r] = ImageUploads(r) /\ pc'[r] = "images_up" => Uploads(r)'
        BY <1>2, <1>3, <1>7, <2>1 DEF Uploads, Sent
      <3> QED BY <1>4, <2>1, <2>2, <3>1
    <2>3. CASE (Reply(r, "422") \/ Reply(r, "500")) /\ UNCHANGED pending
      BY <1>5, <2>1, <2>3
    <2> QED BY <1>10, <2>2, <2>3 DEF CheckImages, ImageUploads, Undecodable
  <1>11. CASE UpdateImages(r)
    <2>1. pc[r] = "images_up" /\ pending[r] = {} /\ UNCHANGED <<s3, doomed>>
      BY <1>11 DEF UpdateImages, local
    <2>2. CASE StartUploads(r, ReplacementKeys(r), "images_swap")
      <3>1. FormatUploads(r) \subseteq ReplacementKeys(r)
        BY DEF FormatUploads, ReplacementKeys
      <3>2. pending'[r] = ReplacementKeys(r) /\ pc'[r] = "images_swap" => Uploads(r)'
        BY <1>2, <1>3, <1>7, <2>1, <3>1 DEF Uploads, Sent
      <3> QED BY <1>4, <2>1, <2>2, <3>2
    <2>3. CASE (Reply(r, "404") \/ Reply(r, "500")) /\ UNCHANGED pending
      BY <1>5, <2>1, <2>3
    <2> QED BY <1>11, <2>2, <2>3 DEF UpdateImages, Undecodable
  <1>12. CASE DeleteDocuments(r)
    <2>1. pc[r] = "documents_up" /\ pending[r] = {} /\ pending' = pending
      BY <1>12 DEF DeleteDocuments
    <2>2. PICK keys : DeleteFiles(r, keys, AfterDocuments(r))
      BY <1>12 DEF DeleteDocuments
    <2>3. pc'[r] = AfterDocuments(r) /\ Accounted \subseteq Accounted' => Uploads(r)'
      BY <1>2, <1>3, <1>8, <2>1 DEF Uploads, Sent, AfterDocuments
    <2> QED BY <1>6, <2>1, <2>2, <2>3
  <1>13. CASE DeleteReplaced(r)
    <2>1. pc[r] = "images_swap" /\ pending[r] = {} /\ pending' = pending
      BY <1>13 DEF DeleteReplaced
    <2>2. PICK keys : DeleteFiles(r, keys, "images_rm")
      BY <1>13 DEF DeleteReplaced
    <2>3. pc'[r] = "images_rm" /\ Accounted \subseteq Accounted' => Uploads(r)'
      BY <1>2, <1>3, <2>1 DEF Uploads, Sent
    <2> QED BY <1>6, <2>1, <2>2, <2>3
  <1>14. CASE DeleteImages(r)
    <2>1. pc[r] = "images_rm" /\ pending[r] = {} /\ pending' = pending
      BY <1>3, <1>14 DEF DeleteImages, Uploads
    <2>2. PICK keys : DeleteFiles(r, keys, "commit")
      BY <1>14 DEF DeleteImages
    <2>3. pc'[r] = "commit" /\ Accounted \subseteq Accounted' => Uploads(r)'
      BY <1>2, <1>3, <2>1 DEF Uploads, Sent
    <2> QED BY <1>6, <2>1, <2>2, <2>3
  <1> QED BY <1>9, <1>10, <1>11, <1>12, <1>13, <1>14

\* A request comes in.
LEMMA ArriveKeepsFiles ==
  ASSUME FilesInv, MediaPlaces, NEW r \in Request, Arrive(r)
  PROVE  FilesInv'
  <1>1. pc[r] = "idle" /\ UNCHANGED <<tables, s3, seen, pending, doomed, applied>>
    BY DEF Arrive
  <1>2. StoreStep(r) /\ UNCHANGED <<Accounted, Doomed>>
    BY <1>1 DEF StoreStep, Accounted, Doomed
  <1>3. PICK next \in {"validate", "load", "find"} : Goto(r, next)
    BY DEF Arrive
  <1>4. /\ pc' = [pc EXCEPT ![r] = next] /\ answer' = answer /\ pc'[r] = next
    BY <1>3 DEF Goto, MediaPlaces
  <1>5. want' = want \/ \E w : want' = [want EXCEPT ![r] = w]
    BY DEF Arrive
  <1>6. DOMAIN want' = Request /\ \A q \in Request \ {r} : want'[q] = want[q]
    BY <1>5 DEF FilesInv, MediaDomains
  <1>7. Uploads(r) /\ Looked(r)
    BY DEF FilesInv
  <1>8. Uploads(r)'
    BY <1>1, <1>4, <1>7 DEF Uploads
  <1>9. ASSUME r \in Create PROVE Replaced(r, "other")' = {}
    <2>1. PICK w \in CreateWish : want' = [want EXCEPT ![r] = w]
      BY <1>9, KindAssumption DEF Arrive
    <2>2. want'[r] = w
      BY <2>1 DEF FilesInv, MediaDomains
    <2>3. \A list \in w.images : DOMAIN list.keep = {}
      BY WishAssumption DEF ProductCreate
    <2> QED BY <2>2, <2>3 DEF Replaced
  <1>10. Looked(r)'
    BY <1>1, <1>2, <1>4, <1>7, <1>9 DEF Looked
  <1>11. /\ DOMAIN seen' = Request /\ \A q \in Request \ {r} : seen'[q] = seen[q]
         /\ seen'[r] = [images |-> seen'[r].images, documents |-> seen'[r].documents,
                        name |-> seen'[r].name]
    BY <1>1 DEF FilesInv, MediaDomains
  <1> QED BY <1>1, <1>2, <1>4, <1>6, <1>8, <1>10, <1>11, FilesMove

\* GET get-document: the row names a file that is accounted for.
LEMMA DownloadKeepsFiles ==
  ASSUME FilesInv, MediaPlaces, NEW r \in Request, FindDocument(r) \/ FetchFile(r)
  PROVE  FilesInv'
  <1>1. UNCHANGED <<tables, s3, want, pending, doomed>> /\ pc[r] \in {"find", "fetch"}
    BY DEF FindDocument, FetchFile, local
  <1>2. StoreStep(r) /\ UNCHANGED <<Accounted, Doomed>>
    BY <1>1 DEF StoreStep, Accounted, Doomed
  <1>3. Looked(r) /\ Proper(r)
    BY DEF FilesInv, MediaPlaces
  <1>4. r \in Download /\ r \notin Create /\ answer[r] = "none"
    BY <1>1, <1>3, KindAssumption DEF Proper
  <1>5. CASE FindDocument(r)
    <2>1. CASE (\E code \in {"403", "404"} : Reply(r, code)) /\ UNCHANGED seen
      BY <1>1, <1>2, <2>1, FilesReply
    <2>2. ASSUME NEW id \in DOMAIN documents,
                 seen' = [seen EXCEPT ![r].documents = [d \in {id} |-> documents[d]]],
                 Goto(r, "fetch")
          PROVE  FilesInv'
      <3>1. seen'[r] = [seen[r] EXCEPT !.documents = [d \in {id} |-> documents[d]]]
        BY <2>2 DEF FilesInv, MediaDomains
      <3>2. seen[r] = [images |-> seen[r].images, documents |-> seen[r].documents,
                       name |-> seen[r].name]
        BY DEF FilesInv, MediaDomains
      <3>3. /\ seen'[r] = [images |-> seen[r].images, documents |-> [d \in {id} |-> documents[d]],
                           name |-> seen[r].name]
        BY <3>1, <3>2
      <3>4. seen'[r].documents = [d \in {id} |-> documents[d]]
        BY <3>3
      <3>5. Range(seen'[r].documents) = {documents[id]}
        BY <3>4 DEF Range
      <3>6. documents[id] \in Accounted
        BY DEF FilesInv, Named, Range
      <3>7. pc' = [pc EXCEPT ![r] = "fetch"] /\ pc'[r] = "fetch" /\ answer' = answer
        BY <2>2 DEF Goto, MediaPlaces
      <3>8. Looked(r)'
        BY <1>2, <1>4, <3>5, <3>6, <3>7 DEF Looked
      <3>9. Uploads(r)'
        BY <3>7 DEF Uploads
      <3>10. /\ DOMAIN seen' = Request /\ \A q \in Request \ {r} : seen'[q] = seen[q]
             /\ want' = want /\ DOMAIN want' = Request
        BY <1>1, <2>2 DEF FilesInv, MediaDomains
      <3>11. seen'[r] = [images |-> seen'[r].images, documents |-> seen'[r].documents,
                         name |-> seen'[r].name]
        BY <3>3
      <3> QED BY <1>1, <1>2, <3>7, <3>8, <3>9, <3>10, <3>11, FilesMove
    <2> QED BY <1>5, <2>1, <2>2 DEF FindDocument
  <1>6. CASE FetchFile(r)
    <2>1. UNCHANGED <<seen, want>>
      BY <1>6 DEF FetchFile, local
    <2>2. CASE Range(seen[r].documents) \subseteq DOMAIN s3
      <3>1. Reply(r, "200")
        BY <1>6, <2>2 DEF FetchFile
      <3> QED BY <1>1, <1>2, <2>1, <3>1, FilesReply
    <2>3. CASE ~(Range(seen[r].documents) \subseteq DOMAIN s3)
      <3>1. Reply(r, "no file")
        BY <1>6, <2>3 DEF FetchFile
      <3>2. /\ pc' = [pc EXCEPT ![r] = "done"] /\ pc'[r] = "done"
            /\ answer' = [answer EXCEPT ![r] = "no file"]
        BY <3>1 DEF Reply, MediaPlaces
      <3>3. PICK key \in Range(seen[r].documents) : key \notin DOMAIN s3
        BY <2>3
      <3>4. key \in Doomed /\ Range(seen[r].documents) = {key}
        BY <1>3, <1>4, <3>3 DEF Looked, Accounted
      <3>5. Looked(r)'
        BY <1>2, <1>3, <1>4, <2>1, <3>4 DEF Looked
      <3>6. Uploads(r)'
        BY <3>2 DEF Uploads
      <3> QED BY <1>1, <1>2, <2>1, <3>2, <3>5, <3>6, FilesMove DEF FilesInv, MediaDomains
    <2> QED BY <2>2, <2>3
  <1> QED BY <1>5, <1>6

LEMMA CrashKeepsFiles ==
  ASSUME FilesInv, MediaPlaces, Crash
  PROVE  FilesInv'
  <1>1. UNCHANGED <<tables, s3, want, seen, doomed>>
    BY DEF Crash, local
  <1>2. UNCHANGED <<Accounted, Doomed, Named>>
    BY <1>1 DEF Accounted, Doomed, Named, tables
  <1>4. ASSUME NEW r \in Request PROVE Uploads(r)' /\ Looked(r)'
    <2>1. CASE pc'[r] = pc[r] /\ pending'[r] = pending[r] /\ answer'[r] = answer[r]
      BY <1>1, <1>2, <2>1, StaysPut
    <2>2. CASE pc'[r] = "done" /\ (answer'[r] = "lost" \/ answer'[r] = answer[r])
      <3>1. Uploads(r)'
        BY <2>2 DEF Uploads
      <3>2. Looked(r) /\ Replaced(r, "other")' = Replaced(r, "other")
        BY <1>1 DEF FilesInv, Replaced
      <3>3. Looked(r)'
        BY <1>1, <1>2, <2>2, <3>2 DEF Looked
      <3> QED BY <3>1, <3>3
    <2> QED BY <2>1, <2>2, CrashStops
  <1>5. MediaDomains'
    BY <1>1, CrashStops DEF FilesInv, MediaDomains
  <1> QED BY <1>2, <1>4, <1>5 DEF FilesInv

LEMMA FilesStep == FilesInv /\ MediaPlaces /\ [Next]_vars => FilesInv'
  <1> SUFFICES ASSUME FilesInv, MediaPlaces, [Next]_vars PROVE FilesInv'
    OBVIOUS
  <1>1. ASSUME NEW r \in Request, Refresh(r) \/ QueryFails(r) PROVE FilesInv'
    <2>1. UNCHANGED <<tables, s3, want, seen, doomed, pending>>
      BY <1>1 DEF Refresh, QueryFails, local
    <2>2. StoreStep(r)
      BY <2>1 DEF StoreStep
    <2>3. Reply(r, "201") \/ Reply(r, "200") \/ Reply(r, "422") \/ Reply(r, "500")
      BY <1>1 DEF Refresh, QueryFails
    <2> QED BY <2>1, <2>2, <2>3, FilesReply
  <1>2. CASE UNCHANGED vars
    <2>1. UNCHANGED <<tables, s3, pc, want, seen, pending, doomed, answer>>
      BY <1>2 DEF vars, tables
    <2>2. UNCHANGED <<Accounted, Doomed, Named>>
      BY <2>1 DEF Accounted, Doomed, Named, tables
    <2>3. ASSUME NEW r \in Request PROVE Uploads(r)' /\ Looked(r)'
      BY <2>1, <2>2, StaysPut
    <2>4. MediaDomains'
      BY <2>1 DEF FilesInv, MediaDomains
    <2> QED BY <2>2, <2>3, <2>4 DEF FilesInv
  <1> QED
    BY <1>1, <1>2, UploadKeepsFiles, CommitKeepsFiles, CreateKeepsFiles, LoadKeepsFiles,
       EditKeepsFiles, ArriveKeepsFiles, DownloadKeepsFiles, CrashKeepsFiles DEF Next, Step

\* However requests overlap, whichever uploads and deletions fail half way and
\* whenever the process dies, no row names a file that was never uploaded: what
\* is missing was deleted, and a download that misses its file lost it so.
THEOREM MissingFilesWereDeleted == Spec => []MissingFileWasDoomed
  <1>1. FilesInv => MissingFileWasDoomed
    <2> SUFFICES ASSUME FilesInv PROVE MissingFileWasDoomed
      OBVIOUS
    <2>1. Named \ DOMAIN s3 \subseteq Doomed
      BY DEF FilesInv, Accounted
    <2>2. ASSUME NEW r \in Download, answer[r] = "no file"
          PROVE  Range(seen[r].documents) \subseteq Doomed
      BY <2>2 DEF FilesInv, Looked, Request
    <2> QED BY <2>1, <2>2 DEF MissingFileWasDoomed
  <1> QED
    BY <1>1, FilesInit, FilesStep, PlacesInit, PlacesStep, PTL DEF Spec
------------------------------------------------------------------------------
\* The wishes.  From the check of the orders to the commit the orders of the
\* images are the ones that were checked, and only POST and PATCH commit.
Ordered == {"new_images", "new_documents", "images_up", "images_swap", "images_rm", "commit"}

Wished(r) ==
    /\ ProductUpdate(want[r])
    /\ r \in Create => \A list \in want[r].images : DOMAIN list.keep = {}
    /\ pc[r] = "idle" => want[r] = NoWish
    /\ pc[r] \in Ordered => \A list \in want[r].images : ValidOrder(list)
    /\ pc[r] \in {"commit", "refresh"} => r \in Create \cup Edit

Wishes == DOMAIN want = Request /\ \A r \in Request : Wished(r)

LEMMA WishesInit == Init => Wishes
  <1> SUFFICES ASSUME Init PROVE Wishes
    OBVIOUS
  <1>1. ProductUpdate(NoWish)
    BY DEF NoWish, ProductUpdate, Listed, Fits
  <1>2. ASSUME NEW r \in Request PROVE Wished(r)
    BY <1>1 DEF Init, Wished, Ordered, NoWish
  <1> QED BY <1>2 DEF Init, Wishes

\* One request moves: what it wishes stays, and where it comes to its orders
\* have been checked.
LEMMA WishesMove ==
  ASSUME Wishes, MediaPlaces, NEW r \in Request, NEW next, want' = want,
         pc' = [pc EXCEPT ![r] = next], next # "idle",
         next \in Ordered => \A list \in want[r].images : ValidOrder(list),
         next \in {"commit", "refresh"} => r \in Create \cup Edit
  PROVE  Wishes'
  <1>1. ASSUME NEW q \in Request, q # r PROVE Wished(q)'
    <2>1. pc'[q] = pc[q] /\ want'[q] = want[q] /\ Wished(q)
      BY <1>1 DEF MediaPlaces, Wishes
    <2> QED BY <2>1 DEF Wished
  <1>2. Wished(r)'
    <2>1. pc'[r] = next /\ want'[r] = want[r] /\ Wished(r)
      BY DEF MediaPlaces, Wishes
    <2> QED BY <2>1 DEF Wished
  <1> QED BY <1>1, <1>2 DEF Wishes

LEMMA WishesStep == Wishes /\ MediaPlaces /\ [Next]_vars => Wishes'
  <1> SUFFICES ASSUME Wishes, MediaPlaces, [Next]_vars PROVE Wishes'
    OBVIOUS
  <1>0. ASSUME NEW r \in Request PROVE Wished(r) /\ Proper(r)
    BY <1>0 DEF Wishes, MediaPlaces
  <1>1. ASSUME NEW r \in Request, NEW code, Reply(r, code), want' = want PROVE Wishes'
    BY <1>1, WishesMove DEF Reply, Ordered
  \* From one place where the orders are known to be good to another.
  <1>2. ASSUME NEW r \in Request, NEW next, Goto(r, next), want' = want,
               next # "idle", next \in Ordered => pc[r] \in Ordered,
               next \in {"commit", "refresh"} => r \in Create \cup Edit
        PROVE  Wishes'
    <2>1. next \in Ordered => \A list \in want[r].images : ValidOrder(list)
      BY <1>0, <1>2 DEF Wished
    <2> QED BY <1>2, <2>1, WishesMove DEF Goto
  <1>3. ASSUME NEW r \in Request, Arrive(r) PROVE Wishes'
    <2>1. /\ \/ want' = want
             \/ r \in Create /\ \E w \in CreateWish : want' = [want EXCEPT ![r] = w]
             \/ r \in Edit /\ \E w \in EditWish : want' = [want EXCEPT ![r] = w]
          /\ \E next \in {"validate", "load", "find"} : pc' = [pc EXCEPT ![r] = next]
      BY <1>3 DEF Arrive, Goto
    <2>2. DOMAIN want' = Request /\ \A q \in Request \ {r} : want'[q] = want[q] /\ pc'[q] = pc[q]
      BY <2>1 DEF Wishes, MediaPlaces
    <2>3. pc'[r] \in {"validate", "load", "find"}
      BY <2>1 DEF MediaPlaces
    <2>4. /\ ProductUpdate(want'[r])
          /\ r \in Create => \A list \in want'[r].images : DOMAIN list.keep = {}
      <3>1. CASE want' = want
        BY <1>0, <3>1 DEF Wished
      <3>2. ASSUME r \in Create, NEW w \in CreateWish, want' = [want EXCEPT ![r] = w]
            PROVE  /\ ProductUpdate(want'[r])
                   /\ \A list \in want'[r].images : DOMAIN list.keep = {}
        BY <3>2, WishAssumption DEF Wishes, ProductCreate
      <3>3. ASSUME r \in Edit, NEW w \in EditWish, want' = [want EXCEPT ![r] = w]
            PROVE  ProductUpdate(want'[r]) /\ r \notin Create
        BY <3>3, WishAssumption, KindAssumption DEF Wishes
      <3> QED BY <2>1, <3>1, <3>2, <3>3
    <2>5. ASSUME NEW q \in Request PROVE Wished(q)'
      <3>1. CASE q = r
        BY <2>3, <2>4, <3>1 DEF Wished, Ordered
      <3>2. CASE q # r
        BY <1>0, <2>2, <3>2 DEF Wished
      <3> QED BY <3>1, <3>2
    <2> QED BY <2>2, <2>5 DEF Wishes
  <1>4. ASSUME NEW r \in Request, NEW key \in pending[r], Upload(r, key) PROVE Wishes'
    <2>1. want' = want /\ (pc' = pc \/ Reply(r, "500"))
      BY <1>4 DEF Upload, local
    <2>2. CASE pc' = pc
      BY <2>1, <2>2 DEF Wishes, Wished
    <2> QED BY <1>1, <2>1, <2>2
  <1>5. ASSUME NEW r \in Request, Validate(r) PROVE Wishes'
    <2>1. want' = want
      BY <1>5 DEF Validate, local
    <2>2. CASE (\A w \in want[r].images : ValidOrder(w)) /\ Goto(r, "new_images")
      BY <2>1, <2>2, WishesMove DEF Goto
    <2>3. CASE \E code : Reply(r, code)
      BY <1>1, <2>1, <2>3
    <2> QED BY <1>5, <2>2, <2>3 DEF Validate, StartUploads, Undecodable
  <1>6. ASSUME NEW r \in Request, NewImagesUploaded(r) \/ NewDocumentsUploaded(r) PROVE Wishes'
    <2>1. want' = want /\ pc[r] \in {"new_images", "new_documents"}
      BY <1>6 DEF NewImagesUploaded, NewDocumentsUploaded, local
    <2>2. Goto(r, "new_documents") \/ Goto(r, "commit")
      BY <1>6 DEF NewImagesUploaded, NewDocumentsUploaded, StartUploads
    <2>3. r \in Create
      BY <1>0, <2>1 DEF Proper
    <2> QED BY <1>2, <2>1, <2>2, <2>3 DEF Ordered
  <1>7. ASSUME NEW r \in Request, LoadProduct(r) PROVE Wishes'
    <2>1. want' = want /\ r \in Edit
      BY <1>0, <1>7 DEF LoadProduct, Proper
    <2>2. CASE Goto(r, AfterLoad(r))
      BY <2>1, <2>2, WishesMove DEF Goto, AfterLoad, AfterDocuments, Ordered
    <2>3. CASE \E code : Reply(r, code)
      BY <1>1, <2>1, <2>3
    <2> QED BY <1>7, <2>2, <2>3 DEF LoadProduct
  <1>8. ASSUME NEW r \in Request, CheckDocuments(r) \/ UpdateImages(r) PROVE Wishes'
    <2>1. want' = want
      BY <1>8 DEF CheckDocuments, UpdateImages, local
    <2>2. \/ Goto(r, "documents_up")
          \/ Goto(r, "images_swap") /\ pc[r] = "images_up"
          \/ \E code : Reply(r, code)
      BY <1>8 DEF CheckDocuments, UpdateImages, StartUploads, Undecodable
    <2> QED BY <1>1, <1>2, <2>1, <2>2 DEF Ordered
  <1>9. ASSUME NEW r \in Request, CheckImages(r) PROVE Wishes'
    <2>1. want' = want
      BY <1>9 DEF CheckImages, local
    <2>2. CASE (\A w \in want[r].images : ValidOrder(w)) /\ Goto(r, "images_up")
      BY <2>1, <2>2, WishesMove DEF Goto
    <2>3. CASE \E code : Reply(r, code)
      BY <1>1, <2>1, <2>3
    <2> QED BY <1>9, <2>2, <2>3 DEF CheckImages, StartUploads, Undecodable
  <1>10. ASSUME NEW r \in Request, DeleteDocuments(r) PROVE Wishes'
    <2>1. want' = want /\ r \in Edit
      BY <1>0, <1>10 DEF DeleteDocuments, Proper
    <2>2. CASE Goto(r, AfterDocuments(r))
      BY <2>1, <2>2, WishesMove DEF Goto, AfterDocuments, Ordered
    <2>3. CASE Reply(r, "500")
      BY <1>1, <2>1, <2>3
    <2> QED BY <1>10, <2>2, <2>3 DEF DeleteDocuments, DeleteFiles
  <1>11. ASSUME NEW r \in Request, DeleteReplaced(r) \/ DeleteImages(r) PROVE Wishes'
    <2>1. want' = want /\ pc[r] \in {"images_swap", "images_rm"}
      BY <1>11 DEF DeleteReplaced, DeleteImages
    <2>2. Goto(r, "images_rm") \/ Goto(r, "commit") \/ Reply(r, "500")
      BY <1>11 DEF DeleteReplaced, DeleteImages, DeleteFiles
    <2>3. r \in Edit
      BY <1>0, <2>1 DEF Proper
    <2> QED BY <1>1, <1>2, <2>1, <2>2, <2>3 DEF Ordered
  <1>12. ASSUME NEW r \in Request, Commit(r) \/ Refresh(r) \/ FetchFile(r) \/ QueryFails(r)
         PROVE  Wishes'
    <2>1. want' = want
      BY <1>12 DEF Commit, Refresh, FetchFile, QueryFails, local
    <2>2. CASE pc[r] = "commit" /\ Goto(r, "refresh")
      <3>1. r \in Create \cup Edit
        BY <1>0, <2>2 DEF Wished
      <3> QED BY <1>2, <2>1, <2>2, <3>1 DEF Ordered
    <2>3. CASE \E code : Reply(r, code)
      BY <1>1, <2>1, <2>3
    <2> QED BY <1>12, <2>2, <2>3 DEF Commit, Refresh, FetchFile, QueryFails
  <1>13. ASSUME NEW r \in Request, FindDocument(r) PROVE Wishes'
    <2>1. want' = want /\ (Goto(r, "fetch") \/ \E code : Reply(r, code))
      BY <1>13 DEF FindDocument
    <2> QED BY <1>1, <1>2, <2>1 DEF Ordered
  <1>14. CASE Crash
    <2>1. want' = want
      BY <1>14 DEF Crash, local
    <2>2. ASSUME NEW r \in Request PROVE Wished(r)'
      <3>1. pc'[r] = "done" \/ pc'[r] = pc[r]
        BY <1>14, CrashStops
      <3> QED BY <1>0, <2>1, <3>1 DEF Wished, Ordered
    <2> QED BY <2>1, <2>2 DEF Wishes
  <1>15. CASE UNCHANGED vars
    BY <1>15 DEF vars, Wishes, Wished
  <1> QED
    BY <1>3, <1>4, <1>5, <1>6, <1>7, <1>8, <1>9, <1>10, <1>11, <1>12, <1>13, <1>14, <1>15
    DEF Next, Step
------------------------------------------------------------------------------
\* The types.
Codes == {"none", "200", "201", "403", "404", "422", "500", "no file", "lost"}

\* What the tables hold: whole rows, with orders that count.
RowsTyped ==
    /\ exists \in BOOLEAN
    /\ title \in [name : Name, slug : Name]
    /\ \A id \in DOMAIN images : images[id].order \in Nat /\ DOMAIN images[id].files = Size
    /\ applied \subseteq Create \cup Edit
FilesTyped == \A key \in DOMAIN s3 : s3[key] \in Request \cup {Nobody}
MediaTyped == RowsTyped /\ FilesTyped /\ answer \in [Request -> Codes]

\* The orders that pass the check are natural numbers.
LEMMA OrdersAreNatural ==
  ASSUME NEW w, ProductUpdate(w), NEW list \in w.images, ValidOrder(list)
  PROVE  /\ \A id \in DOMAIN list.keep : list.keep[id].order \in Nat
         /\ \A n \in DOMAIN list.add : list.add[n] \in Nat
  <1>1. Cardinality(DOMAIN list.keep) \in Nat /\ Len(list.add) \in Nat
    BY FS_CardinalityType DEF ProductUpdate
  <1>2. \A m \in 0 .. (Cardinality(DOMAIN list.keep) + Len(list.add) - 1) : m \in Nat
    BY <1>1
  <1> QED BY <1>2 DEF ValidOrder

\* The list of images of a wish, if there is one.
ListOf(r) == CHOOSE w \in want[r].images : TRUE

LEMMA OneList ==
  ASSUME NEW r \in Request, ProductUpdate(want[r]), NEW w \in want[r].images
  PROVE  want[r].images = {w} /\ ListOf(r) = w
  BY DEF ProductUpdate, Listed, ListOf

LEMMA KeptAreListed ==
  ASSUME NEW r \in Request, ProductUpdate(want[r])
  PROVE  /\ \A id \in KeptImages(r) : ListOf(r) \in want[r].images /\ id \in DOMAIN ListOf(r).keep
         /\ \A id \in NewImages(r) :
               /\ ListOf(r) \in want[r].images
               /\ \E n \in DOMAIN ListOf(r).add : id = <<r, n>>
         /\ \A format : Replaced(r, format) \subseteq KeptImages(r)
  <1>1. ASSUME NEW w \in want[r].images PROVE ListOf(r) = w
    BY <1>1, OneList
  <1>2. ASSUME NEW id \in KeptImages(r)
        PROVE  ListOf(r) \in want[r].images /\ id \in DOMAIN ListOf(r).keep
    BY <1>1, <1>2 DEF KeptImages
  <1>3. ASSUME NEW id \in NewImages(r)
        PROVE  /\ ListOf(r) \in want[r].images
               /\ \E n \in DOMAIN ListOf(r).add : id = <<r, n>>
    BY <1>1, <1>3 DEF NewImages
  <1>4. ASSUME NEW format PROVE Replaced(r, format) \subseteq KeptImages(r)
    BY DEF Replaced, KeptImages
  <1> QED BY <1>2, <1>3, <1>4

LEMMA TypedInit == Init => MediaTyped
  <1> SUFFICES ASSUME Init PROVE MediaTyped
    OBVIOUS
  <1>1. Name0 \in Name /\ exists \in BOOLEAN
    BY KindAssumption DEF Init
  <1>2. ASSUME NEW id \in DOMAIN images
        PROVE  images[id].order \in Nat /\ DOMAIN images[id].files = Size
    <2>1. id \in Range(Image0)
      BY DEF Init
    <2>2. \E n \in DOMAIN Image0 : Image0[n] = id
      BY <2>1 DEF Range
    <2> DEFINE n == CHOOSE n \in DOMAIN Image0 : Image0[n] = id
    <2>3. n \in DOMAIN Image0
      BY <2>2
    <2>4. n \in Nat \ {0}
      <3>1. DOMAIN Image0 = 1..Len(Image0) /\ Len(Image0) \in Nat
        BY StartAssumption, LenProperties
      <3> HIDE DEF n
      <3> QED BY <2>3, <3>1
    <2>5. images[id] = [order |-> n - 1, files |-> [size \in Size |-> ImageKey(id, size, Nobody)]]
      BY DEF Init
    <2> HIDE DEF n
    <2> QED BY <2>4, <2>5
  <1>3. FilesTyped /\ answer \in [Request -> Codes] /\ applied = {}
    BY DEF Init, FilesTyped, Codes
  <1> QED BY <1>1, <1>2, <1>3 DEF Init, MediaTyped, RowsTyped

\* The one commit writes whole rows.
LEMMA WriteIsTyped ==
  ASSUME RowsTyped, Wishes, NEW r \in Create \cup Edit, pc[r] = "commit", Write(r)
  PROVE  RowsTyped'
  <1>0. r \in Request /\ ProductUpdate(want[r]) /\ \A w \in want[r].images : ValidOrder(w)
    BY DEF Wishes, Wished, Ordered, Request
  <1>1. exists' = TRUE /\ applied' \subseteq Create \cup Edit
    BY DEF Write, RowsTyped
  <1>2. title' \in [name : Name, slug : Name]
    <2>1. CASE want[r].name = {}
      BY <2>1 DEF Write, Titled, RowsTyped
    <2>2. CASE want[r].name # {}
      <3> DEFINE name == CHOOSE n \in want[r].name : TRUE
      <3>1. name \in Name
        BY <1>0, <2>2 DEF ProductUpdate
      <3>2. title' = [name |-> IF r \in Edit /\ name = seen[r].name THEN title.name ELSE name,
                      slug |-> name]
        BY <2>2 DEF Write, Titled
      <3> HIDE DEF name
      <3> QED BY <3>1, <3>2 DEF RowsTyped
    <2> QED BY <2>1, <2>2
  <1>3. ASSUME NEW id \in DOMAIN images'
        PROVE  images'[id].order \in Nat /\ DOMAIN images'[id].files = Size
    <2>0. /\ id \in DOMAIN images \cup NewImages(r)
          /\ images'[id] = IF id \in NewImages(r) THEN Inserted(r, id)
                          ELSE IF id \in UpdatedImages(r) THEN Written(r, id) ELSE images[id]
      BY DEF Write
    <2>1. CASE id \in NewImages(r)
      <3>1. PICK n \in DOMAIN ListOf(r).add : id = <<r, n>>
        BY <1>0, <2>1, KeptAreListed
      <3>2. ListOf(r) \in want[r].images
        BY <1>0, <2>1, KeptAreListed
      <3>3. ListOf(r).add[id[2]] \in Nat
        BY <1>0, <3>1, <3>2, OrdersAreNatural
      <3>4. images'[id] = [order |-> ListOf(r).add[id[2]],
                           files |-> [size \in Size |-> ImageKey(id, size, Nobody)]]
        BY <2>0, <2>1 DEF Inserted, ListOf
      <3> QED BY <3>3, <3>4
    <2>2. CASE id \notin NewImages(r) /\ id \in UpdatedImages(r)
      <3>1. id \in KeptImages(r)
        BY <2>2 DEF UpdatedImages
      <3>2. ListOf(r) \in want[r].images /\ id \in DOMAIN ListOf(r).keep
        BY <1>0, <3>1, KeptAreListed
      <3>3. Listing(r, id).order \in Nat
        BY <1>0, <3>2, OrdersAreNatural DEF Listing, ListOf
      <3>4. images[id].order \in Nat /\ DOMAIN images[id].files = Size
        BY <2>0, <2>2 DEF RowsTyped
      <3>5. images'[id] = Written(r, id)
        BY <2>0, <2>2
      <3> QED BY <3>3, <3>4, <3>5 DEF Written
    <2>3. CASE id \notin NewImages(r) /\ id \notin UpdatedImages(r)
      BY <2>0, <2>3 DEF RowsTyped
    <2> QED BY <2>1, <2>2, <2>3
  <1> QED BY <1>1, <1>2, <1>3 DEF RowsTyped

LEMMA TypedStep == MediaTyped /\ Wishes /\ MediaPlaces /\ [Next]_vars => MediaTyped'
  <1> SUFFICES ASSUME MediaTyped, Wishes, MediaPlaces, [Next]_vars PROVE MediaTyped'
    OBVIOUS
  <1>0. RowsTyped /\ FilesTyped /\ answer \in [Request -> Codes]
    BY DEF MediaTyped
  <1>1. ASSUME UNCHANGED <<tables, applied>> PROVE RowsTyped'
    BY <1>0, <1>1 DEF tables, RowsTyped
  <1>2. ASSUME UNCHANGED s3 PROVE FilesTyped'
    BY <1>0, <1>2 DEF FilesTyped
  <1>3. ASSUME NEW r, NEW code \in Codes, Reply(r, code) PROVE answer' \in [Request -> Codes]
    BY <1>0, <1>3 DEF Reply
  <1>4. ASSUME NEW r, NEW next, Goto(r, next) PROVE answer' \in [Request -> Codes]
    BY <1>0, <1>4 DEF Goto
  <1>5. ASSUME NEW r \in Request, Arrive(r) PROVE MediaTyped'
    BY <1>1, <1>2, <1>4, <1>5 DEF Arrive, MediaTyped
  <1>6. ASSUME NEW r \in Request, NEW key \in pending[r], Upload(r, key) PROVE MediaTyped'
    <2> DEFINE written == [k \in DOMAIN s3 \cup {key} |-> IF k = key THEN r ELSE s3[k]]
    <2>1. /\ UNCHANGED <<tables, applied>> /\ s3' \in {s3, written}
          /\ UNCHANGED answer \/ Reply(r, "500")
      BY <1>6 DEF Upload
    <2>2. FilesTyped'
      BY <1>0, <2>1 DEF FilesTyped
    <2>3. answer' \in [Request -> Codes]
      BY <1>0, <1>3, <2>1 DEF Codes
    <2> QED BY <1>1, <2>1, <2>2, <2>3 DEF MediaTyped
  <1>7. ASSUME NEW r \in Request, NEW keys, NEW next, DeleteFiles(r, keys, next),
               UNCHANGED <<tables, applied>>
        PROVE  MediaTyped'
    <2>1. PICK gone \in SUBSET keys :
             /\ s3' = [k \in DOMAIN s3 \ gone |-> s3[k]]
             /\ Goto(r, next) \/ Reply(r, "500")
      BY <1>7 DEF DeleteFiles
    <2>2. FilesTyped'
      BY <1>0, <2>1 DEF FilesTyped
    <2>3. answer' \in [Request -> Codes]
      BY <1>3, <1>4, <2>1 DEF Codes
    <2> QED BY <1>1, <1>7, <2>2, <2>3 DEF MediaTyped
  <1>8. ASSUME NEW r \in Request, DeleteDocuments(r) \/ DeleteReplaced(r) \/ DeleteImages(r)
        PROVE  MediaTyped'
    BY <1>7, <1>8 DEF DeleteDocuments, DeleteReplaced, DeleteImages
  \* The steps that change neither tables nor store.
  <1>9. ASSUME NEW r \in Request,
               \/ Validate(r) \/ NewImagesUploaded(r) \/ NewDocumentsUploaded(r) \/ LoadProduct(r)
               \/ CheckDocuments(r) \/ CheckImages(r) \/ UpdateImages(r)
        PROVE  MediaTyped'
    <2>1. UNCHANGED <<tables, s3, applied>>
      BY <1>9 DEF Validate, NewImagesUploaded, NewDocumentsUploaded, LoadProduct, CheckDocuments,
                  CheckImages, UpdateImages
    <2>2. (\E next : Goto(r, next)) \/ \E code \in Codes : Reply(r, code)
      BY <1>9 DEF Validate, NewImagesUploaded, NewDocumentsUploaded, LoadProduct, CheckDocuments,
                  CheckImages, UpdateImages, StartUploads, Undecodable, Codes
    <2> QED BY <1>1, <1>2, <1>3, <1>4, <2>1, <2>2 DEF MediaTyped
  <1>10. ASSUME NEW r \in Request,
                Refresh(r) \/ FindDocument(r) \/ FetchFile(r) \/ QueryFails(r)
         PROVE  MediaTyped'
    <2>1. UNCHANGED <<tables, s3, applied>>
      BY <1>10 DEF Refresh, FindDocument, FetchFile, QueryFails
    <2>2. (\E next : Goto(r, next)) \/ \E code \in Codes : Reply(r, code)
      BY <1>10 DEF Refresh, FindDocument, FetchFile, QueryFails, Codes
    <2> QED BY <1>1, <1>2, <1>3, <1>4, <2>1, <2>2 DEF MediaTyped
  <1>11. ASSUME NEW r \in Request, Commit(r) PROVE MediaTyped'
    <2>1. UNCHANGED s3 /\ pc[r] = "commit"
      BY <1>11 DEF Commit
    <2>2. CASE Write(r) /\ (Goto(r, "refresh") \/ Reply(r, "422") \/ Reply(r, "500"))
      <3>1. r \in Create \cup Edit
        BY <2>1 DEF Wishes, Wished
      <3>2. RowsTyped'
        BY <1>0, <2>1, <2>2, <3>1, WriteIsTyped DEF MediaTyped
      <3>3. answer' \in [Request -> Codes]
        BY <1>3, <1>4, <2>2 DEF Codes
      <3> QED BY <1>2, <2>1, <3>2, <3>3 DEF MediaTyped
    <2>3. CASE (Reply(r, "422") \/ Reply(r, "500")) /\ UNCHANGED <<tables, applied>>
      BY <1>1, <1>2, <1>3, <2>1, <2>3 DEF MediaTyped, Codes
    <2> QED BY <1>11, <2>2, <2>3 DEF Commit
  <1>12. CASE Crash
    <2>1. answer' \in [Request -> Codes]
      BY <1>0, <1>12 DEF Crash, Codes
    <2> QED BY <1>1, <1>2, <1>12, <2>1 DEF Crash, MediaTyped
  <1>13. CASE UNCHANGED vars
    BY <1>0, <1>1, <1>2, <1>13 DEF vars, tables, MediaTyped
  <1> QED
    BY <1>5, <1>6, <1>8, <1>9, <1>10, <1>11, <1>12, <1>13 DEF Next, Step

\* For any requests and wishes the rows of the tables stay whole, the orders of
\* the images are natural numbers, and a request that has come to its commit
\* waits for no upload of its own.
THEOREM MediaKeepsItsTypes == Spec => []TypeOK
  <1>1. MediaTyped /\ MediaPlaces /\ FilesInv => TypeOK
    <2> SUFFICES ASSUME MediaTyped, MediaPlaces, FilesInv PROVE TypeOK
      OBVIOUS
    <2>1. Range(s3) \subseteq Request \cup {Nobody}
      BY DEF MediaTyped, FilesTyped, Range
    <2>2. \A r \in Request : pc[r] = "commit" => pending[r] = {}
      BY DEF FilesInv, Uploads
    <2> QED BY <2>1, <2>2 DEF MediaTyped, RowsTyped, Codes, MediaPlaces, TypeOK
  <1> QED
    BY <1>1, TypedInit, TypedStep, WishesInit, WishesStep, FilesInit, FilesStep, PlacesInit,
       PlacesStep, PTL DEF Spec
===============================================================================
