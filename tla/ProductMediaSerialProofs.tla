----------------------- MODULE ProductMediaSerialProofs -----------------------
(***************************************************************************)
(* ProductMedia when requests do not overlap: what the tables say, and     *)
(* where tables and store may disagree, for any images, documents, wishes  *)
(* and faults.                                                             *)
(***************************************************************************)
EXTENDS ProductMediaProofs

\* A step of r leaves the other requests where they are.
Others(r) ==
    \A q \in Request \ {r} :
        /\ pc'[q] = pc[q] /\ want'[q] = want[q] /\ seen'[q] = seen[q]
        /\ pending'[q] = pending[q] /\ doomed'[q] = doomed[q]

LEMMA OnlyOneMoves ==
  ASSUME MediaPlaces, MediaDomains, NEW r \in Request,
         pc' = pc \/ \E x : pc' = [pc EXCEPT ![r] = x],
         want' = want \/ \E x : want' = [want EXCEPT ![r] = x],
         seen' = seen \/ \E x : seen' = [seen EXCEPT ![r] = x],
         pending' = pending \/ \E x : pending' = [pending EXCEPT ![r] = x],
         doomed' = doomed \/ \E x : doomed' = [doomed EXCEPT ![r] = x]
  PROVE  Others(r)
  BY DEF MediaPlaces, MediaDomains, Others

LEMMA ActsForItself ==
  ASSUME MediaPlaces, MediaDomains, NEW r \in Request, Arrive(r) \/ Step(r)
  PROVE  Others(r)
  <1>1. CASE Arrive(r)
    <2>1. /\ UNCHANGED <<seen, pending, doomed>>
          /\ want' = want \/ \E x : want' = [want EXCEPT ![r] = x]
          /\ \E x : pc' = [pc EXCEPT ![r] = x]
      BY <1>1 DEF Arrive, Goto
    <2> QED BY <2>1, OnlyOneMoves
  <1>2. ASSUME NEW key \in pending[r], Upload(r, key) PROVE Others(r)
    <2>1. /\ UNCHANGED <<want, seen, doomed>>
          /\ pc' = pc \/ \E x : pc' = [pc EXCEPT ![r] = x]
          /\ \E x : pending' = [pending EXCEPT ![r] = x]
      BY <1>2 DEF Upload, Reply, local
    <2> QED BY <2>1, OnlyOneMoves
  <1>3. CASE \/ Validate(r) \/ NewImagesUploaded(r) \/ NewDocumentsUploaded(r)
             \/ CheckDocuments(r) \/ CheckImages(r) \/ UpdateImages(r)
    <2>1. /\ UNCHANGED <<want, seen, doomed>>
          /\ \E x : pc' = [pc EXCEPT ![r] = x]
          /\ pending' = pending \/ \E x : pending' = [pending EXCEPT ![r] = x]
      BY <1>3 DEF Validate, NewImagesUploaded, NewDocumentsUploaded, CheckDocuments, CheckImages,
                  UpdateImages, StartUploads, Undecodable, Goto, Reply, local
    <2> QED BY <2>1, OnlyOneMoves
  <1>4. CASE LoadProduct(r) \/ FindDocument(r)
    <2>1. /\ UNCHANGED <<want, pending, doomed>>
          /\ \E x : pc' = [pc EXCEPT ![r] = x]
          /\ seen' = seen \/ \E x : seen' = [seen EXCEPT ![r] = x]
      BY <1>4 DEF LoadProduct, FindDocument, Goto, Reply
    <2> QED BY <2>1, OnlyOneMoves
  <1>5. CASE DeleteDocuments(r) \/ DeleteReplaced(r) \/ DeleteImages(r)
    <2>1. /\ UNCHANGED <<want, seen, pending>>
          /\ \E x : pc' = [pc EXCEPT ![r] = x]
          /\ \E x : doomed' = [doomed EXCEPT ![r] = x]
      BY <1>5 DEF DeleteDocuments, DeleteReplaced, DeleteImages, DeleteFiles, Goto, Reply
    <2> QED BY <2>1, OnlyOneMoves
  <1>6. CASE Commit(r) \/ Refresh(r) \/ FetchFile(r) \/ QueryFails(r)
    <2>1. UNCHANGED <<want, seen, pending, doomed>> /\ \E x : pc' = [pc EXCEPT ![r] = x]
      BY <1>6 DEF Commit, Refresh, FetchFile, QueryFails, Goto, Reply, local
    <2> QED BY <2>1, OnlyOneMoves
  <1> QED BY <1>1, <1>2, <1>3, <1>4, <1>5, <1>6 DEF Step
------------------------------------------------------------------------------
\* The keys.  Every row names the keys that were made for it; a new row has an
\* id of its own.
RowsAreKeyed ==
    /\ \A id \in DOMAIN images : \E v \in applied \cup {Nobody} :
          images[id].files = [size \in Size |-> ImageKey(id, size, v)]
    /\ \A id \in DOMAIN documents : documents[id] = DocumentKey(id)
    /\ \A id \in DOMAIN images \cup DOMAIN documents :
          \A r \in Request \ applied : \A n \in Nat : id # <<r, n>>

LEMMA KeyedInit == Init => RowsAreKeyed
  <1> SUFFICES ASSUME Init PROVE RowsAreKeyed
    OBVIOUS
  <1>1. ASSUME NEW id \in DOMAIN images
        PROVE  images[id].files = [size \in Size |-> ImageKey(id, size, Nobody)]
    BY DEF Init
  <1>2. ASSUME NEW id \in DOMAIN images \cup DOMAIN documents, NEW r \in Request, NEW n \in Nat
        PROVE  id # <<r, n>>
    <2>1. id \in Range(Image0) \cup Document0
      BY DEF Init
    <2> QED BY <2>1, StartAssumption
  <1>3. ASSUME NEW id \in DOMAIN documents PROVE documents[id] = DocumentKey(id)
    BY DEF Init
  <1> QED BY <1>1, <1>2, <1>3 DEF RowsAreKeyed

LEMMA NewIds ==
  ASSUME NEW r \in Request, ProductUpdate(want[r])
  PROVE  /\ \A id \in NewImages(r) : \E n \in Nat : id = <<r, n>>
         /\ \A id \in NewDocuments(r) : \E n \in Nat : id = <<r, n>>
  <1>1. ASSUME NEW w \in want[r].images PROVE DOMAIN w.add \subseteq Nat
    BY LenProperties DEF ProductUpdate
  <1>2. ASSUME NEW w \in want[r].documents PROVE 1..w.add \subseteq Nat
    BY DEF ProductUpdate
  <1> QED BY <1>1, <1>2 DEF NewImages, NewDocuments

LEMMA WriteKeepsKeys ==
  ASSUME RowsAreKeyed, Wishes, NEW r \in Request, r \notin applied, Write(r)
  PROVE  RowsAreKeyed'
  <1>0. ProductUpdate(want[r]) /\ applied' = applied \cup {r}
    BY DEF Wishes, Wished, Write
  <1>1. ASSUME NEW id \in DOMAIN images'
        PROVE  \E v \in applied' \cup {Nobody} :
                  images'[id].files = [size \in Size |-> ImageKey(id, size, v)]
    <2>0. /\ id \in DOMAIN images \cup NewImages(r)
          /\ images'[id] = IF id \in NewImages(r) THEN Inserted(r, id)
                           ELSE IF id \in UpdatedImages(r) THEN Written(r, id) ELSE images[id]
      BY DEF Write
    <2>1. CASE id \in NewImages(r)
      BY <2>0, <2>1 DEF Inserted
    <2>2. CASE id \notin NewImages(r)
      <3>1. PICK v \in applied \cup {Nobody} :
               images[id].files = [size \in Size |-> ImageKey(id, size, v)]
        BY <2>0, <2>2 DEF RowsAreKeyed
      <3>2. images'[id].files \in {images[id].files, [size \in Size |-> ImageKey(id, size, r)]}
        BY <2>0, <2>2 DEF Written
      <3> QED BY <1>0, <3>1, <3>2
    <2> QED BY <2>1, <2>2
  <1>2. ASSUME NEW id \in DOMAIN documents' PROVE documents'[id] = DocumentKey(id)
    BY DEF Write, RowsAreKeyed
  <1>3. ASSUME NEW id \in DOMAIN images' \cup DOMAIN documents', NEW q \in Request \ applied',
               NEW n \in Nat
        PROVE  id # <<q, n>>
    <2>1. \/ id \in DOMAIN images \cup DOMAIN documents
          \/ id \in NewImages(r) \cup NewDocuments(r)
      BY DEF Write
    <2>2. q # r /\ q \in Request \ applied
      BY <1>0
    <2>3. CASE id \in DOMAIN images \cup DOMAIN documents
      BY <2>2, <2>3 DEF RowsAreKeyed
    <2>4. CASE id \in NewImages(r) \cup NewDocuments(r)
      <3>1. PICK m \in Nat : id = <<r, m>>
        BY <1>0, <2>4, NewIds
      <3> QED BY <2>2, <3>1
    <2> QED BY <2>1, <2>3, <2>4
  <1> QED BY <1>1, <1>2, <1>3 DEF RowsAreKeyed

\* Only a commit changes the tables.
LEMMA TablesChange ==
  ASSUME [Next]_vars
  PROVE  \/ UNCHANGED <<tables, applied>>
         \/ \E r \in Request : /\ pc[r] = "commit" /\ ~Refused(r) /\ Write(r)
                               /\ UNCHANGED <<s3, local, pending>>
  <1>1. ASSUME NEW r \in Request, Commit(r)
        PROVE  \/ UNCHANGED <<tables, applied>>
               \/ /\ pc[r] = "commit" /\ ~Refused(r) /\ Write(r)
                  /\ UNCHANGED <<s3, local, pending>>
    BY <1>1 DEF Commit
  <1>2. ASSUME NEW r \in Request, NEW key \in pending[r], Upload(r, key)
        PROVE  UNCHANGED <<tables, applied>>
    BY <1>2 DEF Upload
  <1>3. ASSUME NEW r \in Request,
               \/ Arrive(r) \/ Validate(r) \/ NewImagesUploaded(r) \/ NewDocumentsUploaded(r)
               \/ LoadProduct(r) \/ CheckDocuments(r) \/ DeleteDocuments(r) \/ CheckImages(r)
               \/ UpdateImages(r) \/ DeleteReplaced(r) \/ DeleteImages(r) \/ Refresh(r)
               \/ FindDocument(r) \/ FetchFile(r) \/ QueryFails(r)
        PROVE  UNCHANGED <<tables, applied>>
    BY <1>3 DEF Arrive, Validate, NewImagesUploaded, NewDocumentsUploaded, LoadProduct,
                CheckDocuments, DeleteDocuments, CheckImages, UpdateImages, DeleteReplaced,
                DeleteImages, Refresh, FindDocument, FetchFile, QueryFails
  <1>4. CASE Crash \/ UNCHANGED vars
    BY <1>4 DEF Crash, vars, tables
  <1> QED BY <1>1, <1>2, <1>3, <1>4 DEF Next, Step

LEMMA KeyedStep == RowsAreKeyed /\ Wishes /\ MediaPlaces /\ [Next]_vars => RowsAreKeyed'
  <1> SUFFICES ASSUME RowsAreKeyed, Wishes, MediaPlaces, [Next]_vars PROVE RowsAreKeyed'
    OBVIOUS
  <1>1. CASE UNCHANGED <<tables, applied>>
    BY <1>1 DEF tables, RowsAreKeyed
  <1>2. ASSUME NEW r \in Request, pc[r] = "commit", Write(r) PROVE RowsAreKeyed'
    <2>1. r \notin applied
      BY <1>2 DEF MediaPlaces, Proper
    <2> QED BY <1>2, <2>1, WriteKeepsKeys
  <1> QED BY <1>1, <1>2, TablesChange
------------------------------------------------------------------------------
\* Who wrote what.  A request uploads the files of its new rows, those of the
\* images whose format changed, and those that it replaces under their old key.
SameUploads(r) ==
    UNION {KeysOf(seen[r].images[id]) : id \in Replaced(r, "same") \cap DOMAIN seen[r].images}
AllUploads(r) == DocumentUploads(r) \cup ImageUploads(r) \cup FormatUploads(r) \cup SameUploads(r)

\* Where nothing has been uploaded yet, and where the kept images are known to
\* be among those that were loaded.
Unwritten == {"idle", "validate", "load", "documents", "find", "fetch"}
Matched == {"images_up", "images_swap", "images_rm", "commit"}

Writes(r) ==
    /\ pending[r] \subseteq AllUploads(r)
    /\ r \in applied \cup Download \/ pc[r] \in Unwritten => pending[r] = {}
    /\ \A key \in DOMAIN s3 :
          s3[key] = r => r \notin Download /\ pc[r] \notin Unwritten /\ key \in AllUploads(r)
    /\ r \in Edit /\ pc[r] \in Matched => KeptImages(r) \subseteq DOMAIN seen[r].images

AllWrite == \A r \in Request : Writes(r)

LEMMA WritesInit == Init => AllWrite
  <1> SUFFICES ASSUME Init, NEW r \in Request PROVE Writes(r)
    BY DEF AllWrite
  <1>1. pending[r] = {} /\ pc[r] = "idle" /\ \A key \in DOMAIN s3 : s3[key] = Nobody
    BY DEF Init
  <1> QED BY <1>1, KindAssumption DEF Writes, Matched

UploadsKept(r) ==
    /\ AllUploads(r)' = AllUploads(r) /\ KeptImages(r)' = KeptImages(r)
    /\ DOMAIN seen'[r].images = DOMAIN seen[r].images

LEMMA SameWishSameUploads ==
  ASSUME NEW r, want'[r] = want[r], seen'[r].images = seen[r].images
  PROVE  UploadsKept(r)
  BY DEF UploadsKept, AllUploads, DocumentUploads, NewDocuments, ImageUploads, NewImages,
         FormatUploads, SameUploads, Replaced, KeptImages

\* What holds of one request after a step that gives it no new upload, and no
\* new file to its name.
LEMMA WritesKept ==
  ASSUME NEW r \in Request, Writes(r), UploadsKept(r),
         pending'[r] \subseteq pending[r],
         \A key \in DOMAIN s3' : s3'[key] = r => key \in DOMAIN s3 /\ s3[key] = r,
         pc'[r] \in Unwritten => pc[r] \in Unwritten,
         r \in applied' => r \in applied \/ pending[r] = {},
         r \in Edit /\ pc'[r] \in Matched =>
            pc[r] \in Matched \/ KeptImages(r) \subseteq DOMAIN seen[r].images
  PROVE  Writes(r)'
  BY DEF Writes, UploadsKept

\* A request that has not uploaded anything may still change what it would upload.
LEMMA WritesNothing ==
  ASSUME NEW r \in Request, Writes(r), pc[r] \in Unwritten,
         pending'[r] = pending[r], s3' = s3,
         r \in Edit /\ pc'[r] \in Matched => KeptImages(r)' \subseteq DOMAIN seen'[r].images
  PROVE  Writes(r)'
  BY DEF Writes

\* A gather is started.
LEMMA WritesMore ==
  ASSUME NEW r \in Request, Writes(r), UploadsKept(r), r \notin applied' \cup Download,
         pending'[r] \subseteq AllUploads(r), s3' = s3, pc'[r] \notin Unwritten,
         r \in Edit /\ pc'[r] \in Matched =>
            pc[r] \in Matched \/ KeptImages(r) \subseteq DOMAIN seen[r].images
  PROVE  Writes(r)'
  BY DEF Writes, UploadsKept

\* A step of one request gives no other one an upload or a file.
LEMMA OthersWriteNothing ==
  ASSUME AllWrite, NEW r \in Request, Others(r), applied' \subseteq applied \cup {r},
         \A q \in Request \ {r} : \A key \in DOMAIN s3' :
            s3'[key] = q => key \in DOMAIN s3 /\ s3[key] = q,
         Writes(r)'
  PROVE  AllWrite'
  <1>1. ASSUME NEW q \in Request, q # r PROVE Writes(q)'
    <2>1. /\ pc'[q] = pc[q] /\ want'[q] = want[q] /\ seen'[q] = seen[q] /\ pending'[q] = pending[q]
          /\ Writes(q)
      BY <1>1 DEF Others, AllWrite
    <2>2. UploadsKept(q)
      BY <2>1, SameWishSameUploads
    <2> QED BY <1>1, <2>1, <2>2, WritesKept
  <1> QED BY <1>1 DEF AllWrite

LEMMA ReplacementsAreUploads ==
  ASSUME NEW r \in Request, ProductUpdate(want[r]), KeptImages(r) \subseteq DOMAIN seen[r].images
  PROVE  ReplacementKeys(r) = SameUploads(r) \cup FormatUploads(r)
  <1>1. Replaced(r, "same") \subseteq DOMAIN seen[r].images
    BY KeptAreListed
  <1> QED BY <1>1 DEF ReplacementKeys, SameUploads, FormatUploads

LEMMA MyPlace ==
  ASSUME MediaPlaces, NEW r \in Request
  PROVE  /\ \A next : Goto(r, next) => pc'[r] = next
         /\ \A code : Reply(r, code) => pc'[r] = "done"
  BY DEF MediaPlaces, Goto, Reply

LEMMA WritesStep ==
  AllWrite /\ Wishes /\ FilesInv /\ MediaPlaces /\ [Next]_vars => AllWrite'
  <1> SUFFICES ASSUME AllWrite, Wishes, FilesInv, MediaPlaces, [Next]_vars PROVE AllWrite'
    OBVIOUS
  <1>0. ASSUME NEW r \in Request
        PROVE  Writes(r) /\ Proper(r) /\ Uploads(r) /\ ProductUpdate(want[r])
    BY DEF AllWrite, MediaPlaces, FilesInv, Wishes, Wished
  <1>a. ASSUME NEW r \in Request, Arrive(r) \/ Step(r) PROVE Others(r)
    BY <1>a, ActsForItself DEF FilesInv
  <1>b. ASSUME NEW r \in Request, want' = want, seen' = seen PROVE UploadsKept(r)
    BY <1>b, SameWishSameUploads
  \* The store is left alone.
  <1>c. ASSUME NEW r \in Request, Arrive(r) \/ Step(r), s3' = s3, Writes(r)',
               applied' \subseteq applied \cup {r}
        PROVE  AllWrite'
    BY <1>a, <1>c, OthersWriteNothing
  <1>1. ASSUME NEW r \in Request, Arrive(r) PROVE AllWrite'
    <2>1. pc[r] = "idle" /\ UNCHANGED <<s3, pending, applied>>
      BY <1>1 DEF Arrive
    <2>2. pc'[r] \in {"validate", "load", "find"}
      BY <1>1, MyPlace DEF Arrive
    <2>3. Writes(r)'
      BY <1>0, <2>1, <2>2, WritesNothing DEF Unwritten, Matched
    <2> QED BY <1>1, <1>c, <2>1, <2>3
  <1>2. ASSUME NEW r \in Request, NEW key \in pending[r], Upload(r, key) PROVE AllWrite'
    <2> DEFINE written == [k \in DOMAIN s3 \cup {key} |-> IF k = key THEN r ELSE s3[k]]
    <2>1. /\ pending' = [pending EXCEPT ![r] = @ \ {key}] /\ s3' \in {s3, written}
          /\ UNCHANGED <<want, seen, applied>>
          /\ UNCHANGED pc \/ Reply(r, "500")
      BY <1>2 DEF Upload, local
    <2>2. pending'[r] = pending[r] \ {key} /\ (pc'[r] = pc[r] \/ pc'[r] = "done")
      BY <2>1, MyPlace DEF FilesInv, MediaDomains
    <2>3. /\ pc[r] \notin Unwritten /\ r \notin applied \cup Download /\ key \in AllUploads(r)
          /\ pending[r] \subseteq AllUploads(r)
      BY <1>0 DEF Writes
    <2>4. UploadsKept(r)
      BY <1>b, <2>1
    <2>5. pc'[r] \notin Unwritten /\ (pc'[r] \in Matched => pc[r] \in Matched)
      BY <2>2, <2>3 DEF Unwritten, Matched
    <2>6. Writes(r)'
      BY <1>0, <2>1, <2>2, <2>3, <2>4, <2>5 DEF Writes, UploadsKept
    <2>7. \A q \in Request \ {r} : \A k \in DOMAIN s3' : s3'[k] = q => k \in DOMAIN s3 /\ s3[k] = q
      BY <2>1
    <2>8. Others(r)
      BY <1>2, <1>a DEF Step
    <2> QED BY <2>1, <2>6, <2>7, <2>8, OthersWriteNothing
  \* The gathers.
  <1>3. ASSUME NEW r \in Request, Step(r), NEW keys, NEW next, StartUploads(r, keys, next),
               keys \subseteq AllUploads(r), UNCHANGED <<s3, want, seen, applied>>,
               next \notin Unwritten,
               pc[r] \in {"validate", "new_images", "documents", "images", "images_up"},
               r \in Edit /\ next \in Matched =>
                  pc[r] \in Matched \/ KeptImages(r) \subseteq DOMAIN seen[r].images
        PROVE  AllWrite'
    <2>1. pending'[r] = keys /\ pc'[r] = next
      BY <1>3, MyPlace DEF StartUploads, FilesInv, MediaDomains
    <2>2. r \notin applied' \cup Download
      BY <1>0, <1>3, KindAssumption DEF Proper, Unwritten
    <2>3. Writes(r)'
      BY <1>0, <1>3, <1>b, <2>1, <2>2, WritesMore
    <2> QED BY <1>3, <1>c, <2>3
  \* A request goes on, or is answered.
  <1>4. ASSUME NEW r \in Request, Step(r), UNCHANGED <<s3, want, pending, applied>>,
               UploadsKept(r),
               \/ \E code : Reply(r, code)
               \/ \E next : /\ Goto(r, next) /\ (next \in Unwritten => pc[r] \in Unwritten)
                            /\ r \in Edit /\ next \in Matched =>
                                  pc[r] \in Matched \/ KeptImages(r) \subseteq DOMAIN seen[r].images
        PROVE  AllWrite'
    <2>1. /\ pc'[r] \in Unwritten => pc[r] \in Unwritten
          /\ r \in Edit /\ pc'[r] \in Matched =>
                pc[r] \in Matched \/ KeptImages(r) \subseteq DOMAIN seen[r].images
      BY <1>4, MyPlace DEF Unwritten, Matched
    <2>2. Writes(r)'
      BY <1>0, <1>4, <2>1, WritesKept
    <2> QED BY <1>4, <1>c, <2>2
  <1>5. ASSUME NEW r \in Request, Validate(r) PROVE AllWrite'
    <2>1. UNCHANGED <<s3, want, seen, applied>> /\ pc[r] = "validate" /\ Step(r)
      BY <1>5 DEF Validate, local, Step
    <2>2. CASE StartUploads(r, ImageUploads(r), "new_images")
      BY <1>3, <2>1, <2>2 DEF AllUploads, Unwritten, Matched
    <2>3. CASE (\E code : Reply(r, code)) /\ UNCHANGED pending
      BY <1>4, <1>b, <2>1, <2>3
    <2> QED BY <1>5, <2>2, <2>3 DEF Validate, Undecodable, ImageUploads
  <1>6. ASSUME NEW r \in Request, NewImagesUploaded(r) PROVE AllWrite'
    <2>1. UNCHANGED <<s3, want, seen, applied>> /\ pc[r] = "new_images" /\ Step(r)
      BY <1>6 DEF NewImagesUploaded, local, Step
    <2>2. StartUploads(r, DocumentUploads(r), "new_documents")
      BY <1>6 DEF NewImagesUploaded, DocumentUploads
    <2> QED BY <1>3, <2>1, <2>2 DEF AllUploads, Unwritten, Matched
  <1>7. ASSUME NEW r \in Request, NewDocumentsUploaded(r) PROVE AllWrite'
    <2>1. /\ UNCHANGED <<s3, want, seen, pending, applied>> /\ Step(r)
          /\ Goto(r, "commit") /\ pc[r] = "new_documents"
      BY <1>7 DEF NewDocumentsUploaded, local, Step
    <2>2. r \notin Edit
      BY <1>0, <2>1, KindAssumption DEF Proper
    <2> QED BY <1>4, <1>b, <2>1, <2>2 DEF Unwritten
  <1>8. ASSUME NEW r \in Request, LoadProduct(r) PROVE AllWrite'
    <2>1. UNCHANGED <<s3, want, pending, applied>> /\ pc[r] = "load" /\ Step(r)
      BY <1>8 DEF LoadProduct, Step
    <2>2. CASE Goto(r, AfterLoad(r))
      <3>1. pc'[r] \in Matched => KeptImages(r)' = {}
        BY <2>1, <2>2, MyPlace DEF AfterLoad, AfterDocuments, Matched, KeptImages
      <3>2. Writes(r)'
        BY <1>0, <2>1, <3>1, WritesNothing DEF Unwritten
      <3> QED BY <1>c, <2>1, <3>2
    <2>3. CASE (\E code : Reply(r, code)) /\ seen' = seen
      BY <1>4, <1>b, <2>1, <2>3
    <2> QED BY <1>8, <2>2, <2>3 DEF LoadProduct
  <1>9. ASSUME NEW r \in Request, CheckDocuments(r) PROVE AllWrite'
    <2>1. UNCHANGED <<s3, want, seen, applied>> /\ pc[r] = "documents" /\ Step(r)
      BY <1>9 DEF CheckDocuments, local, Step
    <2>2. CASE StartUploads(r, DocumentUploads(r), "documents_up")
      BY <1>3, <2>1, <2>2 DEF AllUploads, Unwritten, Matched
    <2>3. CASE (\E code : Reply(r, code)) /\ UNCHANGED pending
      BY <1>4, <1>b, <2>1, <2>3
    <2> QED BY <1>9, <2>2, <2>3 DEF CheckDocuments, DocumentUploads
  <1>10. ASSUME NEW r \in Request, CheckImages(r) PROVE AllWrite'
    <2>1. UNCHANGED <<s3, want, seen, applied>> /\ pc[r] = "images" /\ Step(r)
      BY <1>10 DEF CheckImages, local, Step
    <2>2. CASE StartUploads(r, ImageUploads(r), "images_up")
               /\ KeptImages(r) \subseteq DOMAIN seen[r].images
      BY <1>3, <2>1, <2>2 DEF AllUploads, Unwritten
    <2>3. CASE (\E code : Reply(r, code)) /\ UNCHANGED pending
      BY <1>4, <1>b, <2>1, <2>3
    <2> QED BY <1>10, <2>2, <2>3 DEF CheckImages, ImageUploads, Undecodable
  <1>11. ASSUME NEW r \in Request, UpdateImages(r) PROVE AllWrite'
    <2>1. UNCHANGED <<s3, want, seen, applied>> /\ pc[r] = "images_up" /\ Step(r)
      BY <1>11 DEF UpdateImages, local, Step
    <2>2. ReplacementKeys(r) \subseteq AllUploads(r)
      <3>1. KeptImages(r) \subseteq DOMAIN seen[r].images
        BY <1>0, <2>1 DEF Proper, Writes, Matched
      <3> QED BY <1>0, <3>1, ReplacementsAreUploads DEF AllUploads
    <2>3. CASE StartUploads(r, ReplacementKeys(r), "images_swap")
      BY <1>3, <2>1, <2>2, <2>3 DEF Unwritten, Matched
    <2>4. CASE (\E code : Reply(r, code)) /\ UNCHANGED pending
      BY <1>4, <1>b, <2>1, <2>4
    <2> QED BY <1>11, <2>3, <2>4 DEF UpdateImages, Undecodable
  <1>12. ASSUME NEW r \in Request, DeleteDocuments(r) \/ DeleteReplaced(r) \/ DeleteImages(r)
         PROVE  AllWrite'
    <2>1. /\ UNCHANGED <<tables, want, seen, pending, applied>> /\ Step(r)
          /\ pc[r] \in {"documents_up", "images_swap", "images_rm"}
      BY <1>12 DEF DeleteDocuments, DeleteReplaced, DeleteImages, Step
    <2>2. \E gone : s3' = [k \in DOMAIN s3 \ gone |-> s3[k]]
      BY <1>12 DEF DeleteDocuments, DeleteReplaced, DeleteImages, DeleteFiles
    <2>3. \A k \in DOMAIN s3' : k \in DOMAIN s3 /\ s3'[k] = s3[k]
      BY <2>2
    <2>4. \/ \E code : Reply(r, code)
          \/ pc[r] = "documents_up" /\ Goto(r, AfterDocuments(r))
          \/ pc[r] # "documents_up" /\ (Goto(r, "images_rm") \/ Goto(r, "commit"))
      BY <1>12 DEF DeleteDocuments, DeleteReplaced, DeleteImages, DeleteFiles
    <2>5. /\ pc'[r] \notin Unwritten
          /\ pc'[r] \in Matched => pc[r] \in Matched \/ KeptImages(r) = {}
      BY <2>1, <2>4, MyPlace DEF Unwritten, Matched, AfterDocuments, KeptImages
    <2>6. UploadsKept(r)
      BY <1>b, <2>1
    <2>7. Writes(r)'
      BY <1>0, <2>1, <2>3, <2>5, <2>6, WritesKept
    <2>8. Others(r)
      BY <1>a, <2>1
    <2> QED BY <2>1, <2>3, <2>7, <2>8, OthersWriteNothing
  <1>13. ASSUME NEW r \in Request, Commit(r) PROVE AllWrite'
    <2>1. pc[r] = "commit" /\ UNCHANGED <<s3, want, seen, pending>> /\ Step(r)
      BY <1>13 DEF Commit, local, Step
    <2>2. pending[r] = {} /\ applied' \subseteq applied \cup {r}
      BY <1>0, <1>13, <2>1 DEF Uploads, Commit, Write
    <2>3. pc'[r] \in {"refresh", "done"}
      BY <1>13, MyPlace DEF Commit
    <2>4. Writes(r)'
      BY <1>0, <1>b, <2>1, <2>2, <2>3, WritesKept DEF Unwritten, Matched
    <2> QED BY <1>c, <2>1, <2>2, <2>4
  <1>14. ASSUME NEW r \in Request, Refresh(r) \/ FetchFile(r) \/ QueryFails(r) PROVE AllWrite'
    <2>1. /\ UNCHANGED <<s3, want, seen, pending, applied>> /\ Step(r)
          /\ \E code : Reply(r, code)
      BY <1>14 DEF Refresh, FetchFile, QueryFails, local, Step
    <2> QED BY <1>4, <1>b, <2>1
  <1>15. ASSUME NEW r \in Request, FindDocument(r) PROVE AllWrite'
    <2>1. UNCHANGED <<s3, want, pending, applied>> /\ pc[r] = "find" /\ Step(r)
      BY <1>15 DEF FindDocument, Step
    <2>2. pc'[r] \in {"fetch", "done"}
      BY <1>15, MyPlace DEF FindDocument
    <2>3. Writes(r)'
      BY <1>0, <2>1, <2>2, WritesNothing DEF Unwritten, Matched
    <2> QED BY <1>c, <2>1, <2>3
  <1>16. CASE Crash
    <2>1. UNCHANGED <<s3, want, seen, applied>>
      BY <1>16 DEF Crash, local
    <2>2. ASSUME NEW r \in Request PROVE Writes(r)'
      <3>1. pending'[r] \subseteq pending[r] /\ (pc'[r] = "done" \/ pc'[r] = pc[r])
        BY <1>16, CrashStops
      <3> QED BY <1>0, <1>b, <2>1, <3>1, WritesKept DEF Unwritten, Matched
    <2> QED BY <2>2 DEF AllWrite
  <1>17. CASE UNCHANGED vars
    <2>1. UNCHANGED <<s3, pc, want, seen, pending, applied>>
      BY <1>17 DEF vars
    <2>2. ASSUME NEW r \in Request PROVE Writes(r)'
      BY <1>0, <1>b, <2>1, WritesKept
    <2> QED BY <2>2 DEF AllWrite
  <1> QED
    BY <1>1, <1>2, <1>5, <1>6, <1>7, <1>8, <1>9, <1>10, <1>11, <1>12, <1>13, <1>14, <1>15, <1>16,
       <1>17 DEF Next, Step
------------------------------------------------------------------------------
\* One request at a time.  At most one request is being served, though threads
\* of those that failed may still upload; an edit has loaded what the tables
\* have, and a product is only created while there is none.
Alone == \A q, r \in Request : InFlight(q) /\ InFlight(r) => q = r

Past == {"documents", "documents_up", "images", "images_up", "images_swap", "images_rm", "commit"}
Loaded(r) ==
    /\ r \in Edit /\ pc[r] \in Past => seen[r] = ProductInDB
    /\ r \in Create => seen[r] = Nothing /\ (InFlight(r) /\ r \notin applied => ~exists)

Absent == ~exists => DOMAIN images = {} /\ DOMAIN documents = {}

\* What a request deletes: the files of the documents it drops, the old files of
\* the images whose format changes, and the files of the images it drops.
GoneDocuments(r) == {seen[r].documents[id] : id \in DroppedDocuments(r, seen[r].documents)}
GoneFormats(r) ==
    UNION {KeysOf(seen[r].images[id]) : id \in Replaced(r, "other") \cap DOMAIN seen[r].images}
GoneImages(r) == UNION {KeysOf(seen[r].images[id]) : id \in Dropped(r, seen[r].images)}
Gone(r) == GoneDocuments(r) \cup GoneFormats(r) \cup GoneImages(r)

\* The files a request has written.  One that it overwrites under its old key may
\* since have been overwritten once more, by a thread of a request that failed.
By(r) == {key \in DOMAIN s3 : s3[key] = r}
Stored(r, keys) ==
    \A key \in keys : key \in pending[r] \/ (key \in DOMAIN s3 /\ s3[key] \in Request \ applied)

\* Where a request is being served tells which of its files are in the store and
\* which of the old ones it has asked the store to delete.
Progress(r) ==
    /\ pc[r] \in (Past \ {"documents"}) \cup {"new_documents"} => Stored(r, DocumentUploads(r))
    /\ pc[r] \in Ordered => Stored(r, ImageUploads(r))
    /\ pc[r] \in {"images_swap", "images_rm", "commit"} =>
          Stored(r, FormatUploads(r)) /\ Stored(r, SameUploads(r))
    /\ pc[r] \in Past \ {"documents", "documents_up"} => GoneDocuments(r) \subseteq doomed[r]
    /\ pc[r] \in {"images_rm", "commit"} => GoneFormats(r) \subseteq doomed[r]
    /\ pc[r] = "commit" => GoneImages(r) \subseteq doomed[r]
    /\ pc[r] \in Unwritten => doomed[r] = {}
    /\ InFlight(r) => doomed[r] \subseteq Gone(r)

SerialInv ==
    /\ Alone /\ Absent /\ SlugNamesProduct
    /\ \A r \in Request : Loaded(r) /\ Progress(r)

LEMMA SerialInit == Init => SerialInv
  <1> SUFFICES ASSUME Init PROVE SerialInv
    OBVIOUS
  <1>1. ASSUME NEW r \in Request
        PROVE  pc[r] = "idle" /\ pending[r] = {} /\ doomed[r] = {} /\ seen[r] = Nothing
    BY DEF Init
  <1>2. ASSUME NEW r \in Request PROVE ~InFlight(r) /\ Loaded(r) /\ Progress(r)
    BY <1>1 DEF InFlight, Loaded, Past, Progress, Ordered
  <1>3. Absent /\ SlugNamesProduct
    BY DEF Init, Absent, SlugNamesProduct
  <1> QED BY <1>2, <1>3 DEF SerialInv, Alone

\* What the gone files and the new ones are called.
LEMMA GoneKeys ==
  ASSUME RowsAreKeyed, NEW r \in Request, seen[r] = ProductInDB
  PROVE  /\ \A key \in GoneDocuments(r) : \E id \in DOMAIN documents \ KeptDocuments(r) :
               key = <<id>> /\ want[r].documents # {}
         /\ \A key \in GoneFormats(r) : \E id \in Replaced(r, "other") \cap DOMAIN images :
               \E size \in Size, v \in applied \cup {Nobody} : key = <<id, size, v>>
         /\ \A key \in GoneImages(r) : \E id \in DOMAIN images \ KeptImages(r) :
               \E size \in Size, v \in applied \cup {Nobody} :
                  key = <<id, size, v>> /\ want[r].images # {}
  <1>0. seen[r].images = images /\ seen[r].documents = documents
    BY DEF ProductInDB
  <1>1. ASSUME NEW id \in DOMAIN images, NEW key \in KeysOf(images[id])
        PROVE  \E size \in Size, v \in applied \cup {Nobody} : key = <<id, size, v>>
    <2>1. PICK v \in applied \cup {Nobody} :
             images[id].files = [size \in Size |-> ImageKey(id, size, v)]
      BY DEF RowsAreKeyed
    <2> QED BY <2>1 DEF KeysOf, Range, ImageKey
  <1>2. ASSUME NEW key \in GoneDocuments(r)
        PROVE  \E id \in DOMAIN documents \ KeptDocuments(r) :
                  key = <<id>> /\ want[r].documents # {}
    BY <1>0 DEF GoneDocuments, DroppedDocuments, RowsAreKeyed, DocumentKey
  <1>3. ASSUME NEW key \in GoneFormats(r)
        PROVE  \E id \in Replaced(r, "other") \cap DOMAIN images :
                  \E size \in Size, v \in applied \cup {Nobody} : key = <<id, size, v>>
    BY <1>0, <1>1 DEF GoneFormats
  <1>4. ASSUME NEW key \in GoneImages(r)
        PROVE  \E id \in DOMAIN images \ KeptImages(r) :
                  \E size \in Size, v \in applied \cup {Nobody} :
                     key = <<id, size, v>> /\ want[r].images # {}
    BY <1>0, <1>1 DEF GoneImages, Dropped
  <1> QED BY <1>2, <1>3, <1>4

LEMMA UploadKeys ==
  ASSUME RowsAreKeyed, NEW r \in Request, ProductUpdate(want[r])
  PROVE  /\ \A key \in DocumentUploads(r) : \E n \in Nat : key = << <<r, n>> >>
         /\ \A key \in ImageUploads(r) : \E n \in Nat, size \in Size :
               key = << <<r, n>>, size, Nobody>>
         /\ \A key \in FormatUploads(r) : \E id \in Replaced(r, "other"), size \in Size :
               key = <<id, size, r>>
         /\ seen[r] = ProductInDB =>
               \A key \in SameUploads(r) : \E id \in Replaced(r, "same") \cap DOMAIN images :
                  \E size \in Size, v \in applied \cup {Nobody} : key = <<id, size, v>>
  <1>1. ASSUME NEW key \in DocumentUploads(r) PROVE \E n \in Nat : key = << <<r, n>> >>
    BY NewIds DEF DocumentUploads, DocumentKey
  <1>2. ASSUME NEW key \in ImageUploads(r)
        PROVE  \E n \in Nat, size \in Size : key = << <<r, n>>, size, Nobody>>
    BY NewIds DEF ImageUploads, ImageKeys, ImageKey
  <1>3. ASSUME NEW key \in FormatUploads(r)
        PROVE  \E id \in Replaced(r, "other"), size \in Size : key = <<id, size, r>>
    BY DEF FormatUploads, ImageKey
  <1>4. ASSUME seen[r] = ProductInDB, NEW key \in SameUploads(r)
        PROVE  \E id \in Replaced(r, "same") \cap DOMAIN images :
                  \E size \in Size, v \in applied \cup {Nobody} : key = <<id, size, v>>
    <2>1. PICK id \in Replaced(r, "same") \cap DOMAIN images : key \in KeysOf(images[id])
      BY <1>4 DEF SameUploads, ProductInDB
    <2>2. PICK v \in applied \cup {Nobody} :
             images[id].files = [size \in Size |-> ImageKey(id, size, v)]
      BY DEF RowsAreKeyed
    <2> QED BY <2>1, <2>2 DEF KeysOf, Range, ImageKey
  <1> QED BY <1>1, <1>2, <1>3, <1>4

\* An image's file is replaced in one way only.
LEMMA OneReplacement ==
  ASSUME NEW r \in Request, ProductUpdate(want[r])
  PROVE  Replaced(r, "same") \cap Replaced(r, "other") = {}
  <1> SUFFICES ASSUME NEW id \in Replaced(r, "same"), id \in Replaced(r, "other") PROVE FALSE
    OBVIOUS
  <1>1. PICK v \in want[r].images : v.keep[id].file = "same"
    BY DEF Replaced
  <1>2. PICK w \in want[r].images : w.keep[id].file = "other"
    BY DEF Replaced
  <1> QED BY <1>1, <1>2 DEF ProductUpdate, Listed

\* No file that a request deletes is one that it uploads.
LEMMA GoneIsOld ==
  ASSUME RowsAreKeyed, NEW r \in Request, r \notin applied, ProductUpdate(want[r]),
         seen[r] = ProductInDB
  PROVE  Gone(r) \cap AllUploads(r) = {}
  <1> SUFFICES ASSUME NEW key \in Gone(r), key \in AllUploads(r) PROVE FALSE
    OBVIOUS
  <1>0. r # Nobody
    BY KindAssumption
  <1>1. CASE key \in GoneDocuments(r)
    <2>1. PICK d \in DOMAIN documents : key = <<d>>
      BY <1>1, GoneKeys
    <2>2. \A n \in Nat : d # <<r, n>>
      BY DEF RowsAreKeyed
    <2>3. key \notin DocumentUploads(r)
      BY <2>1, <2>2, UploadKeys
    <2>4. \A a, b, c : key # <<a, b, c>>
      BY <2>1
    <2> QED BY <2>3, <2>4, UploadKeys DEF AllUploads
  <1>2. CASE key \in GoneFormats(r) \cup GoneImages(r)
    <2>1. PICK id \in DOMAIN images, size \in Size, v \in applied \cup {Nobody} :
             key = <<id, size, v>>
             /\ (id \in Replaced(r, "other") \/ (id \notin KeptImages(r) /\ want[r].images # {}))
      BY <1>2, GoneKeys
    <2>2. \A n \in Nat : id # <<r, n>>
      BY DEF RowsAreKeyed
    <2>3. v # r
      BY <1>0
    <2>4. key \notin DocumentUploads(r)
      <3>1. \A d : key # <<d>>
        BY <2>1
      <3> QED BY <3>1, UploadKeys
    <2>5. key \notin ImageUploads(r)
      BY <2>1, <2>2, UploadKeys
    <2>6. key \notin FormatUploads(r)
      BY <2>1, <2>3, UploadKeys
    <2>7. id \notin Replaced(r, "same")
      BY <2>1, OneReplacement, KeptAreListed
    <2>8. key \notin SameUploads(r)
      BY <2>1, <2>7, UploadKeys
    <2> QED BY <2>4, <2>5, <2>6, <2>8 DEF AllUploads
  <1> QED BY <1>1, <1>2 DEF Gone

\* A list that is left out asks for nothing.
LEMMA NothingAsked ==
  ASSUME NEW r
  PROVE  /\ want[r].documents = {} => DocumentUploads(r) = {} /\ GoneDocuments(r) = {}
         /\ want[r].images = {} =>
               /\ ImageUploads(r) = {} /\ FormatUploads(r) = {} /\ SameUploads(r) = {}
               /\ GoneFormats(r) = {} /\ GoneImages(r) = {} /\ KeptImages(r) = {}
  BY DEF DocumentUploads, NewDocuments, GoneDocuments, DroppedDocuments, ImageUploads, NewImages,
         ImageKeys, FormatUploads, SameUploads, GoneFormats, GoneImages, Dropped, Replaced,
         KeptImages

\* A creation deletes nothing and replaces nothing.
LEMMA CreationOnlyAdds ==
  ASSUME NEW r \in Create, Wished(r), Loaded(r)
  PROVE  /\ KeptImages(r) = {} /\ FormatUploads(r) = {} /\ SameUploads(r) = {} /\ Gone(r) = {}
         /\ DroppedDocuments(r, seen[r].documents) = {} /\ Dropped(r, seen[r].images) = {}
  <1>1. KeptImages(r) = {}
    BY DEF Wished, KeptImages
  <1>2. \A format : Replaced(r, format) = {}
    BY DEF Wished, Replaced
  <1>3. DOMAIN seen[r].images = {} /\ DOMAIN seen[r].documents = {}
    BY DEF Loaded, Nothing
  <1> QED BY <1>1, <1>2, <1>3 DEF FormatUploads, SameUploads, Gone, GoneDocuments, GoneFormats,
                                  GoneImages, Dropped, DroppedDocuments

\* What a request's uploads and deletions are depends on its wish and on what it
\* has loaded.
KeysKept(r) ==
    /\ DocumentUploads(r)' = DocumentUploads(r) /\ ImageUploads(r)' = ImageUploads(r)
    /\ FormatUploads(r)' = FormatUploads(r) /\ SameUploads(r)' = SameUploads(r)
    /\ GoneDocuments(r)' = GoneDocuments(r) /\ GoneFormats(r)' = GoneFormats(r)
    /\ GoneImages(r)' = GoneImages(r) /\ Gone(r)' = Gone(r)

LEMMA SameWishSameKeys ==
  ASSUME NEW r, want'[r] = want[r], seen'[r] = seen[r]
  PROVE  KeysKept(r)
  BY DEF KeysKept, DocumentUploads, NewDocuments, ImageUploads, NewImages, FormatUploads,
         SameUploads, Replaced, KeptImages, Gone, GoneDocuments, DroppedDocuments, KeptDocuments,
         GoneFormats, GoneImages, Dropped

\* Files may be added, or overwritten by a request that has not committed.
StoreKept ==
    \A key \in DOMAIN s3 :
        key \in DOMAIN s3' /\ (s3'[key] = s3[key] \/ s3'[key] \in Request \ applied)

\* A request that does not move keeps what is known of it, as long as tables and
\* store are left alone when it is being served.
LEMMA OthersStay ==
  ASSUME NEW q \in Request, Loaded(q), Progress(q),
         pc'[q] = pc[q] /\ want'[q] = want[q] /\ seen'[q] = seen[q],
         pending'[q] = pending[q] /\ doomed'[q] = doomed[q],
         InFlight(q) => UNCHANGED <<tables, applied>> /\ StoreKept
  PROVE  (InFlight(q)' <=> InFlight(q)) /\ Loaded(q)' /\ Progress(q)'
  <1>1. (InFlight(q)' <=> InFlight(q)) /\ KeysKept(q)
    BY SameWishSameKeys DEF InFlight
  <1>2. CASE ~InFlight(q)
    <2>1. pc[q] \in {"idle", "done"}
      BY <1>2 DEF InFlight
    <2>2. Loaded(q)'
      BY <1>1, <1>2, <2>1 DEF Loaded, Past
    <2>3. Progress(q)'
      BY <2>1 DEF Progress, Past, Ordered, Unwritten, InFlight
    <2> QED BY <1>1, <2>2, <2>3
  <1>3. CASE InFlight(q)
    <2>1. Loaded(q)'
      BY <1>1, <1>3 DEF Loaded, ProductInDB, tables
    <2>2. \A keys : Stored(q, keys) =>
             \A key \in keys :
                key \in pending'[q] \/ (key \in DOMAIN s3' /\ s3'[key] \in Request \ applied')
      BY <1>3 DEF Stored, StoreKept
    <2>3. Progress(q)'
      BY <1>1, <2>2 DEF Progress, KeysKept, Stored
    <2> QED BY <1>1, <2>1, <2>3
  <1> QED BY <1>2, <1>3

\* One request moves, a thread of one that has failed perhaps.
LEMMA SerialMove ==
  ASSUME SerialInv, NEW r \in Request, Others(r),
         InFlight(r)' => InFlight(r) \/ \A q \in Request : ~InFlight(q),
         InFlight(r) \/ (\A q \in Request : ~InFlight(q))
            \/ (UNCHANGED <<tables, applied>> /\ StoreKept),
         Loaded(r)', Progress(r)', Absent', SlugNamesProduct'
  PROVE  SerialInv'
  <1>1. ASSUME NEW q \in Request, q # r
        PROVE  (InFlight(q)' <=> InFlight(q)) /\ Loaded(q)' /\ Progress(q)'
    <2>1. Loaded(q) /\ Progress(q)
      BY DEF SerialInv
    <2>2. InFlight(q) => UNCHANGED <<tables, applied>> /\ StoreKept
      BY <1>1 DEF SerialInv, Alone
    <2> QED BY <1>1, <2>1, <2>2, OthersStay DEF Others
  <1>2. Alone'
    BY <1>1 DEF SerialInv, Alone
  <1> QED BY <1>1, <1>2 DEF SerialInv

\* A request that is answered has nothing to show any more.
LEMMA ProgressAnswered ==
  ASSUME NEW r \in Request, pc'[r] = "done"
  PROVE  Progress(r)'
  BY DEF Progress, Past, Ordered, Unwritten, InFlight

LEMMA LoadedKept ==
  ASSUME NEW r \in Request, Loaded(r), seen'[r] = seen[r], UNCHANGED tables,
         InFlight(r)' => InFlight(r), r \in applied => r \in applied',
         r \in Edit /\ pc'[r] \in Past => pc[r] \in Past
  PROVE  Loaded(r)'
  BY DEF Loaded, ProductInDB, tables

\* One thread ends: its file is in the store now, or the request is answered.
LEMMA UploadKeepsProgress ==
  ASSUME SerialInv, RowsAreKeyed, AllWrite, Wishes, FilesInv, MediaPlaces,
         NEW r \in Request, NEW key \in pending[r], Upload(r, key)
  PROVE  Progress(r)'
  <1> DEFINE written == [k \in DOMAIN s3 \cup {key} |-> IF k = key THEN r ELSE s3[k]]
  <1>1. /\ pending' = [pending EXCEPT ![r] = @ \ {key}]
        /\ UNCHANGED <<want, seen, doomed, applied>>
        /\ \/ s3' = written /\ UNCHANGED pc
           \/ ~InFlight(r) /\ UNCHANGED pc
           \/ Reply(r, "500")
    BY DEF Upload, local
  <1>2. pending'[r] = pending[r] \ {key}
    BY <1>1 DEF FilesInv, MediaDomains
  <1>3. Progress(r) /\ Writes(r) /\ Uploads(r) /\ Proper(r) /\ Wished(r) /\ Loaded(r)
    BY DEF SerialInv, AllWrite, FilesInv, MediaPlaces, Wishes
  <1>4. r \notin applied /\ pc[r] \notin Unwritten /\ key \in AllUploads(r)
    BY <1>3 DEF Writes
  <1>5. KeysKept(r)
    BY <1>1, SameWishSameKeys
  <1>6. CASE Reply(r, "500")
    BY <1>6, MyPlace, ProgressAnswered
  <1>7. CASE ~InFlight(r) /\ UNCHANGED pc
    BY <1>4, <1>7 DEF Progress, Past, Ordered, Unwritten, InFlight
  <1>8. CASE s3' = written /\ UNCHANGED pc
    <2>1. ASSUME NEW keys, Stored(r, keys), NEW k \in keys
          PROVE  k \in pending'[r] \/ (k \in DOMAIN s3' /\ s3'[k] \in Request \ applied)
      BY <1>2, <1>4, <1>8, <2>1 DEF Stored
    <2>2. pc'[r] = pc[r] /\ doomed'[r] = doomed[r] /\ (InFlight(r)' <=> InFlight(r))
      BY <1>1, <1>8 DEF InFlight
    <2> QED BY <1>1, <1>3, <1>5, <2>1, <2>2 DEF Progress, Stored, KeysKept
  <1> QED BY <1>1, <1>6, <1>7, <1>8

\* A deletion ends: the store has been asked for it, or the request is answered.
LEMMA DeletionKeepsProgress ==
  ASSUME SerialInv, RowsAreKeyed, Wishes, MediaPlaces, MediaDomains, NEW r \in Edit,
         NEW keys, NEW next, DeleteFiles(r, keys, next),
         UNCHANGED <<want, seen, pending, applied>>, pending[r] = {}, keys \subseteq Gone(r),
         \/ pc[r] = "documents_up" /\ next = AfterDocuments(r) /\ GoneDocuments(r) \subseteq keys
         \/ pc[r] = "images_swap" /\ next = "images_rm" /\ GoneFormats(r) \subseteq keys
         \/ pc[r] = "images_rm" /\ next = "commit" /\ GoneImages(r) \subseteq keys
  PROVE  Progress(r)'
  <1>0. r \in Request /\ Progress(r) /\ Loaded(r) /\ Proper(r) /\ Wished(r)
    BY DEF SerialInv, MediaPlaces, Wishes, Request
  <1>1. PICK gone \in SUBSET keys :
           /\ doomed' = [doomed EXCEPT ![r] = @ \cup keys]
           /\ s3' = [k \in DOMAIN s3 \ gone |-> s3[k]]
           /\ Goto(r, next) \/ Reply(r, "500")
    BY DEF DeleteFiles
  <1>2. CASE Reply(r, "500")
    BY <1>0, <1>2, MyPlace, ProgressAnswered
  <1>3. CASE Goto(r, next)
    <2> DEFINE Kept(up) == \A k \in up :
                  (k \in pending'[r]) \/ (k \in DOMAIN s3' /\ s3'[k] \in Request \ applied')
    <2>1. pc'[r] = next /\ doomed'[r] = doomed[r] \cup keys
      BY <1>0, <1>1, <1>3, MyPlace DEF MediaDomains
    <2>2. r \notin applied /\ pc[r] \in Past /\ InFlight(r)
      BY <1>0 DEF Proper, Past, InFlight
    <2>3. keys \cap AllUploads(r) = {}
      BY <1>0, <2>2, GoneIsOld DEF Loaded, Wished
    <2>5. KeysKept(r)
      BY SameWishSameKeys
    <2>6. doomed'[r] \subseteq Gone(r)
      BY <1>0, <2>1, <2>2 DEF Progress
    <2>7. ASSUME NEW up \in SUBSET AllUploads(r), Stored(r, up) PROVE Kept(up)
      BY <1>1, <2>3, <2>7 DEF Stored
    <2>8. /\ DocumentUploads(r) \subseteq AllUploads(r) /\ ImageUploads(r) \subseteq AllUploads(r)
          /\ FormatUploads(r) \subseteq AllUploads(r) /\ SameUploads(r) \subseteq AllUploads(r)
      BY DEF AllUploads
    <2>9. CASE pc[r] = "documents_up" /\ next = AfterDocuments(r) /\ GoneDocuments(r) \subseteq keys
      <3>1. Kept(DocumentUploads(r))
        BY <1>0, <2>7, <2>8, <2>9 DEF Progress, Past
      <3>2. GoneDocuments(r) \subseteq doomed'[r]
        BY <2>1, <2>9
      <3>3. CASE want[r].images = {}
        <4>1. /\ ImageUploads(r) = {} /\ FormatUploads(r) = {} /\ SameUploads(r) = {}
              /\ GoneFormats(r) = {} /\ GoneImages(r) = {} /\ pc'[r] = "commit"
          BY <2>1, <2>9, <3>3, NothingAsked DEF AfterDocuments
        <4> QED BY <2>5, <2>6, <3>1, <3>2, <4>1
                DEF Progress, KeysKept, Stored, Past, Ordered, Unwritten
      <3>4. CASE want[r].images # {}
        <4>1. pc'[r] = "images"
          BY <2>1, <2>9, <3>4 DEF AfterDocuments
        <4> QED BY <2>5, <2>6, <3>1, <3>2, <4>1
                DEF Progress, KeysKept, Stored, Past, Ordered, Unwritten
      <3> QED BY <3>3, <3>4
    <2>10. CASE \/ pc[r] = "images_swap" /\ next = "images_rm" /\ GoneFormats(r) \subseteq keys
                \/ pc[r] = "images_rm" /\ next = "commit" /\ GoneImages(r) \subseteq keys
      <3>1. /\ Stored(r, DocumentUploads(r)) /\ Stored(r, ImageUploads(r))
            /\ Stored(r, FormatUploads(r)) /\ Stored(r, SameUploads(r))
            /\ GoneDocuments(r) \subseteq doomed[r]
            /\ pc[r] = "images_rm" => GoneFormats(r) \subseteq doomed[r]
        BY <1>0, <2>10 DEF Progress, Past, Ordered
      <3>2. /\ Kept(DocumentUploads(r)) /\ Kept(ImageUploads(r))
            /\ Kept(FormatUploads(r)) /\ Kept(SameUploads(r))
        BY <2>7, <2>8, <3>1
      <3>3. /\ GoneDocuments(r) \subseteq doomed'[r] /\ GoneFormats(r) \subseteq doomed'[r]
            /\ pc'[r] = "commit" => GoneImages(r) \subseteq doomed'[r]
            /\ pc'[r] \in {"images_rm", "commit"}
        BY <2>1, <2>10, <3>1
      <3> QED BY <2>5, <2>6, <3>2, <3>3 DEF Progress, KeysKept, Stored, Past, Ordered, Unwritten
    <2> QED BY <2>9, <2>10
  <1> QED BY <1>1, <1>2, <1>3

\* While requests do not overlap a request deletes what it does not keep.
LEMMA DeletesGone ==
  ASSUME SerialInv, AllWrite, Wishes, FilesInv, MediaPlaces, NEW r \in Request,
         DeleteDocuments(r) \/ DeleteReplaced(r) \/ DeleteImages(r)
  PROVE  /\ r \in Edit \ applied /\ pending[r] = {} /\ seen[r] = ProductInDB
         /\ UNCHANGED <<tables, want, seen, pending, applied>>
         /\ \/ pc[r] = "documents_up" /\ DeleteFiles(r, GoneDocuments(r), AfterDocuments(r))
            \/ pc[r] = "images_swap" /\ DeleteFiles(r, GoneFormats(r), "images_rm")
            \/ pc[r] = "images_rm" /\ DeleteFiles(r, GoneImages(r), "commit")
  <1>0. /\ pc[r] \in {"documents_up", "images_swap", "images_rm"}
        /\ UNCHANGED <<tables, want, seen, pending, applied>>
    BY DEF DeleteDocuments, DeleteReplaced, DeleteImages
  <1>1. /\ r \in Edit /\ r \notin applied
        /\ Loaded(r) /\ Writes(r) /\ Uploads(r) /\ ProductUpdate(want[r])
    BY <1>0 DEF MediaPlaces, Proper, SerialInv, AllWrite, FilesInv, Wishes, Wished
  <1>2. /\ seen[r] = ProductInDB
        /\ seen[r].images = images /\ seen[r].documents = documents
    BY <1>0, <1>1 DEF Loaded, Past, ProductInDB
  <1>3. pending[r] = {}
    BY <1>0, <1>1 DEF DeleteDocuments, DeleteReplaced, DeleteImages, Uploads
  <1>4. CASE DeleteDocuments(r)
    <2>1. DroppedDocuments(r, seen[r].documents) \cap DOMAIN documents
             = DroppedDocuments(r, seen[r].documents)
      BY <1>2 DEF DroppedDocuments
    <2>2. DeleteFiles(r, GoneDocuments(r), AfterDocuments(r)) /\ pc[r] = "documents_up"
      BY <1>4, <2>1 DEF DeleteDocuments, GoneDocuments
    <2> QED BY <1>0, <1>1, <1>2, <1>3, <2>2
  <1>5. CASE DeleteReplaced(r)
    <2>1. pc[r] = "images_swap"
      BY <1>5 DEF DeleteReplaced
    <2>2. Replaced(r, "other") \subseteq DOMAIN seen[r].images
      BY <1>1, <2>1, KeptAreListed DEF Writes, Matched
    <2>3. GoneFormats(r) = UNION {KeysOf(seen[r].images[id]) : id \in Replaced(r, "other")}
      BY <2>2 DEF GoneFormats
    <2>4. DeleteFiles(r, GoneFormats(r), "images_rm")
      BY <1>5, <2>3 DEF DeleteReplaced
    <2> QED BY <1>0, <1>1, <1>2, <1>3, <2>1, <2>4
  <1>6. CASE DeleteImages(r)
    <2>1. Dropped(r, seen[r].images) \cap DOMAIN images = Dropped(r, seen[r].images)
      BY <1>2 DEF Dropped
    <2>2. DeleteFiles(r, GoneImages(r), "commit") /\ pc[r] = "images_rm"
      BY <1>6, <2>1 DEF DeleteImages, GoneImages
    <2> QED BY <1>0, <1>1, <1>2, <1>3, <2>2
  <1> QED BY <1>4, <1>5, <1>6

LEMMA DeletesKeepProgress ==
  ASSUME SerialInv, RowsAreKeyed, AllWrite, Wishes, FilesInv, MediaPlaces, NEW r \in Request,
         DeleteDocuments(r) \/ DeleteReplaced(r) \/ DeleteImages(r)
  PROVE  Progress(r)'
  <1>1. /\ r \in Edit /\ pending[r] = {} /\ UNCHANGED <<want, seen, pending, applied>>
        /\ \/ pc[r] = "documents_up" /\ DeleteFiles(r, GoneDocuments(r), AfterDocuments(r))
           \/ pc[r] = "images_swap" /\ DeleteFiles(r, GoneFormats(r), "images_rm")
           \/ pc[r] = "images_rm" /\ DeleteFiles(r, GoneImages(r), "commit")
    BY DeletesGone
  <1>2. MediaDomains
    BY DEF FilesInv
  <1>3. CASE pc[r] = "documents_up" /\ DeleteFiles(r, GoneDocuments(r), AfterDocuments(r))
    BY <1>1, <1>2, <1>3, DeletionKeepsProgress DEF Gone
  <1>4. CASE pc[r] = "images_swap" /\ DeleteFiles(r, GoneFormats(r), "images_rm")
    BY <1>1, <1>2, <1>4, DeletionKeepsProgress DEF Gone
  <1>5. CASE pc[r] = "images_rm" /\ DeleteFiles(r, GoneImages(r), "commit")
    BY <1>1, <1>2, <1>5, DeletionKeepsProgress DEF Gone
  <1> QED BY <1>1, <1>3, <1>4, <1>5

\* A request goes on to its next gather, the one before having ended.
LEMMA GatherKeepsProgress ==
  ASSUME NEW r \in Request, Progress(r), Writes(r), KeysKept(r), UNCHANGED <<s3, applied>>,
         doomed'[r] = doomed[r], pending[r] = {},
         \/ /\ pc[r] = "validate" /\ pc'[r] = "new_images"
            /\ pending'[r] = ImageUploads(r)
         \/ /\ pc[r] = "new_images" /\ pc'[r] = "new_documents"
            /\ pending'[r] = DocumentUploads(r)
         \/ /\ pc[r] = "new_documents" /\ pc'[r] = "commit"
            /\ FormatUploads(r) = {} /\ SameUploads(r) = {} /\ Gone(r) = {}
         \/ /\ pc[r] = "documents" /\ pc'[r] = "documents_up"
            /\ pending'[r] = DocumentUploads(r)
         \/ /\ pc[r] = "images" /\ pc'[r] = "images_up"
            /\ pending'[r] = ImageUploads(r)
         \/ /\ pc[r] = "images_up" /\ pc'[r] = "images_swap"
            /\ pending'[r] = SameUploads(r) \cup FormatUploads(r)
  PROVE  Progress(r)'
  <1>1. \A keys : Stored(r, keys) =>
           \A key \in keys : key \in DOMAIN s3' /\ s3'[key] \in Request \ applied'
    BY DEF Stored
  <1>2. doomed'[r] \subseteq Gone(r)' /\ InFlight(r)
    BY DEF Progress, KeysKept, InFlight
  <1>3. pc'[r] = "new_documents" => DocumentUploads(r)' \subseteq pending'[r]
    BY DEF KeysKept
  <1>4. pc'[r] \in Past \ {"documents"} => Stored(r, DocumentUploads(r))'
    BY <1>1 DEF Progress, KeysKept, Past, Stored
  <1>5. pc'[r] \in Ordered => Stored(r, ImageUploads(r))'
    BY <1>1 DEF Progress, KeysKept, Ordered, Stored
  <1>6. pc'[r] \in {"images_swap", "images_rm", "commit"} =>
           Stored(r, FormatUploads(r))' /\ Stored(r, SameUploads(r))'
    BY <1>1 DEF Progress, KeysKept, Stored
  <1>7. /\ pc'[r] \in Past \ {"documents", "documents_up"} => GoneDocuments(r)' \subseteq doomed'[r]
        /\ pc'[r] \in {"images_rm", "commit"} => GoneFormats(r)' \subseteq doomed'[r]
        /\ pc'[r] = "commit" => GoneImages(r)' \subseteq doomed'[r]
    BY DEF Progress, KeysKept, Past, Gone
  <1> QED BY <1>2, <1>3, <1>4, <1>5, <1>6, <1>7 DEF Progress, Stored, Unwritten

LEMMA GathersKeepProgress ==
  ASSUME SerialInv, AllWrite, Wishes, FilesInv, MediaPlaces, NEW r \in Request,
         \/ Validate(r) \/ NewImagesUploaded(r) \/ NewDocumentsUploaded(r)
         \/ CheckDocuments(r) \/ CheckImages(r) \/ UpdateImages(r)
  PROVE  Progress(r)'
  <1>0. /\ Progress(r) /\ Loaded(r) /\ Writes(r) /\ Uploads(r) /\ Proper(r) /\ Wished(r)
        /\ ProductUpdate(want[r])
    BY DEF SerialInv, AllWrite, FilesInv, MediaPlaces, Wishes, Wished
  <1>1. UNCHANGED <<s3, want, seen, doomed, applied>> /\ KeysKept(r)
    <2>1. UNCHANGED <<s3, want, seen, doomed, applied>>
      BY DEF Validate, NewImagesUploaded, NewDocumentsUploaded, CheckDocuments, CheckImages,
             UpdateImages, local
    <2> QED BY <2>1, SameWishSameKeys
  <1>2. \A keys, next : StartUploads(r, keys, next) => pending'[r] = keys /\ pc'[r] = next
    BY MyPlace DEF StartUploads, FilesInv, MediaDomains
  <1>3. \A ids : Undecodable(r, ids) => Progress(r)'
    BY MyPlace, ProgressAnswered DEF Undecodable
  <1>4. \A code : Reply(r, code) => Progress(r)'
    BY MyPlace, ProgressAnswered
  <1>5. CASE Validate(r)
    <2>1. pc[r] = "validate" /\ pending[r] = {}
      BY <1>0, <1>5 DEF Validate, Uploads
    <2>2. CASE StartUploads(r, ImageUploads(r), "new_images")
      BY <1>0, <1>1, <1>2, <2>1, <2>2, GatherKeepsProgress
    <2> QED BY <1>3, <1>4, <1>5, <2>2 DEF Validate, ImageUploads
  <1>6. CASE NewImagesUploaded(r)
    <2>1. pc[r] = "new_images" /\ pending[r] = {}
      BY <1>6 DEF NewImagesUploaded
    <2>2. StartUploads(r, DocumentUploads(r), "new_documents")
      BY <1>6 DEF NewImagesUploaded, DocumentUploads
    <2> QED BY <1>0, <1>1, <1>2, <2>1, <2>2, GatherKeepsProgress
  <1>7. CASE NewDocumentsUploaded(r)
    <2>1. pc[r] = "new_documents" /\ pending[r] = {} /\ pc'[r] = "commit"
      BY <1>7, MyPlace DEF NewDocumentsUploaded
    <2>2. FormatUploads(r) = {} /\ SameUploads(r) = {} /\ Gone(r) = {}
      BY <1>0, <2>1, CreationOnlyAdds DEF Proper
    <2> QED BY <1>0, <1>1, <2>1, <2>2, GatherKeepsProgress
  <1>8. CASE CheckDocuments(r)
    <2>1. pc[r] = "documents" /\ pending[r] = {}
      BY <1>0, <1>8 DEF CheckDocuments, Uploads
    <2>2. CASE StartUploads(r, DocumentUploads(r), "documents_up")
      BY <1>0, <1>1, <1>2, <2>1, <2>2, GatherKeepsProgress
    <2> QED BY <1>4, <1>8, <2>2 DEF CheckDocuments, DocumentUploads
  <1>9. CASE CheckImages(r)
    <2>1. pc[r] = "images" /\ pending[r] = {}
      BY <1>0, <1>9 DEF CheckImages, Uploads
    <2>2. CASE StartUploads(r, ImageUploads(r), "images_up")
      BY <1>0, <1>1, <1>2, <2>1, <2>2, GatherKeepsProgress
    <2> QED BY <1>3, <1>4, <1>9, <2>2 DEF CheckImages, ImageUploads
  <1>10. CASE UpdateImages(r)
    <2>1. pc[r] = "images_up" /\ pending[r] = {}
      BY <1>10 DEF UpdateImages
    <2>2. ReplacementKeys(r) = SameUploads(r) \cup FormatUploads(r)
      <3>1. KeptImages(r) \subseteq DOMAIN seen[r].images
        BY <1>0, <2>1 DEF Proper, Writes, Matched
      <3> QED BY <1>0, <3>1, ReplacementsAreUploads
    <2>3. CASE StartUploads(r, ReplacementKeys(r), "images_swap")
      BY <1>0, <1>1, <1>2, <2>1, <2>2, <2>3, GatherKeepsProgress
    <2> QED BY <1>3, <1>4, <1>10, <2>3 DEF UpdateImages
  <1> QED BY <1>5, <1>6, <1>7, <1>8, <1>9, <1>10

LEMMA LoadKeepsProgress ==
  ASSUME SerialInv, FilesInv, MediaPlaces, NEW r \in Request, LoadProduct(r)
  PROVE  Progress(r)'
  <1>1. /\ pc[r] = "load" /\ UNCHANGED <<s3, want, pending, doomed>>
        /\ Goto(r, AfterLoad(r)) \/ \E code : Reply(r, code)
    BY DEF LoadProduct
  <1>2. doomed'[r] = {}
    BY <1>1 DEF SerialInv, Progress, Unwritten
  <1>3. want'[r].documents = {} => DocumentUploads(r)' = {} /\ GoneDocuments(r)' = {}
    BY DEF DocumentUploads, NewDocuments, GoneDocuments, DroppedDocuments
  <1>4. want'[r].images = {} =>
           /\ ImageUploads(r)' = {} /\ FormatUploads(r)' = {} /\ SameUploads(r)' = {}
           /\ GoneFormats(r)' = {} /\ GoneImages(r)' = {}
    BY DEF ImageUploads, NewImages, ImageKeys, FormatUploads, SameUploads, GoneFormats, GoneImages,
           Dropped, Replaced, KeptImages
  <1>5. CASE Goto(r, AfterLoad(r))
    <2>1. \/ pc'[r] = "documents"
          \/ pc'[r] = "images" /\ want'[r].documents = {}
          \/ pc'[r] = "commit" /\ want'[r].documents = {} /\ want'[r].images = {}
      BY <1>1, <1>5, MyPlace DEF AfterLoad, AfterDocuments
    <2> QED BY <1>2, <1>3, <1>4, <2>1 DEF Progress, Stored, Past, Ordered
  <1> QED BY <1>1, <1>5, MyPlace, ProgressAnswered

\* The commit of the one request that is served names the product anew.
LEMMA CommitKeepsSlug ==
  ASSUME SlugNamesProduct, NEW r \in Request, Loaded(r), pc[r] = "commit", Write(r)
  PROVE  SlugNamesProduct'
  <1> DEFINE name == CHOOSE n \in want[r].name : TRUE
  <1>1. CASE want[r].name = {}
    BY <1>1 DEF Write, Titled, SlugNamesProduct
  <1>2. CASE want[r].name # {}
    <2>1. title' = [name |-> IF r \in Edit /\ name = seen[r].name THEN title.name ELSE name,
                    slug |-> name]
      BY <1>2 DEF Write, Titled
    <2>2. r \in Edit => seen[r].name = title.name
      BY DEF Loaded, Past, ProductInDB
    <2> HIDE DEF name
    <2> QED BY <2>1, <2>2 DEF SlugNamesProduct
  <1> QED BY <1>1, <1>2

LEMMA SerialStep ==
  ASSUME ~Overlap
  PROVE  /\ SerialInv /\ RowsAreKeyed /\ AllWrite /\ Wishes /\ FilesInv /\ MediaPlaces
         /\ [Next]_vars
         => SerialInv'
  <1> SUFFICES ASSUME SerialInv, RowsAreKeyed, AllWrite, Wishes, FilesInv, MediaPlaces, [Next]_vars
               PROVE  SerialInv'
    OBVIOUS
  <1>0. /\ Absent /\ SlugNamesProduct
        /\ \A r \in Request : /\ Loaded(r) /\ Progress(r) /\ Uploads(r) /\ Proper(r) /\ Wished(r)
    BY DEF SerialInv, FilesInv, MediaPlaces, Wishes
  <1>a. ASSUME UNCHANGED tables PROVE Absent' /\ SlugNamesProduct'
    BY <1>0, <1>a DEF tables, Absent, SlugNamesProduct
  <1>b. ASSUME NEW r \in Request, Step(r), UNCHANGED <<tables, seen, applied>>, Progress(r)',
               InFlight(r) \/ (~InFlight(r)' /\ StoreKept),
               r \in Edit /\ pc'[r] \in Past => pc[r] \in Past
        PROVE  SerialInv'
    <2>1. Others(r)
      BY <1>b, ActsForItself DEF FilesInv
    <2>2. Loaded(r)'
      BY <1>0, <1>b, <2>1, LoadedKept
    <2> QED BY <1>a, <1>b, <2>1, <2>2, SerialMove
  <1>1. ASSUME NEW r \in Request, Arrive(r) PROVE SerialInv'
    <2>1. /\ pc[r] = "idle" /\ UNCHANGED <<tables, s3, seen, pending, doomed, applied>>
          /\ \A q \in Request : ~InFlight(q)
          /\ r \in Create => ~exists
      BY <1>1, KindAssumption DEF Arrive
    <2>2. pc'[r] \in {"validate", "load", "find"}
      BY <1>1, MyPlace DEF Arrive
    <2>3. doomed'[r] = {}
      BY <1>0, <2>1 DEF Progress, Unwritten
    <2>4. Progress(r)'
      BY <2>2, <2>3 DEF Progress, Past, Ordered, Unwritten
    <2>5. Loaded(r)'
      BY <1>0, <2>1, <2>2 DEF Loaded, Past, tables
    <2>6. Others(r)
      BY <1>1, ActsForItself DEF FilesInv
    <2> QED BY <1>a, <2>1, <2>4, <2>5, <2>6, SerialMove
  <1>2. ASSUME NEW r \in Request, NEW key \in pending[r], Upload(r, key) PROVE SerialInv'
    <2>1. UNCHANGED <<tables, seen, applied>> /\ Step(r)
      BY <1>2 DEF Upload, local, Step
    <2>2. UNCHANGED pc \/ Reply(r, "500")
      BY <1>2 DEF Upload
    <2>3. pc'[r] \in Past => pc[r] \in Past
      BY <2>2, MyPlace DEF Past
    <2>4. Progress(r)'
      BY <1>2, UploadKeepsProgress
    <2>5. StoreKept
      <3>1. r \notin applied
        BY DEF AllWrite, Writes
      <3> QED BY <1>2, <3>1 DEF Upload, StoreKept
    <2>6. InFlight(r)' => InFlight(r)
      BY <2>2, MyPlace DEF InFlight
    <2> QED BY <1>b, <2>1, <2>3, <2>4, <2>5, <2>6
  <1>3. ASSUME NEW r \in Request,
               \/ Validate(r) \/ NewImagesUploaded(r) \/ NewDocumentsUploaded(r)
               \/ CheckDocuments(r) \/ CheckImages(r) \/ UpdateImages(r)
        PROVE  SerialInv'
    <2>1. UNCHANGED <<tables, seen, applied>> /\ Step(r) /\ InFlight(r)
      BY <1>3 DEF Validate, NewImagesUploaded, NewDocumentsUploaded, CheckDocuments, CheckImages,
                  UpdateImages, local, Step, InFlight
    <2>2. pc[r] \in {"documents", "images", "images_up"} \/ r \in Create
      BY <1>0, <1>3 DEF Validate, NewImagesUploaded, NewDocumentsUploaded, CheckDocuments,
                        CheckImages, UpdateImages, Proper
    <2>3. r \in Edit => pc[r] \in Past
      BY <2>2, KindAssumption DEF Past
    <2>4. Progress(r)'
      BY <1>3, GathersKeepProgress
    <2> QED BY <1>b, <2>1, <2>3, <2>4
  <1>4. ASSUME NEW r \in Request, LoadProduct(r) PROVE SerialInv'
    <2>1. UNCHANGED <<tables, applied>> /\ Step(r) /\ pc[r] = "load" /\ InFlight(r)
      BY <1>4 DEF LoadProduct, Step, InFlight
    <2>2. r \in Edit /\ r \notin Create
      BY <1>0, <2>1, KindAssumption DEF Proper
    <2>3. CASE seen' = [seen EXCEPT ![r] = ProductInDB]
      <3>1. seen'[r] = ProductInDB'
        BY <2>1, <2>3 DEF FilesInv, MediaDomains, ProductInDB, tables
      <3> QED BY <1>4, <1>a, <2>1, <2>2, <3>1, LoadKeepsProgress, ActsForItself,
                SerialMove DEF Loaded, FilesInv
    <2>4. CASE seen' = seen /\ \E code : Reply(r, code)
      <3>1. pc'[r] = "done"
        BY <2>4, MyPlace
      <3> QED BY <1>b, <2>1, <2>4, <3>1, ProgressAnswered DEF Past
    <2> QED BY <1>4, <2>3, <2>4 DEF LoadProduct
  <1>5. ASSUME NEW r \in Request, DeleteDocuments(r) \/ DeleteReplaced(r) \/ DeleteImages(r)
        PROVE  SerialInv'
    <2>1. UNCHANGED <<tables, seen, applied>> /\ Step(r) /\ pc[r] \in Past /\ InFlight(r)
      BY <1>5 DEF DeleteDocuments, DeleteReplaced, DeleteImages, Step, Past, InFlight
    <2> QED BY <1>5, <1>b, <2>1, DeletesKeepProgress
  <1>6. ASSUME NEW r \in Request, Commit(r) PROVE SerialInv'
    <2>1. /\ pc[r] = "commit" /\ UNCHANGED <<s3, want, seen, doomed, pending>> /\ Step(r)
          /\ InFlight(r)
      BY <1>6 DEF Commit, local, Step, InFlight
    <2>2. pc'[r] \in {"refresh", "done"}
      BY <1>6, MyPlace DEF Commit
    <2>3. CASE UNCHANGED <<tables, applied>> /\ pc'[r] = "done"
      BY <1>b, <2>1, <2>3, ProgressAnswered DEF Past
    <2>4. CASE Write(r)
      <3>1. r \in applied' /\ exists'
        BY <2>4 DEF Write
      <3>2. doomed'[r] \subseteq Gone(r)' /\ KeysKept(r)
        BY <1>0, <2>1, SameWishSameKeys DEF Progress, KeysKept, InFlight
      <3>3. Progress(r)'
        BY <2>2, <3>2 DEF Progress, Past, Ordered, Unwritten
      <3>4. Loaded(r)'
        BY <1>0, <2>1, <2>2, <3>1 DEF Loaded, Past
      <3>5. Absent' /\ SlugNamesProduct'
        BY <1>0, <2>1, <2>4, <3>1, CommitKeepsSlug DEF Absent
      <3>6. Others(r)
        BY <2>1, ActsForItself DEF FilesInv
      <3> QED BY <2>1, <3>3, <3>4, <3>5, <3>6, SerialMove
    <2>5. Write(r) \/ (UNCHANGED <<tables, applied>> /\ pc'[r] = "done")
      BY <1>6, MyPlace DEF Commit
    <2> QED BY <2>3, <2>4, <2>5
  <1>7. ASSUME NEW r \in Request, Refresh(r) \/ FetchFile(r) \/ QueryFails(r) PROVE SerialInv'
    <2>1. /\ UNCHANGED <<tables, seen, applied>> /\ Step(r) /\ \E code : Reply(r, code)
          /\ InFlight(r)
      BY <1>7 DEF Refresh, FetchFile, QueryFails, local, Step, InFlight
    <2>2. pc'[r] = "done"
      BY <2>1, MyPlace
    <2> QED BY <1>b, <2>1, <2>2, ProgressAnswered DEF Past
  <1>8. ASSUME NEW r \in Request, FindDocument(r) PROVE SerialInv'
    <2>1. /\ pc[r] = "find" /\ UNCHANGED <<tables, s3, pending, doomed, applied>> /\ Step(r)
          /\ InFlight(r)
      BY <1>8 DEF FindDocument, Step, InFlight
    <2>2. pc'[r] \in {"fetch", "done"}
      BY <1>8, MyPlace DEF FindDocument
    <2>3. doomed'[r] = {} /\ r \notin Edit /\ r \notin Create
      BY <1>0, <2>1, KindAssumption DEF Progress, Unwritten, Proper
    <2>4. Progress(r)' /\ Loaded(r)'
      BY <2>2, <2>3 DEF Progress, Past, Ordered, Unwritten, Loaded
    <2>5. Others(r)
      BY <2>1, ActsForItself DEF FilesInv
    <2> QED BY <1>a, <2>1, <2>4, <2>5, SerialMove
  <1>9. CASE Crash
    <2>1. UNCHANGED <<tables, s3, want, seen, doomed, applied>>
      BY <1>9 DEF Crash, local
    <2>2. ASSUME NEW r \in Request
          PROVE  (InFlight(r)' => InFlight(r)) /\ Loaded(r)' /\ Progress(r)'
      <3>1. CASE pc'[r] = "done"
        <4>1. ~InFlight(r)' /\ (InFlight(r)' => InFlight(r))
          BY <3>1 DEF InFlight
        <4>2. Loaded(r)'
          BY <1>0, <2>1, <3>1, <4>1 DEF Loaded, Past
        <4> QED BY <3>1, <4>1, <4>2, ProgressAnswered
      <3>2. CASE pc'[r] = pc[r] /\ pending'[r] = pending[r]
        <4>1. StoreKept
          BY <2>1 DEF StoreKept
        <4> QED BY <1>0, <2>1, <3>2, <4>1, OthersStay
      <3> QED BY <1>9, <3>1, <3>2, CrashStops
    <2>3. Alone'
      BY <2>2 DEF SerialInv, Alone
    <2> QED BY <1>a, <2>1, <2>2, <2>3 DEF SerialInv
  <1>10. CASE UNCHANGED vars
    <2>1. UNCHANGED <<tables, s3, pc, want, seen, pending, doomed, applied>>
      BY <1>10 DEF vars, tables
    <2>2. StoreKept
      BY <2>1 DEF StoreKept
    <2>3. ASSUME NEW r \in Request
          PROVE  (InFlight(r)' <=> InFlight(r)) /\ Loaded(r)' /\ Progress(r)'
      BY <1>0, <2>1, <2>2, OthersStay
    <2>4. Alone'
      BY <2>3 DEF SerialInv, Alone
    <2> QED BY <1>a, <2>1, <2>3, <2>4 DEF SerialInv
  <1> QED
    BY <1>1, <1>2, <1>3, <1>4, <1>5, <1>6, <1>7, <1>8, <1>9, <1>10 DEF Next, Step

\* What is known of a server of one request at a time.
SerialFacts == SerialInv /\ RowsAreKeyed /\ AllWrite /\ Wishes /\ FilesInv /\ MediaPlaces

LEMMA SerialHolds ==
  ASSUME ~Overlap
  PROVE  Spec => []SerialFacts
  <1>1. Init => SerialFacts
    BY SerialInit, KeyedInit, WritesInit, WishesInit, FilesInit, PlacesInit DEF SerialFacts
  <1>2. SerialFacts /\ [Next]_vars => SerialFacts'
    BY SerialStep, KeyedStep, WritesStep, WishesStep, FilesStep, PlacesStep DEF SerialFacts
  <1> QED BY <1>1, <1>2, PTL DEF Spec

\* When requests do not overlap the slug of the product is always made of its
\* name, whatever names it is given and whatever fails: the name that an edit
\* repeats is the one that the table has.
THEOREM SerialSlugNamesProduct ==
  ASSUME ~Overlap
  PROVE  Spec => []SlugNamesProduct
  <1>1. SerialFacts => SlugNamesProduct
    BY DEF SerialFacts, SerialInv
  <1> QED BY <1>1, SerialHolds, PTL
------------------------------------------------------------------------------
(* What the commit of the one request that is served leaves. *)

Agrees(r) ==
    /\ DOMAIN seen[r].images = DOMAIN images /\ DOMAIN seen[r].documents = DOMAIN documents
    /\ \A id \in DOMAIN images : seen[r].images[id] = images[id]
    /\ \A id \in DOMAIN documents : seen[r].documents[id] = documents[id]

\* At the commit everything is uploaded, the store has been asked to delete what
\* is not kept, and the rows are the ones that were loaded.
LEMMA AtCommit ==
  ASSUME SerialFacts, NEW r \in Request, pc[r] = "commit"
  PROVE  /\ r \in Create \cup Edit /\ r \notin applied /\ ProductUpdate(want[r])
         /\ \A w \in want[r].images : ValidOrder(w)
         /\ r \in Edit => seen[r] = ProductInDB
         /\ r \in Create => DOMAIN images = {} /\ DOMAIN documents = {}
         /\ Agrees(r) /\ KeptImages(r) \subseteq DOMAIN images
         /\ By(r) \subseteq AllUploads(r)
         /\ \A key \in AllUploads(r) : key \in DOMAIN s3 /\ s3[key] \in Request \ applied
         /\ doomed[r] = Gone(r) /\ Gone(r) \cap AllUploads(r) = {}
  <1>1. /\ Loaded(r) /\ Progress(r) /\ Writes(r) /\ Uploads(r) /\ Proper(r) /\ Wished(r)
        /\ Absent /\ RowsAreKeyed
    BY DEF SerialFacts, SerialInv, AllWrite, FilesInv, MediaPlaces, Wishes
  <1>2. /\ r \in Create \cup Edit /\ r \notin applied /\ ProductUpdate(want[r])
        /\ \A w \in want[r].images : ValidOrder(w)
    BY <1>1 DEF Proper, Wished, Ordered
  <1>3. pending[r] = {}
    BY <1>1 DEF Uploads
  <1>4. ASSUME r \in Create
        PROVE  /\ Agrees(r) /\ KeptImages(r) \subseteq DOMAIN images
               /\ Gone(r) \cap AllUploads(r) = {}
               /\ r \in Edit => seen[r] = ProductInDB
               /\ r \in Create => DOMAIN images = {} /\ DOMAIN documents = {}
    <2>1. DOMAIN images = {} /\ DOMAIN documents = {}
      BY <1>1, <1>2, <1>4 DEF Loaded, InFlight, Absent
    <2>2. Agrees(r)
      BY <1>1, <1>4, <2>1 DEF Loaded, Nothing, Agrees
    <2>3. KeptImages(r) = {} /\ Gone(r) = {}
      BY <1>1, <1>4, CreationOnlyAdds
    <2> QED BY <1>4, <2>1, <2>2, <2>3, KindAssumption
  <1>5. ASSUME r \in Edit
        PROVE  /\ Agrees(r) /\ KeptImages(r) \subseteq DOMAIN images
               /\ Gone(r) \cap AllUploads(r) = {}
               /\ r \in Edit => seen[r] = ProductInDB
               /\ r \in Create => DOMAIN images = {} /\ DOMAIN documents = {}
    <2>1. seen[r] = ProductInDB
      BY <1>1, <1>5 DEF Loaded, Past
    <2>2. Agrees(r) /\ KeptImages(r) \subseteq DOMAIN images
      BY <1>1, <1>5, <2>1 DEF ProductInDB, Agrees, Writes, Matched
    <2>3. Gone(r) \cap AllUploads(r) = {}
      BY <1>1, <1>2, <2>1, GoneIsOld
    <2> QED BY <1>5, <2>1, <2>2, <2>3, KindAssumption
  <1>6. /\ Agrees(r) /\ KeptImages(r) \subseteq DOMAIN images /\ Gone(r) \cap AllUploads(r) = {}
        /\ r \in Edit => seen[r] = ProductInDB
        /\ r \in Create => DOMAIN images = {} /\ DOMAIN documents = {}
    BY <1>2, <1>4, <1>5, KindAssumption
  <1>7. \A key \in AllUploads(r) : key \in DOMAIN s3 /\ s3[key] \in Request \ applied
    BY <1>1, <1>3 DEF Progress, Past, Ordered, Stored, AllUploads
  <1>8. By(r) \subseteq AllUploads(r)
    BY <1>1 DEF By, Writes
  <1>9. doomed[r] = Gone(r)
    BY <1>1 DEF Progress, Past, Gone, InFlight
  <1> QED BY <1>2, <1>6, <1>7, <1>8, <1>9

\* The rows after the commit, for a request whose rows are the ones it loaded.
LEMMA RowsWritten ==
  ASSUME NEW r \in Request, r \notin applied, Agrees(r), RowsAreKeyed, Write(r),
         ProductUpdate(want[r]), KeptImages(r) \subseteq DOMAIN images
  PROVE  /\ DOMAIN images' = (DOMAIN images \ Dropped(r, images)) \cup NewImages(r)
         /\ NewImages(r) \cap DOMAIN images = {}
         /\ \A id \in NewImages(r) : images'[id] = Inserted(r, id)
         /\ \A id \in DOMAIN images \ Dropped(r, images) :
               /\ images'[id].files = IF id \in Replaced(r, "other")
                                      THEN [size \in Size |-> ImageKey(id, size, r)]
                                      ELSE images[id].files
               /\ images'[id].order = IF id \in KeptImages(r)
                                      THEN Listing(r, id).order ELSE images[id].order
         /\ DOMAIN documents' = (DOMAIN documents \ DroppedDocuments(r, documents))
                                    \cup NewDocuments(r)
         /\ NewDocuments(r) \cap DOMAIN documents = {}
         /\ \A id \in NewDocuments(r) : documents'[id] = DocumentKey(id)
         /\ \A id \in DOMAIN documents \ DroppedDocuments(r, documents) :
               documents'[id] = documents[id]
  <1>1. /\ Dropped(r, seen[r].images) = Dropped(r, images)
        /\ DroppedDocuments(r, seen[r].documents) = DroppedDocuments(r, documents)
    BY DEF Agrees, Dropped, DroppedDocuments
  <1>2. NewImages(r) \cap DOMAIN images = {} /\ NewDocuments(r) \cap DOMAIN documents = {}
    BY NewIds DEF RowsAreKeyed
  <1>3. /\ DOMAIN images' = (DOMAIN images \ Dropped(r, images)) \cup NewImages(r)
        /\ DOMAIN documents' = (DOMAIN documents \ DroppedDocuments(r, documents))
                                  \cup NewDocuments(r)
        /\ \A id \in DOMAIN images' :
              images'[id] = IF id \in NewImages(r) THEN Inserted(r, id)
                            ELSE IF id \in UpdatedImages(r) THEN Written(r, id) ELSE images[id]
        /\ \A id \in DOMAIN documents' :
              documents'[id] = IF id \in NewDocuments(r) THEN DocumentKey(id) ELSE documents[id]
    BY <1>1 DEF Write
  <1>4. ASSUME NEW id \in DOMAIN images \ Dropped(r, images)
        PROVE  /\ images'[id].files = IF id \in Replaced(r, "other")
                                      THEN [size \in Size |-> ImageKey(id, size, r)]
                                      ELSE images[id].files
               /\ images'[id].order = IF id \in KeptImages(r)
                                      THEN Listing(r, id).order ELSE images[id].order
    <2>1. id \in DOMAIN images' /\ id \notin NewImages(r)
      BY <1>2, <1>3
    <2>2. images'[id] = IF id \in UpdatedImages(r) THEN Written(r, id) ELSE images[id]
      BY <1>3, <2>1
    <2>3. Replaced(r, "other") \subseteq KeptImages(r)
      BY KeptAreListed
    <2>4. NewOrder(r, id) <=> Listing(r, id).order # images[id].order
      BY DEF NewOrder, Agrees
    <2>5. CASE id \in UpdatedImages(r)
      BY <2>2, <2>4, <2>5 DEF Written, UpdatedImages
    <2>6. CASE id \notin UpdatedImages(r)
      BY <2>2, <2>3, <2>4, <2>6 DEF UpdatedImages
    <2> QED BY <2>5, <2>6
  <1> QED BY <1>2, <1>3, <1>4

\* After the commit the rows name what the request uploaded and, of what they
\* named before, what it has not deleted.
LEMMA NamedWritten ==
  ASSUME SerialFacts, NEW r \in Request, pc[r] = "commit", Write(r)
  PROVE  Named' = AllUploads(r) \cup (Named \ Gone(r))
  <1>0. /\ r \in Create \cup Edit /\ r \notin applied /\ ProductUpdate(want[r])
        /\ r \in Edit => seen[r] = ProductInDB
        /\ r \in Create => DOMAIN images = {} /\ DOMAIN documents = {}
        /\ Agrees(r) /\ KeptImages(r) \subseteq DOMAIN images
        /\ Gone(r) \cap AllUploads(r) = {} /\ RowsAreKeyed
    BY AtCommit DEF SerialFacts
  <1>1. /\ DOMAIN images' = (DOMAIN images \ Dropped(r, images)) \cup NewImages(r)
        /\ NewImages(r) \cap DOMAIN images = {}
        /\ \A id \in NewImages(r) : images'[id] = Inserted(r, id)
        /\ \A id \in DOMAIN images \ Dropped(r, images) :
              images'[id].files = IF id \in Replaced(r, "other")
                                  THEN [size \in Size |-> ImageKey(id, size, r)]
                                  ELSE images[id].files
        /\ DOMAIN documents' = (DOMAIN documents \ DroppedDocuments(r, documents))
                                   \cup NewDocuments(r)
        /\ NewDocuments(r) \cap DOMAIN documents = {}
        /\ \A id \in NewDocuments(r) : documents'[id] = DocumentKey(id)
        /\ \A id \in DOMAIN documents \ DroppedDocuments(r, documents) :
              documents'[id] = documents[id]
    BY <1>0, RowsWritten
  <1>2. /\ Replaced(r, "other") \subseteq DOMAIN images \ Dropped(r, images)
        /\ Replaced(r, "same") \subseteq DOMAIN images \ Dropped(r, images)
        /\ Replaced(r, "same") \cap Replaced(r, "other") = {}
    BY <1>0, KeptAreListed, OneReplacement DEF Dropped
  \* What each kind of row names.
  <1>3. ASSUME NEW id \in NewImages(r)
        PROVE  KeysOf(images'[id]) = {ImageKey(id, size, Nobody) : size \in Size}
    BY <1>1 DEF Inserted, KeysOf, Range
  <1>4. ASSUME NEW id \in Replaced(r, "other")
        PROVE  KeysOf(images'[id]) = {ImageKey(id, size, r) : size \in Size}
    <2>1. images'[id].files = [size \in Size |-> ImageKey(id, size, r)]
      BY <1>1, <1>2
    <2> QED BY <2>1 DEF KeysOf, Range
  <1>5. ASSUME NEW id \in (DOMAIN images \ Dropped(r, images)) \ Replaced(r, "other")
        PROVE  KeysOf(images'[id]) = KeysOf(images[id])
    BY <1>1 DEF KeysOf
  <1>6. ASSUME NEW key \in AllUploads(r) PROVE key \in Named'
    <2>1. CASE key \in DocumentUploads(r)
      BY <1>1, <2>1 DEF DocumentUploads, Named, Range
    <2>2. CASE key \in ImageUploads(r)
      <3>1. PICK id \in NewImages(r) : key \in KeysOf(images'[id])
        BY <1>3, <2>2 DEF ImageUploads, ImageKeys
      <3> QED BY <1>1, <3>1 DEF Named, KeysOf
    <2>3. CASE key \in FormatUploads(r)
      <3>1. PICK id \in Replaced(r, "other") : key \in KeysOf(images'[id])
        BY <1>4, <2>3 DEF FormatUploads
      <3> QED BY <1>1, <1>2, <3>1 DEF Named, KeysOf
    <2>4. CASE key \in SameUploads(r)
      <3>1. PICK id \in Replaced(r, "same") : key \in KeysOf(images[id])
        BY <1>0, <1>2, <2>4 DEF SameUploads, Agrees
      <3>2. key \in KeysOf(images'[id])
        BY <1>2, <1>5, <3>1
      <3> QED BY <1>1, <1>2, <3>1, <3>2 DEF Named, KeysOf
    <2> QED BY <2>1, <2>2, <2>3, <2>4 DEF AllUploads
  <1>7. ASSUME NEW key \in Named, key \notin Gone(r) PROVE key \in Named'
    <2>1. CASE key \in Range(documents)
      <3>1. PICK id \in DOMAIN documents : key = documents[id]
        BY <2>1 DEF Range
      <3>2. id \notin DroppedDocuments(r, documents)
        BY <1>0, <1>7, <3>1 DEF Gone, GoneDocuments, DroppedDocuments, Agrees
      <3> QED BY <1>1, <3>1, <3>2 DEF Named, Range
    <2>2. ASSUME NEW id \in DOMAIN images, key \in KeysOf(images[id]) PROVE key \in Named'
      <3>1. id \notin Dropped(r, images)
        BY <1>0, <1>7, <2>2 DEF Gone, GoneImages, Dropped, Agrees
      <3>2. id \notin Replaced(r, "other")
        BY <1>0, <1>7, <2>2 DEF Gone, GoneFormats, Agrees
      <3>3. key \in KeysOf(images'[id])
        BY <1>5, <2>2, <3>1, <3>2
      <3> QED BY <1>1, <3>1, <3>3 DEF Named, KeysOf
    <2> QED BY <2>1, <2>2 DEF Named
  <1>8. ASSUME NEW key \in Named', key \notin AllUploads(r) PROVE key \in Named \ Gone(r)
    <2>0. \/ r \in Create /\ Named = {} /\ DOMAIN images = {} /\ DOMAIN documents = {}
          \/ seen[r] = ProductInDB
      BY <1>0 DEF Named, Range
    <2>1. CASE key \in Range(documents')
      <3>1. PICK id \in DOMAIN documents' : key = documents'[id]
        BY <2>1 DEF Range
      <3>2. id \notin NewDocuments(r)
        BY <1>1, <1>8, <3>1 DEF AllUploads, DocumentUploads
      <3>3. id \in DOMAIN documents \ DroppedDocuments(r, documents) /\ key = documents[id]
        BY <1>1, <3>1, <3>2
      <3>4. key = <<id>> /\ key \in Named /\ seen[r] = ProductInDB
        BY <1>0, <2>0, <3>3 DEF RowsAreKeyed, DocumentKey, Named, Range
      <3>5. key \notin GoneDocuments(r)
        BY <1>0, <3>3, <3>4, GoneKeys DEF DroppedDocuments
      <3>6. key \notin GoneFormats(r) \cup GoneImages(r)
        <4>1. \A a, b, c : key # <<a, b, c>>
          BY <3>4
        <4> QED BY <1>0, <3>4, <4>1, GoneKeys
      <3> QED BY <3>4, <3>5, <3>6 DEF Gone
    <2>2. ASSUME NEW id \in DOMAIN images', key \in KeysOf(images'[id])
          PROVE  key \in Named \ Gone(r)
      <3>1. id \notin NewImages(r)
        BY <1>3, <1>8, <2>2 DEF AllUploads, ImageUploads, ImageKeys
      <3>2. id \notin Replaced(r, "other")
        BY <1>4, <1>8, <2>2 DEF AllUploads, FormatUploads
      <3>3. id \in DOMAIN images \ Dropped(r, images) /\ key \in KeysOf(images[id])
        BY <1>1, <1>5, <2>2, <3>1, <3>2
      <3>4. key \in Named /\ seen[r] = ProductInDB
        BY <2>0, <3>3 DEF Named, KeysOf
      <3>5. PICK size \in Size, v \in applied \cup {Nobody} : key = <<id, size, v>>
        <4>1. PICK v \in applied \cup {Nobody} :
                 images[id].files = [size \in Size |-> ImageKey(id, size, v)]
          BY <1>0, <3>3 DEF RowsAreKeyed
        <4> QED BY <3>3, <4>1 DEF KeysOf, Range, ImageKey
      <3>6. key \notin GoneDocuments(r)
        <4>1. \A d : key # <<d>>
          BY <3>5
        <4> QED BY <1>0, <3>4, <4>1, GoneKeys
      <3>7. key \notin GoneFormats(r)
        BY <1>0, <3>2, <3>4, <3>5, GoneKeys
      <3>8. key \notin GoneImages(r)
        BY <1>0, <3>3, <3>4, <3>5, GoneKeys DEF Dropped
      <3> QED BY <3>4, <3>6, <3>7, <3>8 DEF Gone
    <2>3. key \in Range(documents') \/ \E id \in DOMAIN images' : key \in KeysOf(images'[id])
      BY <1>8 DEF Named, KeysOf
    <2> QED BY <2>1, <2>2, <2>3
  <1> QED BY <1>6, <1>7, <1>8
------------------------------------------------------------------------------
(* What a step does to the tables and to the store. *)

Commits(r) == pc[r] = "commit" /\ Write(r) /\ UNCHANGED <<s3, doomed>>
Stores(r, key) ==
    /\ UNCHANGED <<tables, applied, doomed>>
    /\ s3' = [k \in DOMAIN s3 \cup {key} |-> IF k = key THEN r ELSE s3[k]]
Removes(r, keys) ==
    /\ UNCHANGED <<tables, applied>>
    /\ doomed' = [doomed EXCEPT ![r] = @ \cup keys]
    /\ \E gone \in SUBSET keys : s3' = [k \in DOMAIN s3 \ gone |-> s3[k]]

LEMMA SerialChange ==
  ASSUME SerialFacts, [Next]_vars
  PROVE  \/ UNCHANGED <<tables, applied, s3, doomed>>
         \/ \E r \in Request : Commits(r)
         \/ \E r \in (Create \cup Edit) \ applied : \E key \in pending[r] : Stores(r, key)
         \/ \E r \in Edit \ applied :
               \E keys \in {GoneDocuments(r), GoneFormats(r), GoneImages(r)} :
                  seen[r] = ProductInDB /\ Removes(r, keys)
  <1>1. ASSUME NEW r \in Request, NEW key \in pending[r], Upload(r, key)
        PROVE  \/ UNCHANGED <<tables, applied, s3, doomed>>
               \/ r \in (Create \cup Edit) \ applied /\ Stores(r, key)
    <2>1. Writes(r)
      BY DEF SerialFacts, AllWrite
    <2>2. r \in (Create \cup Edit) \ applied
      BY <1>1, <2>1 DEF Writes, Request
    <2> QED BY <1>1, <2>2 DEF Upload, Stores, local
  <1>2. ASSUME NEW r \in Request, DeleteDocuments(r) \/ DeleteReplaced(r) \/ DeleteImages(r)
        PROVE  \E q \in Edit \ applied :
                  \E keys \in {GoneDocuments(q), GoneFormats(q), GoneImages(q)} :
                     seen[q] = ProductInDB /\ Removes(q, keys)
    <2>1. \A keys, next : DeleteFiles(r, keys, next) /\ UNCHANGED <<tables, applied>>
             => Removes(r, keys)
      BY DEF DeleteFiles, Removes
    <2> QED BY <1>2, <2>1, DeletesGone DEF SerialFacts
  <1>3. ASSUME NEW r \in Request, Commit(r)
        PROVE  UNCHANGED <<tables, applied, s3, doomed>> \/ Commits(r)
    BY <1>3 DEF Commit, Commits, local
  <1>4. ASSUME NEW r \in Request,
               \/ Arrive(r) \/ Validate(r) \/ NewImagesUploaded(r) \/ NewDocumentsUploaded(r)
               \/ LoadProduct(r) \/ CheckDocuments(r) \/ CheckImages(r) \/ UpdateImages(r)
               \/ Refresh(r) \/ FindDocument(r) \/ FetchFile(r) \/ QueryFails(r)
        PROVE  UNCHANGED <<tables, applied, s3, doomed>>
    BY <1>4 DEF Arrive, Validate, NewImagesUploaded, NewDocumentsUploaded, LoadProduct,
                CheckDocuments, CheckImages, UpdateImages, Refresh, FindDocument, FetchFile,
                QueryFails, local
  <1>5. CASE Crash \/ UNCHANGED vars
    BY <1>5 DEF Crash, vars, tables, local
  <1> QED BY <1>1, <1>2, <1>3, <1>4, <1>5 DEF Next, Step

\* Only an edit deletes anything.
LEMMA GoneOfAnEdit ==
  ASSUME SerialFacts, NEW r \in Request, pc[r] = "commit", Gone(r) # {}
  PROVE  r \in Edit
  <1>1. r \in Create \cup Edit /\ Wished(r) /\ Loaded(r)
    BY AtCommit DEF SerialFacts, SerialInv, Wishes
  <1> QED BY <1>1, CreationOnlyAdds

LEMMA SameNames == ASSUME UNCHANGED tables PROVE Named' = Named
  BY DEF tables, Named, Range, KeysOf

LEMMA NamedInit == Init => Named = DOMAIN s3
  BY DEF Init, Named, Range, KeysOf
------------------------------------------------------------------------------
LEMMA DanglingStep == DanglingHasCulprit /\ SerialFacts /\ [Next]_vars => DanglingHasCulprit'
  <1> SUFFICES ASSUME DanglingHasCulprit, SerialFacts, [Next]_vars,
                      NEW key \in Named', key \notin DOMAIN s3'
               PROVE  \E q \in Edit \ applied' : key \in doomed'[q]
    BY DEF DanglingHasCulprit
  <1>0. DOMAIN doomed = Request
    BY DEF SerialFacts, FilesInv, MediaDomains
  <1>1. CASE UNCHANGED <<tables, applied, s3, doomed>>
    BY <1>1, SameNames DEF DanglingHasCulprit
  <1>2. ASSUME NEW r \in Request, Commits(r)
        PROVE  \E q \in Edit \ applied' : key \in doomed'[q]
    <2>1. /\ pc[r] = "commit" /\ Write(r) /\ UNCHANGED <<s3, doomed>>
          /\ applied' = applied \cup {r}
      BY <1>2 DEF Commits, Write
    <2>2. /\ Named' = AllUploads(r) \cup (Named \ Gone(r))
          /\ AllUploads(r) \subseteq DOMAIN s3 /\ doomed[r] = Gone(r)
      BY <2>1, AtCommit, NamedWritten
    <2>3. key \in Named \ DOMAIN s3 /\ key \notin doomed[r]
      BY <2>1, <2>2
    <2>4. PICK q \in Edit \ applied : key \in doomed[q]
      BY <2>3 DEF DanglingHasCulprit
    <2> QED BY <2>1, <2>3, <2>4
  <1>3. ASSUME NEW r \in (Create \cup Edit) \ applied, NEW new \in pending[r], Stores(r, new)
        PROVE  \E q \in Edit \ applied' : key \in doomed'[q]
    <2>1. UNCHANGED <<tables, applied, doomed>> /\ DOMAIN s3 \subseteq DOMAIN s3'
      BY <1>3 DEF Stores
    <2> QED BY <2>1, SameNames DEF DanglingHasCulprit
  <1>4. ASSUME NEW r \in Edit \ applied, NEW keys, Removes(r, keys)
        PROVE  \E q \in Edit \ applied' : key \in doomed'[q]
    <2>1. /\ UNCHANGED <<tables, applied>> /\ DOMAIN s3 \ keys \subseteq DOMAIN s3'
          /\ doomed' = [doomed EXCEPT ![r] = @ \cup keys]
      BY <1>4 DEF Removes
    <2>2. /\ r \in Request /\ doomed'[r] = doomed[r] \cup keys
          /\ \A q \in Request : doomed[q] \subseteq doomed'[q]
      BY <1>0, <2>1 DEF Request
    <2>3. CASE key \in keys
      BY <2>1, <2>2, <2>3
    <2>4. CASE key \notin keys
      <3>1. key \in Named \ DOMAIN s3
        BY <2>1, <2>4, SameNames
      <3>2. PICK q \in Edit \ applied : key \in doomed[q]
        BY <3>1 DEF DanglingHasCulprit
      <3> QED BY <2>1, <2>2, <3>2 DEF Request
    <2> QED BY <2>3, <2>4
  <1> QED BY <1>1, <1>2, <1>3, <1>4, SerialChange

\* When requests do not overlap, a row of the tables that names a missing file
\* lost it to an edit that deleted it and did not commit, for any wishes and
\* any faults: a commit leaves no row without its file.
THEOREM SerialDanglingHasCulprit ==
  ASSUME ~Overlap
  PROVE  Spec => []DanglingHasCulprit
  <1>1. Init => DanglingHasCulprit
    BY NamedInit DEF DanglingHasCulprit
  <1> QED BY <1>1, DanglingStep, SerialHolds, PTL DEF Spec

LEMMA OrphanStep == OrphanHasCause /\ SerialFacts /\ [Next]_vars => OrphanHasCause'
  <1> DEFINE Cause(k) == \/ s3[k] \in Request \ applied
                         \/ \E q \in Edit \cap applied : k \in doomed[q]
  <1> SUFFICES ASSUME OrphanHasCause, SerialFacts, [Next]_vars,
                      NEW key \in DOMAIN s3', key \notin Named'
               PROVE  Cause(key)'
    BY DEF OrphanHasCause
  <1>0. DOMAIN doomed = Request /\ (key \in DOMAIN s3 \ Named => Cause(key))
    BY DEF SerialFacts, FilesInv, MediaDomains, OrphanHasCause
  <1>1. CASE UNCHANGED <<tables, applied, s3, doomed>>
    BY <1>0, <1>1, SameNames
  <1>2. ASSUME NEW r \in Request, Commits(r) PROVE Cause(key)'
    <2>1. /\ pc[r] = "commit" /\ Write(r) /\ UNCHANGED <<s3, doomed>>
          /\ applied' = applied \cup {r}
      BY <1>2 DEF Commits, Write
    <2>2. /\ Named' = AllUploads(r) \cup (Named \ Gone(r))
          /\ By(r) \subseteq AllUploads(r) /\ doomed[r] = Gone(r)
      BY <2>1, AtCommit, NamedWritten
    <2>3. CASE key \in Gone(r)
      <3>1. r \in Edit
        BY <2>1, <2>3, GoneOfAnEdit
      <3> QED BY <2>1, <2>2, <2>3, <3>1
    <2>4. CASE key \notin Gone(r)
      <3>1. key \in DOMAIN s3 \ Named /\ s3[key] # r
        BY <2>1, <2>2, <2>4 DEF By
      <3> QED BY <1>0, <2>1, <3>1
    <2> QED BY <2>3, <2>4
  <1>3. ASSUME NEW r \in (Create \cup Edit) \ applied, NEW new \in pending[r], Stores(r, new)
        PROVE  Cause(key)'
    <2>1. /\ UNCHANGED <<tables, applied, doomed>>
          /\ s3' = [k \in DOMAIN s3 \cup {new} |-> IF k = new THEN r ELSE s3[k]]
      BY <1>3 DEF Stores
    <2>2. CASE key = new
      BY <2>1, <2>2 DEF Request
    <2>3. CASE key # new
      BY <1>0, <2>1, <2>3, SameNames
    <2> QED BY <2>2, <2>3
  <1>4. ASSUME NEW r \in Edit \ applied, NEW keys, Removes(r, keys) PROVE Cause(key)'
    <2>1. /\ UNCHANGED <<tables, applied>> /\ key \in DOMAIN s3 /\ s3'[key] = s3[key]
          /\ doomed' = [doomed EXCEPT ![r] = @ \cup keys]
      BY <1>4 DEF Removes
    <2>2. Cause(key)
      BY <1>0, <2>1, SameNames
    <2>3. \A q \in Request : doomed[q] \subseteq doomed'[q]
      BY <1>0, <2>1
    <2> QED BY <2>1, <2>2, <2>3 DEF Request
  <1> QED BY <1>1, <1>2, <1>3, <1>4, SerialChange

\* When requests do not overlap, a file that no row names was uploaded by a
\* request that did not commit, or an edit that committed has asked the store to
\* delete it and the store has not: whatever else fails, also the threads of
\* failed requests that go on, a commit leaves no other file behind.
THEOREM SerialOrphanHasCause ==
  ASSUME ~Overlap
  PROVE  Spec => []OrphanHasCause
  <1>1. Init => OrphanHasCause
    BY NamedInit DEF OrphanHasCause
  <1> QED BY <1>1, OrphanStep, SerialHolds, PTL DEF Spec
------------------------------------------------------------------------------
(* The order of the images. *)

\* A set that a sequence of n different elements enumerates has n elements.
LEMMA Enumerated ==
  ASSUME NEW S, NEW n \in Nat, NEW f \in [1..n -> S],
         \A i, j \in 1..n : f[i] = f[j] => i = j, \A x \in S : \E i \in 1..n : f[i] = x
  PROVE  IsFiniteSet(S) /\ Cardinality(S) = n
  <1>1. f \in Bijection(1..n, S)
    BY DEF Bijection, Injection, Surjection, IsInjective
  <1>2. ExistsBijection(1..n, S)
    BY <1>1 DEF ExistsBijection
  <1> QED BY <1>2, FS_CountingElements, FS_NatBijection

\* A list of images makes as many new rows as it has new images.
LEMMA NewImagesCounted ==
  ASSUME NEW r \in Request, ProductUpdate(want[r]), NEW list \in want[r].images
  PROVE  /\ NewImages(r) = {<<r, n>> : n \in DOMAIN list.add}
         /\ KeptImages(r) = DOMAIN list.keep
         /\ IsFiniteSet(NewImages(r)) /\ Cardinality(NewImages(r)) = Len(list.add)
  <1>1. want[r].images = {list} /\ list.add \in Seq(Int)
    BY OneList DEF ProductUpdate
  <1>2. /\ NewImages(r) = {<<r, n>> : n \in DOMAIN list.add} /\ KeptImages(r) = DOMAIN list.keep
    BY <1>1 DEF NewImages, KeptImages
  <1>3. DOMAIN list.add = 1..Len(list.add) /\ Len(list.add) \in Nat
    BY <1>1, LenProperties
  <1> DEFINE f == [n \in 1..Len(list.add) |-> <<r, n>>]
  <1>4. /\ f \in [1..Len(list.add) -> NewImages(r)]
        /\ \A i, j \in 1..Len(list.add) : f[i] = f[j] => i = j
        /\ \A x \in NewImages(r) : \E i \in 1..Len(list.add) : f[i] = x
    BY <1>2, <1>3
  <1> HIDE DEF f
  <1> QED BY <1>2, <1>3, <1>4, Enumerated

LEMMA OrderInit == Init => OrderIsContiguous
  <1> SUFFICES ASSUME Init PROVE OrderIsContiguous
    OBVIOUS
  <1> DEFINE len == Len(Image0)
             place(id) == CHOOSE n \in DOMAIN Image0 : Image0[n] = id
  <1>1. /\ DOMAIN Image0 = 1..len /\ len \in Nat
        /\ \A i, j \in 1..len : Image0[i] = Image0[j] => i = j
    BY StartAssumption, LenProperties DEF IsInjective
  <1>2. DOMAIN images = IF exists THEN Range(Image0) ELSE {}
    BY DEF Init
  <1>3. ASSUME NEW id \in DOMAIN images PROVE images[id].order = place(id) - 1
    BY DEF Init
  <1>4. CASE ~exists
    <2>1. DOMAIN images = {} /\ Cardinality({}) = 0
      BY <1>2, <1>4, FS_EmptySet
    <2> QED BY <2>1 DEF OrderIsContiguous
  <1>5. CASE exists
    <2>1. DOMAIN images = Range(Image0)
      BY <1>2, <1>5
    <2>2. Cardinality(Range(Image0)) = len
      <3>1. /\ Image0 \in [1..len -> Range(Image0)]
            /\ \A x \in Range(Image0) : \E i \in 1..len : Image0[i] = x
        BY <1>1, StartAssumption DEF Range
      <3> QED BY <1>1, <3>1, Enumerated
    <2>3. ASSUME NEW id \in DOMAIN images PROVE place(id) \in 1..len /\ Image0[place(id)] = id
      <3>1. \E n \in DOMAIN Image0 : Image0[n] = id
        BY <2>1, <2>3 DEF Range
      <3> QED BY <1>1, <3>1
    <2>4. ASSUME NEW id \in DOMAIN images PROVE images[id].order \in 0..(len - 1)
      <3> HIDE DEF place
      <3> QED BY <1>1, <1>3, <2>3, <2>4
    <2>5. ASSUME NEW m \in 0..(len - 1) PROVE \E id \in DOMAIN images : images[id].order = m
      <3>1. m + 1 \in 1..len
        BY <1>1, <2>5
      <3>2. Image0[m + 1] \in DOMAIN images
        BY <1>1, <2>1, <3>1 DEF Range
      <3>3. place(Image0[m + 1]) = m + 1
        BY <1>1, <2>3, <3>1, <3>2
      <3> HIDE DEF place
      <3>4. images[Image0[m + 1]].order = m
        BY <1>1, <1>3, <3>1, <3>2, <3>3, <2>5
      <3> QED BY <3>2, <3>4
    <2> QED BY <2>1, <2>2, <2>4, <2>5 DEF OrderIsContiguous
  <1> QED BY <1>4, <1>5

LEMMA OrderWritten ==
  ASSUME OrderIsContiguous, SerialFacts, NEW r \in Request, pc[r] = "commit", Write(r)
  PROVE  OrderIsContiguous'
  <1>0. /\ r \notin applied /\ ProductUpdate(want[r]) /\ RowsAreKeyed
        /\ \A w \in want[r].images : ValidOrder(w)
        /\ Agrees(r) /\ KeptImages(r) \subseteq DOMAIN images
    BY AtCommit DEF SerialFacts
  <1>1. /\ DOMAIN images' = (DOMAIN images \ Dropped(r, images)) \cup NewImages(r)
        /\ NewImages(r) \cap DOMAIN images = {}
        /\ \A id \in NewImages(r) : images'[id] = Inserted(r, id)
        /\ \A id \in DOMAIN images \ Dropped(r, images) :
              images'[id].order = IF id \in KeptImages(r)
                                  THEN Listing(r, id).order ELSE images[id].order
    BY <1>0, RowsWritten
  <1>2. CASE want[r].images = {}
    <2>1. Dropped(r, images) = {} /\ NewImages(r) = {} /\ KeptImages(r) = {}
      BY <1>2 DEF Dropped, NewImages, KeptImages
    <2>2. /\ DOMAIN images' = DOMAIN images
          /\ \A id \in DOMAIN images : images'[id].order = images[id].order
      BY <1>1, <2>1
    <2>3. {images'[id].order : id \in DOMAIN images'} = {images[id].order : id \in DOMAIN images}
      BY <2>2
    <2> QED BY <2>2, <2>3 DEF OrderIsContiguous
  <1>3. ASSUME NEW list \in want[r].images PROVE OrderIsContiguous'
    <2>1. /\ NewImages(r) = {<<r, n>> : n \in DOMAIN list.add}
          /\ KeptImages(r) = DOMAIN list.keep
          /\ IsFiniteSet(NewImages(r)) /\ Cardinality(NewImages(r)) = Len(list.add)
      BY <1>0, NewImagesCounted
    <2>2. ListOf(r) = list /\ ValidOrder(list) /\ IsFiniteSet(DOMAIN list.keep)
      BY <1>0, <1>3, OneList DEF ProductUpdate
    <2>3. DOMAIN images \ Dropped(r, images) = KeptImages(r)
      BY <1>0, <1>3 DEF Dropped
    <2>4. /\ DOMAIN images' = DOMAIN list.keep \cup NewImages(r)
          /\ DOMAIN list.keep \cap NewImages(r) = {}
      BY <1>0, <1>1, <2>1, <2>3
    <2>5. Cardinality(DOMAIN images') = Cardinality(DOMAIN list.keep) + Len(list.add)
      <3>1. Cardinality(DOMAIN list.keep \cup NewImages(r))
               = Cardinality(DOMAIN list.keep) + Cardinality(NewImages(r)) - Cardinality({})
        BY <2>1, <2>2, <2>4, FS_Union
      <3>2. Cardinality({}) = 0 /\ Cardinality(DOMAIN list.keep) \in Nat
            /\ Cardinality(NewImages(r)) \in Nat
        BY <2>1, <2>2, FS_EmptySet, FS_CardinalityType
      <3> QED BY <2>1, <2>4, <3>1, <3>2
    <2>6. \A id \in DOMAIN list.keep : images'[id].order = list.keep[id].order
      BY <1>1, <2>1, <2>2, <2>3 DEF Listing, ListOf
    <2>7. \A n \in DOMAIN list.add :
             <<r, n>> \in NewImages(r) /\ images'[<<r, n>>].order = list.add[n]
      <3>1. ASSUME NEW n \in DOMAIN list.add
            PROVE  <<r, n>> \in NewImages(r) /\ images'[<<r, n>>].order = list.add[n]
        <4>1. <<r, n>> \in NewImages(r)
          BY <2>1
        <4>2. images'[<<r, n>>] = Inserted(r, <<r, n>>)
          BY <1>1, <4>1
        <4>3. Inserted(r, <<r, n>>).order = list.add[n]
          BY <2>2 DEF Inserted, ListOf
        <4> QED BY <4>1, <4>2, <4>3
      <3> QED BY <3>1
    <2>8. {images'[id].order : id \in DOMAIN images'}
             = {list.keep[id].order : id \in DOMAIN list.keep}
                  \cup {list.add[n] : n \in DOMAIN list.add}
      <3>1. ASSUME NEW id \in DOMAIN images'
            PROVE  images'[id].order \in {list.keep[i].order : i \in DOMAIN list.keep}
                                            \cup {list.add[n] : n \in DOMAIN list.add}
        BY <2>1, <2>4, <2>6, <2>7
      <3>2. \A id \in DOMAIN list.keep :
               list.keep[id].order \in {images'[i].order : i \in DOMAIN images'}
        BY <2>4, <2>6
      <3>3. \A n \in DOMAIN list.add : list.add[n] \in {images'[i].order : i \in DOMAIN images'}
        BY <2>4, <2>7
      <3> QED BY <3>1, <3>2, <3>3
    <2> DEFINE orders == {list.keep[id].order : id \in DOMAIN list.keep}
                           \cup {list.add[n] : n \in DOMAIN list.add}
    <2>9. orders = 0 .. (Cardinality(DOMAIN images') - 1)
      <3>1. orders = 0 .. (Cardinality(DOMAIN list.keep) + Len(list.add) - 1)
        BY <2>2, Zenon DEF ValidOrder
      <3>2. Cardinality(DOMAIN list.keep) \in Nat /\ Len(list.add) \in Nat
        BY <2>1, <2>2, FS_CardinalityType
      <3> HIDE DEF orders
      <3> QED BY <2>5, <3>1, <3>2
    <2> QED BY <2>8, <2>9, Zenon DEF OrderIsContiguous
  <1> QED BY <1>2, <1>3

\* When requests do not overlap the images of the product are numbered 0, 1, ...
\* at every moment, whatever lists it is given and whatever fails.
THEOREM SerialOrderIsContiguous ==
  ASSUME ~Overlap
  PROVE  Spec => []OrderIsContiguous
  <1>1. OrderIsContiguous /\ SerialFacts /\ [Next]_vars => OrderIsContiguous'
    <2> SUFFICES ASSUME OrderIsContiguous, SerialFacts, [Next]_vars PROVE OrderIsContiguous'
      OBVIOUS
    <2>1. CASE UNCHANGED <<tables, applied>>
      BY <2>1 DEF tables, OrderIsContiguous
    <2>2. ASSUME NEW r \in Request, pc[r] = "commit", Write(r) PROVE OrderIsContiguous'
      BY <2>2, OrderWritten
    <2> QED BY <2>1, <2>2, TablesChange
  <1> QED BY <1>1, OrderInit, SerialHolds, PTL DEF Spec
------------------------------------------------------------------------------
(* The renditions of an image. *)

\* Who wrote the files that a row of the image table names: one request, beside
\* the edits that did not commit.  (A deletion may take some of the files only.)
Writers(id) == {s3[key] : key \in KeysOf(images[id]) \cap DOMAIN s3}
OnePicture(id) == \A v, w \in Writers(id) \ (Edit \ applied) : v = w

LEMMA RowKeys ==
  ASSUME RowsAreKeyed, NEW id \in DOMAIN images, NEW key \in KeysOf(images[id])
  PROVE  \E size \in Size, v \in applied \cup {Nobody} : key = <<id, size, v>>
  <1>1. PICK v \in applied \cup {Nobody} :
           images[id].files = [size \in Size |-> ImageKey(id, size, v)]
    BY DEF RowsAreKeyed
  <1> QED BY <1>1 DEF KeysOf, Range, ImageKey

\* What a creation uploads is called after its own new rows.
LEMMA CreationUploads ==
  ASSUME SerialFacts, NEW r \in Create, NEW key \in AllUploads(r)
  PROVE  \E n \in Nat : \/ key = << <<r, n>> >>
                      \/ \E size \in Size : key = << <<r, n>>, size, Nobody>>
  <1>1. /\ r \in Request /\ Wished(r) /\ Loaded(r) /\ RowsAreKeyed /\ ProductUpdate(want[r])
    BY DEF SerialFacts, SerialInv, Wishes, Wished, Request
  <1>2. key \in DocumentUploads(r) \cup ImageUploads(r)
    BY <1>1, CreationOnlyAdds DEF AllUploads
  <1> QED BY <1>1, <1>2, UploadKeys

\* After the commit an image that the request has touched is its own, and any
\* other is as it was.
LEMMA PictureWritten ==
  ASSUME \A id \in DOMAIN images : OnePicture(id), SerialFacts, NEW r \in Request, Commits(r),
         NEW id \in DOMAIN images'
  PROVE  OnePicture(id)'
  <1>0. /\ pc[r] = "commit" /\ Write(r) /\ UNCHANGED s3 /\ applied' = applied \cup {r}
        /\ RowsAreKeyed
    BY DEF Commits, Write, SerialFacts
  <1>1. /\ r \in Create \cup Edit /\ r \notin applied /\ ProductUpdate(want[r])
        /\ r \in Edit => seen[r] = ProductInDB
        /\ r \in Create => DOMAIN images = {}
        /\ Agrees(r) /\ KeptImages(r) \subseteq DOMAIN images /\ By(r) \subseteq AllUploads(r)
        /\ \A key \in AllUploads(r) : key \in DOMAIN s3 /\ s3[key] \in Request \ applied
    BY <1>0, AtCommit
  <1>2. /\ DOMAIN images' = (DOMAIN images \ Dropped(r, images)) \cup NewImages(r)
        /\ \A new \in NewImages(r) : images'[new] = Inserted(r, new)
        /\ \A old \in DOMAIN images \ Dropped(r, images) :
              images'[old].files = IF old \in Replaced(r, "other")
                                   THEN [size \in Size |-> ImageKey(old, size, r)]
                                   ELSE images[old].files
    BY <1>0, <1>1, RowsWritten
  \* All its files are by the request, or by edits that did not commit.
  <1>3. ASSUME KeysOf(images'[id]) \subseteq AllUploads(r),
               \A key \in KeysOf(images'[id]) : \E size, v : key = <<id, size, v>>,
               \A q \in Request \ applied' : \A n \in Nat : id # <<q, n>>
        PROVE  OnePicture(id)'
    <2>1. ASSUME NEW key \in KeysOf(images'[id]), s3[key] \notin Edit \ applied'
          PROVE  s3[key] = r
      <3>1. /\ key \in AllUploads(r) /\ key \in DOMAIN s3 /\ s3[key] \in Request \ applied
            /\ \E size, v : key = <<id, size, v>>
        BY <1>1, <1>3, <2>1
      <3>2. SUFFICES ASSUME s3[key] # r PROVE FALSE
        OBVIOUS
      <3>3. s3[key] \in Create /\ s3[key] \in Request \ applied' /\ key \in AllUploads(s3[key])
        BY <1>0, <2>1, <3>1, <3>2 DEF SerialFacts, AllWrite, Writes, Request
      <3>4. PICK n \in Nat : \/ key = << <<s3[key], n>> >>
                             \/ \E size \in Size : key = << <<s3[key], n>>, size, Nobody>>
        BY <3>3, CreationUploads
      <3>5. id = <<s3[key], n>>
        BY <3>1, <3>4
      <3> QED BY <1>3, <3>3, <3>5
    <2> QED BY <1>0, <2>1 DEF OnePicture, Writers
  <1>4. CASE id \in NewImages(r)
    <2>1. /\ KeysOf(images'[id]) \subseteq ImageUploads(r)
          /\ \A key \in KeysOf(images'[id]) : \E size, v : key = <<id, size, v>>
      BY <1>2, <1>4 DEF Inserted, KeysOf, Range, ImageUploads, ImageKeys, ImageKey
    <2>2. \A q \in Request \ applied' : \A n \in Nat : id # <<q, n>>
      BY <1>0, <1>1, <1>4, NewIds
    <2> QED BY <1>3, <2>1, <2>2 DEF AllUploads
  <1>a. ASSUME id \in DOMAIN images PROVE \A q \in Request \ applied' : \A n \in Nat : id # <<q, n>>
    BY <1>0, <1>a DEF RowsAreKeyed
  <1>5. CASE id \notin NewImages(r) /\ id \in Replaced(r, "other")
    <2>1. images'[id].files = [size \in Size |-> ImageKey(id, size, r)]
      BY <1>2, <1>5
    <2>2. /\ KeysOf(images'[id]) \subseteq FormatUploads(r)
          /\ \A key \in KeysOf(images'[id]) : \E size, v : key = <<id, size, v>>
      BY <1>5, <2>1 DEF KeysOf, Range, FormatUploads, ImageKey
    <2> QED BY <1>2, <1>3, <1>5, <1>a, <2>2 DEF AllUploads
  <1>6. CASE id \notin NewImages(r) /\ id \notin Replaced(r, "other")
    <2>1. id \in DOMAIN images /\ KeysOf(images'[id]) = KeysOf(images[id])
      BY <1>2, <1>6 DEF KeysOf
    <2>2. CASE id \in Replaced(r, "same")
      <3>1. KeysOf(images'[id]) \subseteq SameUploads(r)
        BY <1>1, <2>1, <2>2 DEF SameUploads, Agrees
      <3>2. \A key \in KeysOf(images'[id]) : \E size, v : key = <<id, size, v>>
        BY <1>0, <2>1, RowKeys
      <3> QED BY <1>3, <1>a, <2>1, <3>1, <3>2 DEF AllUploads
    <2>3. CASE id \notin Replaced(r, "same")
      <3>1. seen[r] = ProductInDB
        BY <1>1, <2>1
      <3>2. ASSUME NEW key \in KeysOf(images[id]), key \in AllUploads(r) PROVE FALSE
        <4>1. PICK size \in Size, v \in applied \cup {Nobody} : key = <<id, size, v>>
          BY <1>0, <2>1, RowKeys
        <4>2. key \notin DocumentUploads(r)
          <5>1. \A d : key # <<d>>
            BY <4>1
          <5> QED BY <1>0, <1>1, <5>1, UploadKeys
        <4>3. key \notin ImageUploads(r)
          <5>1. \A n \in Nat : id # <<r, n>>
            BY <1>0, <1>1, <2>1 DEF RowsAreKeyed
          <5> QED BY <1>0, <1>1, <4>1, <5>1, UploadKeys
        <4>4. key \notin FormatUploads(r) \cup SameUploads(r)
          BY <1>0, <1>1, <1>6, <2>3, <3>1, <4>1, UploadKeys
        <4> QED BY <3>2, <4>2, <4>3, <4>4 DEF AllUploads
      <3>3. r \notin Writers(id)
        BY <1>1, <3>2 DEF Writers, By, KeysOf
      <3>4. Writers(id)' = Writers(id) /\ OnePicture(id)
        BY <1>0, <2>1 DEF Writers
      <3> QED BY <1>0, <3>3, <3>4 DEF OnePicture
    <2> QED BY <2>2, <2>3
  <1> QED BY <1>4, <1>5, <1>6

LEMMA PicturesStep ==
  ASSUME \A id \in DOMAIN images : OnePicture(id), SerialFacts, [Next]_vars
  PROVE  (\A id \in DOMAIN images : OnePicture(id))'
  <1> SUFFICES ASSUME NEW id \in DOMAIN images' PROVE OnePicture(id)'
    OBVIOUS
  <1>1. CASE UNCHANGED <<tables, applied, s3, doomed>>
    BY <1>1 DEF tables, OnePicture, Writers
  <1>2. ASSUME NEW r \in Request, Commits(r) PROVE OnePicture(id)'
    BY <1>2, PictureWritten
  <1>3. ASSUME NEW r \in (Create \cup Edit) \ applied, NEW new \in pending[r], Stores(r, new)
        PROVE  OnePicture(id)'
    <2>1. /\ UNCHANGED <<images, applied>>
          /\ s3' = [k \in DOMAIN s3 \cup {new} |-> IF k = new THEN r ELSE s3[k]]
      BY <1>3 DEF Stores, tables
    <2>2. CASE r \in Create /\ new \in KeysOf(images[id])
      <3>1. new \in AllUploads(r) /\ RowsAreKeyed /\ r \in Request \ applied
        BY <1>3 DEF SerialFacts, AllWrite, Writes, Request
      <3>2. PICK size \in Size, v \in applied \cup {Nobody} : new = <<id, size, v>>
        BY <2>1, <2>2, <3>1, RowKeys
      <3>3. \A n \in Nat : id # <<r, n>>
        BY <2>1, <3>1 DEF RowsAreKeyed
      <3> QED BY <2>2, <3>1, <3>2, <3>3, CreationUploads
    <2>3. CASE r \in Edit /\ new \in KeysOf(images[id])
      <3>1. Writers(id)' \subseteq Writers(id) \cup {r}
        BY <2>1 DEF Writers
      <3> QED BY <1>3, <2>1, <2>3, <3>1 DEF OnePicture
    <2>4. CASE new \notin KeysOf(images[id])
      <3>1. Writers(id)' = Writers(id) /\ OnePicture(id)
        BY <2>1, <2>4 DEF Writers
      <3> QED BY <2>1, <3>1 DEF OnePicture
    <2> QED BY <2>2, <2>3, <2>4
  <1>4. ASSUME NEW r \in Edit \ applied,
               NEW keys \in {GoneDocuments(r), GoneFormats(r), GoneImages(r)},
               seen[r] = ProductInDB, Removes(r, keys)
        PROVE  OnePicture(id)'
    <2>1. /\ UNCHANGED <<images, applied>>
          /\ \A key \in DOMAIN s3' : key \in DOMAIN s3 /\ s3'[key] = s3[key]
      BY <1>4 DEF Removes, tables
    <2>2. Writers(id)' \subseteq Writers(id)
      BY <2>1 DEF Writers
    <2> QED BY <2>1, <2>2 DEF OnePicture
  <1> QED BY <1>1, <1>2, <1>3, <1>4, SerialChange

\* When requests do not overlap, the renditions of an image show one picture
\* unless an edit that did not commit has overwritten some of them.
THEOREM SerialRenditionsAgree ==
  ASSUME ~Overlap
  PROVE  Spec => []RenditionsAgree
  <1> DEFINE Pictures == \A id \in DOMAIN images : OnePicture(id)
  <1>1. Init => Pictures
    <2> SUFFICES ASSUME Init, NEW id \in DOMAIN images PROVE OnePicture(id)
      OBVIOUS
    <2>1. \A key \in DOMAIN s3 : s3[key] = Nobody
      BY DEF Init
    <2> QED BY <2>1 DEF OnePicture, Writers
  <1>2. Pictures /\ SerialFacts /\ [Next]_vars => Pictures'
    BY PicturesStep
  <1>3. Pictures => RenditionsAgree
    BY DEF OnePicture, Writers, RenditionsAgree
  <1> HIDE DEF Pictures
  <1> QED BY <1>1, <1>2, <1>3, SerialHolds, PTL DEF Spec
------------------------------------------------------------------------------
(* When the key of a document names a file. *)

ImageSteps == {"images", "images_up", "images_swap", "images_rm"}

\* An edit that lists documents lists no images, so that after the deletion of
\* the documents' files there is nothing but the commit; any other edit deletes
\* no document's file.
Careful(r) ==
    /\ want[r].documents # {} => want[r].fits /\ want[r].images = {} /\ pc[r] \notin ImageSteps
    /\ pc[r] \in {"documents", "documents_up"} => want[r].documents # {}
    /\ \A id : DocumentKey(id) \in doomed[r] => want[r].documents # {}
    /\ want[r].documents # {} /\ doomed[r] # {} => pc[r] = "commit" \/ r \in applied
AllCareful == \A r \in Edit : Careful(r)

DocumentsAlone ==
    /\ Faults \cap {"delete", "commit", "crash"} = {}
    /\ \A w \in EditWish : w.documents # {} => w.fits /\ w.images = {}

LEMMA CarefulInit == Init => AllCareful
  <1> SUFFICES ASSUME Init, NEW r \in Edit PROVE Careful(r)
    BY DEF AllCareful
  <1>1. r \in Request /\ want[r] = NoWish /\ doomed[r] = {} /\ pc[r] = "idle"
    BY DEF Init, Request
  <1> QED BY <1>1 DEF Careful, NoWish, ImageSteps

\* A request that does not commit goes on with its wish.
LEMMA CarefulGoesOn ==
  ASSUME NEW r \in Edit, Careful(r), want'[r] = want[r], doomed'[r] = doomed[r],
         applied \subseteq applied', pc[r] = "commit" => pc'[r] = "commit",
         pc'[r] \in ImageSteps => pc[r] \in ImageSteps \/ want[r].documents = {},
         pc'[r] \in {"documents", "documents_up"} =>
            pc[r] \in {"documents", "documents_up"} \/ want[r].documents # {}
  PROVE  Careful(r)'
  BY DEF Careful

LEMMA CarefulMoves ==
  ASSUME AllCareful, NEW r \in Request, Others(r), applied \subseteq applied',
         r \in Edit => Careful(r)'
  PROVE  AllCareful'
  <1>1. ASSUME NEW q \in Edit, q # r PROVE Careful(q)'
    <2>1. Careful(q) /\ q \in Request \ {r}
      BY <1>1 DEF AllCareful, Request
    <2> QED BY <2>1, CarefulGoesOn DEF Others
  <1> QED BY <1>1 DEF AllCareful

LEMMA CarefulStep ==
  ASSUME DocumentsAlone
  PROVE  AllCareful /\ SerialFacts /\ [Next]_vars => AllCareful'
  <1> SUFFICES ASSUME AllCareful, SerialFacts, [Next]_vars PROVE AllCareful'
    OBVIOUS
  <1>0. /\ MediaPlaces /\ FilesInv /\ MediaDomains
        /\ \A r \in Request : Progress(r) /\ Uploads(r) /\ Proper(r) /\ ProductUpdate(want[r])
        /\ \A r \in Edit : Careful(r) /\ r \in Request
    BY DEF SerialFacts, SerialInv, FilesInv, MediaPlaces, Wishes, Wished, AllCareful, Request
  \* Any step but the arrival, the deletions and the commit.
  <1>a. ASSUME NEW r \in Request, Step(r), UNCHANGED <<want, doomed, applied>>,
               pc'[r] = "done" \/ pc'[r] = pc[r] \/ pc'[r] \notin ImageSteps \cup {"documents"}
                  \/ (pc'[r] \in ImageSteps /\ (pc[r] \in ImageSteps \/ want[r].documents = {}))
                  \/ (pc'[r] = "documents" /\ want[r].documents # {}),
               pc'[r] = "documents_up" => pc[r] \in {"documents", "documents_up"},
               pc[r] = "commit" => pc'[r] = "commit"
        PROVE  AllCareful'
    <2>1. r \in Edit => Careful(r)'
      BY <1>0, <1>a, CarefulGoesOn DEF ImageSteps
    <2> QED BY <1>0, <1>a, <2>1, ActsForItself, CarefulMoves
  <1>1. ASSUME NEW r \in Request, Arrive(r) PROVE AllCareful'
    <2>1. pc[r] = "idle" /\ UNCHANGED <<doomed, applied>>
      BY <1>1 DEF Arrive
    <2>2. doomed[r] = {}
      BY <1>0, <2>1 DEF Progress, Unwritten
    <2>3. ASSUME r \in Edit PROVE Careful(r)'
      <3>1. pc'[r] = "load" /\ want'[r] \in EditWish
        BY <1>0, <1>1, <2>3, MyPlace, KindAssumption DEF Arrive, MediaDomains
      <3> QED BY <2>1, <2>2, <3>1 DEF Careful, DocumentsAlone, ImageSteps
    <2> QED BY <1>0, <1>1, <2>1, <2>3, ActsForItself, CarefulMoves
  <1>2. ASSUME NEW r \in Request, NEW key \in pending[r], Upload(r, key) PROVE AllCareful'
    <2>1. UNCHANGED <<want, doomed, applied>> /\ Step(r) /\ (UNCHANGED pc \/ Reply(r, "500"))
      BY <1>2 DEF Upload, local, Step
    <2>2. pc[r] # "commit" /\ (pc'[r] = pc[r] \/ pc'[r] = "done")
      BY <1>0, <2>1, MyPlace DEF Uploads
    <2> QED BY <1>a, <2>1, <2>2
  <1>3. ASSUME NEW r \in Request,
               \/ Validate(r) \/ NewImagesUploaded(r) \/ NewDocumentsUploaded(r)
               \/ CheckDocuments(r) \/ CheckImages(r) \/ UpdateImages(r)
        PROVE  AllCareful'
    <2>1. /\ UNCHANGED <<want, doomed, applied>> /\ Step(r)
          /\ pc[r] \in {"validate", "new_images", "new_documents", "documents"} \cup ImageSteps
      BY <1>3 DEF Validate, NewImagesUploaded, NewDocumentsUploaded, CheckDocuments, CheckImages,
                  UpdateImages, local, Step, ImageSteps
    <2>2. \/ pc'[r] \in {"done", "new_images", "new_documents", "commit"}
          \/ pc[r] = "documents" /\ pc'[r] = "documents_up"
          \/ pc[r] \in ImageSteps /\ pc'[r] \in ImageSteps
      BY <1>0, <1>3, MyPlace DEF Validate, NewImagesUploaded, NewDocumentsUploaded, CheckDocuments,
                           CheckImages, UpdateImages, StartUploads, Undecodable, ImageSteps
    <2> QED BY <1>a, <2>1, <2>2 DEF ImageSteps
  <1>4. ASSUME NEW r \in Request, LoadProduct(r) PROVE AllCareful'
    <2>1. UNCHANGED <<want, doomed, applied>> /\ Step(r) /\ pc[r] = "load"
      BY <1>4 DEF LoadProduct, Step
    <2>2. \/ pc'[r] \in {"done", "commit"}
          \/ pc'[r] = "documents" /\ want[r].documents # {}
          \/ pc'[r] = "images" /\ want[r].documents = {}
      BY <1>0, <1>4, MyPlace DEF LoadProduct, AfterLoad, AfterDocuments
    <2> QED BY <1>a, <2>1, <2>2 DEF ImageSteps
  <1>5. ASSUME NEW r \in Request, Refresh(r) \/ FindDocument(r) \/ FetchFile(r) \/ QueryFails(r)
        PROVE  AllCareful'
    <2>1. UNCHANGED <<want, doomed, applied>> /\ Step(r) /\ pc[r] # "commit"
      BY <1>5 DEF Refresh, FindDocument, FetchFile, QueryFails, local, Step
    <2>2. pc'[r] \in {"done", "fetch"}
      BY <1>0, <1>5, MyPlace DEF Refresh, FindDocument, FetchFile, QueryFails
    <2> QED BY <1>a, <2>1, <2>2 DEF ImageSteps
  <1>6. ASSUME NEW r \in Request, DeleteDocuments(r) \/ DeleteReplaced(r) \/ DeleteImages(r)
        PROVE  AllCareful'
    <2>1. /\ r \in Edit \ applied /\ pending[r] = {} /\ seen[r] = ProductInDB
          /\ UNCHANGED <<tables, want, seen, pending, applied>>
          /\ \/ pc[r] = "documents_up" /\ DeleteFiles(r, GoneDocuments(r), AfterDocuments(r))
             \/ pc[r] = "images_swap" /\ DeleteFiles(r, GoneFormats(r), "images_rm")
             \/ pc[r] = "images_rm" /\ DeleteFiles(r, GoneImages(r), "commit")
      BY <1>6, DeletesGone DEF SerialFacts
    <2>2. \A keys, next : DeleteFiles(r, keys, next) =>
             doomed'[r] = doomed[r] \cup keys /\ pc'[r] = next
      BY <1>0, MyPlace DEF DeleteFiles, MediaDomains, DocumentsAlone
    <2>3. Careful(r)
      BY <1>0, <2>1
    <2>4. CASE pc[r] = "documents_up" /\ DeleteFiles(r, GoneDocuments(r), AfterDocuments(r))
      <3>1. want[r].documents # {} /\ want[r].images = {} /\ pc'[r] = "commit"
        BY <2>2, <2>3, <2>4 DEF Careful, AfterDocuments
      <3> QED BY <1>0, <1>6, <2>1, <2>3, <3>1, ActsForItself, CarefulMoves
              DEF Careful, ImageSteps, Step
    <2>5. ASSUME NEW keys \in {GoneFormats(r), GoneImages(r)}, NEW next \in {"images_rm", "commit"},
                 DeleteFiles(r, keys, next), pc[r] \in ImageSteps
          PROVE  AllCareful'
      <3>1. want[r].documents = {} /\ pc'[r] = next /\ doomed'[r] = doomed[r] \cup keys
        BY <2>2, <2>3, <2>5 DEF Careful
      <3>2. \A id : DocumentKey(id) \notin keys
        <4>1. \A key \in keys : \E a, b, c : key = <<a, b, c>>
          BY <1>0, <2>1, <2>5, GoneKeys DEF SerialFacts
        <4> QED BY <4>1 DEF DocumentKey
      <3>3. Careful(r)'
        BY <2>1, <2>3, <3>1, <3>2 DEF Careful
      <3> QED BY <1>0, <1>6, <2>1, <3>3, ActsForItself, CarefulMoves DEF Step
    <2> QED BY <2>1, <2>4, <2>5 DEF ImageSteps
  <1>7. ASSUME NEW r \in Request, Commit(r) PROVE AllCareful'
    <2>1. /\ pc[r] = "commit" /\ UNCHANGED <<want, doomed>> /\ Step(r)
          /\ \/ applied' = applied \cup {r} /\ Goto(r, "refresh")
             \/ Refused(r) /\ (\E code : Reply(r, code)) /\ UNCHANGED applied
      BY <1>7 DEF Commit, local, Step, Write, DocumentsAlone
    <2>2. pc'[r] \in {"refresh", "done"} /\ applied \subseteq applied'
      BY <1>0, <2>1, MyPlace
    <2>3. ASSUME r \in Edit PROVE Careful(r)'
      <3>1. Careful(r)
        BY <1>0, <2>3
      <3>2. want[r].documents # {} => r \in applied'
        <4>1. want[r].images = {} => UpdatedImages(r) = {}
          BY DEF UpdatedImages, KeptImages
        <4> QED BY <2>1, <3>1, <4>1 DEF Careful, Refused
      <3> QED BY <2>1, <2>2, <3>1, <3>2 DEF Careful, ImageSteps
    <2> QED BY <1>0, <2>1, <2>2, <2>3, ActsForItself, CarefulMoves
  <1>8. CASE Crash
    BY <1>8 DEF Crash, DocumentsAlone
  <1>9. CASE UNCHANGED vars
    <2>1. UNCHANGED <<pc, want, doomed, applied>>
      BY <1>9 DEF vars
    <2> QED BY <1>0, <2>1, CarefulGoesOn DEF AllCareful
  <1> QED BY <1>1, <1>2, <1>3, <1>4, <1>5, <1>6, <1>7, <1>8, <1>9 DEF Next, Step

\* What the column's description says of a document's key holds, at rest, when
\* requests do not overlap, no deletion and no commit fails and the process does
\* not die, and when an edit that lists documents lists no images and fits its
\* columns.  Nothing but the commit comes after the deletion of its files then.
THEOREM DocumentEditsKeepFiles ==
  ASSUME ~Overlap, DocumentsAlone
  PROVE  Spec => []KeyNamesAFile
  <1>1. DanglingHasCulprit /\ AllCareful /\ SerialFacts => KeyNamesAFile
    <2> SUFFICES ASSUME DanglingHasCulprit, AllCareful, SerialFacts,
                        \A r \in Request : ~InFlight(r),
                        NEW key \in Range(documents), key \notin DOMAIN s3
                 PROVE  FALSE
      BY DEF KeyNamesAFile
    <2>1. PICK r \in Edit \ applied : key \in doomed[r]
      BY DEF DanglingHasCulprit, Named
    <2>2. PICK id \in DOMAIN documents : key = DocumentKey(id)
      BY DEF Range, SerialFacts, RowsAreKeyed
    <2>3. Careful(r) /\ pc[r] # "commit"
      BY DEF AllCareful, Request, InFlight
    <2> QED BY <2>1, <2>2, <2>3 DEF Careful
  <1>2. Init => DanglingHasCulprit
    BY NamedInit DEF DanglingHasCulprit
  <1> QED BY <1>1, <1>2, DanglingStep, CarefulInit, CarefulStep, SerialHolds, PTL DEF Spec
===============================================================================
