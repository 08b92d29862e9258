---------------------------- MODULE ProductMedia ----------------------------
(***************************************************************************)
(* One product with its images and documents: three tables of PostgreSQL,  *)
(* the rows of two of which name files of an object store (S3), changed by *)
(* POST products/create and PATCH products/update, and read by GET         *)
(* products/get-document.                                                  *)
(*                                                                         *)
(* The handlers upload and delete files first and commit the rows last;    *)
(* the uploads of one asyncio.gather run in threads of their own and go on *)
(* when one of them fails and the client is already answered.  Products    *)
(* share no file, so one product is enough.                                *)
(***************************************************************************)
EXTENDS Integers, Sequences, FiniteSets, Functions

CONSTANTS
    Name,        \* the names a product may be given
    Name0,       \* its name at the start
    Image0,      \* its images at the start, in their order
    Document0,   \* its documents at the start
    Create, Edit, Download,   \* the POST (at most one: another would be another
                              \* product), PATCH and GET requests
    CreateWish, EditWish,     \* what they may ask for
    Size,        \* the renditions of an image (preview, mini, small)
    Nobody,      \* the author of the files that are there at the start
    Faults,      \* which steps may fail
    Overlap      \* FALSE: a request is only sent when no other is being served (the
                 \* upload threads of those already answered may still run)

FaultKinds == {"db", "upload", "delete", "commit", "crash"}
Request == Create \cup Edit \cup Download

ASSUME KindAssumption ==
    /\ Create \cap Edit = {} /\ Create \cap Download = {} /\ Edit \cap Download = {}
    /\ Nobody \notin Request
    /\ Cardinality(Create) <= 1 /\ Name0 \in Name
ASSUME MediaFaultsAssumption == Faults \subseteq FaultKinds /\ Overlap \in BOOLEAN
\* No image is there twice, and new rows have new ids (uuid4): <<request, n>>.
ASSUME StartAssumption ==
    /\ Image0 \in Seq(Range(Image0)) /\ IsInjective(Image0)
    /\ \A id \in Range(Image0) \cup Document0 : id \notin Request \X Nat

VARIABLES
    exists,      \* the row of the product is in its table
    title,       \* its columns name and name_slug, a slug standing for the name it is made of
    images,      \* the image table: id -> order_num and one URL per rendition
    documents,   \* the document table: id -> key
    s3,          \* the object store: key -> who wrote the file
    pc,          \* where each request is
    want,        \* what it asks for
    seen,        \* the tables as its first SELECT returned them
    pending,     \* its uploads that are under way
    doomed,      \* the keys it has asked the store to delete
    answer,      \* the HTTP status it was answered with
    applied      \* the requests whose changes reached the tables

tables == <<exists, title, images, documents>>
local == <<want, seen, doomed>>
vars == <<exists, title, images, documents, s3, pc, want, seen, pending, doomed, answer, applied>>
------------------------------------------------------------------------------
\* A wish: at most one list of documents, one list of images and one name.
\*   documents: [keep: the ids listed, add: how many new ones]
\*   images:    [keep: id -> order and file ("kept", "same" or "other" format),
\*               add: the orders of the new ones]
\*   fits:      the other columns are given values that the tables can hold
NoWish == [documents |-> {}, images |-> {}, name |-> {}, fits |-> TRUE]
Nothing == [images |-> <<>>, documents |-> <<>>, name |-> Name0]

Listed(lists) == \A v, w \in lists : v = w
\* The schemas bound barcode, pack and specification from below only, and
\* nobody looks up the brand: that a value fits is only known at the commit.
Fits == BOOLEAN

\* What the schema of PATCH lets through: everything may be left out.
ProductUpdate(w) ==
    /\ Listed(w.documents) /\ Listed(w.images) /\ Listed(w.name) /\ w.name \subseteq Name
    /\ w.fits \in Fits
    /\ \A list \in w.documents : list.add \in Nat
    /\ \A list \in w.images :
          /\ list.add \in Seq(Int) /\ IsFiniteSet(DOMAIN list.keep)
          /\ \A id \in DOMAIN list.keep :
                list.keep[id].order \in Int /\ list.keep[id].file \in {"kept", "same", "other"}

\* What the schema of POST lets through: a name is required, nothing has an id.
ProductCreate(w) ==
    /\ ProductUpdate(w) /\ w.name # {}
    /\ \A list \in w.images : DOMAIN list.keep = {}
    /\ \A list \in w.documents : list.keep = {}

ASSUME WishAssumption ==
    (\A w \in CreateWish : ProductCreate(w)) /\ (\A w \in EditWish : ProductUpdate(w))

\* File names carry a fresh uuid: nobody else's file has the same key.
ImageKey(id, size, version) == <<id, size, version>>
DocumentKey(id) == <<id>>
KeysOf(image) == Range(image.files)

NewImages(r) == UNION {{<<r, n>> : n \in DOMAIN w.add} : w \in want[r].images}
NewDocuments(r) == UNION {{<<r, n>> : n \in 1..w.add} : w \in want[r].documents}
KeptImages(r) == UNION {DOMAIN w.keep : w \in want[r].images}
Dropped(r, listed) == IF want[r].images = {} THEN {} ELSE DOMAIN listed \ KeptImages(r)
KeptDocuments(r) == UNION {w.keep : w \in want[r].documents}
DroppedDocuments(r, listed) ==
    IF want[r].documents = {} THEN {} ELSE DOMAIN listed \ KeptDocuments(r)

\* The product is there, unless it is going to be created.
Init ==
    /\ exists \in IF Create = {} THEN {TRUE} ELSE BOOLEAN
    /\ title = [name |-> Name0, slug |-> Name0]
    /\ images = [id \in IF exists THEN Range(Image0) ELSE {} |->
                    [order |-> (CHOOSE n \in DOMAIN Image0 : Image0[n] = id) - 1,
                     files |-> [size \in Size |-> ImageKey(id, size, Nobody)]]]
    /\ documents = [id \in IF exists THEN Document0 ELSE {} |-> DocumentKey(id)]
    /\ s3 = [key \in (UNION {KeysOf(images[id]) : id \in DOMAIN images})
                        \cup Range(documents) |-> Nobody]
    /\ pc = [r \in Request |-> "idle"]
    /\ want = [r \in Request |-> NoWish]
    /\ seen = [r \in Request |-> Nothing]
    /\ pending = [r \in Request |-> {}]
    /\ doomed = [r \in Request |-> {}]
    /\ answer = [r \in Request |-> "none"]
    /\ applied = {}
------------------------------------------------------------------------------
InFlight(r) == pc[r] \notin {"idle", "done"}

Goto(r, next) == pc' = [pc EXCEPT ![r] = next] /\ UNCHANGED answer
Reply(r, code) ==
    /\ pc' = [pc EXCEPT ![r] = "done"]
    /\ answer' = [answer EXCEPT ![r] = code]

Arrive(r) ==
    /\ pc[r] = "idle"
    /\ Overlap \/ \A q \in Request : ~InFlight(q)
    /\ \/ r \in Create /\ ~exists /\ \E w \in CreateWish : want' = [want EXCEPT ![r] = w]
       \/ r \in Edit /\ \E w \in EditWish : want' = [want EXCEPT ![r] = w]
       \/ r \in Download /\ UNCHANGED want
    /\ Goto(r, IF r \in Create THEN "validate" ELSE IF r \in Edit THEN "load" ELSE "find")
    /\ UNCHANGED <<tables, s3, seen, pending, doomed, applied>>

\* A mutant: only repeated orders are refused.
ValidOrderWithGaps(w) ==
    Cardinality({w.keep[id].order : id \in DOMAIN w.keep} \cup {w.add[n] : n \in DOMAIN w.add})
        = Cardinality(DOMAIN w.keep) + Len(w.add)

\* The orders asked for must be 0, 1, ... in some sequence.
ValidOrder(w) ==
    {w.keep[id].order : id \in DOMAIN w.keep} \cup {w.add[n] : n \in DOMAIN w.add}
        = 0 .. (Cardinality(DOMAIN w.keep) + Len(w.add) - 1)

\* asyncio.gather over one upload per file: nothing to wait for when none.
StartUploads(r, keys, next) ==
    /\ pending' = [pending EXCEPT ![r] = keys]
    /\ Goto(r, next)

\* The bytes sent need not be an image: PIL raises before anything is uploaded.
Undecodable(r, ids) == ids # {} /\ Reply(r, "500") /\ UNCHANGED pending

ImageKeys(ids) == {ImageKey(id, size, Nobody) : id \in ids, size \in Size}

\* One thread of the gather ends: with the file in the store, or with an error
\* before or after that.  The first error answers the request; the other
\* threads are not cancelled.
Upload(r, key) ==
    LET written == [k \in DOMAIN s3 \cup {key} |-> IF k = key THEN r ELSE s3[k]]
    IN  /\ key \in pending[r]
        /\ pending' = [pending EXCEPT ![r] = @ \ {key}]
        /\ \/ s3' = written /\ UNCHANGED <<pc, answer>>
           \/ /\ "upload" \in Faults /\ s3' \in {s3, written}
              /\ IF InFlight(r) THEN Reply(r, "500") ELSE UNCHANGED <<pc, answer>>
        /\ UNCHANGED <<tables, local, applied>>

\* delete_objects takes some of the files and reports an error for each of the
\* others in an answer that nobody reads; or the call fails, before or after that.
DeleteFiles(r, keys, next) ==
    \E gone \in SUBSET keys :
        /\ doomed' = [doomed EXCEPT ![r] = @ \cup keys]
        /\ s3' = [k \in DOMAIN s3 \ gone |-> s3[k]]
        /\ \/ (gone = keys \/ "delete" \in Faults) /\ Goto(r, next)
           \/ "delete" \in Faults /\ keys # {} /\ Reply(r, "500")
------------------------------------------------------------------------------
(* POST products/create *)

\* The seller, the references and the order of the images are checked first.
Validate(r) ==
    /\ pc[r] = "validate"
    /\ \/ (\E code \in {"403", "422"} : Reply(r, code)) /\ UNCHANGED pending
       \/ /\ \A w \in want[r].images : ValidOrder(w)
          /\ \/ StartUploads(r, ImageKeys(NewImages(r)), "new_images")
             \/ Undecodable(r, NewImages(r))
    /\ UNCHANGED <<tables, s3, local, applied>>

NewImagesUploaded(r) ==
    /\ pc[r] = "new_images" /\ pending[r] = {}
    /\ StartUploads(r, {DocumentKey(id) : id \in NewDocuments(r)}, "new_documents")
    /\ UNCHANGED <<tables, s3, local, applied>>

\* A mutant: the gather is not awaited.
NewDocumentsUploadedAtOnce(r) ==
    /\ pc[r] = "new_documents"
    /\ Goto(r, "commit")
    /\ UNCHANGED <<tables, s3, local, pending, applied>>

NewDocumentsUploaded(r) ==
    /\ pc[r] = "new_documents" /\ pending[r] = {}
    /\ Goto(r, "commit")
    /\ UNCHANGED <<tables, s3, local, pending, applied>>
------------------------------------------------------------------------------
(* PATCH products/update/{product_id} *)

AfterDocuments(r) == IF want[r].images = {} THEN "commit" ELSE "images"
AfterLoad(r) == IF want[r].documents = {} THEN AfterDocuments(r) ELSE "documents"

\* A product is loaded with its images and documents (lazy="selectin").
ProductInDB == [images |-> images, documents |-> documents, name |-> title.name]

\* The product with its images and documents, which stay as loaded here for
\* the whole request (two SELECTs, which nothing relates); then the seller
\* (403), the references (422) and the rows of price, pack and specification
\* (404) are checked.  The values are set on the loaded rows and, without
\* autoflush, reach the tables at the commit.
LoadProduct(r) ==
    /\ pc[r] = "load"
    /\ \/ (\E code \in {"403", "404"} : Reply(r, code)) /\ UNCHANGED seen
       \/ exists /\ Reply(r, "422") /\ UNCHANGED seen
       \/ /\ exists
          /\ seen' = [seen EXCEPT ![r] = ProductInDB]
          /\ Goto(r, AfterLoad(r))
    /\ UNCHANGED <<tables, s3, want, pending, doomed, applied>>

\* Every id listed must be in the table and among the product's documents.
CheckDocuments(r) ==
    /\ pc[r] = "documents"
    /\ IF KeptDocuments(r) \subseteq DOMAIN documents \cap DOMAIN seen[r].documents
       THEN StartUploads(r, {DocumentKey(id) : id \in NewDocuments(r)}, "documents_up")
       ELSE Reply(r, "422") /\ UNCHANGED pending
    /\ UNCHANGED <<tables, s3, local, applied>>

\* A mutant: the gather is not awaited.
DeleteDocumentsAtOnce(r) ==
    LET gone == DroppedDocuments(r, seen[r].documents) \cap DOMAIN documents
    IN  /\ pc[r] = "documents_up"
        /\ DeleteFiles(r, {seen[r].documents[id] : id \in gone}, AfterDocuments(r))
        /\ UNCHANGED <<tables, want, seen, pending, applied>>

\* The documents that are not listed and still in the table lose their file.
DeleteDocuments(r) ==
    LET gone == DroppedDocuments(r, seen[r].documents) \cap DOMAIN documents
    IN  /\ pc[r] = "documents_up" /\ pending[r] = {}
        /\ DeleteFiles(r, {seen[r].documents[id] : id \in gone}, AfterDocuments(r))
        /\ UNCHANGED <<tables, want, seen, pending, applied>>

CheckImages(r) ==
    /\ pc[r] = "images"
    /\ IF /\ KeptImages(r) \subseteq DOMAIN images \cap DOMAIN seen[r].images
          /\ \A w \in want[r].images : ValidOrder(w)
       THEN \/ StartUploads(r, ImageKeys(NewImages(r)), "images_up")
            \/ Undecodable(r, NewImages(r))
       ELSE Reply(r, "422") /\ UNCHANGED pending
    /\ UNCHANGED <<tables, s3, local, applied>>

\* The kept images whose file is replaced in a given format.
Replaced(r, format) ==
    UNION {{id \in DOMAIN w.keep : w.keep[id].file = format} : w \in want[r].images}

\* A mutant: only the preview of an image is replaced.
ReplacementKeysOfPreview(r) ==
    {seen[r].images[id].files["preview_url"] : id \in Replaced(r, "same")}
        \cup {ImageKey(id, "preview_url", r) : id \in Replaced(r, "other")}

\* Where the replacement of an image goes: over the old file, or to a new key
\* when the format changed.
ReplacementKeys(r) ==
    (UNION {KeysOf(seen[r].images[id]) : id \in Replaced(r, "same")})
        \cup {ImageKey(id, size, r) : id \in Replaced(r, "other"), size \in Size}

\* Each kept image is selected again: 404 when it is gone by now.
UpdateImages(r) ==
    /\ pc[r] = "images_up" /\ pending[r] = {}
    /\ IF KeptImages(r) \subseteq DOMAIN images
       THEN \/ StartUploads(r, ReplacementKeys(r), "images_swap")
            \/ Undecodable(r, Replaced(r, "same") \cup Replaced(r, "other"))
       ELSE Reply(r, "404") /\ UNCHANGED pending
    /\ UNCHANGED <<tables, s3, local, applied>>

\* A mutant: the old files are left in the store.
DeleteReplacedNever(r) ==
    /\ pc[r] = "images_swap" /\ pending[r] = {}
    /\ DeleteFiles(r, {}, "images_rm")
    /\ UNCHANGED <<tables, want, seen, pending, applied>>

\* The files whose format changed are deleted under their old key.
DeleteReplaced(r) ==
    /\ pc[r] = "images_swap" /\ pending[r] = {}
    /\ DeleteFiles(r, UNION {KeysOf(seen[r].images[id]) : id \in Replaced(r, "other")}, "images_rm")
    /\ UNCHANGED <<tables, want, seen, pending, applied>>

\* The images that are not listed and still in the table lose their files.
DeleteImages(r) ==
    LET gone == Dropped(r, seen[r].images) \cap DOMAIN images
    IN  /\ pc[r] = "images_rm"
        /\ DeleteFiles(r, UNION {KeysOf(seen[r].images[id]) : id \in gone}, "commit")
        /\ UNCHANGED <<tables, want, seen, pending, applied>>
------------------------------------------------------------------------------
(* The one commit at the end of POST and PATCH. *)

Listing(r, id) == (CHOOSE w \in want[r].images : TRUE).keep[id]

\* The columns of a kept image that differ from what was loaded.
NewOrder(r, id) == Listing(r, id).order # seen[r].images[id].order
UpdatedImages(r) == {id \in KeptImages(r) : NewOrder(r, id) \/ id \in Replaced(r, "other")}

Written(r, id) ==
    [order |-> IF NewOrder(r, id) THEN Listing(r, id).order ELSE images[id].order,
     files |-> IF id \in Replaced(r, "other")
               THEN [size \in Size |-> ImageKey(id, size, r)] ELSE images[id].files]

Inserted(r, id) ==
    [order |-> (CHOOSE w \in want[r].images : TRUE).add[id[2]],
     files |-> [size \in Size |-> ImageKey(id, size, Nobody)]]

\* A mutant: the slug is made once, with the product.
TitledOnce(r) ==
    IF want[r].name = {} THEN title
    ELSE LET name == CHOOSE n \in want[r].name : TRUE
         IN  [name |-> IF r \in Edit /\ name = seen[r].name THEN title.name ELSE name,
              slug |-> IF r \in Edit THEN title.slug ELSE name]

\* A name comes with a new slug; the UPDATE leaves the column name out when it
\* is what was loaded, but the slug carries a fresh uuid and is never left out.
Titled(r) ==
    IF want[r].name = {} THEN title
    ELSE LET name == CHOOSE n \in want[r].name : TRUE
         IN  [name |-> IF r \in Edit /\ name = seen[r].name THEN title.name ELSE name,
              slug |-> name]

\* A mutant: the rows of dropped images are not deleted.
WriteKeepingRows(r) ==
    /\ exists' = TRUE
    /\ title' = Titled(r)
    /\ images' = [id \in DOMAIN images \cup NewImages(r) |->
                    IF id \in NewImages(r) THEN Inserted(r, id)
                    ELSE IF id \in UpdatedImages(r) THEN Written(r, id) ELSE images[id]]
    /\ documents' = [id \in (DOMAIN documents \ DroppedDocuments(r, seen[r].documents))
                                \cup NewDocuments(r) |->
                       IF id \in NewDocuments(r) THEN DocumentKey(id) ELSE documents[id]]
    /\ applied' = applied \cup {r}

Write(r) ==
    /\ exists' = TRUE
    /\ title' = Titled(r)
    /\ images' = [id \in (DOMAIN images \ Dropped(r, seen[r].images)) \cup NewImages(r) |->
                    IF id \in NewImages(r) THEN Inserted(r, id)
                    ELSE IF id \in UpdatedImages(r) THEN Written(r, id) ELSE images[id]]
    /\ documents' = [id \in (DOMAIN documents \ DroppedDocuments(r, seen[r].documents))
                                \cup NewDocuments(r) |->
                       IF id \in NewDocuments(r) THEN DocumentKey(id) ELSE documents[id]]
    /\ applied' = applied \cup {r}

\* The database refuses a value that does not fit its column, and an UPDATE of
\* a row that is gone is a StaleDataError.
Refused(r) == ~want[r].fits \/ ~(UpdatedImages(r) \subseteq DOMAIN images)

\* A mutant: the error of a failed commit is swallowed.
CommitSwallowingErrors(r) ==
    /\ pc[r] = "commit"
    /\ Goto(r, "refresh")
    /\ IF Refused(r) THEN UNCHANGED <<tables, applied>> ELSE Write(r)
    /\ UNCHANGED <<s3, local, pending>>

\* A refused or failed commit is answered 422 by POST and 500 by PATCH, also
\* when only its confirmation is lost.
Commit(r) ==
    /\ pc[r] = "commit"
    /\ \/ ~Refused(r) /\ Write(r) /\ Goto(r, "refresh")
       \/ /\ \/ (Refused(r) \/ "commit" \in Faults) /\ UNCHANGED <<tables, applied>>
             \/ ~Refused(r) /\ "commit" \in Faults /\ Write(r)
          /\ Reply(r, IF r \in Create THEN "422" ELSE "500")
    /\ UNCHANGED <<s3, local, pending>>

\* The response model is checked last: a row that does not fit it is a 500.
Refresh(r) ==
    /\ pc[r] = "refresh"
    /\ Reply(r, IF r \in Create THEN "201" ELSE "200") \/ Reply(r, "500")
    /\ UNCHANGED <<tables, s3, local, pending, applied>>
------------------------------------------------------------------------------
(* GET products/get-document/{document_id}: the row, then the file, with an await between. *)

FindDocument(r) ==
    /\ pc[r] = "find"
    /\ \/ (\E code \in {"403", "404"} : Reply(r, code)) /\ UNCHANGED seen
       \/ \E id \in DOMAIN documents :
            /\ seen' = [seen EXCEPT ![r].documents = [d \in {id} |-> documents[d]]]
            /\ Goto(r, "fetch")
    /\ UNCHANGED <<tables, s3, want, pending, doomed, applied>>

\* A mutant: a file that is not there is looked up again.
FetchFileForever(r) ==
    /\ pc[r] = "fetch"
    /\ IF Range(seen[r].documents) \subseteq DOMAIN s3 THEN Reply(r, "200") ELSE Goto(r, "find")
    /\ UNCHANGED <<tables, s3, local, pending, applied>>

\* "no file" stands for the 500 of a key that the store does not know.
FetchFile(r) ==
    /\ pc[r] = "fetch"
    /\ Reply(r, IF Range(seen[r].documents) \subseteq DOMAIN s3 THEN "200" ELSE "no file")
    /\ UNCHANGED <<tables, s3, local, pending, applied>>
------------------------------------------------------------------------------
\* A query raises instead: nothing is written, and only POST's last SELECT,
\* after its commit, is answered 422.
QueryFails(r) ==
    /\ "db" \in Faults
    /\ pc[r] \in {"validate", "load", "documents", "documents_up", "images", "images_up",
                  "images_rm", "refresh", "find"}
    /\ pc[r] \in {"documents_up", "images_up"} => pending[r] = {}
    /\ Reply(r, IF r \in Create /\ pc[r] = "refresh" THEN "422" ELSE "500")
    /\ UNCHANGED <<tables, s3, local, pending, applied>>

\* A process dies with its requests and its upload threads; open transactions
\* roll back.
Crash ==
    \E dead \in SUBSET {r \in Request : InFlight(r) \/ pending[r] # {}} :
        /\ "crash" \in Faults /\ dead # {}
        /\ pc' = [r \in Request |-> IF r \in dead THEN "done" ELSE pc[r]]
        /\ answer' = [r \in Request |-> IF r \in dead /\ InFlight(r) THEN "lost" ELSE answer[r]]
        /\ pending' = [r \in Request |-> IF r \in dead THEN {} ELSE pending[r]]
        /\ UNCHANGED <<tables, s3, local, applied>>

Step(r) ==
    \/ \E key \in pending[r] : Upload(r, key)
    \/ Validate(r) \/ NewImagesUploaded(r) \/ NewDocumentsUploaded(r)
    \/ LoadProduct(r) \/ CheckDocuments(r) \/ DeleteDocuments(r)
    \/ CheckImages(r) \/ UpdateImages(r) \/ DeleteReplaced(r) \/ DeleteImages(r)
    \/ Commit(r) \/ Refresh(r)
    \/ FindDocument(r) \/ FetchFile(r)
    \/ QueryFails(r)

Next == Crash \/ \E r \in Request : Arrive(r) \/ Step(r)

Spec == Init /\ [][Next]_vars

\* The event loop resumes every coroutine whose await has ended, and threads
\* and pool workers make progress (boto3 and asyncpg time out).
FairSpec == Spec /\ \A r \in Request : WF_vars(Step(r))
------------------------------------------------------------------------------
Serving == {"validate", "new_images", "new_documents", "load", "documents", "documents_up",
            "images", "images_up", "images_swap", "images_rm", "commit", "refresh", "find", "fetch"}

\* Every variable has its type, and only a request that uploads is waited for.
TypeOK ==
    /\ exists \in BOOLEAN
    /\ title \in [name : Name, slug : Name]
    /\ \A id \in DOMAIN images :
          images[id].order \in Nat /\ DOMAIN images[id].files = Size
    /\ Range(s3) \subseteq Request \cup {Nobody}
    /\ pc \in [Request -> Serving \cup {"idle", "done"}]
    /\ answer \in [Request -> {"none", "200", "201", "403", "404", "422", "500", "no file", "lost"}]
    /\ applied \subseteq Create \cup Edit
    /\ \A r \in Request : pc[r] = "commit" => pending[r] = {}

\* The keys the committed rows name.
Named == (UNION {KeysOf(images[id]) : id \in DOMAIN images}) \cup Range(documents)
Doomed == UNION {doomed[r] : r \in Request}

\* A row never names a file that was not uploaded: when the file is missing,
\* some request asked the store to delete it.  A download that misses its
\* file lost it the same way, between its SELECT and its fetch or before.
MissingFileWasDoomed ==
    /\ Named \ DOMAIN s3 \subseteq Doomed
    /\ \A r \in Download : answer[r] = "no file" => Range(seen[r].documents) \subseteq Doomed

\* 200 and 201 mean that the tables have the change; 403 and 404, and the 422 of
\* an edit, mean that they do not, whatever became of the files.  POST answers
\* 422 also when the SELECT after its commit fails.
AnswerTellsMedia ==
    \A r \in Create \cup Edit :
        /\ answer[r] \in {"200", "201"} => r \in applied
        /\ answer[r] \in {"403", "404"} => r \notin applied
        /\ answer[r] = "422" /\ r \in Edit => r \notin applied

\* Without overlapping requests, a row names a missing file only when a request
\* deleted it and then did not commit.
DanglingHasCulprit ==
    \A key \in Named \ DOMAIN s3 : \E r \in Edit \ applied : key \in doomed[r]

\* Without overlapping requests, a file that no row names was left by a request
\* that uploaded it and did not commit, or the store did not delete it when an
\* edit that committed asked it to.
OrphanHasCause ==
    \A key \in DOMAIN s3 \ Named :
        \/ s3[key] \in Request \ applied
        \/ \E r \in Edit \cap applied : key \in doomed[r]

\* Without overlapping requests, the slug of the product is made of its name
\* (a request that repeats the name it has loaded makes a new slug of it, which
\* another rename in between would have left beside its own name).
SlugNamesProduct == title.slug = title.name

\* Without overlapping requests, the images of the product are numbered 0, 1, ...
OrderIsContiguous ==
    {images[id].order : id \in DOMAIN images} = 0 .. (Cardinality(DOMAIN images) - 1)

\* Without overlapping requests, the renditions of an image show one picture,
\* unless a request that did not commit has overwritten some of them.
RenditionsAgree ==
    \A id \in DOMAIN images :
        LET writers == {s3[key] : key \in KeysOf(images[id]) \cap DOMAIN s3}
        IN  (\E v, w \in writers : v # w) => \E r \in writers : r \in Edit \ applied

\* Every request that was sent is answered, or lost to a crash, and its threads
\* end: sooner or later nothing is under way any more.
EveryRequestEnds ==
    <>[](\A r \in Request : pc[r] \in {"idle", "done"} /\ pending[r] = {})

\* What the column's description says of a document's key: it is the key of
\* the document in the storage, at least when nothing is being served.
KeyNamesAFile ==
    (\A r \in Request : ~InFlight(r)) => Range(documents) \subseteq DOMAIN s3
==============================================================================
