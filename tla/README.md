# TLA+ models of Products_FastAPI

Products_FastAPI is the product service of a marketplace: a FastAPI application
over PostgreSQL (SQLAlchemy, asyncpg), an S3 object store (boto3 in threads), a
RabbitMQ queue read by the search index (ETL_Products), a Redis cache, and four
HTTP services (sellers, storages, moderation, JWT). This directory models the
parts of it that keep state over more than one system, checks them with TLC and
proves the most important properties with TLAPS.

## 1. The system

All requests of a worker run on one event loop; a handler is only interrupted at
an `await`, several gunicorn workers and containers share the stores. A request
has one database session, which is committed at most once, at the end.
PostgreSQL runs at READ COMMITTED and no SELECT locks its rows.

| Component (source under `src/`) | State | Operations | Talks to | What is hard | What makes it correct |
|---|---|---|---|---|---|
| Status change (`app/services/seller_products.py` `change_product_status`, `app/mq/rabbitmq.py`) | `status`, `is_active` of a product; messages in `products.updated` | PATCH change-status | sellers, storages, RabbitMQ, PostgreSQL | status decided from an old SELECT; message and commit are two writes; retried publish; one process or all of them die | nothing on sale unannounced; the answer tells the effect; `is_active` follows the status; a bounded number of copies; the index differs from the table only for a known reason |
| Product creation, editing, files (`seller_products.py` `create_product`, `edit`, `get_document`; `base.py` upload and delete helpers) | the product with its name and slug, rows of images and documents, files in S3 | POST create, PATCH update, GET get-document | S3, PostgreSQL, sellers | files change before the commit; a deletion that the store does not carry out and reports to nobody; threads of a `gather` outlive a failed request; two edits on one snapshot; values that only the commit refuses | a row names a file; a file has a row; orders are 0, 1, ...; the renditions of an image are one picture; the slug is made of the name; the answer tells the effect |
| Renditions (`seller_products.py` `_thumbnail_images`) | one picture in memory | loop over `image_sizes` | PIL | in-place thumbnail, order of a dict | sizes as the model describes them |
| Reference data (`base.py` `_get_data_in_cache_or_db`, `app/cache/cache.py`) | one Redis key per table | GET sizes, colors, brands, categories | Redis, PostgreSQL | no invalidation; two readers fill one key | a miss is fresh; a stale key goes away |
| prestart (`prestart.py`) | database, schema | wait, create database, create schema | PostgreSQL, docker | look-then-create by several containers; outages; a server that can be reached and refuses; retries | the schema is there before the server; a crash has a cause outside; every container starts |
| Pagination and the session of a request (`seller_products.py` `get_all`, `base.py` `_get_count`, `_get_all`, `app/db/__init__.py`) | the pool's connections, a transaction | GET all | PostgreSQL, sellers | count and page are two statements without ORDER BY; a row that does not validate; retries on an aborted transaction; a pool used up | no empty page, a true total, connections return |
| Read endpoints | none | GET by ids, slug, name, prices | PostgreSQL | - | - |
| Startup, shutdown (`app/db/__init__.py` `init_db`, `app/main.py`) | sessions, the broker's connections | lifespan | PostgreSQL, RabbitMQ | a session closed without commit; `create_all` over no tables; connections nobody closes; a broker that turns the server away | a server only comes up over a schema that fits; the broker keeps room |
| Migrations (`alembic/env.py`, `alembic/versions/`) | the schema, `alembic_version` | upgrade head, downgrade | PostgreSQL | containers migrate at once; a revision that the rows make impossible; outages between revisions; downgrades that do not lead back | all or nothing; the document's file is never forgotten |
| Deployment (`docker-entrypoint.sh`, `Dockerfile`, `docker-compose.yml`, `gunicorn.conf.py`, `Makefile`) | where each container is | prestart, migrate, serve; kill a worker; reload; restart | PostgreSQL, RabbitMQ, docker | any of the steps fails, in any of the containers; who is started again and who is not; a developer's server that skips the first two | a server fits its schema; a container that docker restarts gets through its entrypoint unless the rows block it |
| Generic CRUD (`base.py` `_create`, `_update`, `_delete`) | rows | dead code: none is called | PostgreSQL | - | - |
| `delete`, `delete_all` | rows, files | dead code: routes commented out | PostgreSQL, S3 | - | - |
| Authentication | none | `SellerCheck`, `JWTBearer` | sellers | - | a request acts for its seller only |
| Schemas | none of their own | validation | - | what they let through | a request only asks for what they accept |
| Configuration, logging, documentation, `populate_db` | none of their own | - | - | - | - |

Components meet in four places. POST creates the row that change-status moves
and edit changes (`CreateProduct` in `ChangeStatus.tla`, `exists` in
`ProductMedia.tla`). Change-status writes columns that edit does not, so the two
do not disturb each other's model. Redis is only used for reference data. And
the entrypoint strings `prestart.py`, the migrations and the server together:
`Deployment.tla` extends `Prestart.tla` and `Migrations.tla` and lets the servers
write the rows that a migration may stumble over.

## 2. The modules

| Module | Models |
|---|---|
| `ProductStatus.tla` | the statuses; which change accepts which status (the `match`), which are announced, and `is_active` afterwards |
| `StatusLifecycle.tla` | abstract: a product moves along the edges of its lifecycle, in one step, and is active exactly while on sale |
| `ChangeStatus.tla` | the handler of PATCH change-status, one action per await |
| `ChangeStatusProofs.tla` | theorems with any interleaving |
| `ChangeStatusSerialProofs.tla` | theorems for requests that do not overlap, the refinement among them |
| `ProductMedia.tla` | POST, PATCH and GET get-document over the product, its two tables and S3 |
| `ProductMediaProofs.tla` | theorems with any interleaving |
| `ProductMediaSerialProofs.tla` | theorems for requests that do not overlap |
| `ReferenceCache.tla`, `ReferenceCacheProofs.tla` | one key of Redis with its readers; theorems |
| `Prestart.tla`, `PrestartProofs.tla` | `main()` of `prestart.py` in several containers; theorems |
| `Migrations.tla` | the seven revisions as steps over the schema's objects; which rows stop them; what the models' statements need |
| `SchemaHistory.tla` | abstract: the schema is at a revision, goes to the newest in one step and back one at a time |
| `Deployment.tla`, `DeploymentProofs.tla` | the entrypoint of several containers, developers' processes, the broker's connections, downgrades; theorems, two refinements among them |
| `Listing.tla`, `ListingProofs.tla` | GET all: two retried statements over a pool of connections; theorems |
| `Renditions.tla` | the loop over `image_sizes` with PIL's `thumbnail` |
| `MCChangeStatus.tla`, `MCProductMedia.tla` | constants of the TLC instances |

### ChangeStatus

`row` is the product table, `log[p]` everything published about p, `indexed[p]`
how much of it the search index took in. A request has a place (`pc`), its
parameters (`call`), the row its SELECT returned (`loaded`), its failed publishes
(`tries`) and its answer.

`VerifySeller` is `SellerCheck`; `LoadProduct` is `get_or_404` with the `match`,
since nothing is awaited between them; `GetSellerData`, `GetStorageQuantity` and
`ReadCategory` are `create_product_info_for_ETL`; `SendMessage` is one attempt of
`send_message` under `backoff`; `Commit` and `Refresh` are the session's.
SQLAlchemy's UPDATE only contains columns that differ from what was loaded, which
`Updated` says: a stale request may leave the `is_active` of another one.
`AnswerTellsEffect` and `CopiesAreBounded` depend on the errors: a publish or a
commit may fail before or after it took effect. `Crash` is the death of some of the
server processes, with any of the requests in flight. `Moderate` is the service that
nothing under `src/` shows, and `Consume` is the index.

`Overlap` is FALSE in instances where a request is only sent when no other is
being served. Properties that need this say "without overlapping requests"; with
overlap the code does not keep them (a stale write sets a status the lifecycle
has no edge to), and finding 1 is the run that shows it.

### ProductMedia

`images` and `documents` are the tables, `s3` maps a key to the request that
wrote its file, `doomed` collects the keys a request has asked to delete. An
upload runs in a thread: `Upload(r, key)` may happen after r has been answered,
because `gather` raises the first error and cancels no thread. `DeleteFiles` may
lose some of the files and keep the others: `delete_objects` answers 200 with an
error for each file it could not delete, which nobody reads, so the handler goes
on; or the call raises, whatever it has done by then. `Commit` may lose only its
confirmation, `Refresh` may end in a row that the response model refuses, and
`Crash` takes the requests and threads of any of the processes. Without `Overlap` a
request waits for those that are being served, not for the threads that answered
ones have left behind. `LoadProduct` keeps
the rows for the whole request (`seen`), while every later SELECT looks at the
table. `edit` handles documents completely, deletion of files included, before it
looks at the images; the model keeps that order. Keys carry a fresh uuid, so
(id, size, version) stands for one; `files` with format "same" are written over
the old keys, with format "other" to new ones. A POST that fails at its commit or
afterwards is answered 422, a PATCH 500.

What a request may ask for (`CreateWish`, `EditWish`) is a constant, bounded by
what the schemas let through (`ProductCreate`, `ProductUpdate`). The instances
contain every kind: dropped, reordered, replaced (same and other format), new,
wrongly numbered images, kept, dropped and new documents, new and repeated names,
values that do not fit, and combinations.

`title` are the columns `name` and `name_slug`; a slug stands for the name it is
made of, its uuid being fresh. `Titled` says which of the two an UPDATE contains.
`fits` is FALSE when some other column is given a value the table cannot hold,
which the schemas do not exclude (they bound `barcode`, `pack` and the
specification from below only, and nobody looks up the brand): `Refused` then lets
the commit fail after all the files have been dealt with. The values of the other
scalar columns, of the price and of the specification are written by the same
commit and decide nothing else.

### Deployment, Migrations, SchemaHistory

A schema is the set of what tells the revisions apart: tables, enumeration types
and the columns that come and go. `Upgrade[n]` and `Downgrade(n)` are what a
revision creates and drops, `Possible` is PostgreSQL's refusal: CREATE over what is
there, DROP of what is not, a NOT NULL column without default over rows, a name
too long for `varchar(128)`. `rows` only says which of the three kinds of rows that
matter there are. `ObjectsAt[v]` is the schema that the first v revisions make.
The second revision has no way back (it drops a constraint that has no name), and
the downgrade of the first leaves its types, over which it cannot be run again.

`env.py` runs all pending revisions in one transaction (`transaction_per_migration`
is not set), so a container works on a copy (`work`) and `CommitMigration` makes it
the schema if the version it began with is still that of the database: of two
migrations the second waits for a lock and then fails on a table or on
`alembic_version`. `set -e` ends the entrypoint at the first program that fails.

There are two kinds of containers. `Composed` ones are those of
`docker-compose.yml`: it builds the development target, whose command is
`uvicorn --reload`, and restarts it always. `Gunicorn` ones are of the production
target, for which the repository has no restart policy: somebody may start them
again (`RestartContainer`, `Rerun` in `Prestart`), and nothing says that anybody
does. When `startup()` raises, gunicorn's worker cannot boot and gunicorn halts,
which ends the container ("failed"); the supervisor of `uvicorn --reload` stays up
without a server ("stalled"), so docker has nothing to restart, until a source file
changes (`Reload`) or somebody stops it (`Shutdown`, `StartContainer`).

`InitDb` is `init_db()`: its first session is closed without a commit, and
`create_all` runs over a `MetaData` that no model is registered in, so it changes
nothing. It looks for the database only. `ConnectBroker` is startup's connection,
which no request uses; it fails when the broker cannot be reached, refuses or has no
room. `SendMessage` is an attempt of `send_message`, which opens
another one and leaves it open (`sockets`). `KillWorker` is gunicorn's timeout: the
new worker goes through startup but not through the entrypoint. `StartUnmigrated` is a developer's `make service-start-dev`, uvicorn without
prestart and migrations. `RunDowngrade` is somebody at a shell; it is done while
no container migrates or serves.

### Listing

`held` are the sessions that have a connection of the pool, `aborted` those whose
transaction failed, `total` what a request counted. `TakeConnection` waits, times
out or is refused; `StatementFails` is a statement that fails, and because nothing
rolls the session back, `Count` and `SelectPage` are out of reach from then on while
`backoff` still goes through its attempts. `Count`, `TotalPages`, `PageShown` and
`SelectPage` are `get_all`. No action takes a product away, because no code does: a
deletion changes the status, and `delete` is dead code. `PageHasItsShare` rests on
that. Since the code asks for no order, only the number of rows is modelled.

### ReferenceCache, Prestart, Renditions

The table's contents are versions and a response carries the version it was made
of. The four keys are independent. `ChangeTable` is whoever writes the tables
(migrations, `populate_db`), which the application never does.

In `Prestart`, PostgreSQL is up, cannot be reached ("down", an `OSError`, which is
counted down) or can be reached and refuses because it is starting up, shutting down
or out of connections ("refusing"). The last raises `CannotConnectNowError` or
`TooManyConnectionsError`, which nothing catches: a `prestart.py` that waits for a
PostgreSQL crashes if it asks while that comes up, and depends on being started
again. `cut` are the connections an outage has severed; the error appears
at the next query, as an `OSError` (counted down) or an asyncpg exception (ends
the program). Inside the `except InvalidCatalogNameError` clause nothing is
counted. `Restart` is `restart: always`, and `Rerun` the same after a failure of
what the entrypoint runs behind `prestart.py`.

`Renditions` computes sizes only, with PIL's rule that `thumbnail` keeps
proportions and never enlarges.

## 3. The runs

| Run | Instance | Shows |
|---|---|---|
| `status_race` | 3 overlapping requests, 2 sellers, 1 product, 2 tries, all faults | the type invariant, `OnSaleWasAnnounced`, `AppliedChangeWasAnnounced`, `AnswerTellsEffect`, `CopiesAreBounded` |
| `status_serial` | 3 requests, no overlap, all faults | `ActiveIffOnSale`, `DriftHasCulprit`, and the refinement `LifecycleIsKept` |
| `status_live` | 2 overlapping requests, 3 tries, all faults, fairness | `EveryRequestEnds` |
| `status_deletion` | 2 overlapping requests, no fault | violation of `DeletionIsFinal` (finding 1) |
| `media_race` | a create, 2 edits and a download overlap, 2 renditions, all faults, fairness | the type invariant, `MissingFileWasDoomed`, `AnswerTellsMedia`, `EveryRequestEnds` |
| `media_serial` | 3 edits, no overlap but for upload threads left behind, all faults | `DanglingHasCulprit`, `OrphanHasCause`, `OrderIsContiguous`, `RenditionsAgree`, `SlugNamesProduct` |
| `media_refused` | 1 edit, 1 download, no fault | violation of `KeyNamesAFile` (finding 2) |
| `cache` | 3 readers, 2 changes of the table, fairness | the type invariant, `MissIsFresh`, `KeyCatchesUp` |
| `prestart` | 3 containers, 2 retries, 1 outage or refusal after a start in any state of PostgreSQL, fairness | the type invariant, `SchemaBeforeService`, `CrashHasCause`, `EveryContainerStarts` |
| `deployment` | a container of docker-compose.yml, one of production, a developer's process, a new database or one at revision 1, 5, 6 or 7, 1 outage or refusal, 1 downgrade, 3 broker connections, fairness | the type invariant, `MisfitIsUnmigrated`, the refinements `HistoryIsKept` and `PrestartIsKept`, `DocumentsKeepTheirFile`, `EveryEntrypointEnds` |
| `listing` | 2 requests, 2 sellers, pages 1 and 2, pages of 2, at most 3 products each, a pool of 1, 2 tries, all faults, fairness | the type invariant with the limits of pool and retries, `PageHasItsShare`, `TotalIsCurrent`, `EveryReaderLetsGo` |
| `renditions` | 49 picture sizes | violation of `SmallIsMediumSize` (finding 3) |

Why these bounds are enough. Products share no state in the handler, so one product
shows every race on it. A stale write needs one request that loaded and one that
committed; the third request may come between, before or after them, or repeat what
was undone. Two tries have a first, a retry and the last one; three, in the liveness
run, a middle one as well. Two sellers are needed for the 404 of somebody else's
product. Two images are the least that can be swapped, dropped and kept at once, and
two renditions the least that can disagree. A create, two edits and a download
contain each pair of requests that races on a file; the race has a wish of each kind
that touches files (dropped, in another format, in the same one with a document
replaced, new), and the serial run the others too. The third serial edit works on
what a failure left and another edit made of it. Two versions of a change let a
reader be older than another stale reader. Three containers allow two to lose the
race that one wins. In `deployment` two containers race for the schema while the
third process serves without it; the versions it starts from are a new database, the
revision whose names may be too long, the one before the documents change, the one
after, and the newest; one outage can hit any transaction, and one downgrade
followed by a restart contains each way back. The broker's limit of 3 lets two
servers run with a connection to spare, or one of them use up everything. Up to
3 products on pages of 2 make an empty list, a part of a page, a full one and a last
page that is partly filled, and page 2 is sometimes beyond the last. A pool of one
is used up by one of two requests. Bounds that are not in the code are `MaxVersion`,
`MaxOutages`, `MaxDowngrades` and `MaxProducts`; `BrokerLimit` is a setting of
RabbitMQ; `MaxTries`, `Retries`, `PoolSize` and the page sizes are in the code with
larger values (5, 100, 15 and up to 100), and the theorems hold for all of them.

Symmetry is used for requests only, in runs that check invariants, and in
`status_serial`, whose temporal property is a safety property (`[][Next]_row`) of a
module that does not mention requests.

`CHECK_DEADLOCK FALSE` where a behaviour ends when every request has been served,
every container has started or every rendition is made.

Fairness. Weak fairness of a request's steps: the event loop resumes a coroutine
whose await has ended, and every await ends, since httpx, aio_pika, boto3 and
asyncpg time out. Weak fairness of Redis's expiry and of the containers' steps; in
`Deployment` of the entrypoint as a whole (`EntrypointStep`: one program runs at a
time) and of PostgreSQL's return, not of developers' processes, of downgrades, of
the worker's death, of a reload or of anything a client sends. Restarts are fair
only where `restart: always` says so: for all containers of `Prestart`, which are
those of `docker-compose.yml`, and for `Composed` in `Deployment`, not for gunicorn
nor for a container that somebody has stopped. `EveryEntrypointEnds` says that such
a container has prestart and the migrations behind it again and again, unless it is
`Blocked`: by rows that a pending revision cannot be run over, or by types that a
downgrade left behind. It does not say that there is a server in the end: a
`uvicorn --reload` whose startup failed stays without one. Nothing is assumed about new
requests, about the success of any step, or about changes of the table; the outages
in `Prestart` are bounded, as no program starts while PostgreSQL keeps going away.

## 4. What is proved

TLAPS proves, for every value of the constants that meets their assumptions:

| Theorem | Statement |
|---|---|
| `TypeCorrect` | `ChangeStatus`: `[]TypeOK`, the bound on the tries included |
| `OnSaleIsAnnounced` | `[]OnSaleWasAnnounced` |
| `AppliedChangeIsAnnounced` | `[]AppliedChangeWasAnnounced` |
| `AnswerIsTruthful` | `[]AnswerTellsEffect` |
| `CopiesStayBounded` | `[]CopiesAreBounded` |
| `SerialIsActive` | `~Overlap` implies `[]ActiveIffOnSale` |
| `SerialImplementsLifecycle` | `~Overlap` implies that `ChangeStatus` implements `StatusLifecycle` |
| `SerialDriftHasCulprit` | `~Overlap` implies `[]DriftHasCulprit` |
| `MissesAreFresh` | `ReferenceCache`: `[]MissIsFresh` |
| `CacheKeepsItsTypes` | `[]TypeOK`: nothing is newer than the table |
| `AnswersTellTheTruth` | `ProductMedia`: `[]AnswerTellsMedia`, overlapping or not |
| `MissingFilesWereDeleted` | `[]MissingFileWasDoomed`, overlapping or not |
| `MediaKeepsItsTypes` | `[]TypeOK`: whole rows, and no upload pending at a commit |
| `SerialDanglingHasCulprit` | `~Overlap` implies `[]DanglingHasCulprit` |
| `SerialOrphanHasCause` | `~Overlap` implies `[]OrphanHasCause` |
| `SerialOrderIsContiguous` | `~Overlap` implies `[]OrderIsContiguous` |
| `SerialRenditionsAgree` | `~Overlap` implies `[]RenditionsAgree` |
| `SerialSlugNamesProduct` | `~Overlap` implies `[]SlugNamesProduct` |
| `DocumentEditsKeepFiles` | `~Overlap` and `DocumentsAlone` imply `[]KeyNamesAFile` |
| `ServiceFindsItsSchema` | `Prestart`: `[]SchemaBeforeService` |
| `CrashesHaveCauses` | `[]CrashHasCause` |
| `PrestartTypes` | `[]TypeOK`, the bound on the retries included |
| `ContainersFitTheirSchema` | `Deployment`: `[]MisfitIsUnmigrated` |
| `MigrationsImplementHistory` | `Deployment` implements `SchemaHistory` |
| `DeploymentImplementsPrestart` | `Deployment` implements `Prestart` |
| `DocumentsAreFound` | `DocumentsKeepTheirFile` |
| `DeploymentTypes` | `[]DeploymentTypeOK`, the broker's limit included |
| `PagesHaveTheirShare` | `Listing`: `[]PageHasItsShare` |
| `TotalsAreCurrent` | `Listing`: `[]TotalIsCurrent` |
| `LimitsAreKept` | `[]TypeOK`, the limits of pool and retries included |

*Types.* `TypeOK` is not inductive: `tries` would pass its bound, and a publish
would need the parameters of a request that has none. `TypeInv` adds
`TriesLeft` (a request that is not done has a try left) and `CallIsKnown`.

*Announcements and answers.* That a product on sale was announced depends on what
the request knew long before it committed. `HandlerInv` therefore follows each
request: it is not answered before it ends; behind the match it holds an accepted
status; before the publish nothing of it is in the log or the table
(`NothingEarly`); at the commit of an announced change its message is in the log
(`ToldBeforeCommit`). As the log only grows (`LogGrows`), other requests cannot
disturb this, and one lemma (`QuietMove`) covers the steps that touch no store.
Each of the steps that do is a case of `HandlerStep`.

*Copies.* The bound alone is not inductive. `CopiesInv` adds that a request which
may still publish has published no more often than its tries have failed, whether
their messages went out or not, and `PublishAddsOne` that a publish adds at most
one.

*Status changes without overlap.* `SerialInv` says that at most one request is in
flight, that what it loaded is still true of the table, except for what the
moderator did (`LoadedIsFresh`), and that `is_active` follows the status.
`FreshWrite` shows that the UPDATE then moves the product along an edge of the
lifecycle, so each step of the handler is a step of `StatusLifecycle` or a stutter
(`LifecycleStep`).

`DriftInv` compares the last message about a product with its row: they agree, or a
request published and did not commit, and is still at work or was answered 500.
It follows from a request having the last word at its commit, or having said
nothing where nothing is announced (`HadItsSayAtCommit`).

*Cache.* `RowsInv` keeps what a reader that missed has selected at least as new as
its arrival; the types need that it is no newer than the table either.

*Files.* `MediaPlaces` ties each place of a handler to the kind of its request and
to `applied`: what is not at its last SELECT or at its end has not been written,
which makes the answers true. For the files, a key is `Accounted` for when it is in
the store or doomed, which no step undoes (`StoreGrows`). `FilesInv` follows each
request through its gathers: the keys of what it is about to insert are accounted
for or still pending (`Sent`), and nothing is pending at the commit (`Uploads`); so
the commit gives rows no other keys (`CommitKeepsFiles`). A thread that is still
uploading after its request was answered can only add a file. `FilesMove` covers
the steps that leave the tables alone.

*Types of the files.* That the rows stay whole needs that what a request asks for
is a value the schemas accept (`Wishes`), and that the orders which `CheckImages`
let pass are still those of the request at its commit.

*Files without overlap.* The properties relate a row to a file that another request
may have written long ago, so the proof remembers who wrote what. `RowsAreKeyed`: a
row's keys are made of its own id, and no row has an id that a request has yet to
give. `AllWrite`: what a request has stored or has pending are files its parameters
ask for, and it stores none before it reaches its uploads. `SerialInv`: one request
is being served (`Alone`), what it loaded is what the tables hold (`Loaded`), and at
each place it is known which of its files are there and which it has asked the store
to delete (`Progress`). Neither is exact: a thread that an earlier request left
behind may still write over a file, and the store may keep what it was asked to
delete. What holds is that a file of the request is pending, or there and made by a
request that did not commit (`Stored`), and that at its commit the request has
doomed exactly the files of the rows it takes away (`Gone`). `AtCommit` draws these
together: the rows after a commit name what was there before and is not doomed, and
what the request uploaded (`RowsWritten`, `NamedWritten`). So a key that lost its
file lost it to a request that did not commit, and a file that no row names was made
by one, or is one that a committed edit has doomed and the store has kept. `SerialChange` leaves three kinds of steps that touch store or
tables: a commit, an upload, a deletion. `NewImagesCounted` and `Enumerated` carry
the check of the orders to the rows that the commit writes; `OnePicture` says that
any two renditions of a row were made by one request, or that one which did not
commit has overwritten one of them.

`DocumentsAlone` is the condition under which what the route promises about
documents does hold: deletions, commits and the process do not fail, and an edit
that lists documents lists no images and fits its columns. `Careful` then says that
an edit which has doomed a document's file commits without fail. No part of the
condition can be left out: each of the three kinds of fault loses a file on its way
to the commit, values that do not fit make the commit fail, and `media_refused` is
an edit of both kinds.

*Prestart.* `PlaceInv` says what each place of `main()` can rely on. `Cause`
remembers what was seen before a CREATE or a connection: the thing was not there,
and if it is there by now, somebody else made it; and that a container which
crashed for lack of a connection met an outage or a refusal (`outages`, `refused`
remember them). `PrestartTypeInv` adds that a
container that has not given up has an attempt left, without which the bound on
the retries is not inductive.

*Deployment.* `UpgradeSteps` and `Chain` compute the schemas of the revisions one
after the other, `StepsFit` and `OnlyHeadFits` say that each revision can be run
over the one before, rows permitting, and that the models' statements fit the newest
schema only. Then `DeploymentInv`: the schema is that of its version, or what the
last downgrade left (`TypeInv`); a transaction has run a part of the chain from a
version the database had (`WorkInv`); and where a container is past its migrations
the version is `Head` (`HeadInv`), which a downgrade does not disturb because it
needs all containers to be elsewhere. `SchemaMovers` leaves the two actions that
change the schema, and `CommitEffect` and `DowngradeEffect` map them to the steps of
`SchemaHistory` under the refinement mapping `Release` (the version, or -1 for the
types left behind). `PrestartIsKept` needs no mapping: the variables of `Prestart`
are `Deployment`'s own, and every action is one of its steps or leaves them alone.
`DocumentsAreFound` rests on `DocumentsStopRevision`: documents stop each revision,
either way, that would drop a column naming their files.

*Listing.* `RoundedUp` and `PageBegins` are the arithmetic of a division rounded up:
the last page begins before the last row counted. `PageInv` keeps the count a lower
bound of the rows until the page is selected, and `PageFilled` joins the two.

The assumptions are those named in the modules. `StartAssumption` of `ProductMedia`
stands for uuid4: no image is there twice, and the ids of the rows a request makes
(`<<request, n>>`) are not those of rows that were there before.

Only model-checked: the liveness properties `EveryRequestEnds` (of both modules),
`KeyCatchesUp`, `EveryContainerStarts`, `EveryEntrypointEnds` and
`EveryReaderLetsGo`, as temporal reasoning with fairness is not available to these
proofs; and the violations, each of which is one counterexample. Every other
property of a passing run is stated by a theorem. `Renditions` has no theorem: its
question is about the three sizes the code asks for.

## 5. Findings

1. *A deletion can be undone* (`seller_products.py:726`). The row is written without
   a condition on the status that was matched. A request to `on_moderation` that
   loaded the row before a deletion was committed overwrites it after that deletion
   was answered 200.
2. *A refused edit loses documents* (`seller_products.py:645`). `edit` deletes the
   files of dropped documents and then validates the images; on a 422 the rows
   stay and their files are gone. Downloads of them end in 500. `DocumentEditsKeepFiles`
   gives a condition under which this cannot happen.
3. *Small and medium are the same* (`seller_products.py:173`). `thumbnail` shrinks
   in place and `image_sizes` asks for 680, 64, 380 in this order: the `small_url`
   picture, documented as the medium size, is made of the 64 pixel one.

Met while modelling, and not stated as a property because no document promises the
opposite: two overlapping edits that both add an image with order 1 are both
accepted, and two overlapping renames may leave one's name beside the other's slug
(`OrderIsContiguous` and `SlugNamesProduct` are therefore properties of edits that
do not overlap); the migration to document keys cannot be run over a table with
documents, so that a container restarts for ever (`Blocked`); the connections that
`send_message` leaves open add up until no server can start beside them
(`BrokerFull`); a compose container whose startup fails stays up without a server,
as `restart: always` only sees the supervisor; `prestart.py` waits for a PostgreSQL
that cannot be reached, and crashes at one that is still starting up; an edit whose
files the store did not delete is answered 200 and leaves them for good; an edit of a product on sale is never announced to the search index;
a client that walks through the pages of `get_all` may miss products, as they are
selected in no order; and the search index differs from the table for good when a
commit fails after its message (`DriftHasCulprit` says that this is the only way
without overlap).

## 6. Not modelled

Read endpoints (one SELECT, no state), `delete` and `delete_all` (dead code: routes
commented out, marked as not working), the generic `_create`, `_update`, `_delete`
(dead code: no caller), parsing and serialisation, logging, middlewares,
documentation, what rows `populate_db` writes. Contents of messages, pictures,
prices and specifications are abstracted to what the properties tell apart. Of the
index only visibility is modelled: `edit` sends nothing, so its contents are those
of the last status change, and no document says what they should be. The order of
pages is left out, as the code asks for none.

## 7. Plan

Every component that keeps state is modelled and checked, and every safety property
of a passing run is proved. What could be added:

1. The safety facts behind the liveness properties: a step of a handler always
   lowers a measure (places left, then tries left), which is all of
   `EveryRequestEnds` but the fairness.
2. For overlapping edits, which files two of them may cost: a bound like
   `DanglingHasCulprit` that counts the edits that were answered 200 as well.
3. `ChangeStatus` with overlap: which edges of the lifecycle a stale write can add.
