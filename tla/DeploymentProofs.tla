--------------------------- MODULE DeploymentProofs ---------------------------
(***************************************************************************)
(* Deployment for any number of containers and developers' processes, any  *)
(* limit of the broker and any number of outages and downgrades.           *)
(***************************************************************************)
EXTENDS Deployment, FiniteSetTheorems, TLAPS

\* Each revision takes the schema from one step of the chain to the next.
LEMMA UpgradeSteps ==
    ASSUME NEW n \in 1..Head
    PROVE  Applied(Upgrade[n], ObjectsAt[n - 1]) = ObjectsAt[n]
<1> DEFINE step == Upgrade[n]
<1>0. n \in 0..Head /\ n - 1 \in 0..Head
    BY DEF Head
<1>1. step.creates \subseteq Object
    BY DEF Object
<1>2. ASSUME NEW o \in Applied(step, ObjectsAt[n - 1]) PROVE o \in ObjectsAt[n]
  <2>1. CASE o \in step.creates
    <3>1. \A m \in n + 1 .. n : o \notin Upgrade[m].drops
        BY DEF Head
    <3> QED BY <1>0, <1>1, <2>1, <3>1 DEF ObjectsAt, Head
  <2>2. CASE o \in ObjectsAt[n - 1] \ step.drops
    <3>1. PICK k \in 1 .. n - 1 :
              o \in Upgrade[k].creates /\ \A m \in k + 1 .. n - 1 : o \notin Upgrade[m].drops
        BY <1>0, <2>2 DEF ObjectsAt
    <3>2. \A m \in k + 1 .. n : m \in k + 1 .. n - 1 \/ m = n
        BY DEF Head
    <3>3. \A m \in k + 1 .. n : o \notin Upgrade[m].drops
        BY <2>2, <3>1, <3>2
    <3> QED BY <1>0, <2>2, <3>1, <3>3 DEF ObjectsAt, Head
  <2> QED BY <1>2, <2>1, <2>2 DEF Applied
<1>3. ASSUME NEW o \in ObjectsAt[n] PROVE o \in Applied(step, ObjectsAt[n - 1])
  <2>1. PICK k \in 1..n :
            o \in Upgrade[k].creates /\ \A m \in k + 1 .. n : o \notin Upgrade[m].drops
      BY <1>0 DEF ObjectsAt
  <2>2. CASE k = n
      BY <2>1, <2>2 DEF Applied
  <2>3. CASE k < n
    <3>1. k \in 1 .. n - 1 /\ n \in k + 1 .. n /\ k + 1 .. n - 1 \subseteq k + 1 .. n
        BY <2>3 DEF Head
    <3>2. o \in ObjectsAt[n - 1]
        BY <1>0, <2>1, <3>1 DEF ObjectsAt
    <3>3. o \notin step.drops
        BY <2>1, <3>1
    <3> QED BY <3>2, <3>3 DEF Applied
  <2> QED BY <2>2, <2>3 DEF Head
<1> QED BY <1>2, <1>3

LEMMA SchemasAreObjects == \A v \in 0..Head : ObjectsAt[v] \subseteq Object
BY DEF ObjectsAt

\* The chain, one schema after the other.
LEMMA Chain ==
    /\ ObjectsAt[0] = {}
    /\ ObjectsAt[1] = InitialMigration.creates
    /\ ObjectsAt[2] = ObjectsAt[1] \cup AddBrandsAndId.creates
    /\ ObjectsAt[3] = (ObjectsAt[2] \ Len128ProductName.drops) \cup Len128ProductName.creates
    /\ ObjectsAt[4] = ObjectsAt[3] \ DelCategoryIdInProductAndBrandname.drops
    /\ ObjectsAt[5] = ObjectsAt[4] \cup AddMessage.creates
    /\ ObjectsAt[6] = (ObjectsAt[5] \ CorrectDocumentModel.drops) \cup CorrectDocumentModel.creates
    /\ ObjectsAt[7] = ObjectsAt[6] \cup AddProductStatusColumn.creates
<1>0. ObjectsAt[0] = {}
    BY DEF ObjectsAt, Head
<1>1. ASSUME NEW n \in 1..7 PROVE ObjectsAt[n] = Applied(Upgrade[n], ObjectsAt[n - 1])
    BY UpgradeSteps DEF Head
<1>2. /\ Upgrade[1] = InitialMigration /\ Upgrade[2] = AddBrandsAndId
      /\ Upgrade[3] = Len128ProductName /\ Upgrade[4] = DelCategoryIdInProductAndBrandname
      /\ Upgrade[5] = AddMessage /\ Upgrade[6] = CorrectDocumentModel
      /\ Upgrade[7] = AddProductStatusColumn
    BY DEF Upgrade
<1>3. /\ ObjectsAt[1] = Applied(InitialMigration, ObjectsAt[0])
      /\ ObjectsAt[2] = Applied(AddBrandsAndId, ObjectsAt[1])
      /\ ObjectsAt[3] = Applied(Len128ProductName, ObjectsAt[2])
      /\ ObjectsAt[4] = Applied(DelCategoryIdInProductAndBrandname, ObjectsAt[3])
      /\ ObjectsAt[5] = Applied(AddMessage, ObjectsAt[4])
      /\ ObjectsAt[6] = Applied(CorrectDocumentModel, ObjectsAt[5])
      /\ ObjectsAt[7] = Applied(AddProductStatusColumn, ObjectsAt[6])
    BY <1>1, <1>2
<1>4. /\ InitialMigration.drops = {} /\ AddBrandsAndId.drops = {} /\ AddMessage.drops = {}
      /\ AddProductStatusColumn.drops = {} /\ DelCategoryIdInProductAndBrandname.creates = {}
    BY DEF InitialMigration, AddBrandsAndId, AddMessage, AddProductStatusColumn,
           DelCategoryIdInProductAndBrandname
<1> QED BY <1>0, <1>3, <1>4 DEF Applied

\* Over its own predecessor each revision finds what it drops and nothing of what
\* it creates.
LEMMA StepsFit ==
    ASSUME NEW n \in 1..Head
    PROVE  /\ Upgrade[n].drops \subseteq ObjectsAt[n - 1]
           /\ Upgrade[n].creates \cap ObjectsAt[n - 1] = {}
<1>1. /\ Upgrade[1] = InitialMigration /\ Upgrade[2] = AddBrandsAndId
      /\ Upgrade[3] = Len128ProductName /\ Upgrade[4] = DelCategoryIdInProductAndBrandname
      /\ Upgrade[5] = AddMessage /\ Upgrade[6] = CorrectDocumentModel
      /\ Upgrade[7] = AddProductStatusColumn
    BY DEF Upgrade
<1>2. /\ ObjectsAt[0] = {}
      /\ ObjectsAt[1] = EnumTypes \cup InitialTables \cup
            {"product.category_id", "product.name varchar(255)", "document.url",
             "manually_filled_specification.brandname"}
      /\ ObjectsAt[2] = ObjectsAt[1] \cup {"brand", "product.brand_id"}
      /\ ObjectsAt[3] = (ObjectsAt[2] \ {"product.name varchar(255)"}) \cup {"product.name varchar(128)"}
      /\ ObjectsAt[4] = ObjectsAt[3] \ {"manually_filled_specification.brandname", "product.category_id"}
      /\ ObjectsAt[5] = ObjectsAt[4] \cup {"message"}
      /\ ObjectsAt[6] = (ObjectsAt[5] \ {"document.url"}) \cup
            {"document.key", "document.name", "document.extension"}
    BY Chain DEF InitialMigration, AddBrandsAndId, Len128ProductName, DelCategoryIdInProductAndBrandname,
                 AddMessage, CorrectDocumentModel
<1> DEFINE Fit(step, objects_) == step.drops \subseteq objects_ /\ step.creates \cap objects_ = {}
<1>3. Fit(InitialMigration, ObjectsAt[0])
    BY <1>2 DEF InitialMigration
<1>4. Fit(AddBrandsAndId, ObjectsAt[1])
    BY <1>2 DEF AddBrandsAndId, EnumTypes, InitialTables
<1>5. Fit(Len128ProductName, ObjectsAt[2])
    BY <1>2 DEF Len128ProductName, EnumTypes, InitialTables
<1>6. Fit(DelCategoryIdInProductAndBrandname, ObjectsAt[3])
    BY <1>2 DEF DelCategoryIdInProductAndBrandname, EnumTypes, InitialTables
<1>7. Fit(AddMessage, ObjectsAt[4])
    BY <1>2 DEF AddMessage, EnumTypes, InitialTables
<1>8. Fit(CorrectDocumentModel, ObjectsAt[5])
    BY <1>2 DEF CorrectDocumentModel, EnumTypes, InitialTables
<1>9. Fit(AddProductStatusColumn, ObjectsAt[6])
    BY <1>2 DEF AddProductStatusColumn, EnumTypes, InitialTables
<1>10. Fit(Upgrade[n], ObjectsAt[n - 1])
  <2>1. n = 1 \/ n = 2 \/ n = 3 \/ n = 4 \/ n = 5 \/ n = 6 \/ n = 7
      BY DEF Head
  <2>2. CASE n = 1
    <3>1. n - 1 = 0 /\ Upgrade[n] = InitialMigration
        BY <1>1, <2>2
    <3> QED BY <1>3, <3>1
  <2>3. CASE n = 2
    <3>1. n - 1 = 1 /\ Upgrade[n] = AddBrandsAndId
        BY <1>1, <2>3
    <3> QED BY <1>4, <3>1
  <2>4. CASE n = 3
    <3>1. n - 1 = 2 /\ Upgrade[n] = Len128ProductName
        BY <1>1, <2>4
    <3> QED BY <1>5, <3>1
  <2>5. CASE n = 4
    <3>1. n - 1 = 3 /\ Upgrade[n] = DelCategoryIdInProductAndBrandname
        BY <1>1, <2>5
    <3> QED BY <1>6, <3>1
  <2>6. CASE n = 5
    <3>1. n - 1 = 4 /\ Upgrade[n] = AddMessage
        BY <1>1, <2>6
    <3> QED BY <1>7, <3>1
  <2>7. CASE n = 6
    <3>1. n - 1 = 5 /\ Upgrade[n] = CorrectDocumentModel
        BY <1>1, <2>7
    <3> QED BY <1>8, <3>1
  <2>8. CASE n = 7
    <3>1. n - 1 = 6 /\ Upgrade[n] = AddProductStatusColumn
        BY <1>1, <2>8
    <3> QED BY <1>9, <3>1
  <2> QED BY <2>1, <2>2, <2>3, <2>4, <2>5, <2>6, <2>7, <2>8
<1> QED BY <1>10

\* What is left when the first revision is taken back.
LEMMA Leftover == EnumTypes \subseteq ObjectsAt[1] /\ EnumTypes # {} /\ Upgrade[1].drops = {}
                  /\ Upgrade[1].creates = ObjectsAt[1]
BY Chain DEF Upgrade, InitialMigration, EnumTypes

\* A downgrade undoes its upgrade, but for the types of the first revision.
LEMMA DowngradeSteps ==
    ASSUME NEW n \in 1..Head
    PROVE  Applied(Downgrade(n), ObjectsAt[n]) = IF n = 1 THEN EnumTypes ELSE ObjectsAt[n - 1]
<1>1. CASE n = 1
    BY <1>1, Leftover DEF Applied, Downgrade
<1>2. CASE n # 1
    BY <1>2, StepsFit, UpgradeSteps DEF Applied, Downgrade
<1> QED BY <1>1, <1>2

\* The newest schema is the one the models need ...
LEMMA HeadFits == Fits(ObjectsAt[Head])
BY Chain DEF Head, Fits, ProductModels, ExtensionModels, ReferenceModels, Unfilled, InitialMigration,
             EnumTypes, InitialTables, AddBrandsAndId, Len128ProductName,
             DelCategoryIdInProductAndBrandname, AddMessage, CorrectDocumentModel, AddProductStatusColumn

\* ... and no other is: the last column comes with the last revision.
LEMMA OnlyHeadFits ==
    ASSUME NEW v \in 0..Head, v # Head
    PROVE  ~Fits(ObjectsAt[v])
<1>1. "product.status" \notin ObjectsAt[v]
  <2>1. ASSUME NEW n \in 1..6 PROVE "product.status" \notin Upgrade[n].creates
    <3>1. n = 1 \/ n = 2 \/ n = 3 \/ n = 4 \/ n = 5 \/ n = 6
        OBVIOUS
    <3>2. CASE n = 1
        BY <3>2 DEF Upgrade, InitialMigration, EnumTypes, InitialTables
    <3>3. CASE n = 2
        BY <3>3 DEF Upgrade, AddBrandsAndId
    <3>4. CASE n = 3
        BY <3>4 DEF Upgrade, Len128ProductName
    <3>5. CASE n = 4
        BY <3>5 DEF Upgrade, DelCategoryIdInProductAndBrandname
    <3>6. CASE n = 5
        BY <3>6 DEF Upgrade, AddMessage
    <3>7. CASE n = 6
        BY <3>7 DEF Upgrade, CorrectDocumentModel
    <3> QED BY <3>1, <3>2, <3>3, <3>4, <3>5, <3>6, <3>7
  <2>2. 1..v \subseteq 1..6
      BY DEF Head
  <2> QED BY <2>1, <2>2 DEF ObjectsAt
<1> QED BY <1>1 DEF Fits, ProductModels

LEMMA LeftoverFitsNothing == ~Fits(EnumTypes)
BY DEF Fits, ProductModels, EnumTypes

\* A migration gets nowhere over the types that an earlier one left behind.
LEMMA LeftoverStopsMigration ==
    ASSUME NEW present PROVE ~Possible(Upgrade[1], EnumTypes, present)
BY Leftover DEF Possible
------------------------------------------------------------------------------
(* The invariant.  A transaction stands at a revision of its own.  One that *)
(* began at the version the database is still at is the only one that may   *)
(* commit; it has changed what it saw, so the rows that would have stopped  *)
(* it are not there.  While a container migrates or serves, nobody takes a  *)
(* revision back.                                                           *)
Job == [version : 0..Head, objects : SUBSET Object, from : 0..Head]

At(v, present) == present = ObjectsAt[v] \/ (v = 0 /\ present = EnumTypes)

TypeInv ==
    /\ stage \in [Process -> Stage] /\ work \in [Process -> Job] /\ version \in 0..Head
    /\ At(version, objects)

WorkInv ==
    \A c \in Process : stage[c] = "migrating" =>
        /\ c \in Container /\ work[c].from # Head
        /\ At(work[c].version, work[c].objects)
        /\ work[c].from = version =>
              /\ objects # ObjectsAt[version] => work[c].version = 0 /\ work[c].objects = objects
              /\ work[c].from < 6 /\ work[c].version >= 6 => "document" \notin rows

HeadInv ==
    \A c \in Container : stage[c] \in {"startup", "broker", "serving", "stalled"} => version = Head

DeploymentInv == TypeInv /\ WorkInv /\ HeadInv

LEMMA DeploymentInitInv == DeploymentInit => DeploymentInv
<1> SUFFICES ASSUME DeploymentInit PROVE DeploymentInv
    OBVIOUS
<1>1. version \in 0..Head
    BY DeploymentAssumption DEF DeploymentInit, Head
<1>2. NoWork \in Job
    BY DEF NoWork, Job, Head
<1>3. TypeInv
    BY <1>1, <1>2 DEF DeploymentInit, TypeInv, At, Stage
<1>4. \A p \in Process : stage[p] \in {"prestart", "off"}
    BY DEF DeploymentInit
<1>5. WorkInv /\ HeadInv
    BY <1>4 DEF WorkInv, HeadInv, Process
<1> QED BY <1>3, <1>5 DEF DeploymentInv

\* A step that leaves the schema, its rows and all transactions alone, and moves
\* one process, keeps the invariant if the move is a legal one.
LEMMA StageMove ==
    ASSUME DeploymentInv, NEW p \in Process, NEW next \in Stage, GoTo(p, next),
           UNCHANGED <<objects, version, rows, work>>,
           next # "migrating",
           p \in Container /\ next \in {"startup", "broker", "serving", "stalled"} => version = Head
    PROVE  DeploymentInv'
<1> USE DEF DeploymentInv, GoTo
<1>1. TypeInv'
    BY DEF TypeInv
<1>2. WorkInv'
    BY DEF TypeInv, WorkInv
<1>3. HeadInv'
    BY DEF TypeInv, HeadInv, Process
<1> QED BY <1>1, <1>2, <1>3

LEMMA AtRevision ==
    ASSUME NEW v \in 0..Head, NEW present, At(v, present), NEW existing,
           v # Head, Possible(Upgrade[v + 1], present, existing)
    PROVE  present = ObjectsAt[v] /\ At(v + 1, Applied(Upgrade[v + 1], present))
<1>1. present = ObjectsAt[v]
    BY LeftoverStopsMigration DEF At
<1>2. v + 1 \in 1..Head /\ (v + 1) - 1 = v
    BY DEF Head
<1>3. Applied(Upgrade[v + 1], ObjectsAt[v]) = ObjectsAt[v + 1]
    BY <1>2, UpgradeSteps
<1> QED BY <1>1, <1>3 DEF At

\* The revision that replaces a document's url needs a table without documents.
LEMMA DocumentsStopRevision ==
    ASSUME NEW present, NEW existing, Possible(Upgrade[6], present, existing)
    PROVE  "document" \notin existing
<1>1. "document.key" \in Upgrade[6].creates
    BY DEF Upgrade, CorrectDocumentModel
<1>2. Blockers("document.key") = {"document"}
    BY DEF Blockers
<1> QED BY <1>1, <1>2 DEF Possible

\* Over the schema of no other version do the statements of WriteProduct run.
LEMMA WritersAreAtHead == DeploymentInv /\ Fits(objects) => version = Head
BY OnlyHeadFits, LeftoverFitsNothing DEF DeploymentInv, TypeInv, At

LEMMA RunRevisionInv ==
    ASSUME DeploymentInv, NEW c \in Container, RunRevision(c)
    PROVE  DeploymentInv'
<1> DEFINE n == work[c].version + 1
<1>0. c \in Process /\ work[c] \in Job /\ work[c].version \in 0..Head
    BY DEF Process, DeploymentInv, TypeInv, Job
<1>1. CASE ~Possible(Upgrade[n], work[c].objects, rows)
  <2>1. stage' = [stage EXCEPT ![c] = "failed"] /\ work' = [work EXCEPT ![c] = NoWork]
      BY <1>1 DEF RunRevision, Fail, GoTo
  <2>2. NoWork \in Job /\ "failed" \in Stage
      BY DEF NoWork, Job, Head, Stage
  <2>3. UNCHANGED <<objects, version, rows>>
      BY DEF RunRevision
  <2>4. TypeInv'
      BY <2>1, <2>2, <2>3 DEF DeploymentInv, TypeInv
  <2>5. WorkInv'
      BY <1>0, <2>1, <2>3 DEF DeploymentInv, TypeInv, WorkInv
  <2>6. HeadInv'
      BY <1>0, <2>1, <2>3 DEF DeploymentInv, TypeInv, HeadInv, Process
  <2> QED BY <2>4, <2>5, <2>6 DEF DeploymentInv
<1>2. CASE Possible(Upgrade[n], work[c].objects, rows)
  <2> DEFINE job == [work[c] EXCEPT !.version = n, !.objects = Applied(Upgrade[n], work[c].objects)]
  <2>1. work' = [work EXCEPT ![c] = job]
      BY <1>0, <1>2 DEF RunRevision, DeploymentInv, TypeInv
  <2>2. UNCHANGED <<objects, version, rows, stage>> /\ stage[c] = "migrating" /\ n <= Head
      BY <1>2 DEF RunRevision
  <2>3. At(work[c].version, work[c].objects)
      BY <1>0, <2>2 DEF DeploymentInv, WorkInv
  <2>4. /\ work[c].objects = ObjectsAt[work[c].version]
        /\ At(n, Applied(Upgrade[n], work[c].objects)) /\ n \in 1..Head
      BY <1>0, <1>2, <2>2, <2>3, AtRevision DEF Head
  <2>5. Applied(Upgrade[n], work[c].objects) \subseteq Object
      BY <2>4, SchemasAreObjects DEF At, Head
  <2>6. job \in Job /\ job.version = n /\ job.from = work[c].from
        /\ job.objects = Applied(Upgrade[n], work[c].objects)
    <3>1. n \in 0..Head
        BY <2>4 DEF Head
    <3> DEFINE o == Applied(Upgrade[n], work[c].objects)
    <3>2. o \in SUBSET Object
        BY <2>5
    <3>3. job = [work[c] EXCEPT !.version = n, !.objects = o]
        OBVIOUS
    <3> HIDE DEF o, n, job
    <3>4. job \in Job /\ job.version = n /\ job.from = work[c].from /\ job.objects = o
        BY <1>0, <3>1, <3>2, <3>3 DEF Job
    <3>5. o = Applied(Upgrade[n], work[c].objects)
        BY DEF o
    <3> QED BY <3>4, <3>5
  <2>7. TypeInv'
      BY <2>1, <2>2, <2>6 DEF DeploymentInv, TypeInv
  <2>8. work[c].from = version => objects = ObjectsAt[version]
    <3>1. SUFFICES ASSUME work[c].from = version, objects # ObjectsAt[version] PROVE FALSE
        OBVIOUS
    <3>2. work[c].version = 0 /\ work[c].objects = objects
        BY <1>0, <2>2, <3>1 DEF DeploymentInv, WorkInv
    <3>3. objects = EnumTypes /\ version = 0
        BY <3>1 DEF DeploymentInv, TypeInv, At
    <3> QED BY <2>4, <3>1, <3>2, <3>3
  <2>9. work[c].from = version /\ work[c].from < 6 /\ n >= 6 => "document" \notin rows
    <3>1. CASE n = 6
        BY <1>2, <3>1, DocumentsStopRevision
    <3>2. CASE n > 6
        BY <1>0, <2>2, <3>2 DEF DeploymentInv, WorkInv, Head
    <3> QED BY <1>0, <3>1, <3>2 DEF Head
  <2>10. WorkInv'
    <3>1. ASSUME NEW q \in Process, stage'[q] = "migrating"
          PROVE  /\ q \in Container /\ work'[q].from # Head
                 /\ At(work'[q].version, work'[q].objects)
                 /\ work'[q].from = version' =>
                       /\ objects' # ObjectsAt[version'] => work'[q].version = 0 /\ work'[q].objects = objects'
                       /\ work'[q].from < 6 /\ work'[q].version >= 6 => "document" \notin rows'
      <4>1. CASE q = c
        <5>1. work'[q] = job
            BY <1>0, <2>1, <4>1 DEF DeploymentInv, TypeInv
        <5> QED BY <1>0, <2>2, <2>4, <2>6, <2>8, <2>9, <4>1, <5>1 DEF DeploymentInv, WorkInv
      <4>2. CASE q # c
        <5>1. work'[q] = work[q]
            BY <1>0, <2>1, <4>2 DEF DeploymentInv, TypeInv
        <5> QED BY <2>2, <3>1, <5>1 DEF DeploymentInv, WorkInv
      <4> QED BY <4>1, <4>2
    <3> QED BY <3>1 DEF WorkInv, At
  <2>11. HeadInv'
      BY <2>2 DEF DeploymentInv, HeadInv
  <2> QED BY <2>7, <2>10, <2>11 DEF DeploymentInv
<1> QED BY <1>1, <1>2

LEMMA BeginMigrationInv ==
    ASSUME DeploymentInv, NEW c \in Container, BeginMigration(c)
    PROVE  DeploymentInv'
<1>0. c \in Process /\ UNCHANGED <<objects, version, rows>>
    BY DEF Process, BeginMigration
<1>1. CASE db # "up" /\ Fail(c) /\ UNCHANGED work
    BY <1>0, <1>1, StageMove DEF Fail, Stage
<1>2. CASE db = "up" /\ version = Head /\ GoTo(c, "startup") /\ UNCHANGED work
    BY <1>0, <1>2, StageMove DEF Stage
<1>3. CASE /\ db = "up" /\ version < Head /\ GoTo(c, "migrating")
           /\ work' = [work EXCEPT ![c] = [version |-> version, objects |-> objects, from |-> version]]
  <2> DEFINE job == [version |-> version, objects |-> objects, from |-> version]
  <2>1. version \in 0..Head /\ version # Head /\ At(version, objects)
      BY <1>3 DEF DeploymentInv, TypeInv, Head
  <2>2. objects \subseteq Object
      BY <2>1, Leftover, SchemasAreObjects DEF At, Head
  <2>3. job \in Job
      BY <2>1, <2>2 DEF Job
  <2>4. TypeInv'
      BY <1>0, <1>3, <2>3 DEF DeploymentInv, TypeInv, GoTo, Stage
  <2>5. WorkInv'
    <3>1. ASSUME NEW q \in Process, stage'[q] = "migrating"
          PROVE  /\ q \in Container /\ work'[q].from # Head
                 /\ At(work'[q].version, work'[q].objects)
                 /\ work'[q].from = version' =>
                       /\ objects' # ObjectsAt[version'] => work'[q].version = 0 /\ work'[q].objects = objects'
                       /\ work'[q].from < 6 /\ work'[q].version >= 6 => "document" \notin rows'
      <4>1. CASE q = c
        <5>1. work'[q] = job
            BY <1>0, <1>3, <4>1 DEF DeploymentInv, TypeInv
        <5> QED BY <1>0, <2>1, <4>1, <5>1 DEF At, Head
      <4>2. CASE q # c
        <5>1. work'[q] = work[q] /\ stage[q] = "migrating"
            BY <1>0, <1>3, <3>1, <4>2 DEF DeploymentInv, TypeInv, GoTo
        <5> QED BY <1>0, <5>1 DEF DeploymentInv, WorkInv
      <4> QED BY <4>1, <4>2
    <3> QED BY <3>1 DEF WorkInv, At
  <2>6. HeadInv'
      BY <1>0, <1>3 DEF DeploymentInv, TypeInv, HeadInv, GoTo, Process
  <2> QED BY <2>4, <2>5, <2>6 DEF DeploymentInv
<1> QED BY <1>1, <1>2, <1>3 DEF BeginMigration

\* The commit that succeeds: what it makes of the schema.
LEMMA CommitEffect ==
    ASSUME DeploymentInv, NEW c \in Container, CommitMigration(c), work[c].from = version
    PROVE  /\ version # Head /\ version' = Head
           /\ objects = ObjectsAt[version] /\ objects' = ObjectsAt[Head]
           /\ version < 6 => "document" \notin rows
<1>1. c \in Process /\ stage[c] = "migrating" /\ work[c].version = Head
    BY DEF Process, CommitMigration
<1>2. /\ work[c].from # Head /\ At(work[c].version, work[c].objects)
      /\ objects # ObjectsAt[version] => work[c].version = 0
      /\ work[c].from < 6 /\ work[c].version >= 6 => "document" \notin rows
    BY <1>1 DEF DeploymentInv, WorkInv
<1>3. objects' = work[c].objects /\ version' = Head
    BY DEF CommitMigration
<1> QED BY <1>1, <1>2, <1>3 DEF At, Head

LEMMA CommitMigrationInv ==
    ASSUME DeploymentInv, NEW c \in Container, CommitMigration(c)
    PROVE  DeploymentInv'
<1>0. /\ c \in Process /\ UNCHANGED rows /\ work' = [work EXCEPT ![c] = NoWork]
      /\ NoWork \in Job /\ version \in 0..Head /\ Head \in 0..Head
    BY DEF Process, CommitMigration, NoWork, Job, Head, DeploymentInv, TypeInv
<1>1. CASE work[c].from = version
  <2>1. /\ version' = Head /\ objects' = ObjectsAt[Head] /\ stage' = [stage EXCEPT ![c] = "startup"]
      BY <1>1, CommitEffect DEF CommitMigration, GoTo
  <2>2. TypeInv'
      BY <1>0, <2>1 DEF DeploymentInv, TypeInv, At, Stage
  <2>3. WorkInv'
      BY <1>0, <2>1 DEF DeploymentInv, TypeInv, WorkInv
  <2>4. HeadInv'
      BY <2>1 DEF HeadInv
  <2> QED BY <2>2, <2>3, <2>4 DEF DeploymentInv
<1>2. CASE work[c].from # version
  <2>1. /\ UNCHANGED <<objects, version>> /\ stage' = [stage EXCEPT ![c] = "failed"]
      BY <1>2 DEF CommitMigration, Fail, GoTo
  <2>2. TypeInv'
      BY <1>0, <2>1 DEF DeploymentInv, TypeInv, At, Stage
  <2>3. WorkInv'
      BY <1>0, <2>1 DEF DeploymentInv, TypeInv, WorkInv
  <2>4. HeadInv'
      BY <1>0, <2>1 DEF DeploymentInv, TypeInv, HeadInv, Process
  <2> QED BY <2>2, <2>3, <2>4 DEF DeploymentInv
<1> QED BY <1>1, <1>2

LEMMA WriteProductInv ==
    ASSUME DeploymentInv, NEW p \in Process, WriteProduct(p)
    PROVE  DeploymentInv'
<1>1. version = Head /\ UNCHANGED <<objects, version, stage, work>>
    BY WritersAreAtHead DEF WriteProduct
<1>2. WorkInv'
    BY <1>1 DEF DeploymentInv, WorkInv, At
<1>3. TypeInv' /\ HeadInv'
    BY <1>1 DEF DeploymentInv, TypeInv, HeadInv, At
<1> QED BY <1>2, <1>3 DEF DeploymentInv

\* The downgrade: what it makes of the schema.
LEMMA DowngradeEffect ==
    ASSUME DeploymentInv, RunDowngrade
    PROVE  /\ version \in 1..Head /\ objects = ObjectsAt[version] /\ version' = version - 1
           /\ objects' = IF version = 1 THEN EnumTypes ELSE ObjectsAt[version - 1]
<1>1. /\ version \in 1..Head /\ version' = version - 1
      /\ objects' = Applied(Downgrade(version), objects)
    BY DEF RunDowngrade, DeploymentInv, TypeInv, Head
<1>2. objects = ObjectsAt[version]
    BY <1>1 DEF DeploymentInv, TypeInv, At
<1> QED BY <1>1, <1>2, DowngradeSteps

LEMMA RunDowngradeInv == DeploymentInv /\ RunDowngrade => DeploymentInv'
<1> SUFFICES ASSUME DeploymentInv, RunDowngrade PROVE DeploymentInv'
    OBVIOUS
<1>1. \A c \in Container : stage[c] \in {"prestart", "failed", "off"}
    BY DEF RunDowngrade
<1>2. UNCHANGED <<stage, work>>
    BY DEF RunDowngrade
<1>3. TypeInv'
    BY <1>2, DowngradeEffect DEF DeploymentInv, TypeInv, At, Head
<1>4. WorkInv'
    BY <1>1, <1>2 DEF DeploymentInv, WorkInv
<1>5. HeadInv'
    BY <1>1, <1>2 DEF HeadInv
<1> QED BY <1>3, <1>4, <1>5 DEF DeploymentInv

LEMMA OutageInv == DeploymentInv /\ Outage => DeploymentInv'
<1> SUFFICES ASSUME DeploymentInv, Outage PROVE DeploymentInv'
    OBVIOUS
<1>1. /\ stage' = [p \in Process |-> IF stage[p] = "migrating" THEN "failed" ELSE stage[p]]
      /\ work' = [p \in Process |-> NoWork] /\ UNCHANGED <<objects, version, rows>>
    BY DEF Outage
<1>2. NoWork \in Job
    BY DEF NoWork, Job, Head
<1>3. TypeInv'
    BY <1>1, <1>2 DEF DeploymentInv, TypeInv, At, Stage
<1>4. WorkInv'
    BY <1>1 DEF WorkInv
<1>5. HeadInv'
    BY <1>1 DEF DeploymentInv, HeadInv, Process
<1> QED BY <1>3, <1>4, <1>5 DEF DeploymentInv

LEMMA DeploymentStep == DeploymentInv /\ [DeploymentNext]_deployment => DeploymentInv'
<1> SUFFICES ASSUME DeploymentInv, [DeploymentNext]_deployment PROVE DeploymentInv'
    OBVIOUS
<1> USE DEF Stage
<1>1. CASE UNCHANGED later
    BY <1>1 DEF later, DeploymentInv, TypeInv, WorkInv, HeadInv, At
<1>2. ASSUME NEW c \in Container, RestartContainer(c) \/ StartContainer(c) PROVE DeploymentInv'
  <2>1. CASE UNCHANGED later
      BY <1>1, <2>1
  <2>2. CASE GoTo(c, "prestart") /\ UNCHANGED <<objects, version, rows, work>>
      BY <2>2, StageMove DEF Process
  <2> QED BY <1>2, <2>1, <2>2 DEF RestartContainer, StartContainer, later
<1>3. ASSUME NEW p \in Process, InitDb(p) PROVE DeploymentInv'
  <2>1. stage[p] = "startup" /\ (p \in Container => version = Head)
      BY <1>3 DEF InitDb, DeploymentInv, HeadInv
  <2> QED BY <1>3, <2>1, StageMove DEF InitDb, FailStartup
<1>4. ASSUME NEW p \in Process, ConnectBroker(p) PROVE DeploymentInv'
  <2>1. stage[p] = "broker" /\ (p \in Container => version = Head)
      BY <1>4 DEF ConnectBroker, DeploymentInv, HeadInv
  <2> QED BY <1>4, <2>1, StageMove DEF ConnectBroker, FailStartup
<1>5. ASSUME NEW p \in Process, KillWorker(p) \/ Reload(p) PROVE DeploymentInv'
  <2>1. p \in Container => version = Head
      BY <1>5 DEF KillWorker, Reload, DeploymentInv, HeadInv
  <2> QED BY <1>5, <2>1, StageMove DEF KillWorker, Reload
<1>6. ASSUME NEW p \in Process, Shutdown(p) PROVE DeploymentInv'
    BY <1>6, StageMove DEF Shutdown
<1>7. ASSUME NEW p \in Unmigrated, StartUnmigrated(p) PROVE DeploymentInv'
  <2>1. p \in Process /\ p \notin Container
      BY DeploymentAssumption DEF Process
  <2> QED BY <1>7, <2>1, StageMove DEF StartUnmigrated
<1>8. ASSUME NEW p \in Process, SendMessage(p) PROVE DeploymentInv'
    BY <1>8 DEF SendMessage, DeploymentInv, TypeInv, WorkInv, HeadInv, At
<1>9. ASSUME NEW c \in Container, RunPrestart(c) PROVE DeploymentInv'
    BY <1>1, <1>9 DEF RunPrestart
<1>10. CASE Refusal \/ Recovery \/ UNCHANGED deployment
    BY <1>1, <1>10 DEF Refusal, Recovery, deployment
<1>11. ASSUME NEW c \in Container, EntrypointStep(c) PROVE DeploymentInv'
    BY <1>3, <1>4, <1>9, <1>11, BeginMigrationInv, RunRevisionInv, CommitMigrationInv
    DEF EntrypointStep, Process
<1> QED BY <1>2, <1>3, <1>4, <1>5, <1>6, <1>7, <1>8, <1>10, <1>11, WriteProductInv, RunDowngradeInv, OutageInv,
        DeploymentAssumption DEF DeploymentNext, Process

LEMMA DeploymentInvariant == DeploymentSpec => []DeploymentInv
BY DeploymentInitInv, DeploymentStep, PTL DEF DeploymentSpec

\* However many containers migrate at once, whatever stops them and whoever is
\* killed: only a developer's process ever serves over a schema it does not fit.
THEOREM ContainersFitTheirSchema == DeploymentSpec => []MisfitIsUnmigrated
<1>1. DeploymentInv => MisfitIsUnmigrated
  <2> SUFFICES ASSUME DeploymentInv, NEW p \in Process, stage[p] = "serving", ~Fits(objects)
               PROVE  p \in Unmigrated
      BY DEF MisfitIsUnmigrated
  <2>1. CASE p \in Container
    <3>1. version = Head
        BY <2>1 DEF DeploymentInv, HeadInv
    <3>2. objects = ObjectsAt[Head]
        BY <3>1 DEF DeploymentInv, TypeInv, At, Head
    <3> QED BY <3>2, HeadFits
  <2> QED BY <2>1 DEF Process
<1> QED BY <1>1, DeploymentInvariant, PTL

\* Which steps change the schema.
LEMMA SchemaMovers ==
    ASSUME [DeploymentNext]_deployment
    PROVE  \/ UNCHANGED <<objects, version>>
           \/ RunDowngrade
           \/ \E c \in Container : CommitMigration(c) /\ work[c].from = version
<1>1. ASSUME NEW c \in Container, EntrypointStep(c)
      PROVE  UNCHANGED <<objects, version>> \/ (CommitMigration(c) /\ work[c].from = version)
    BY <1>1 DEF EntrypointStep, RunPrestart, BeginMigration, RunRevision, CommitMigration, InitDb,
                ConnectBroker, later
<1>2. ASSUME NEW p \in Process,
             InitDb(p) \/ ConnectBroker(p) \/ KillWorker(p) \/ Reload(p) \/ StartUnmigrated(p)
                \/ StartContainer(p) \/ RestartContainer(p)
                \/ WriteProduct(p) \/ SendMessage(p) \/ Shutdown(p)
      PROVE  UNCHANGED <<objects, version>>
    BY <1>2 DEF InitDb, ConnectBroker, KillWorker, Reload, StartUnmigrated, StartContainer,
                RestartContainer, later, WriteProduct, SendMessage, Shutdown
<1>3. CASE Outage \/ Refusal \/ Recovery \/ UNCHANGED deployment
    BY <1>3 DEF Outage, Refusal, Recovery, deployment, later
<1> QED BY <1>1, <1>2, <1>3, DeploymentAssumption DEF DeploymentNext, Process

\* The same as a refinement: whoever migrates and whatever fails, the schema has
\* the history that SchemaHistory promises.
THEOREM MigrationsImplementHistory == DeploymentSpec => HistoryIsKept
<1>1. DeploymentInit => History!Init
  <2> SUFFICES ASSUME DeploymentInit PROVE Release \in 0..Head
      BY DEF History!Init
  <2>1. version \in 0..Head
      BY DeploymentInitInv DEF DeploymentInv, TypeInv
  <2> QED BY <2>1 DEF DeploymentInit, Release
<1>2. DeploymentInv /\ [DeploymentNext]_deployment => [History!Next]_Release
  <2> SUFFICES ASSUME DeploymentInv, [DeploymentNext]_deployment PROVE [History!Next]_Release
      OBVIOUS
  <2>1. CASE UNCHANGED <<objects, version>>
      BY <2>1 DEF Release
  <2>2. CASE RunDowngrade
    <3>1. /\ version \in 1..Head /\ objects = ObjectsAt[version] /\ version' = version - 1
          /\ objects' = IF version = 1 THEN EnumTypes ELSE ObjectsAt[version - 1]
        BY <2>2, DowngradeEffect
    <3>2. Release = version
        BY <3>1 DEF Release
    <3>3. CASE version = 1
      <4>1. objects' = EnumTypes /\ version' = 0 /\ objects' # ObjectsAt[version']
          BY <3>1, <3>3, Chain, Leftover
      <4>2. Release' = -1
          BY <4>1 DEF Release
      <4> QED BY <3>1, <3>2, <3>3, <4>2 DEF History!Next, History!DowngradeOne, History!Leftovers
    <3>4. CASE version # 1
      <4>1. objects' = ObjectsAt[version'] /\ version' = version - 1
          BY <3>1, <3>4
      <4>2. Release' = version - 1
          BY <4>1 DEF Release
      <4> QED BY <3>1, <3>2, <3>4, <4>2 DEF History!Next, History!DowngradeOne
    <3> QED BY <3>3, <3>4
  <2>3. ASSUME NEW c \in Container, CommitMigration(c), work[c].from = version
        PROVE  [History!Next]_Release
    <3>1. /\ version # Head /\ version' = Head /\ objects = ObjectsAt[version]
          /\ objects' = ObjectsAt[Head] /\ version \in 0..Head
        BY <2>3, CommitEffect DEF DeploymentInv, TypeInv
    <3>2. Release = version /\ Release' = Head
        BY <3>1 DEF Release
    <3>3. Release \in 0 .. Head - 1
        BY <3>1, <3>2 DEF Head
    <3> QED BY <3>2, <3>3 DEF History!Next, History!UpgradeHead
  <2> QED BY <2>1, <2>2, <2>3, SchemaMovers
<1> QED BY <1>1, <1>2, DeploymentInvariant, PTL DEF DeploymentSpec, HistoryIsKept, History!Spec

\* Everything that happens after prestart.py leaves what it promises alone: the
\* whole deployment implements it.
THEOREM DeploymentImplementsPrestart == DeploymentSpec => PrestartIsKept
<1>1. DeploymentInit => Init
    BY DEF DeploymentInit
<1>2. [DeploymentNext]_deployment => [Next]_vars
  <2> SUFFICES ASSUME [DeploymentNext]_deployment PROVE [Next]_vars
      OBVIOUS
  <2>1. ASSUME NEW c \in Container, EntrypointStep(c) \/ RestartContainer(c) \/ StartContainer(c)
        PROVE  [Next]_vars
      BY <2>1 DEF EntrypointStep, RunPrestart, BeginMigration, RunRevision, CommitMigration, InitDb,
                  ConnectBroker, RestartContainer, StartContainer, Next
  <2>2. ASSUME NEW p \in Process,
               InitDb(p) \/ ConnectBroker(p) \/ KillWorker(p) \/ Reload(p) \/ StartUnmigrated(p)
                  \/ WriteProduct(p) \/ SendMessage(p) \/ Shutdown(p)
        PROVE  [Next]_vars
      BY <2>2 DEF InitDb, ConnectBroker, KillWorker, Reload, StartUnmigrated, WriteProduct, SendMessage,
                  Shutdown
  <2>3. CASE Outage \/ Refusal \/ Recovery \/ RunDowngrade \/ UNCHANGED deployment
      BY <2>3 DEF Outage, Refusal, Recovery, RunDowngrade, deployment, Next
  <2> QED BY <2>1, <2>2, <2>3, DeploymentAssumption DEF DeploymentNext, Process
<1> QED BY <1>1, <1>2, PTL DEF DeploymentSpec, PrestartIsKept, Spec

\* As long as a product has documents, no revision in either direction takes the
\* column away that says where their files are.
THEOREM DocumentsAreFound == DeploymentSpec => DocumentsKeepTheirFile
<1> DEFINE Kept == \A o \in {"document.url", "document.key"} :
                      o \in objects /\ "document" \in rows' => o \in objects'
<1>1. DeploymentInv /\ [DeploymentNext]_deployment => Kept
  <2> SUFFICES ASSUME DeploymentInv, [DeploymentNext]_deployment,
                      NEW o \in {"document.url", "document.key"}, o \in objects, "document" \in rows'
               PROVE  o \in objects'
      OBVIOUS
  <2>1. CASE UNCHANGED <<objects, version>>
      BY <2>1
  <2>2. CASE RunDowngrade
    <3>1. /\ version \in 1..Head /\ Possible(Downgrade(version), objects, rows)
          /\ objects' = Applied(Downgrade(version), objects)
          /\ rows' = IF version = 1 THEN {} ELSE rows
        BY <2>2 DEF RunDowngrade, DeploymentInv, TypeInv, Head
    <3>2. version # 1 /\ "document" \in rows
        BY <3>1
    <3>3. version # 6
      <4>1. Upgrade[6].drops = {"document.url"}
          BY DEF Upgrade, CorrectDocumentModel
      <4>2. Blockers("document.url") = {"document"}
          BY DEF Blockers
      <4> QED BY <3>1, <3>2, <4>1, <4>2 DEF Possible, Downgrade
    <3>4. o \notin Upgrade[version].creates
      <4>1. version = 2 \/ version = 3 \/ version = 4 \/ version = 5 \/ version = 7
          BY <3>1, <3>2, <3>3 DEF Head
      <4>2. CASE version = 2
          BY <4>2 DEF Upgrade, AddBrandsAndId
      <4>3. CASE version = 3
          BY <4>3 DEF Upgrade, Len128ProductName
      <4>4. CASE version = 4
          BY <4>4 DEF Upgrade, DelCategoryIdInProductAndBrandname
      <4>5. CASE version = 5
          BY <4>5 DEF Upgrade, AddMessage
      <4>6. CASE version = 7
          BY <4>6 DEF Upgrade, AddProductStatusColumn
      <4> QED BY <4>1, <4>2, <4>3, <4>4, <4>5, <4>6
    <3> QED BY <3>1, <3>2, <3>4 DEF Applied, Downgrade
  <2>3. ASSUME NEW c \in Container, CommitMigration(c), work[c].from = version
        PROVE  o \in objects'
    <3>1. /\ version # Head /\ objects = ObjectsAt[version] /\ objects' = ObjectsAt[Head]
          /\ version < 6 => "document" \notin rows
        BY <2>3, CommitEffect
    <3>2. rows' = rows /\ version \in 0..Head
        BY <2>3 DEF CommitMigration, DeploymentInv, TypeInv
    <3>3. version = 6
        BY <3>1, <3>2 DEF Head
    <3>4. ObjectsAt[6] \subseteq ObjectsAt[7]
        BY Chain
    <3> QED BY <3>1, <3>3, <3>4 DEF Head
  <2> QED BY <2>1, <2>2, <2>3, SchemaMovers
<1>2. Kept => [Kept]_deployment
    OBVIOUS
<1> QED BY <1>1, DeploymentInvariant, PTL DEF DeploymentSpec, DocumentsKeepTheirFile
------------------------------------------------------------------------------
(* Types, with the limit of the broker. *)
OpenInv ==
    /\ IsFiniteSet(sockets) /\ Cardinality(sockets) <= BrokerLimit
    /\ \A s \in sockets : s[1] \in Process /\ stage[s[1]] = "serving"

IdleInv == \A p \in Process : stage[p] # "migrating" => work[p] = NoWork

CountInv == rows \subseteq Row /\ downgrades \in 0..MaxDowngrades

LEMMA CountStep == CountInv /\ [DeploymentNext]_deployment => CountInv'
<1> SUFFICES ASSUME CountInv, [DeploymentNext]_deployment PROVE CountInv'
    OBVIOUS
<1>1. ASSUME NEW c \in Container, EntrypointStep(c) PROVE UNCHANGED <<rows, downgrades>>
    BY <1>1 DEF EntrypointStep, RunPrestart, BeginMigration, RunRevision, CommitMigration, InitDb,
                ConnectBroker, later
<1>2. ASSUME NEW p \in Process,
             InitDb(p) \/ ConnectBroker(p) \/ KillWorker(p) \/ Reload(p) \/ StartUnmigrated(p)
                \/ StartContainer(p) \/ RestartContainer(p) \/ SendMessage(p)
                \/ Shutdown(p)
      PROVE  UNCHANGED <<rows, downgrades>>
    BY <1>2 DEF InitDb, ConnectBroker, KillWorker, Reload, StartUnmigrated, StartContainer,
                RestartContainer, later, SendMessage, Shutdown
<1>3. CASE Outage \/ Refusal \/ Recovery \/ UNCHANGED deployment
    BY <1>3 DEF Outage, Refusal, Recovery, deployment, later, CountInv
<1>4. ASSUME NEW p \in Process, WriteProduct(p) PROVE CountInv'
    BY <1>4 DEF WriteProduct, CountInv, Row
<1>5. CASE RunDowngrade
    BY <1>5, DeploymentAssumption DEF RunDowngrade, CountInv
<1> QED BY <1>1, <1>2, <1>3, <1>4, <1>5, DeploymentAssumption DEF DeploymentNext, Process, CountInv

LEMMA IdleStep == DeploymentInv /\ IdleInv /\ [DeploymentNext]_deployment => IdleInv'
<1> SUFFICES ASSUME DeploymentInv, IdleInv, [DeploymentNext]_deployment PROVE IdleInv'
    OBVIOUS
<1> USE DEF IdleInv, DeploymentInv, TypeInv, GoTo, Fail
<1>1. ASSUME NEW c \in Container,
             BeginMigration(c) \/ RunRevision(c) \/ CommitMigration(c)
      PROVE  IdleInv'
    BY <1>1 DEF BeginMigration, RunRevision, CommitMigration, Process
<1>2. ASSUME NEW p \in Process,
             InitDb(p) \/ ConnectBroker(p) \/ KillWorker(p) \/ Reload(p) \/ StartUnmigrated(p)
                \/ StartContainer(p) \/ RestartContainer(p) \/ SendMessage(p)
                \/ Shutdown(p) \/ WriteProduct(p) \/ RunPrestart(p)
      PROVE  IdleInv'
  <2>1. UNCHANGED work /\ (UNCHANGED stage \/ \E next \in Stage : stage[p] # "migrating" /\ GoTo(p, next))
      BY <1>2 DEF InitDb, ConnectBroker, KillWorker, Reload, StartUnmigrated, StartContainer,
                RestartContainer, later, SendMessage, Shutdown, WriteProduct,
                  RunPrestart, FailStartup, Stage
  <2> QED BY <2>1
<1>3. CASE Outage \/ Refusal \/ Recovery \/ RunDowngrade \/ UNCHANGED deployment
    BY <1>3 DEF Outage, Refusal, Recovery, RunDowngrade, deployment, later
<1> QED BY <1>1, <1>2, <1>3, DeploymentAssumption DEF DeploymentNext, EntrypointStep, Process

LEMMA OpenStep == DeploymentInv /\ OpenInv /\ [DeploymentNext]_deployment => OpenInv'
<1> SUFFICES ASSUME DeploymentInv, OpenInv, [DeploymentNext]_deployment PROVE OpenInv'
    OBVIOUS
<1>0. stage \in [Process -> Stage]
    BY DEF DeploymentInv, TypeInv
<1>1. ASSUME NEW p \in Process, ~BrokerFull, Open(p), stage'[p] = "serving",
             \A q \in Process : q # p => stage'[q] = stage[q]
      PROVE  OpenInv'
  <2> DEFINE new == <<p, Cardinality(Sockets(p)) + 1>>
  <2>1. sockets' = sockets \cup {new} /\ new[1] = p
      BY <1>1 DEF Open
  <2>2. IsFiniteSet(sockets) /\ Cardinality(sockets) \in Nat /\ Cardinality(sockets) < BrokerLimit
      BY <1>1, FS_CardinalityType, DeploymentAssumption DEF OpenInv, BrokerFull
  <2>3. /\ IsFiniteSet(sockets')
        /\ Cardinality(sockets') = Cardinality(sockets) \/ Cardinality(sockets') = Cardinality(sockets) + 1
      BY <2>1, <2>2, FS_AddElement
  <2>4. \A s \in sockets' : s[1] \in Process /\ stage'[s[1]] = "serving"
      BY <1>1, <2>1 DEF OpenInv
  <2> QED BY <2>2, <2>3, <2>4, DeploymentAssumption DEF OpenInv
<1>2. ASSUME NEW p \in Process, CloseAll(p), \A q \in Process : q # p => stage'[q] = stage[q]
      PROVE  OpenInv'
  <2>1. sockets' \subseteq sockets /\ \A s \in sockets' : s[1] # p
      BY <1>2 DEF CloseAll, Sockets
  <2>2. IsFiniteSet(sockets') /\ Cardinality(sockets') <= Cardinality(sockets)
      BY <2>1, FS_Subset DEF OpenInv
  <2>3. Cardinality(sockets') \in Nat /\ Cardinality(sockets) \in Nat
      BY <2>2, FS_CardinalityType DEF OpenInv
  <2> QED BY <1>2, <2>1, <2>2, <2>3, DeploymentAssumption DEF OpenInv
<1>3. ASSUME NEW p \in Process, UNCHANGED sockets, stage[p] # "serving",
             \A q \in Process : q # p => stage'[q] = stage[q]
      PROVE  OpenInv'
    BY <1>3 DEF OpenInv
<1>4. CASE UNCHANGED <<sockets, stage>>
    BY <1>4 DEF OpenInv
<1>5. ASSUME NEW c \in Container, EntrypointStep(c) PROVE OpenInv'
    BY <1>0, <1>1, <1>3, <1>4, <1>5
    DEF EntrypointStep, RunPrestart, BeginMigration, RunRevision, CommitMigration, InitDb, ConnectBroker,
        later, Process, GoTo, Fail, FailStartup
<1>6. ASSUME NEW p \in Process, InitDb(p) \/ ConnectBroker(p) \/ StartUnmigrated(p) PROVE OpenInv'
    BY <1>0, <1>1, <1>3, <1>6 DEF InitDb, ConnectBroker, StartUnmigrated, GoTo, FailStartup
<1>7. ASSUME NEW p \in Process, KillWorker(p) \/ Reload(p) \/ Shutdown(p) PROVE OpenInv'
    BY <1>0, <1>2, <1>7 DEF KillWorker, Reload, Shutdown, GoTo
<1>12. ASSUME NEW c \in Container, RestartContainer(c) \/ StartContainer(c) PROVE OpenInv'
    BY <1>0, <1>3, <1>4, <1>12 DEF RestartContainer, StartContainer, GoTo, Process
<1>8. ASSUME NEW p \in Process, WriteProduct(p) PROVE OpenInv'
    BY <1>4, <1>8 DEF WriteProduct
<1>9. ASSUME NEW p \in Process, SendMessage(p) PROVE OpenInv'
    BY <1>1, <1>9 DEF SendMessage
<1>10. CASE Outage
  <2>1. /\ UNCHANGED sockets
        /\ stage' = [p \in Process |-> IF stage[p] = "migrating" THEN "failed" ELSE stage[p]]
      BY <1>10 DEF Outage
  <2> QED BY <2>1 DEF OpenInv
<1>11. CASE Refusal \/ Recovery \/ RunDowngrade \/ UNCHANGED deployment
    BY <1>4, <1>11 DEF Refusal, Recovery, RunDowngrade, deployment, later
<1> QED BY <1>5, <1>6, <1>7, <1>8, <1>9, <1>10, <1>11, <1>12, DeploymentAssumption
        DEF DeploymentNext, Process

\* Types, the transactions' idleness and the broker's limit, for any number of
\* processes.
THEOREM DeploymentTypes == DeploymentSpec => []DeploymentTypeOK
<1>1. DeploymentInit => IdleInv /\ OpenInv /\ CountInv
  <2> SUFFICES ASSUME DeploymentInit PROVE IdleInv /\ OpenInv /\ CountInv
      OBVIOUS
  <2>1. IdleInv
      BY DEF DeploymentInit, IdleInv
  <2>2. OpenInv
      BY FS_EmptySet, DeploymentAssumption DEF DeploymentInit, OpenInv
  <2>3. CountInv
    <3>1. ASSUME NEW v \in 0..Head PROVE RowsAt(v) \subseteq Row
      <4>1. CASE v = 0
          BY <4>1 DEF RowsAt
      <4>2. CASE v \in {1, 2}
          BY <4>2 DEF RowsAt
      <4>3. CASE v > 2
          BY <4>3 DEF RowsAt
      <4> QED BY <4>1, <4>2, <4>3 DEF Head
    <3>2. version \in 0..Head
        BY DeploymentInitInv DEF DeploymentInv, TypeInv
    <3> QED BY <3>1, <3>2, DeploymentAssumption DEF DeploymentInit, CountInv
  <2> QED BY <2>1, <2>2, <2>3
<1>2. DeploymentInv /\ IdleInv /\ OpenInv /\ CountInv => DeploymentTypeOK
  <2>1. DeploymentInv => objects \subseteq Object
      BY Leftover, SchemasAreObjects DEF DeploymentInv, TypeInv, At, Head
  <2> QED BY <2>1 DEF DeploymentInv, TypeInv, IdleInv, OpenInv, CountInv, DeploymentTypeOK
<1> QED BY <1>1, <1>2, DeploymentInvariant, IdleStep, OpenStep, CountStep, PTL DEF DeploymentSpec
===============================================================================
