------------------------------ MODULE Migrations ------------------------------
(***************************************************************************)
(* The revisions under alembic/versions, in the order of their             *)
(* down_revision, over a schema that is the set of what differs between    *)
(* them: tables, enumeration types, and the columns that come and go.  The *)
(* other columns of a table go with it.  Constant level, no behaviour.     *)
(***************************************************************************)
EXTENDS Naturals

EnumTypes == {"sizegroup", "gendertype", "valueaddedtax"}

InitialTables ==
    {"category", "subcategory", "color", "size", "request_info", "product",
     "document", "image", "manually_filled_specification", "pack", "price"}

InitialMigration ==      \* 2697935b120e
    [creates |-> EnumTypes \cup InitialTables \cup
                   {"product.category_id", "product.name varchar(255)", "document.url",
                    "manually_filled_specification.brandname"},
     drops |-> {}]

AddBrandsAndId ==        \* cbca7bcad4db
    [creates |-> {"brand", "product.brand_id"}, drops |-> {}]

Len128ProductName ==     \* c8e11dfe4de2
    [creates |-> {"product.name varchar(128)"}, drops |-> {"product.name varchar(255)"}]

DelCategoryIdInProductAndBrandname ==      \* 18202417a783
    [creates |-> {},
     drops |-> {"manually_filled_specification.brandname", "product.category_id"}]

AddMessage ==            \* 5813fa1df89b
    [creates |-> {"message"}, drops |-> {}]

CorrectDocumentModel ==  \* 3a6fb8b03b28
    [creates |-> {"document.key", "document.name", "document.extension"},
     drops |-> {"document.url"}]

AddProductStatusColumn ==      \* 2bd835447ad8
    [creates |-> {"product_status_enum", "product.status"}, drops |-> {}]

Upgrade ==
    <<InitialMigration, AddBrandsAndId, Len128ProductName, DelCategoryIdInProductAndBrandname,
      AddMessage, CorrectDocumentModel, AddProductStatusColumn>>

Head == 7
Object == UNION {Upgrade[n].creates : n \in 1..Head}

\* drop_table() leaves the types alone; a constraint without a name cannot be
\* dropped, so the second revision has no way back.
Reversible(n) == n # 2
Downgrade(n) ==
    [creates |-> Upgrade[n].drops,
     drops |-> IF n = 1 THEN Upgrade[1].creates \ EnumTypes ELSE Upgrade[n].creates]

Applied(step, objects) == (objects \ step.drops) \cup step.creates

\* What a schema at a revision consists of.
ObjectsAt ==
    [v \in 0..Head |->
        {o \in Object : \E n \in 1..v :
            o \in Upgrade[n].creates /\ \A m \in n + 1 .. v : o \notin Upgrade[m].drops}]
------------------------------------------------------------------------------
\* The rows that decide whether a revision can run.
Row == {"document", "manually_filled_specification", "long name"}

\* A mutant: the new columns of a document are given a default.
BlockersWithDefault(o) ==
    CASE o = "document.url" -> {"document"}
      [] o = "manually_filled_specification.brandname" -> {"manually_filled_specification"}
      [] o = "product.name varchar(128)" -> {"long name"}
      [] OTHER -> {}

\* A column that is NOT NULL and has no default cannot be added to a table that
\* has rows, and a name of more than 128 characters cannot become varchar(128).
Blockers(o) ==
    CASE o \in {"document.key", "document.name", "document.extension", "document.url"} -> {"document"}
      [] o = "manually_filled_specification.brandname" -> {"manually_filled_specification"}
      [] o = "product.name varchar(128)" -> {"long name"}
      [] OTHER -> {}

\* CREATE fails over what is there, DROP over what is not.
Possible(step, objects, rows) ==
    /\ step.creates \cap objects = {} /\ step.drops \subseteq objects
    /\ \A o \in step.creates : Blockers(o) \cap rows = {}

\* The rows there may be at a revision.
RowsAt(v) ==
    CASE v = 0 -> {}
      [] v \in {1, 2} -> Row
      [] OTHER -> Row \ {"long name"}
------------------------------------------------------------------------------
\* What the statements of the models name ...
ProductModels ==
    {"category", "subcategory", "product", "product.brand_id", "product.status",
     "gendertype", "product_status_enum", "request_info"}

ExtensionModels ==
    {"image", "document", "document.key", "document.name", "document.extension", "pack", "price",
     "valueaddedtax", "manually_filled_specification"}

ReferenceModels == {"color", "size", "sizegroup", "brand", "message"}

\* ... and the columns that must not be null and no INSERT of theirs fills.
Unfilled == {"document.url", "manually_filled_specification.brandname"}

Fits(objects) ==
    /\ ProductModels \cup ExtensionModels \cup ReferenceModels \subseteq objects
    /\ objects \cap Unfilled = {}
===============================================================================
