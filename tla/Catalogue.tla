------------------------------ MODULE Catalogue ------------------------------
(***************************************************************************)
(* Catalogue administration (api/v1/admin_catalog.py, core/images.py):     *)
(* categories, brands and products with slugs that are made unique, the    *)
(* SKUs of variants, and the images of a product, which are rows in the    *)
(* database and files on disk.  Each handler checks, then writes; between  *)
(* the two, other requests commit.                                         *)
(***************************************************************************)
EXTENDS Sessions

CONSTANTS
  Name,     \* names an administrator types
  Slugify,  \* the slug of each name: a sequence, so that a suffix is one more element
  Sku,
  Stock     \* quantities an administrator may set

ASSUME NamesAssumption ==
  /\ Slugify \in [Name -> Seq(STRING)] /\ "Jeans" \in Name
  /\ "s0" \in Sku /\ Stock \subseteq Nat /\ \E n \in Stock : \A m \in Stock : m <= n

VARIABLES
  rows,      \* categories, brands and products by id
  variants,  \* variants by id
  images,    \* images of the product "p0" by id
  files      \* ids of the images whose file is on disk

catalogueVars == <<rows, variants, images, files>>

Slugged == {"categories", "brands", "products"}
Status == {"draft", "active", "inactive"}

\* The payload of an update may give an explicit null for any column.
Null == "null"

\* A row that a request inserts is named by it, and no other row is.
ASSUME IdsAssumption ==
  /\ Request \cap {"root", "p0", "i1", "i2", "none", "gone", "elsewhere"} = {}
  /\ Null \notin Sku

FirstVariant == <<"seed", "s0">>
FirstStock == CHOOSE n \in Stock : \A m \in Stock : m <= n

\* A category, a brand and a product of the same name; the product has one
\* variant and two images, the first of them primary.
CatalogueInit ==
  /\ LET jeans == Slugify["Jeans"] IN
       rows = [categories |-> [id \in {"root"} |->
                                [name |-> "Jeans", slug |-> jeans, parent |-> "none"]],
               brands |-> [id \in {"root"} |-> [name |-> "Jeans", slug |-> jeans]],
               products |-> [id \in {"p0"} |->
                 [name |-> "Jeans", slug |-> jeans, status |-> "active", category |-> "root"]]]
  /\ variants = [v \in {FirstVariant} |-> [product |-> "p0", sku |-> "s0", stock |-> FirstStock]]
  /\ images = [i1 |-> [primary |-> TRUE, order |-> 0], i2 |-> [primary |-> FALSE, order |-> 1]]
  /\ files = {"i1", "i2"}

Taken(table, slug) == \E id \in DOMAIN rows[table] : rows[table][id].slug = slug
SkuTaken(sku) == \E v \in DOMAIN variants : variants[v].sku = sku
Known(parent) == parent = "none" \/ parent \in DOMAIN rows.categories

-----------------------------------------------------------------------------
(* Slugs: create and update of categories and brands, creation of          *)
(* products.                                                               *)

\* The columns a payload assigns.
Payload(table) ==
  IF table = "categories" THEN [name : Name, parent : {"none", "root", "gone"}]
  ELSE [name : Name]

CreateRow(r) ==
  \E table \in {"categories", "brands"} : \E row \in Payload(table) :
    LET op == [do |-> "create", table |-> table, id |-> r, row |-> row, skus |-> {}] IN
      IF table = "categories" /\ ~ Known(row.parent) THEN RefuseAtOnce(r, op)
      ELSE Begin(r, op, "probe", [k |-> 1, loaded |-> <<>>])

\* The parent of an update is not looked up.
UpdateRow(r) ==
  \E table \in {"categories", "brands"} : \E id \in DOMAIN rows[table], row \in Payload(table) :
    Begin(r, [do |-> "update", table |-> table, id |-> id, row |-> row, skus |-> {}],
          "probe", [k |-> 1, loaded |-> rows[table][id]])

\* The payload's own SKUs are distinct; those in the database are looked up.
CreateProduct(r) ==
  \E name \in Name, category \in {"root", "gone"}, skus \in SUBSET Sku \ {{}} :
    LET op == [do |-> "create", table |-> "products", id |-> r, skus |-> skus,
               row |-> [name |-> name, status |-> "draft", category |-> category]] IN
      IF category = "gone" \/ \E s \in skus : SkuTaken(s) THEN RefuseAtOnce(r, op)
      ELSE Begin(r, op, "probe", [k |-> 1, loaded |-> <<>>])

Candidate(r) ==
  LET base == Slugify[req[r].op.row.name] IN
    IF req[r].read.k = 1 THEN base ELSE Append(base, ToString(req[r].read.k))

\* The first suffix taken on trust.
BugProbeOnce(r) ==
  /\ At(r, "probe")
  /\ Proceed(r, "write", IF Taken(req[r].op.table, Candidate(r))
                         THEN [req[r].read EXCEPT !.k = 2] ELSE req[r].read)
  /\ UNCHANGED catalogueVars

\* _unique_slug: one query per candidate.  The row's own slug counts too.
Probe(r) ==
  /\ At(r, "probe")
  /\ IF Taken(req[r].op.table, Candidate(r))
       THEN Proceed(r, "probe", [req[r].read EXCEPT !.k = @ + 1])
       ELSE Proceed(r, "write", req[r].read)
  /\ UNCHANGED catalogueVars

\* An update that leaves the slug alone, as that of a product does.
BugKeepsSlug(r) ==
  With(req[r].op.row, "slug",
       IF req[r].op.do = "update" THEN req[r].read.loaded.slug ELSE Candidate(r))

Assigned(r) == With(req[r].op.row, "slug", Candidate(r))

\* The row as the commit would leave it.
Written(r) ==
  LET op == req[r].op IN
    IF op.do = "create" THEN Assigned(r)
    ELSE Flush(rows[op.table][op.id], req[r].read.loaded, Assigned(r))

NewVariants(r) == {<<r, s>> : s \in req[r].op.skus}

\* Unique slugs and SKUs, and a parent that exists.
RowLegal(r) ==
  LET op == req[r].op new == Written(r) IN
    /\ \A id \in DOMAIN rows[op.table] \ {op.id} : rows[op.table][id].slug # new.slug
    /\ op.table = "categories" => Known(new.parent)
    /\ \A s \in op.skus : ~ SkuTaken(s)

\* The row and, of a product, its variants: one commit.
WriteRow(r) ==
  /\ At(r, "write")
  /\ Answer(r, CommitAnswer(TRUE, RowLegal(r)))
  /\ IF RowLegal(r)
       THEN /\ rows' = [rows EXCEPT ![req[r].op.table] = With(@, req[r].op.id, Written(r))]
            /\ variants' = [v \in DOMAIN variants \cup NewVariants(r) |->
                             IF v \in DOMAIN variants THEN variants[v]
                             ELSE [product |-> r, sku |-> v[2], stock |-> FirstStock]]
       ELSE UNCHANGED <<rows, variants>>
  /\ UNCHANGED <<images, files>>

-----------------------------------------------------------------------------
(* Products and variants.                                                  *)

\* update_product leaves the slug alone; delete_product is an update of the
\* status.  A category that is given must exist.
UpdateProduct(r) ==
  \E id \in DOMAIN rows.products :
  \E change \in [status : Status \cup {Null}] \cup [name : Name] \cup [category : {"root", "gone"}] :
    LET op == [do |-> "product", id |-> id, row |-> change] IN
      IF "category" \in DOMAIN change /\ change.category = "gone" THEN RefuseAtOnce(r, op)
      ELSE Begin(r, op, "product", rows.products[id])

\* The columns of a product are NOT NULL.
WriteProduct(r) ==
  /\ At(r, "product")
  /\ LET new == Flush(rows.products[req[r].op.id], req[r].read, req[r].op.row) IN
       /\ Answer(r, CommitAnswer(TRUE, new.status # Null))
       /\ rows' = IF new.status = Null THEN rows
                  ELSE [rows EXCEPT !.products[req[r].op.id] = new]
  /\ UNCHANGED <<variants, images, files>>

CreateVariant(r) ==
  \E sku \in Sku, n \in Stock :
    LET op == [do |-> "variant", id |-> <<r, sku>>,
               row |-> [product |-> "p0", sku |-> sku, stock |-> n]] IN
      IF SkuTaken(sku) THEN RefuseAtOnce(r, op) ELSE Begin(r, op, "variant", <<>>)

\* A SKU other than the variant's own is looked up.
UpdateVariant(r) ==
  \E v \in DOMAIN variants : \E change \in [sku : Sku \cup {Null}] \cup [stock : Stock] :
    LET op == [do |-> "variant", id |-> v, row |-> change] IN
      IF "sku" \in DOMAIN change /\ change.sku # variants[v].sku /\ SkuTaken(change.sku)
        THEN RefuseAtOnce(r, op)
        ELSE Begin(r, op, "variant", variants[v])

WrittenVariant(r) ==
  LET op == req[r].op IN
    IF req[r].read = <<>> THEN op.row ELSE Flush(variants[op.id], req[r].read, op.row)

VariantLegal(r) ==
  LET new == WrittenVariant(r) IN
    /\ new.sku # Null
    /\ \A v \in DOMAIN variants \ {req[r].op.id} : variants[v].sku # new.sku

WriteVariant(r) ==
  /\ At(r, "variant")
  /\ Answer(r, CommitAnswer(TRUE, VariantLegal(r)))
  /\ variants' = IF VariantLegal(r) THEN With(variants, req[r].op.id, WrittenVariant(r))
                 ELSE variants
  /\ UNCHANGED <<rows, images, files>>

-----------------------------------------------------------------------------
(* Images of the product "p0".                                             *)

\* The images are loaded before the upload is read.
Upload(r) ==
  /\ \E primary \in BOOLEAN :
       Begin(r, [do |-> "upload", id |-> r, primary |-> primary], "save", images)
  /\ UNCHANGED catalogueVars

\* save_product_image: not an image, a disk that is full, or a file of its own.
SaveFile(r) ==
  /\ At(r, "save")
  /\ \/ (Refuse(r) \/ Answer(r, "unhandled")) /\ UNCHANGED files
     \/ Proceed(r, "insert", req[r].read) /\ files' = files \cup {r}
  /\ UNCHANGED <<rows, variants, images>>

SetPrimary(r) ==
  /\ \E id \in DOMAIN images \cup {"gone"} :
       LET op == [do |-> "set primary", id |-> id, primary |-> TRUE] IN
         IF id = "gone" THEN RefuseAtOnce(r, op) ELSE Begin(r, op, "insert", images)
  /\ UNCHANGED catalogueVars

\* The new image added, the others left as they are.
BugKeepsOthers(r) ==
  [id \in DOMAIN req[r].read |->
     IF req[r].op.do = "upload" THEN req[r].read[id].primary ELSE id = req[r].op.id]

\* What is assigned to is_primary of each image that was loaded.
Primaries(r) ==
  [id \in DOMAIN req[r].read |->
     IF req[r].op.do = "upload" THEN req[r].read[id].primary /\ ~ req[r].op.primary
     ELSE id = req[r].op.id]

\* The images whose row the commit updates.
Updated(r) == {id \in DOMAIN req[r].read : req[r].read[id].primary # Primaries(r)[id]}

\* An upload adds its image to them.
Added(r, updated) ==
  IF req[r].op.do = "upload"
  THEN With(updated, r, [primary |-> req[r].op.primary, order |-> Cardinality(DOMAIN req[r].read)])
  ELSE updated

WriteImages(r) ==
  /\ At(r, "insert")
  /\ Answer(r, CommitAnswer(Updated(r) \subseteq DOMAIN images, TRUE))
  /\ images' = IF Updated(r) \subseteq DOMAIN images
               THEN Added(r, [id \in DOMAIN images |->
                      IF id \in Updated(r) THEN [images[id] EXCEPT !.primary = Primaries(r)[id]]
                      ELSE images[id]])
               ELSE images
  /\ UNCHANGED <<rows, variants, files>>

\* The file goes before the image's product is compared with the path's.
BugUnlinkFirst(id) == files \ {IF id = "elsewhere" THEN "i2" ELSE id}

Unlinked(id) == IF id = "elsewhere" THEN files ELSE files \ {id}

\* "elsewhere" stands for the image i2 under the path of another product.
DeleteImage(r) ==
  /\ \E id \in DOMAIN images \cup {"elsewhere"} :
       LET op == [do |-> "delete", id |-> id] IN
         /\ IF id = "elsewhere" THEN RefuseAtOnce(r, op) ELSE Begin(r, op, "delete", <<>>)
         /\ files' = Unlinked(id)
  /\ UNCHANGED <<rows, variants, images>>

\* Deleting a row that is already gone is no error.
DeleteRow(r) ==
  /\ At(r, "delete")
  /\ images' = Without(images, req[r].op.id)
  /\ Answer(r, "ok")
  /\ UNCHANGED <<rows, variants, files>>

-----------------------------------------------------------------------------
SlugStep(r) ==
  \/ (CreateRow(r) \/ UpdateRow(r) \/ CreateProduct(r)) /\ UNCHANGED catalogueVars
  \/ Probe(r) \/ WriteRow(r)
ProductStep(r) ==
  \/ (UpdateProduct(r) \/ CreateVariant(r) \/ UpdateVariant(r)) /\ UNCHANGED catalogueVars
  \/ WriteProduct(r) \/ WriteVariant(r)
ImageStep(r) ==
  Upload(r) \/ SaveFile(r) \/ SetPrimary(r) \/ WriteImages(r) \/ DeleteImage(r) \/ DeleteRow(r)

CatalogueStep(r) == SlugStep(r) \/ ProductStep(r) \/ ImageStep(r)
=============================================================================
