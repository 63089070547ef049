--------------------------- MODULE CatalogueProofs ---------------------------
(***************************************************************************)
(* Proofs about the catalogue of Store: that references lead to rows, that *)
(* images have files and files images, that one image is primary and that  *)
(* slugs follow names, each up to the excuse the property names.           *)
(***************************************************************************)
EXTENDS StoreProofs, SequenceTheorems

Columns(t) == {"name", "slug"} \cup (CASE t = "categories" -> {"parent"}
                                       [] t = "brands" -> {}
                                       [] t = "products" -> {"status", "category"})

\* Rows, and where they lead.
RowsOK ==
  /\ DOMAIN rows = Slugged
  /\ "root" \in DOMAIN rows.categories /\ "p0" \in DOMAIN rows.products
  /\ \A t \in Slugged : DOMAIN rows[t] \subseteq {"root", "p0"} \cup {r \in Request : At(r, "done")}
  /\ \A t \in Slugged : \A id \in DOMAIN rows[t] :
       DOMAIN rows[t][id] = Columns(t) /\ rows[t][id].name \in Name
  /\ \A id \in DOMAIN rows.categories : Known(rows.categories[id].parent)
  /\ \A id \in DOMAIN rows.products : /\ rows.products[id].category \in DOMAIN rows.categories
                                      /\ rows.products[id].status \in Status

VariantsOK ==
  \A v \in DOMAIN variants :
    variants[v] \in [product : DOMAIN rows.products, sku : Sku, stock : Nat]

ImagesOK ==
  /\ DOMAIN images \subseteq {"i1", "i2"} \cup {r \in Request : At(r, "done")}
  /\ \A id \in DOMAIN images : /\ DOMAIN images[id] = {"primary", "order"}
                               /\ images[id].primary \in BOOLEAN

\* What a request asks, and what it had read when it began, fit the rows.
Sound(r, op, read) ==
  /\ op.do = "create" =>
       /\ op.table \in Slugged /\ op.id = r
       /\ op.table # "products" => op.row \in Payload(op.table) /\ op.skus = {}
       /\ op.table = "products" =>
            /\ op.row \in [name : Name, status : {"draft"}, category : {"root"}]
            /\ op.skus \subseteq Sku
  /\ op.do = "update" =>
       /\ op.table \in {"categories", "brands"} /\ op.id \in DOMAIN rows[op.table]
       /\ op.row \in Payload(op.table) /\ op.skus = {}
  /\ op.do = "product" =>
       /\ op.id \in DOMAIN rows.products
       /\ op.row \in [status : Status \cup {Null}] \cup [name : Name] \cup [category : {"root"}]
  /\ op.do = "variant" =>
       \/ /\ read = <<>> /\ \E s \in Sku : op.id = <<r, s>>
          /\ op.row \in [product : {"p0"}, sku : Sku, stock : Stock]
       \/ /\ read # <<>> /\ op.id \in DOMAIN variants
          /\ op.row \in [sku : Sku \cup {Null}] \cup [stock : Stock]
  /\ op.do = "upload" => op.id = r
  /\ op.do = "set primary" => op.primary
  /\ op.do \in {"upload", "set primary"} =>
       /\ op.primary \in BOOLEAN
       /\ \A id \in DOMAIN read : read[id].primary \in BOOLEAN
  /\ op.do = "delete" => op.id \in {"i1", "i2"} \cup {q \in Request : At(q, "done")}

CatalogueOK ==
  /\ RowsOK /\ VariantsOK /\ ImagesOK
  /\ \A r \in Request : Runs(r) => Sound(r, req[r].op, req[r].read)

\* A file goes before its row, and comes before it.
Stores(r) == req[r].op.do = "upload" /\ (At(r, "insert") \/ At(r, "done"))
Waits(r) == At(r, "insert") \/ req[r].answer \in {"lost", "error"}
Keeps(r) ==
  /\ At(r, "insert") /\ req[r].op.do = "upload" => r \in files
  /\ At(r, "delete") => req[r].op.id \notin files
FilesOK ==
  /\ \A f \in files : f \in {"i1", "i2"} \/ (f \in Request /\ Stores(f))
  /\ \A r \in Request : Keeps(r)
  /\ \A id \in DOMAIN images : id \in files \/ Deleting(id)
  /\ \A f \in files : f \in DOMAIN images \/ (f \in Request /\ Waits(f))

\* Who makes an image primary has loaded all that are, unless two do at once.
MakesPrimary(r) == req[r].op.do \in {"upload", "set primary"} /\ req[r].op.primary
Primary == {id \in DOMAIN images : images[id].primary}
TwoMakePrimary == \E r, q \in Request : Met(r, q) /\ MakesPrimary(r) /\ MakesPrimary(q)
PrimaryLoaded ==
  \/ TwoMakePrimary
  \/ /\ \A a, b \in Primary : a = b
     /\ \A r \in Request : Runs(r) /\ MakesPrimary(r) =>
          \A id \in Primary : id \in DOMAIN req[r].read /\ req[r].read[id].primary

\* Who updates a row has loaded it as it is, unless two do at once.
Updates(r, t, id) == req[r].op.do = "update" /\ req[r].op.table = t /\ req[r].op.id = id
TwoUpdate(t, id) == \E r, q \in Request : Met(r, q) /\ Updates(r, t, id) /\ Updates(q, t, id)
Follows(slug, name) ==
  LET base == Slugify[name] IN
    \/ slug = base
    \/ Len(slug) = Len(base) + 1 /\ SubSeq(slug, 1, Len(base)) = base
SlugsLoaded ==
  /\ \A r \in Request : Runs(r) /\ req[r].op.do = "update" => DOMAIN req[r].read = {"k", "loaded"}
  /\ \A t \in {"categories", "brands"} : \A id \in DOMAIN rows[t] :
       \/ TwoUpdate(t, id)
       \/ /\ Follows(rows[t][id].slug, rows[t][id].name)
          /\ \A r \in Request : Runs(r) /\ Updates(r, t, id) => req[r].read.loaded = rows[t][id]

CatalogueInv == CatalogueOK /\ FilesOK /\ PrimaryLoaded /\ SlugsLoaded

-----------------------------------------------------------------------------
(* Requests to the catalogue.                                              *)

LEMMA SoundStays ==
  ASSUME NEW r \in Request, NEW op, NEW read, Sound(r, op, read), Frozen,
         DOMAIN rows = Slugged, \A t \in Slugged : DOMAIN rows[t] \subseteq DOMAIN rows'[t],
         DOMAIN variants \subseteq DOMAIN variants'
  PROVE  Sound(r, op, read)'
<1>1. \A q \in Request : At(q, "done") => At(q, "done")'
  BY DEF Frozen, At
<1>2. DOMAIN rows["products"] \subseteq DOMAIN rows'["products"]
  BY DEF Slugged
<1>3. op.do = "update" => op.id \in DOMAIN rows'[op.table]
  BY DEF Sound, Slugged
<1> QED BY <1>1, <1>2, <1>3 DEF Sound, Payload

\* What a handler has loaded when it begins.
Loads(op, read) ==
  /\ op.do = "update" => read.loaded = rows[op.table][op.id] /\ DOMAIN read = {"k", "loaded"}
  /\ op.do \in {"upload", "set primary"} => read = images

\* A request is refused, or begins and asks what is sound.
Asks(r) ==
  /\ At(r, "new") /\ UNCHANGED <<rows, variants, images>>
  /\ \A q \in Request \ {r} : req'[q] = req[q]
  /\ \/ req'[r].at = "done" /\ req'[r].answer = "refused" /\ UNCHANGED files
     \/ /\ Runs(r)' /\ Sound(r, req[r].op, req[r].read)' /\ Loads(req[r].op, req[r].read)'
        /\ req'[r].at = "insert" => req'[r].op.do = "set primary"
        /\ files' = IF req'[r].op.do = "delete" THEN files \ {req'[r].op.id} ELSE files

LEMMA Asking ==
  ASSUME SessionInv, Frozen, CatalogueOK, NEW r \in Request, NEW op, NEW step, NEW read,
         UNCHANGED <<rows, variants, images>>, step \notin {"new", "done"},
         \/ RefuseAtOnce(r, op) /\ UNCHANGED files
         \/ /\ Begin(r, op, step, read) /\ Sound(r, op, read) /\ Loads(op, read)
            /\ step = "insert" => op.do = "set primary"
            /\ files' = IF op.do = "delete" THEN files \ {op.id} ELSE files
  PROVE  Asks(r)
<1>1. CASE RefuseAtOnce(r, op) /\ UNCHANGED files
  BY <1>1, RefusedIs DEF Asks
<1>2. CASE /\ Begin(r, op, step, read) /\ Sound(r, op, read) /\ Loads(op, read)
           /\ step = "insert" => op.do = "set primary"
           /\ files' = IF op.do = "delete" THEN files \ {op.id} ELSE files
  <2>1. /\ At(r, "new") /\ req'[r].at = step /\ req'[r].op = op /\ req'[r].read = read
        /\ \A q \in Request \ {r} : req'[q] = req[q]
    BY <1>2, BegunIs
  <2>2. Sound(r, op, read)'
    BY <1>2, SoundStays DEF CatalogueOK, RowsOK
  <2>3. Sound(r, req[r].op, req[r].read)'
    BY <2>1, <2>2, ZenonT(30) DEF Sound
  <2>4. Loads(req[r].op, req[r].read)'
    BY <1>2, <2>1 DEF Loads
  <2>5. Runs(r)'
    BY <2>1 DEF Runs
  <2> QED BY <1>2, <2>1, <2>3, <2>4, <2>5 DEF Asks
<1> QED BY <1>1, <1>2

LEMMA AskingMore ==
  ASSUME SessionInv, Frozen, CatalogueOK, NEW r \in Request, NEW op, NEW step, NEW read,
         UNCHANGED catalogueVars, step \in {"probe", "product", "variant", "save", "insert"},
         op.do # "delete", step = "insert" => op.do = "set primary",
         RefuseAtOnce(r, op) \/ (Begin(r, op, step, read) /\ Sound(r, op, read) /\ Loads(op, read))
  PROVE  Asks(r)
BY Asking DEF catalogueVars

LEMMA NoRowIsRow ==
  ASSUME NEW f, "product" \in DOMAIN f
  PROVE  f # <<>>
<1>1. <<>> \in Seq({}) /\ Len(<<>>) = 0
  OBVIOUS
<1>2. DOMAIN <<>> = {}
  BY <1>1
<1> QED BY <1>2

\* The catalogue is asked for what is sound.
LEMMA AllAsk ==
  ASSUME SessionInv, Frozen, CatalogueOK, NEW r \in Request,
         \/ /\ \/ CreateRow(r) \/ UpdateRow(r) \/ CreateProduct(r) \/ UpdateProduct(r)
               \/ CreateVariant(r) \/ UpdateVariant(r)
            /\ UNCHANGED catalogueVars
         \/ Upload(r) \/ SetPrimary(r) \/ DeleteImage(r)
  PROVE  Asks(r)
<1> USE DEF catalogueVars
<1>1. CASE CreateRow(r) /\ UNCHANGED catalogueVars
  <2> DEFINE op(table, row) == [do |-> "create", table |-> table, id |-> r, row |-> row,
                                skus |-> {}]
             read == [k |-> 1, loaded |-> <<>>]
  <2>1. PICK table \in {"categories", "brands"} : \E row \in Payload(table) :
          RefuseAtOnce(r, op(table, row)) \/ Begin(r, op(table, row), "probe", read)
    BY <1>1 DEF CreateRow
  <2>2. PICK row \in Payload(table) :
          RefuseAtOnce(r, op(table, row)) \/ Begin(r, op(table, row), "probe", read)
    BY <2>1
  <2>3. op(table, row).do = "create" /\ Sound(r, op(table, row), read)
    BY DEF Sound, Slugged
  <2> HIDE DEF op, read
  <2>4. Loads(op(table, row), read)
    BY <2>3 DEF Loads
  <2> QED BY <1>1, <2>2, <2>3, <2>4, AskingMore
<1>2. CASE UpdateRow(r) /\ UNCHANGED catalogueVars
  <2> DEFINE op(table, id, row) == [do |-> "update", table |-> table, id |-> id, row |-> row,
                                    skus |-> {}]
             read(table, id) == [k |-> 1, loaded |-> rows[table][id]]
  <2>1. PICK table \in {"categories", "brands"} :
          \E id \in DOMAIN rows[table], row \in Payload(table) :
            Begin(r, op(table, id, row), "probe", read(table, id))
    BY <1>2 DEF UpdateRow
  <2>2. PICK id \in DOMAIN rows[table], row \in Payload(table) :
          Begin(r, op(table, id, row), "probe", read(table, id))
    BY <2>1
  <2>3. /\ op(table, id, row).do = "update"
        /\ Sound(r, op(table, id, row), read(table, id))
        /\ Loads(op(table, id, row), read(table, id))
    BY DEF Sound, Loads
  <2> HIDE DEF op, read
  <2> QED BY <1>2, <2>2, <2>3, AskingMore
<1>3. CASE CreateProduct(r) /\ UNCHANGED catalogueVars
  <2> DEFINE op(name, category, skus) == [do |-> "create", table |-> "products", id |-> r,
                                          skus |-> skus,
                       row |-> [name |-> name, status |-> "draft", category |-> category]]
             read == [k |-> 1, loaded |-> <<>>]
  <2>1. PICK name \in Name, category \in {"root", "gone"}, skus \in SUBSET Sku :
          \/ RefuseAtOnce(r, op(name, category, skus))
          \/ category = "root" /\ Begin(r, op(name, category, skus), "probe", read)
    BY <1>3 DEF CreateProduct
  <2>2. /\ op(name, category, skus).do = "create"
        /\ category = "root" => Sound(r, op(name, category, skus), read)
    BY DEF Sound, Slugged
  <2> HIDE DEF op, read
  <2>3. Loads(op(name, category, skus), read)
    BY <2>2 DEF Loads
  <2> QED BY <1>3, <2>1, <2>2, <2>3, AskingMore
<1>4. CASE UpdateProduct(r) /\ UNCHANGED catalogueVars
  <2> DEFINE op(id, change) == [do |-> "product", id |-> id, row |-> change]
             Changes == [status : Status \cup {Null}] \cup [name : Name]
                        \cup [category : {"root", "gone"}]
             Fine == [status : Status \cup {Null}] \cup [name : Name] \cup [category : {"root"}]
  <2>1. PICK id \in DOMAIN rows.products, change \in Changes :
          \/ RefuseAtOnce(r, op(id, change))
          \/ /\ ~ ("category" \in DOMAIN change /\ change.category = "gone")
             /\ Begin(r, op(id, change), "product", rows.products[id])
    BY <1>4 DEF UpdateProduct
  <2>2. ~ ("category" \in DOMAIN change /\ change.category = "gone") => change \in Fine
    OBVIOUS
  <2>3. /\ op(id, change).do = "product"
        /\ change \in Fine => Sound(r, op(id, change), rows.products[id])
    BY DEF Sound
  <2> HIDE DEF op, Fine, Changes
  <2>4. Loads(op(id, change), rows.products[id])
    BY <2>3 DEF Loads
  <2> QED BY <1>4, <2>1, <2>2, <2>3, <2>4, AskingMore
<1>5. CASE CreateVariant(r) /\ UNCHANGED catalogueVars
  <2> DEFINE op(sku, n) == [do |-> "variant", id |-> <<r, sku>>,
                       row |-> [product |-> "p0", sku |-> sku, stock |-> n]]
  <2>1. PICK sku \in Sku, n \in Stock :
          RefuseAtOnce(r, op(sku, n)) \/ Begin(r, op(sku, n), "variant", <<>>)
    BY <1>5 DEF CreateVariant
  <2>2. op(sku, n).do = "variant" /\ Sound(r, op(sku, n), <<>>)
    BY DEF Sound
  <2> HIDE DEF op
  <2>3. Loads(op(sku, n), <<>>)
    BY <2>2 DEF Loads
  <2> QED BY <1>5, <2>1, <2>2, <2>3, AskingMore
<1>6. CASE UpdateVariant(r) /\ UNCHANGED catalogueVars
  <2> DEFINE op(v, change) == [do |-> "variant", id |-> v, row |-> change]
  <2>1. PICK v \in DOMAIN variants, change \in [sku : Sku \cup {Null}] \cup [stock : Stock] :
          RefuseAtOnce(r, op(v, change)) \/ Begin(r, op(v, change), "variant", variants[v])
    BY <1>6 DEF UpdateVariant
  <2>2. variants[v] # <<>>
    <3>1. DOMAIN variants[v] = {"product", "sku", "stock"}
      BY DEF CatalogueOK, VariantsOK
    <3> QED BY <3>1, NoRowIsRow
  <2>3. op(v, change).do = "variant" /\ Sound(r, op(v, change), variants[v])
    BY <2>2 DEF Sound
  <2> HIDE DEF op
  <2>4. Loads(op(v, change), variants[v])
    BY <2>3 DEF Loads
  <2> QED BY <1>6, <2>1, <2>3, <2>4, AskingMore
<1>7. CASE Upload(r)
  <2> DEFINE op(primary) == [do |-> "upload", id |-> r, primary |-> primary]
  <2>1. PICK primary \in BOOLEAN : Begin(r, op(primary), "save", images)
    BY <1>7 DEF Upload
  <2>2. op(primary).do = "upload" /\ Sound(r, op(primary), images)
    BY DEF Sound, CatalogueOK, ImagesOK
  <2> HIDE DEF op
  <2>3. Loads(op(primary), images)
    BY <2>2 DEF Loads
  <2>4. UNCHANGED catalogueVars
    BY <1>7 DEF Upload
  <2>5. PICK o : /\ Begin(r, o, "save", images) /\ o.do = "upload"
                 /\ Sound(r, o, images) /\ Loads(o, images)
    BY <2>1, <2>2, <2>3, Zenon
  <2>6. "save" \in {"probe", "product", "variant", "save", "insert"} /\ "save" # "insert"
    OBVIOUS
  <2> QED BY <2>4, <2>5, <2>6, AskingMore
<1>8. CASE SetPrimary(r)
  <2> DEFINE op(id) == [do |-> "set primary", id |-> id, primary |-> TRUE]
  <2>1. PICK id \in DOMAIN images \cup {"gone"} :
          RefuseAtOnce(r, op(id)) \/ Begin(r, op(id), "insert", images)
    BY <1>8 DEF SetPrimary
  <2>2. op(id).do = "set primary" /\ Sound(r, op(id), images)
    BY DEF Sound, CatalogueOK, ImagesOK
  <2> HIDE DEF op
  <2>3. Loads(op(id), images)
    BY <2>2 DEF Loads
  <2>4. UNCHANGED catalogueVars
    BY <1>8 DEF SetPrimary
  <2>5. op(id).do # "delete" /\ "insert" \in {"probe", "product", "variant", "save", "insert"}
    BY <2>2
  <2>6. RefuseAtOnce(r, op(id)) \/ (/\ Begin(r, op(id), "insert", images)
                                    /\ Sound(r, op(id), images) /\ Loads(op(id), images))
    BY <2>1, <2>2, <2>3
  <2> QED BY <2>2, <2>4, <2>5, <2>6, AskingMore
<1>9. CASE DeleteImage(r)
  <2> DEFINE op(id) == [do |-> "delete", id |-> id]
  <2>1. PICK id \in DOMAIN images \cup {"elsewhere"} :
          /\ IF id = "elsewhere" THEN RefuseAtOnce(r, op(id)) ELSE Begin(r, op(id), "delete", <<>>)
          /\ files' = Unlinked(id)
    BY <1>9 DEF DeleteImage
  <2>2. op(id).do = "delete" /\ op(id).id = id
        /\ (id # "elsewhere" => Sound(r, op(id), <<>>))
    BY DEF Sound, CatalogueOK, ImagesOK
  <2> HIDE DEF op
  <2>3. Loads(op(id), <<>>)
    BY <2>2 DEF Loads
  <2>4. UNCHANGED <<rows, variants, images>>
    BY <1>9 DEF DeleteImage
  <2> QED BY <2>1, <2>2, <2>3, <2>4, Asking DEF Unlinked
<1> QED BY <1>1, <1>2, <1>3, <1>4, <1>5, <1>6, <1>7, <1>8, <1>9

LEMMA CatalogueSteps ==
  ASSUME SessionInv, Frozen, CatalogueOK, NEW r \in Request, CatalogueStep(r)
  PROVE  \/ Asks(r) \/ Probe(r) \/ WriteRow(r) \/ WriteProduct(r) \/ WriteVariant(r)
         \/ SaveFile(r) \/ WriteImages(r) \/ DeleteRow(r)
BY AllAsk DEF CatalogueStep, SlugStep, ProductStep, ImageStep

\* A request that goes on asks what it asked.
LEMMA RequestsSound ==
  ASSUME SessionInv, Frozen, CatalogueOK, NEW r \in Request, CatalogueStep(r),
         \A t \in Slugged : DOMAIN rows[t] \subseteq DOMAIN rows'[t],
         DOMAIN variants \subseteq DOMAIN variants'
  PROVE  \A q \in Request : Runs(q)' => Sound(q, req[q].op, req[q].read)'
<1>1. \A q \in Request \ {r} : req'[q] = req[q]
  BY CatalogueSessions, OthersStay
<1>2. ASSUME NEW q \in Request, Runs(q), req'[q].op = req[q].op, req'[q].read = req[q].read
      PROVE  Sound(q, req[q].op, req[q].read)'
  <2>1. ASSUME NEW op, NEW read, op = req[q].op, read = req[q].read
        PROVE  Sound(q, req[q].op, req[q].read)'
    <3>1. Sound(q, op, read)
      BY <1>2, <2>1 DEF CatalogueOK
    <3>2. Sound(q, op, read)'
      BY <3>1, SoundStays DEF CatalogueOK, RowsOK
    <3>3. req'[q].op = op /\ req'[q].read = read
      BY <1>2, <2>1
    <3> QED BY <3>2, <3>3, ZenonT(30) DEF Sound
  <2> QED BY <2>1
<1>3. ASSUME NEW q \in Request \ {r}, Runs(q)'
      PROVE  Sound(q, req[q].op, req[q].read)'
  BY <1>1, <1>2, <1>3 DEF Runs
<1>4. ASSUME Runs(r)'
      PROVE  Sound(r, req[r].op, req[r].read)'
  <2>1. CASE Asks(r)
    BY <1>4, <2>1 DEF Asks, Runs
  <2>2. CASE Probe(r)
    <3>1. /\ Runs(r) /\ req[r].op.do \in {"create", "update"} /\ req'[r].op = req[r].op
      BY <2>2, KindAt, ProceededIs DEF Probe
    <3>2. ASSUME NEW op, op = req[r].op
          PROVE  Sound(r, req[r].op, req[r].read)'
      <4>1. Sound(r, op, req[r].read)
        BY <3>1, <3>2 DEF CatalogueOK
      <4>2. /\ op.do = "create" =>
                 /\ op.table \in Slugged /\ op.id = r
                 /\ op.table # "products" => op.row \in Payload(op.table) /\ op.skus = {}
                 /\ op.table = "products" =>
                      /\ op.row \in [name : Name, status : {"draft"}, category : {"root"}]
                      /\ op.skus \subseteq Sku
            /\ op.do = "update" =>
                 /\ op.table \in {"categories", "brands"} /\ op.id \in DOMAIN rows[op.table]
                 /\ op.row \in Payload(op.table) /\ op.skus = {}
        BY <4>1 DEF Sound
      <4>3. op.do \in {"create", "update"} /\ req'[r].op = op
        BY <3>1, <3>2
      <4>4. op.do = "update" => op.id \in DOMAIN rows'[op.table]
        BY <4>2 DEF Slugged
      <4> QED BY <4>2, <4>3, <4>4 DEF Sound, Payload
    <3> QED BY <3>2
  <2>3. CASE SaveFile(r)
    <3>1. Runs(r) /\ req'[r].op = req[r].op /\ (Runs(r)' => req'[r].read = req[r].read)
      BY <2>3, KindAt, ProceededIs, AnsweredIs DEF SaveFile, Refuse, Runs
    <3> QED BY <1>2, <1>4, <3>1
  <2>4. CASE WriteRow(r) \/ WriteProduct(r) \/ WriteVariant(r) \/ WriteImages(r) \/ DeleteRow(r)
    BY <1>4, <2>4, AnsweredIs DEF WriteRow, WriteProduct, WriteVariant, WriteImages, DeleteRow, Runs
  <2> QED BY <2>1, <2>2, <2>3, <2>4, CatalogueSteps
<1> QED BY <1>3, <1>4

-----------------------------------------------------------------------------
(* Rows.                                                                   *)

\* What the commit of a category, brand or product would leave.
LEMMA WrittenIs ==
  ASSUME SessionInv, CatalogueOK, NEW r \in Request, At(r, "write")
  PROVE  LET op == req[r].op new == Written(r) IN
           /\ op.table \in Slugged /\ op.skus \subseteq Sku
           /\ DOMAIN new = Columns(op.table) /\ new.name \in Name
           /\ op.id = r \/ op.id \in DOMAIN rows[op.table]
           /\ op.skus # {} => op.id = r /\ op.table = "products"
           /\ op.table = "products" => new.status = "draft" /\ new.category = "root"
           /\ op.do = "create" => /\ op.id = r /\ new.name = op.row.name /\ new.slug = Candidate(r)
<1> DEFINE op == req[r].op
           new == Written(r)
           given == Assigned(r)
<1>1. Runs(r) /\ op.do \in {"create", "update"}
  BY KindAt
<1>2. Sound(r, op, req[r].read)
  BY <1>1 DEF CatalogueOK
<1>3. /\ DOMAIN given = DOMAIN op.row \cup {"slug"}
      /\ given["slug"] = Candidate(r)
      /\ \A c \in DOMAIN op.row \ {"slug"} : given[c] = op.row[c]
  BY DEF Assigned, With
<1>4. /\ op.table \in Slugged
      /\ op.table = "categories" => op.row \in [name : Name, parent : {"none", "root", "gone"}]
      /\ op.table = "brands" => op.row \in [name : Name]
      /\ op.table = "products" => /\ op.do = "create"
                                  /\ op.row \in [name : Name, status : {"draft"}, category : {"root"}]
      /\ op.table # "products" => op.skus = {}
      /\ op.skus \subseteq Sku
      /\ op.do = "create" => op.id = r
      /\ op.do = "update" => op.id \in DOMAIN rows[op.table]
  <2>1. CASE op.do = "create"
    BY <1>2, <2>1 DEF Sound, Payload, Slugged
  <2>2. CASE op.do = "update"
    BY <1>2, <2>2 DEF Sound, Payload, Slugged
  <2> QED BY <1>1, <2>1, <2>2
<1>5. /\ DOMAIN given = Columns(op.table) /\ "name" \in DOMAIN op.row /\ op.row.name \in Name
      /\ "slug" \notin DOMAIN op.row
  <2>1. CASE op.table = "categories"
    <3>1. DOMAIN op.row = {"name", "parent"} /\ op.row["name"] \in Name
      BY <1>4, <2>1
    <3> QED BY <1>3, <2>1, <3>1 DEF Columns
  <2>2. CASE op.table = "brands"
    <3>1. DOMAIN op.row = {"name"} /\ op.row["name"] \in Name
      BY <1>4, <2>2
    <3> QED BY <1>3, <2>2, <3>1 DEF Columns
  <2>3. CASE op.table = "products"
    <3>1. DOMAIN op.row = {"name", "status", "category"} /\ op.row["name"] \in Name
      BY <1>4, <2>3
    <3> QED BY <1>3, <2>3, <3>1 DEF Columns
  <2> QED BY <1>4, <2>1, <2>2, <2>3 DEF Slugged
<1>6. CASE op.do = "create"
  <2>1. new = given
    BY <1>6 DEF Written
  <2>2. new.name = op.row.name /\ new.slug = Candidate(r)
    BY <1>3, <1>5, <2>1
  <2>3. op.table = "products" => new.status = "draft" /\ new.category = "root"
    <3>1. ASSUME op.table = "products"
          PROVE  /\ op.row["status"] = "draft" /\ op.row["category"] = "root"
                 /\ "status" \in DOMAIN op.row /\ "category" \in DOMAIN op.row
      BY <1>4, <3>1
    <3> QED BY <1>3, <2>1, <3>1
  <2> QED BY <1>4, <1>5, <1>6, <2>1, <2>2, <2>3
<1>7. CASE op.do = "update"
  <2> DEFINE row == rows[op.table][op.id]
             loaded == req[r].read.loaded
  <2>1. new = Flush(row, loaded, given)
    BY <1>7 DEF Written
  <2>2. op.table # "products" /\ DOMAIN row = Columns(op.table) /\ row.name \in Name
    BY <1>4, <1>7 DEF CatalogueOK, RowsOK
  <2>3. new["name"] \in {given["name"], row["name"]} /\ DOMAIN new = Columns(op.table)
    <3>1. "name" \in Columns(op.table)
      BY DEF Columns
    <3> HIDE DEF given, row, loaded
    <3> QED BY <2>1, <2>2, <3>1 DEF Flush
  <2>4. given["name"] = op.row["name"]
    BY <1>3, <1>5
  <2> QED BY <1>4, <1>5, <1>7, <2>2, <2>3, <2>4
<1> QED BY <1>1, <1>6, <1>7

LEMMA NewStockIs == FirstStock \in Stock /\ FirstStock \in Nat
BY NamesAssumption DEF FirstStock

\* What the commit of a row does to the tables.
LEMMA RowIsWritten ==
  ASSUME SessionInv, CatalogueOK, NEW r \in Request, WriteRow(r)
  PROVE  LET t == req[r].op.table id == req[r].op.id IN
           \/ UNCHANGED <<rows, variants>> /\ req'[r].answer = "conflict"
           \/ /\ RowLegal(r) /\ req'[r].answer = "ok" /\ DOMAIN rows' = DOMAIN rows
              /\ \A u \in Slugged \ {t} : rows'[u] = rows[u]
              /\ DOMAIN rows'[t] = DOMAIN rows[t] \cup {id} /\ rows'[t][id] = Written(r)
              /\ \A i \in DOMAIN rows[t] \ {id} : rows'[t][i] = rows[t][i]
              /\ DOMAIN variants' = DOMAIN variants \cup NewVariants(r)
              /\ \A v \in DOMAIN variants : variants'[v] = variants[v]
              /\ \A v \in NewVariants(r) \ DOMAIN variants :
                   variants'[v] = [product |-> r, sku |-> v[2], stock |-> FirstStock]
<1> DEFINE t == req[r].op.table
           id == req[r].op.id
           new == Written(r)
           one == With(rows[t], id, new)
<1>1. At(r, "write") /\ Answer(r, CommitAnswer(TRUE, RowLegal(r)))
  BY DEF WriteRow
<1>2. CASE ~ RowLegal(r)
  <2>1. CommitAnswer(TRUE, RowLegal(r)) = "conflict" /\ UNCHANGED <<rows, variants>>
    BY <1>2 DEF WriteRow, CommitAnswer
  <2> QED BY <1>1, <2>1, AnsweredIs
<1>3. CASE RowLegal(r)
  <2>1. CommitAnswer(TRUE, RowLegal(r)) = "ok"
    BY <1>3 DEF CommitAnswer
  <2>2. t \in DOMAIN rows
    BY <1>1, WrittenIs DEF CatalogueOK, RowsOK
  <2>3. DOMAIN one = DOMAIN rows[t] \cup {id} /\ one[id] = new
        /\ \A i \in DOMAIN rows[t] \ {id} : one[i] = rows[t][i]
    BY DEF With
  <2>4. rows' = [rows EXCEPT ![t] = one]
    BY <1>3 DEF WriteRow
  <2>5. DOMAIN rows = Slugged
    BY DEF CatalogueOK, RowsOK
  <2> HIDE DEF one
  <2>6. /\ DOMAIN rows' = DOMAIN rows /\ rows'[t] = one
        /\ \A u \in Slugged \ {t} : rows'[u] = rows[u]
    BY <2>2, <2>4, <2>5
  <2>7. /\ DOMAIN variants' = DOMAIN variants \cup NewVariants(r)
        /\ \A v \in DOMAIN variants : variants'[v] = variants[v]
        /\ \A v \in NewVariants(r) \ DOMAIN variants :
             variants'[v] = [product |-> r, sku |-> v[2], stock |-> FirstStock]
    BY <1>3 DEF WriteRow
  <2>8. req'[r].answer = "ok"
    BY <1>1, <2>1, AnsweredIs
  <2> QED BY <1>3, <2>3, <2>6, <2>7, <2>8
<1> QED BY <1>2, <1>3

LEMMA WriteRowKeeps ==
  ASSUME SessionInv, Frozen, CatalogueOK, NEW r \in Request, WriteRow(r)
  PROVE  /\ RowsOK' /\ VariantsOK' /\ DOMAIN variants \subseteq DOMAIN variants'
         /\ \A u \in Slugged : DOMAIN rows[u] \subseteq DOMAIN rows'[u]
<1> DEFINE t == req[r].op.table
           id == req[r].op.id
           new == Written(r)
<1>1. /\ t \in Slugged /\ DOMAIN new = Columns(t) /\ new.name \in Name
      /\ id = r \/ id \in DOMAIN rows[t]
      /\ req[r].op.skus # {} => id = r /\ t = "products"
      /\ t = "products" => new.status = "draft" /\ new.category = "root"
      /\ req[r].op.skus \subseteq Sku
  BY WrittenIs DEF WriteRow
<1>2. \A q \in Request : At(q, "done") => At(q, "done")'
  BY DEF Frozen, At
<1>3. At(r, "done")'
  BY AnsweredIs DEF WriteRow, At
<1>4. CASE UNCHANGED <<rows, variants>>
  BY <1>2, <1>4 DEF CatalogueOK, RowsOK, VariantsOK, Known
<1>5. CASE /\ RowLegal(r) /\ DOMAIN rows' = DOMAIN rows
           /\ \A u \in Slugged \ {t} : rows'[u] = rows[u]
           /\ DOMAIN rows'[t] = DOMAIN rows[t] \cup {id} /\ rows'[t][id] = new
           /\ \A i \in DOMAIN rows[t] \ {id} : rows'[t][i] = rows[t][i]
           /\ DOMAIN variants' = DOMAIN variants \cup NewVariants(r)
           /\ \A v \in DOMAIN variants : variants'[v] = variants[v]
           /\ \A v \in NewVariants(r) \ DOMAIN variants :
                variants'[v] = [product |-> r, sku |-> v[2], stock |-> FirstStock]
  <2>1. \A u \in Slugged : DOMAIN rows[u] \subseteq DOMAIN rows'[u]
    BY <1>5
  <2>2. DOMAIN rows = Slugged
    BY DEF CatalogueOK, RowsOK
  <2>3. \A u \in Slugged :
          DOMAIN rows'[u] \subseteq {"root", "p0"} \cup {q \in Request : At(q, "done")'}
    <3>1. \A u \in Slugged :
            DOMAIN rows[u] \subseteq {"root", "p0"} \cup {q \in Request : At(q, "done")'}
      BY <1>2 DEF CatalogueOK, RowsOK
    <3> QED BY <1>1, <1>3, <1>5, <3>1
  <2>4. \A u \in Slugged : \A i \in DOMAIN rows'[u] :
          DOMAIN rows'[u][i] = Columns(u) /\ rows'[u][i].name \in Name
    BY <1>1, <1>5 DEF CatalogueOK, RowsOK
  <2>5. "categories" \in Slugged /\ "products" \in Slugged /\ "categories" # "products"
    BY DEF Slugged
  <2>6. \A p : Known(p) => Known(p)'
    BY <2>1, <2>5 DEF Known
  <2>7. ASSUME NEW i \in DOMAIN rows'["categories"]
        PROVE  Known(rows["categories"][i].parent)'
    <3>1. ASSUME NEW p, p = rows'["categories"][i].parent
          PROVE  Known(p)
      <4>1. CASE t = "categories" /\ i = id
        BY <1>5, <3>1, <4>1 DEF RowLegal
      <4>2. CASE ~ (t = "categories" /\ i = id)
        <5>1. i \in DOMAIN rows["categories"] /\ rows'["categories"][i] = rows["categories"][i]
          BY <1>5, <2>5, <4>2
        <5> QED BY <3>1, <5>1 DEF CatalogueOK, RowsOK
      <4> QED BY <4>1, <4>2
    <3>2. Known(rows'["categories"][i].parent)
      BY <3>1
    <3>3. rows'["categories"][i].parent = "none" \/ rows'["categories"][i].parent \in DOMAIN rows["categories"]
      BY <3>2 DEF Known
    <3> QED BY <2>1, <2>5, <3>3 DEF Known
  <2>8. ASSUME NEW i \in DOMAIN rows'["products"]
        PROVE  /\ rows'["products"][i].category \in DOMAIN rows'["categories"]
               /\ rows'["products"][i].status \in Status
    <3>1. CASE t = "products" /\ i = id
      <4>1. "root" \in DOMAIN rows'["categories"]
        BY <2>1, <2>5 DEF CatalogueOK, RowsOK
      <4> QED BY <1>1, <1>5, <3>1, <4>1 DEF Status
    <3>2. CASE ~ (t = "products" /\ i = id)
      <4>1. i \in DOMAIN rows["products"] /\ rows'["products"][i] = rows["products"][i]
        BY <1>5, <2>5, <3>2
      <4> QED BY <2>1, <2>5, <4>1 DEF CatalogueOK, RowsOK
    <3> QED BY <3>1, <3>2
  <2>9. RowsOK'
    <3>1. "root" \in DOMAIN rows'["categories"] /\ "p0" \in DOMAIN rows'["products"]
      BY <2>1, <2>5 DEF CatalogueOK, RowsOK
    <3> QED BY <1>5, <2>2, <2>3, <2>4, <2>7, <2>8, <3>1 DEF RowsOK
  <2>10. VariantsOK'
    <3>1. ASSUME NEW v \in DOMAIN variants
          PROVE  variants'[v] \in [product : DOMAIN rows'["products"], sku : Sku, stock : Nat]
      <4>1. variants[v] \in [product : DOMAIN rows["products"], sku : Sku, stock : Nat]
        BY DEF CatalogueOK, VariantsOK
      <4> QED BY <1>5, <2>1, <2>5, <4>1
    <3>2. ASSUME NEW v \in NewVariants(r) \ DOMAIN variants
          PROVE  variants'[v] \in [product : DOMAIN rows'["products"], sku : Sku, stock : Nat]
      <4>1. PICK s \in req[r].op.skus : v = <<r, s>>
        BY DEF NewVariants
      <4>2. v[2] \in Sku /\ r \in DOMAIN rows'["products"]
        BY <1>1, <1>5, <4>1
      <4> QED BY <1>5, <4>2, NewStockIs
    <3> QED BY <1>5, <3>1, <3>2 DEF VariantsOK
  <2> QED BY <1>5, <2>1, <2>9, <2>10
<1> QED BY <1>4, <1>5, RowIsWritten

\* What the commit of an update of a product does.
LEMMA ProductIsWritten ==
  ASSUME SessionInv, CatalogueOK, NEW r \in Request, WriteProduct(r)
  PROVE  LET id == req[r].op.id new == Flush(rows.products[id], req[r].read, req[r].op.row) IN
           /\ Runs(r) /\ req[r].op.do = "product" /\ UNCHANGED <<variants, images, files>>
           /\ id \in DOMAIN rows["products"]
           /\ DOMAIN new = Columns("products") /\ new.name \in Name
           /\ new.category \in DOMAIN rows["categories"] /\ new.status \in Status \cup {Null}
           /\ \/ /\ rows' = rows /\ new.status = Null /\ req'[r].answer = "conflict"
              \/ /\ new.status \in Status /\ DOMAIN rows' = DOMAIN rows /\ req'[r].answer = "ok"
                 /\ rows'["categories"] = rows["categories"] /\ rows'["brands"] = rows["brands"]
                 /\ DOMAIN rows'["products"] = DOMAIN rows["products"]
                 /\ rows'["products"][id] = new
                 /\ \A i \in DOMAIN rows["products"] \ {id} :
                      rows'["products"][i] = rows["products"][i]
<1> DEFINE op == req[r].op
           id == op.id
           row == rows.products[id]
           new == Flush(row, req[r].read, op.row)
<1>1. /\ Runs(r) /\ op.do = "product" /\ UNCHANGED <<variants, images, files>>
      /\ Answer(r, CommitAnswer(TRUE, new.status # Null))
      /\ rows' = IF new.status = Null THEN rows ELSE [rows EXCEPT !["products"] = [@ EXCEPT ![id] = new]]
  BY KindAt DEF WriteProduct
<1>2. /\ id \in DOMAIN rows["products"]
      /\ op.row \in [status : Status \cup {Null}] \cup [name : Name] \cup [category : {"root"}]
  BY <1>1 DEF CatalogueOK, Sound
<1>3. /\ DOMAIN rows = Slugged /\ DOMAIN row = {"name", "slug", "status", "category"}
      /\ row["name"] \in Name /\ row["category"] \in DOMAIN rows["categories"]
      /\ row["status"] \in Status /\ "root" \in DOMAIN rows["categories"]
  BY <1>2 DEF CatalogueOK, RowsOK, Columns, Slugged
<1>4. \/ DOMAIN op.row = {"status"} /\ op.row["status"] \in Status \cup {Null}
      \/ DOMAIN op.row = {"name"} /\ op.row["name"] \in Name
      \/ DOMAIN op.row = {"category"} /\ op.row["category"] = "root"
  BY <1>2
<1>5. new = [c \in {"name", "slug", "status", "category"} |->
               IF c \in DOMAIN op.row /\ op.row[c] # req[r].read[c] THEN op.row[c] ELSE row[c]]
  BY <1>3 DEF Flush
<1>6. new["name"] \in Name
  BY <1>3, <1>4, <1>5
<1>7. new["category"] \in DOMAIN rows["categories"]
  BY <1>3, <1>4, <1>5
<1>8. new["status"] \in Status \cup {Null}
  BY <1>3, <1>4, <1>5
<1>9. DOMAIN new = Columns("products")
  BY <1>5 DEF Columns
<1> HIDE DEF new
<1>10. CASE new.status = Null
  <2>1. CommitAnswer(TRUE, new.status # Null) = "conflict"
    BY <1>10 DEF CommitAnswer
  <2>2. req'[r].answer = "conflict" /\ rows' = rows
    BY <1>1, <1>10, <2>1, AnsweredIs
  <2> QED BY <1>1, <1>2, <1>6, <1>7, <1>8, <1>9, <1>10, <2>2 DEF new
<1>11. CASE new.status # Null
  <2>1. CommitAnswer(TRUE, new.status # Null) = "ok"
    BY <1>11 DEF CommitAnswer
  <2>2. req'[r].answer = "ok"
    BY <1>1, <2>1, AnsweredIs
  <2> DEFINE one == [rows["products"] EXCEPT ![id] = new]
  <2>3. /\ DOMAIN one = DOMAIN rows["products"] /\ one[id] = new
        /\ \A i \in DOMAIN rows["products"] \ {id} : one[i] = rows["products"][i]
    BY <1>2
  <2>4. rows' = [rows EXCEPT !["products"] = one]
    BY <1>1, <1>11
  <2> HIDE DEF one
  <2>5. /\ DOMAIN rows' = DOMAIN rows /\ rows'["products"] = one
        /\ rows'["categories"] = rows["categories"] /\ rows'["brands"] = rows["brands"]
    BY <1>3, <2>4 DEF Slugged
  <2>6. new["status"] \in Status
    BY <1>8, <1>11
  <2> QED BY <1>1, <1>2, <1>6, <1>7, <1>8, <1>9, <2>2, <2>3, <2>5, <2>6 DEF new
<1> QED BY <1>10, <1>11

LEMMA WriteProductKeeps ==
  ASSUME SessionInv, Frozen, CatalogueOK, NEW r \in Request, WriteProduct(r)
  PROVE  /\ RowsOK' /\ VariantsOK'
         /\ \A u \in Slugged : DOMAIN rows[u] \subseteq DOMAIN rows'[u]
<1> DEFINE id == req[r].op.id
           new == Flush(rows.products[id], req[r].read, req[r].op.row)
<1>1. \A q \in Request : At(q, "done") => At(q, "done")'
  BY DEF Frozen, At
<1>2. variants' = variants
  BY DEF WriteProduct
<1>3. CASE rows' = rows
  BY <1>1, <1>2, <1>3 DEF CatalogueOK, RowsOK, VariantsOK, Known
<1>4. CASE rows' # rows
  <2>1. /\ DOMAIN new = Columns("products") /\ new.name \in Name
        /\ new.category \in DOMAIN rows["categories"] /\ new.status \in Status
        /\ DOMAIN rows' = DOMAIN rows /\ id \in DOMAIN rows["products"]
        /\ rows'["categories"] = rows["categories"] /\ rows'["brands"] = rows["brands"]
        /\ DOMAIN rows'["products"] = DOMAIN rows["products"]
        /\ rows'["products"][id] = new
        /\ \A i \in DOMAIN rows["products"] \ {id} : rows'["products"][i] = rows["products"][i]
    BY <1>4, ProductIsWritten
  <2> HIDE DEF new
  <2>2. /\ \A u \in Slugged : DOMAIN rows'[u] = DOMAIN rows[u]
        /\ \A u \in Slugged : \A i \in DOMAIN rows[u] :
             u # "products" \/ i # id => rows'[u][i] = rows[u][i]
    BY <2>1 DEF Slugged
  <2>3. \A u \in Slugged : \A i \in DOMAIN rows'[u] :
          DOMAIN rows'[u][i] = Columns(u) /\ rows'[u][i].name \in Name
    BY <2>1, <2>2 DEF CatalogueOK, RowsOK
  <2>4. \A i \in DOMAIN rows'["products"] : /\ rows'["products"][i].category \in DOMAIN rows'["categories"]
                                            /\ rows'["products"][i].status \in Status
    BY <2>1 DEF CatalogueOK, RowsOK
  <2>5. \A i \in DOMAIN rows'["categories"] : Known(rows["categories"][i].parent)'
    BY <2>1 DEF CatalogueOK, RowsOK, Known
  <2>6. \A u \in Slugged :
          DOMAIN rows'[u] \subseteq {"root", "p0"} \cup {q \in Request : At(q, "done")'}
    BY <1>1, <2>2 DEF CatalogueOK, RowsOK
  <2>7. RowsOK'
    BY <2>1, <2>3, <2>4, <2>5, <2>6 DEF CatalogueOK, RowsOK
  <2>8. VariantsOK'
    BY <1>2, <2>1 DEF CatalogueOK, VariantsOK
  <2> QED BY <2>2, <2>7, <2>8
<1> QED BY <1>3, <1>4

\* What the commit of a variant does.
LEMMA VariantIsWritten ==
  ASSUME SessionInv, CatalogueOK, NEW r \in Request, WriteVariant(r)
  PROVE  LET v == req[r].op.id new == WrittenVariant(r) IN
           /\ Runs(r) /\ req[r].op.do = "variant" /\ UNCHANGED <<rows, images, files>>
           /\ v \in DOMAIN variants \/ \E s \in Sku : v = <<r, s>>
           /\ \/ variants' = variants /\ ~ VariantLegal(r) /\ req'[r].answer = "conflict"
              \/ /\ VariantLegal(r) /\ req'[r].answer = "ok"
                 /\ new \in [product : DOMAIN rows["products"], sku : Sku, stock : Nat]
                 /\ DOMAIN variants' = DOMAIN variants \cup {v} /\ variants'[v] = new
                 /\ \A w \in DOMAIN variants \ {v} : variants'[w] = variants[w]
<1> DEFINE op == req[r].op
           v == op.id
           new == WrittenVariant(r)
           read == req[r].read
<1>1. /\ Runs(r) /\ op.do = "variant" /\ UNCHANGED <<rows, images, files>>
      /\ Answer(r, CommitAnswer(TRUE, VariantLegal(r)))
      /\ variants' = IF VariantLegal(r) THEN With(variants, v, new) ELSE variants
  BY KindAt DEF WriteVariant
<1>2. \/ /\ read = <<>> /\ \E s \in Sku : v = <<r, s>>
         /\ op.row \in [product : {"p0"}, sku : Sku, stock : Stock]
      \/ /\ read # <<>> /\ v \in DOMAIN variants
         /\ op.row \in [sku : Sku \cup {Null}] \cup [stock : Stock]
  BY <1>1 DEF CatalogueOK, Sound
<1>3. new.sku # Null => new \in [product : DOMAIN rows["products"], sku : Sku, stock : Nat]
  <2>1. CASE /\ read = <<>> /\ op.row \in [product : {"p0"}, sku : Sku, stock : Stock]
    <3>1. new = op.row /\ "p0" \in DOMAIN rows["products"]
      BY <2>1 DEF WrittenVariant, CatalogueOK, RowsOK
    <3> QED BY <2>1, <3>1, NamesAssumption
  <2>2. CASE /\ read # <<>> /\ v \in DOMAIN variants
             /\ op.row \in [sku : Sku \cup {Null}] \cup [stock : Stock]
    <3>1. new = Flush(variants[v], read, op.row)
      BY <2>2 DEF WrittenVariant
    <3>2. variants[v] \in [product : DOMAIN rows["products"], sku : Sku, stock : Nat]
      BY <2>2 DEF CatalogueOK, VariantsOK
    <3>3. \/ DOMAIN op.row = {"sku"} /\ op.row["sku"] \in Sku \cup {Null}
          \/ DOMAIN op.row = {"stock"} /\ op.row["stock"] \in Nat
      BY <2>2, NamesAssumption
    <3>4. new = [c \in {"product", "sku", "stock"} |->
                   IF c \in DOMAIN op.row /\ op.row[c] # read[c] THEN op.row[c]
                   ELSE variants[v][c]]
      BY <3>1, <3>2 DEF Flush
    <3>5. new["product"] \in DOMAIN rows["products"]
      BY <3>2, <3>3, <3>4
    <3>6. new["sku"] \in Sku \cup {Null}
      BY <3>2, <3>3, <3>4
    <3>7. new["stock"] \in Nat
      BY <3>2, <3>3, <3>4
    <3>8. new = [product |-> new["product"], sku |-> new["sku"], stock |-> new["stock"]]
      BY <3>4
    <3> HIDE DEF new
    <3> QED BY <3>5, <3>6, <3>7, <3>8
  <2> QED BY <1>2, <2>1, <2>2
<1> HIDE DEF new
<1>4. CASE ~ VariantLegal(r)
  <2>1. CommitAnswer(TRUE, VariantLegal(r)) = "conflict"
    BY <1>4 DEF CommitAnswer
  <2>2. req'[r].answer = "conflict"
    BY <1>1, <2>1, AnsweredIs
  <2> QED BY <1>1, <1>2, <1>4, <2>2
<1>5. CASE VariantLegal(r)
  <2>1. CommitAnswer(TRUE, VariantLegal(r)) = "ok"
    BY <1>5 DEF CommitAnswer
  <2>2. req'[r].answer = "ok"
    BY <1>1, <2>1, AnsweredIs
  <2>3. new.sku # Null
    BY <1>5 DEF VariantLegal, new
  <2>4. /\ DOMAIN variants' = DOMAIN variants \cup {v} /\ variants'[v] = new
        /\ \A w \in DOMAIN variants \ {v} : variants'[w] = variants[w]
    BY <1>1, <1>5 DEF With
  <2> QED BY <1>1, <1>2, <1>3, <1>5, <2>2, <2>3, <2>4 DEF new
<1> QED BY <1>4, <1>5

LEMMA WriteVariantKeeps ==
  ASSUME SessionInv, Frozen, CatalogueOK, NEW r \in Request, WriteVariant(r)
  PROVE  RowsOK' /\ VariantsOK' /\ DOMAIN variants \subseteq DOMAIN variants'
<1>1. \A q \in Request : At(q, "done") => At(q, "done")'
  BY DEF Frozen, At
<1>2. RowsOK' /\ rows' = rows
  BY <1>1 DEF CatalogueOK, RowsOK, Known, WriteVariant
<1>3. VariantsOK' /\ DOMAIN variants \subseteq DOMAIN variants'
  BY <1>2, VariantIsWritten DEF CatalogueOK, VariantsOK
<1> QED BY <1>2, <1>3

-----------------------------------------------------------------------------
(* Images.                                                                 *)

\* What the commit of images does.
LEMMA ImagesAreWritten ==
  ASSUME SessionInv, CatalogueOK, NEW r \in Request, WriteImages(r)
  PROVE  LET op == req[r].op IN
           /\ Runs(r) /\ op.do \in {"upload", "set primary"} /\ UNCHANGED <<rows, variants, files>>
           /\ req'[r].at = "done" /\ req'[r].op = op /\ At(r, "insert")
           /\ Sound(r, op, req[r].read) /\ r \notin DOMAIN images
           /\ \/ images' = images /\ req'[r].answer = "error"
              \/ /\ req'[r].answer = "ok"
                 /\ DOMAIN images' = DOMAIN images \cup (IF op.do = "upload" THEN {r} ELSE {})
                 /\ \A id \in DOMAIN images' : /\ DOMAIN images'[id] = {"primary", "order"}
                                               /\ images'[id].primary \in BOOLEAN
                 /\ \A id \in DOMAIN images :
                      images'[id].primary =>
                        \/ id \in Updated(r) /\ Primaries(r)[id]
                        \/ id \notin Updated(r) /\ images[id].primary
                 /\ op.do = "upload" => (images'[r].primary => op.primary)
<1> DEFINE op == req[r].op
           read == req[r].read
           kept == [id \in DOMAIN images |->
                      IF id \in Updated(r) THEN [images[id] EXCEPT !.primary = Primaries(r)[id]]
                      ELSE images[id]]
           new == [primary |-> op.primary, order |-> Cardinality(DOMAIN read)]
<1>1. /\ Runs(r) /\ op.do \in {"upload", "set primary"} /\ UNCHANGED <<rows, variants, files>>
      /\ At(r, "insert") /\ Answer(r, CommitAnswer(Updated(r) \subseteq DOMAIN images, TRUE))
      /\ images' = IF Updated(r) \subseteq DOMAIN images THEN Added(r, kept) ELSE images
  BY KindAt DEF WriteImages
<1>2. req'[r].at = "done" /\ req'[r].op = op
  BY <1>1, AnsweredIs
<1>3. Sound(r, op, read)
  BY <1>1 DEF CatalogueOK
<1>4. r \notin DOMAIN images
  BY <1>1, IdsAssumption DEF CatalogueOK, ImagesOK, At, Runs
<1>5. /\ op.primary \in BOOLEAN
      /\ \A id \in DOMAIN read : read[id].primary \in BOOLEAN
  BY <1>1, <1>3 DEF Sound
<1>6. \A id \in Updated(r) : id \in DOMAIN read /\ Primaries(r)[id] \in BOOLEAN
  BY <1>5 DEF Updated, Primaries
<1>7. ASSUME NEW id \in DOMAIN images
      PROVE  /\ DOMAIN kept[id] = {"primary", "order"} /\ kept[id].primary \in BOOLEAN
             /\ kept[id].primary => \/ id \in Updated(r) /\ Primaries(r)[id]
                                    \/ id \notin Updated(r) /\ images[id].primary
  <2>1. DOMAIN images[id] = {"primary", "order"} /\ images[id].primary \in BOOLEAN
    BY DEF CatalogueOK, ImagesOK
  <2>2. CASE id \in Updated(r)
    <3>1. kept[id] = [images[id] EXCEPT !["primary"] = Primaries(r)[id]]
      BY <2>2
    <3> HIDE DEF kept
    <3>2. DOMAIN kept[id] = {"primary", "order"} /\ kept[id].primary = Primaries(r)[id]
      BY <2>1, <3>1
    <3> QED BY <1>6, <2>2, <3>2
  <2>3. CASE id \notin Updated(r)
    <3>1. kept[id] = images[id]
      BY <2>3
    <3> HIDE DEF kept
    <3> QED BY <2>1, <2>3, <3>1
  <2> QED BY <2>2, <2>3
<1>8. DOMAIN kept = DOMAIN images /\ DOMAIN new = {"primary", "order"} /\ new.primary = op.primary
  OBVIOUS
<1> HIDE DEF kept, new
<1>9. CASE ~ (Updated(r) \subseteq DOMAIN images)
  <2>1. CommitAnswer(Updated(r) \subseteq DOMAIN images, TRUE) = "error"
    BY <1>9 DEF CommitAnswer
  <2>2. req'[r].answer = "error" /\ images' = images
    BY <1>1, <1>9, <2>1, AnsweredIs
  <2> QED BY <1>1, <1>2, <1>3, <1>4, <2>2
<1>10. CASE Updated(r) \subseteq DOMAIN images
  <2>1. CommitAnswer(Updated(r) \subseteq DOMAIN images, TRUE) = "ok"
    BY <1>10 DEF CommitAnswer
  <2>2. req'[r].answer = "ok"
    BY <1>1, <2>1, AnsweredIs
  <2>3. CASE op.do = "upload"
    <3>1. images' = With(kept, r, new)
      BY <1>1, <1>10, <2>3 DEF Added, new
    <3>2. /\ DOMAIN images' = DOMAIN images \cup {r} /\ images'[r] = new
          /\ \A id \in DOMAIN images : images'[id] = kept[id]
      BY <1>4, <1>8, <3>1 DEF With
    <3>3. \A id \in DOMAIN images' : /\ DOMAIN images'[id] = {"primary", "order"}
                                     /\ images'[id].primary \in BOOLEAN
      BY <1>5, <1>7, <1>8, <3>2
    <3>4. \A id \in DOMAIN images :
            images'[id].primary => \/ id \in Updated(r) /\ Primaries(r)[id]
                                   \/ id \notin Updated(r) /\ images[id].primary
      BY <1>7, <3>2
    <3>5. images'[r].primary => op.primary
      BY <1>8, <3>2
    <3> QED BY <1>1, <1>2, <1>3, <1>4, <2>2, <2>3, <3>2, <3>3, <3>4, <3>5
  <2>4. CASE op.do # "upload"
    <3>1. images' = kept
      BY <1>1, <1>10, <2>4 DEF Added
    <3>2. \A id \in DOMAIN images : images'[id] = kept[id]
      BY <3>1
    <3>3. DOMAIN images' = DOMAIN images
      BY <1>8, <3>1
    <3> QED BY <1>1, <1>2, <1>3, <1>4, <1>7, <2>2, <2>4, <3>2, <3>3
  <2> QED BY <2>3, <2>4
<1> QED BY <1>9, <1>10

\* Rows are inserted under ids of their own, and point to rows.
LEMMA NextCatalogue ==
  ASSUME SessionInv, CatalogueOK, [Next]_vars
  PROVE  /\ CatalogueOK' /\ DOMAIN variants \subseteq DOMAIN variants'
         /\ \A u \in Slugged : DOMAIN rows[u] \subseteq DOMAIN rows'[u]
<1>1. SessionInv' /\ Frozen
  BY NextSessions
<1>2. \A q \in Request : At(q, "done") => At(q, "done")'
  BY <1>1 DEF Frozen, At
<1>3. ASSUME UNCHANGED <<rows, variants>>
      PROVE  RowsOK' /\ VariantsOK'
  BY <1>2, <1>3 DEF CatalogueOK, RowsOK, VariantsOK, Known
<1>4. ASSUME UNCHANGED images
      PROVE  ImagesOK'
  BY <1>2, <1>4 DEF CatalogueOK, ImagesOK
<1>5. CASE UNCHANGED catalogueVars /\ Aside(CatalogueKinds)
  <2>1. RowsOK' /\ VariantsOK' /\ ImagesOK' /\ UNCHANGED <<rows, variants>>
    BY <1>3, <1>4, <1>5 DEF catalogueVars
  <2>2. ASSUME NEW q \in Request, Runs(q)'
        PROVE  Sound(q, req[q].op, req[q].read)'
    <3>1. CASE req'[q].op.do \in CatalogueKinds
      <4>1. Runs(q) /\ req'[q] = req[q]
        BY <1>5, <2>2, <3>1 DEF Aside, Runs
      <4>2. ASSUME NEW op, NEW read, op = req[q].op, read = req[q].read
            PROVE  Sound(q, req[q].op, req[q].read)'
        <5>1. Sound(q, op, read)
          BY <4>1, <4>2 DEF CatalogueOK
        <5>2. Sound(q, op, read)'
          BY <1>1, <2>1, <5>1, SoundStays DEF CatalogueOK, RowsOK
        <5>3. req'[q].op = op /\ req'[q].read = read
          BY <4>1, <4>2
        <5> QED BY <5>2, <5>3, ZenonT(30) DEF Sound
      <4> QED BY <4>2
    <3>2. CASE req'[q].op.do \notin CatalogueKinds
      BY <3>2 DEF Sound, CatalogueKinds
    <3> QED BY <3>1, <3>2
  <2> QED BY <2>1, <2>2 DEF CatalogueOK
<1>6. ASSUME NEW r \in Request, CatalogueStep(r)
      PROVE  /\ CatalogueOK' /\ DOMAIN variants \subseteq DOMAIN variants'
             /\ \A u \in Slugged : DOMAIN rows[u] \subseteq DOMAIN rows'[u]
  <2>1. /\ RowsOK' /\ VariantsOK' /\ DOMAIN variants \subseteq DOMAIN variants'
        /\ \A u \in Slugged : DOMAIN rows[u] \subseteq DOMAIN rows'[u]
    <3>1. CASE Asks(r) \/ Probe(r) \/ SaveFile(r) \/ WriteImages(r) \/ DeleteRow(r)
      <4>1. UNCHANGED <<rows, variants>>
        BY <3>1 DEF Asks, Probe, SaveFile, WriteImages, DeleteRow, catalogueVars
      <4> QED BY <1>3, <4>1
    <3>2. CASE WriteRow(r)
      BY <1>1, <3>2, WriteRowKeeps
    <3>3. CASE WriteProduct(r)
      BY <1>1, <3>3, WriteProductKeeps DEF WriteProduct
    <3>4. CASE WriteVariant(r)
      BY <1>1, <3>4, WriteVariantKeeps DEF WriteVariant
    <3> QED BY <1>1, <1>6, <3>1, <3>2, <3>3, <3>4, CatalogueSteps
  <2>2. ImagesOK'
    <3>1. CASE Asks(r) \/ Probe(r) \/ SaveFile(r) \/ WriteRow(r) \/ WriteProduct(r) \/ WriteVariant(r)
      <4>1. UNCHANGED images
        BY <3>1 DEF Asks, Probe, SaveFile, WriteRow, WriteProduct, WriteVariant, catalogueVars
      <4> QED BY <1>4, <4>1
    <3>2. CASE WriteImages(r)
      <4>1. images' = images => ImagesOK'
        BY <1>4
      <4>2. CASE images' # images
        <5>1. /\ DOMAIN images' \subseteq DOMAIN images \cup {r} /\ At(r, "done")'
              /\ \A id \in DOMAIN images' : /\ DOMAIN images'[id] = {"primary", "order"}
                                            /\ images'[id].primary \in BOOLEAN
          BY <3>2, <4>2, ImagesAreWritten DEF At
        <5> QED BY <1>2, <5>1 DEF CatalogueOK, ImagesOK
      <4> QED BY <4>1, <4>2
    <3>3. CASE DeleteRow(r)
      BY <1>2, <3>3 DEF DeleteRow, Without, CatalogueOK, ImagesOK
    <3> QED BY <1>1, <1>6, <3>1, <3>2, <3>3, CatalogueSteps
  <2>3. \A q \in Request : Runs(q)' => Sound(q, req[q].op, req[q].read)'
    BY <1>1, <1>6, <2>1, RequestsSound
  <2> QED BY <2>1, <2>2, <2>3 DEF CatalogueOK
<1> QED BY <1>5, <1>6, CatalogueAside

LEMMA InitCatalogue == Init => CatalogueInv
<1> SUFFICES ASSUME Init PROVE CatalogueInv
  OBVIOUS
<1> DEFINE jeans == Slugify["Jeans"]
           category == [name |-> "Jeans", slug |-> jeans, parent |-> "none"]
           brand == [name |-> "Jeans", slug |-> jeans]
           product == [name |-> "Jeans", slug |-> jeans, status |-> "active", category |-> "root"]
<1>1. /\ DOMAIN rows = {"categories", "brands", "products"}
      /\ rows["categories"] = [id \in {"root"} |-> category]
      /\ rows["brands"] = [id \in {"root"} |-> brand]
      /\ rows["products"] = [id \in {"p0"} |-> product]
  BY DEF Init, CatalogueInit
<1>2. \A r \in Request : req[r].at = "new" /\ req[r].op.do = "none" /\ ~ Runs(r)
  BY DEF Init, SessionsInit, NotMade, Runs
<1>3. /\ DOMAIN images = {"i1", "i2"} /\ files = {"i1", "i2"}
      /\ DOMAIN images["i1"] = {"primary", "order"} /\ images["i1"].primary = TRUE
      /\ DOMAIN images["i2"] = {"primary", "order"} /\ images["i2"].primary = FALSE
  BY DEF Init, CatalogueInit
<1>4. /\ DOMAIN category = {"name", "slug", "parent"} /\ category.name = "Jeans"
      /\ category.slug = jeans /\ category.parent = "none"
      /\ DOMAIN brand = {"name", "slug"} /\ brand.name = "Jeans" /\ brand.slug = jeans
      /\ DOMAIN product = {"name", "slug", "status", "category"} /\ product.name = "Jeans"
      /\ product.status = "active" /\ product.category = "root"
  OBVIOUS
<1> HIDE DEF jeans, category, brand, product
<1>5. RowsOK
  <2>1. "Jeans" \in Name
    BY NamesAssumption
  <2>2. \A t \in Slugged : \A id \in DOMAIN rows[t] :
          DOMAIN rows[t][id] = Columns(t) /\ rows[t][id].name \in Name
    BY <1>1, <1>4, <2>1 DEF Slugged, Columns
  <2> QED BY <1>1, <1>4, <2>2 DEF RowsOK, Slugged, Known, Status
<1>6. VariantsOK
  <2>1. "s0" \in Sku
    BY NamesAssumption
  <2> QED BY <1>1, <2>1, NewStockIs DEF VariantsOK, Init, CatalogueInit
<1>7. ImagesOK
  BY <1>3 DEF ImagesOK
<1>8. FilesOK
  BY <1>2, <1>3 DEF FilesOK, Keeps, At
<1>9. PrimaryLoaded
  BY <1>2, <1>3 DEF PrimaryLoaded, Primary
<1>10. SlugsLoaded
  BY <1>1, <1>2, <1>4 DEF SlugsLoaded, Follows, jeans
<1> QED BY <1>2, <1>5, <1>6, <1>7, <1>8, <1>9, <1>10 DEF CatalogueInv, CatalogueOK

-----------------------------------------------------------------------------
(* Files.                                                                  *)

LEMMA NextFiles ==
  ASSUME SessionInv, CatalogueOK, FilesOK, [Next]_vars
  PROVE  FilesOK'
<1>1. SessionInv' /\ Frozen
  BY NextSessions
<1>2. ASSUME NEW q \in Request
      PROVE  /\ At(q, "delete") => Runs(q) /\ req[q].op.do = "delete"
             /\ At(q, "insert") => Runs(q) /\ req[q].op.do \in {"upload", "set primary"}
             /\ At(q, "new") => req[q].op.do = "none"
             /\ req[q].answer \in {"lost", "error"} => At(q, "done")
  BY KindAt DEF SessionInv, RequestsOK, At, Runs
<1>3. ASSUME NEW q \in Request
      PROVE  /\ At(q, "delete")' => req'[q].op.do = "delete"
             /\ At(q, "insert")' => req'[q].op.do \in {"upload", "set primary"}
  <2>1. Runs(q)' => Fits(req'[q].op.do, req'[q].at)
    BY <1>1 DEF SessionInv, RequestsOK
  <2> QED BY <2>1 DEF Fits, At, Runs, CartSteps
<1>4. ASSUME NEW id, Deleting(id)
      PROVE  \E q \in Request : /\ req[q].op.do = "delete" /\ req[q].op.id = id
                                /\ (At(q, "delete") \/ req[q].answer = "lost")
  BY <1>4 DEF Deleting
<1>5. CASE UNCHANGED catalogueVars /\ Aside(CatalogueKinds)
  <2>1. images' = images /\ files' = files
    BY <1>5 DEF catalogueVars
  <2>2. ASSUME NEW q \in Request
        PROVE  \/ req'[q] = req[q]
               \/ At(q, "done")' /\ req'[q].answer = "lost" /\ req'[q].op = req[q].op
               \/ req'[q].op.do \notin CatalogueKinds /\ ~ At(q, "insert") /\ ~ At(q, "delete")
                  /\ ~ At(q, "insert")' /\ ~ At(q, "delete")' /\ ~ At(q, "done")
    <3>1. \/ At(q, "insert")' \/ At(q, "delete")' \/ At(q, "insert") \/ At(q, "delete")
          => req'[q].op.do \in CatalogueKinds
      BY <1>1, <1>2, <1>3 DEF CatalogueKinds, Frozen, At
    <3>2. req'[q].op.do \in CatalogueKinds =>
            \/ req'[q] = req[q]
            \/ At(q, "done")' /\ req'[q].answer = "lost" /\ req'[q].op = req[q].op
      BY <1>1, <1>5 DEF Aside, Frozen, At, Runs
    <3>3. At(q, "done") => req'[q] = req[q]
      BY <1>1 DEF Frozen
    <3> QED BY <3>1, <3>2, <3>3
  <2>3. ASSUME NEW q \in Request
        PROVE  /\ Stores(q) => Stores(q)'
               /\ Waits(q) => Waits(q)'
               /\ Keeps(q)'
    <3>1. CASE req'[q] = req[q]
      BY <2>1, <3>1 DEF Stores, Waits, Keeps, FilesOK, At
    <3>2. CASE At(q, "done")' /\ req'[q].answer = "lost" /\ req'[q].op = req[q].op
      BY <3>2 DEF Stores, Waits, Keeps, At
    <3>3. CASE /\ ~ At(q, "insert") /\ ~ At(q, "delete") /\ ~ At(q, "insert")' /\ ~ At(q, "delete")'
               /\ ~ At(q, "done")
      BY <1>2, <3>3 DEF Stores, Waits, Keeps
    <3> QED BY <2>2, <3>1, <3>2, <3>3
  <2>4. ASSUME NEW id, Deleting(id) PROVE Deleting(id)'
    <3>1. PICK q \in Request : /\ req[q].op.do = "delete" /\ req[q].op.id = id
                               /\ (At(q, "delete") \/ req[q].answer = "lost")
      BY <1>4, <2>4
    <3>2. At(q, "delete") \/ At(q, "done")
      BY <1>2, <3>1
    <3>3. \/ req'[q] = req[q]
          \/ At(q, "done")' /\ req'[q].answer = "lost" /\ req'[q].op = req[q].op
      BY <2>2, <3>2
    <3> QED BY <3>1, <3>3 DEF Deleting, At
  <2> QED BY <2>1, <2>3, <2>4 DEF FilesOK
<1>6. ASSUME NEW r \in Request, CatalogueStep(r)
      PROVE  FilesOK'
  <2>1. \A q \in Request : q # r => req'[q] = req[q]
    BY <1>6, CatalogueSessions, OthersStay
  <2>2. ~ At(r, "done")
    BY <1>6, CatalogueSessions DEF SessionStep, Begin, RefuseAtOnce, Runs, At
  <2>3. \A q \in Request : q # r => /\ Stores(q)' = Stores(q) /\ Waits(q)' = Waits(q)
                                    /\ files' = files => Keeps(q)'
    BY <2>1 DEF Stores, Waits, Keeps, FilesOK, At
  <2>4. ASSUME NEW id, Deleting(id), At(r, "delete") => req[r].op.id # id
        PROVE  Deleting(id)'
    <3>1. PICK q \in Request : /\ req[q].op.do = "delete" /\ req[q].op.id = id
                               /\ (At(q, "delete") \/ req[q].answer = "lost")
      BY <1>4, <2>4
    <3>2. q # r
      BY <1>2, <2>2, <2>4, <3>1
    <3> QED BY <2>1, <3>1, <3>2 DEF Deleting, At
  <2>5. /\ r \in files => Stores(r)
        /\ ~ At(r, "insert") => r \notin files
    BY <2>2, IdsAssumption DEF FilesOK, Stores
  <2>6. ASSUME UNCHANGED <<images, files>>, Keeps(r)', r \in files => Stores(r)' /\ Waits(r)',
               ~ At(r, "delete")
        PROVE  FilesOK'
    BY <2>3, <2>4, <2>6 DEF FilesOK
  <2>7. CASE Asks(r)
    <3>1. At(r, "new") /\ UNCHANGED images /\ r \notin files
      BY <2>5, <2>7 DEF Asks, At
    <3>2. CASE UNCHANGED files /\ ~ At(r, "delete")'
               /\ ~ (At(r, "insert")' /\ req'[r].op.do = "upload")
      BY <2>6, <3>1, <3>2 DEF At, Keeps
    <3>3. CASE At(r, "delete")' /\ files' = files \ {req'[r].op.id}
      <4>1. PICK id : id = req'[r].op.id
        OBVIOUS
      <4>2. id \in {"i1", "i2"} \cup {q \in Request : At(q, "done")'}
        BY <1>3, <2>7, <3>3, <4>1 DEF Asks, At, Sound
      <4>3. \A q \in Request : Keeps(q)'
        <5>1. ASSUME NEW q \in Request, q # r PROVE Keeps(q)'
          <6>1. Keeps(q) /\ req'[q] = req[q]
            BY <2>1, <5>1 DEF FilesOK
          <6>2. At(q, "insert") => q # id
            BY <4>2, <6>1, IdsAssumption DEF At
          <6> QED BY <3>3, <4>1, <6>1, <6>2 DEF Keeps, At
        <5>2. Keeps(r)'
          BY <3>3 DEF Keeps, At
        <5> QED BY <5>1, <5>2
      <4>4. Deleting(id)'
        BY <1>3, <3>3, <4>1 DEF Deleting
      <4>5. \A i : Deleting(i) => Deleting(i)'
        BY <2>4, <3>1 DEF At
      <4>6. \A f \in files' : f \in files /\ f # r
        BY <3>1, <3>3
      <4>7. \A i \in DOMAIN images' : i \in files' \/ Deleting(i)'
        BY <3>1, <3>3, <4>1, <4>4, <4>5 DEF FilesOK
      <4> QED BY <2>3, <3>1, <4>3, <4>6, <4>7 DEF FilesOK
    <3>4. \/ UNCHANGED files /\ ~ At(r, "delete")' /\ ~ (At(r, "insert")' /\ req'[r].op.do = "upload")
          \/ At(r, "delete")' /\ files' = files \ {req'[r].op.id}
      <4>1. CASE req'[r].at = "done" /\ UNCHANGED files
        BY <4>1 DEF At
      <4>2. CASE Runs(r)' /\ req'[r].op.do # "delete" /\ UNCHANGED files
        BY <1>3, <2>7, <4>2 DEF Asks, At
      <4>3. CASE Runs(r)' /\ req'[r].op.do = "delete" /\ files' = files \ {req'[r].op.id}
        <5>1. Fits(req'[r].op.do, req'[r].at)
          BY <1>1, <4>3 DEF SessionInv, RequestsOK
        <5> QED BY <4>3, <5>1 DEF Fits, At, CartKinds
      <4> QED BY <2>7, <4>1, <4>2, <4>3 DEF Asks
    <3> QED BY <3>2, <3>3, <3>4
  <2>8. CASE Probe(r) \/ WriteRow(r) \/ WriteProduct(r) \/ WriteVariant(r)
    <3>1. UNCHANGED <<images, files>> /\ ~ At(r, "insert") /\ ~ At(r, "delete")
      BY <2>8 DEF Probe, WriteRow, WriteProduct, WriteVariant, At, catalogueVars
    <3>2. ~ At(r, "insert")' /\ ~ At(r, "delete")'
      <4>1. CASE Probe(r)
        <5>1. req'[r].at = "probe" \/ req'[r].at = "write"
          BY <4>1, ProceededIs DEF Probe
        <5> QED BY <5>1 DEF At
      <4>2. CASE WriteRow(r) \/ WriteProduct(r) \/ WriteVariant(r)
        <5>1. \E answer : Answer(r, answer)
          BY <4>2 DEF WriteRow, WriteProduct, WriteVariant
        <5>2. req'[r].at = "done"
          BY <5>1, AnsweredIs
        <5> QED BY <5>2 DEF At
      <4> QED BY <2>8, <4>1, <4>2
    <3> QED BY <2>5, <2>6, <3>1, <3>2 DEF Keeps
  <2>9. CASE SaveFile(r)
    <3>1. At(r, "save") /\ Runs(r) /\ req[r].op.do = "upload" /\ UNCHANGED images
      BY <2>9, KindAt DEF SaveFile
    <3>2. r \notin files /\ ~ At(r, "delete")
      BY <2>5, <3>1 DEF At
    <3>3. CASE UNCHANGED files /\ At(r, "done")'
      BY <2>6, <3>1, <3>2, <3>3 DEF At, Keeps
    <3>4. CASE files' = files \cup {r} /\ Proceed(r, "insert", req[r].read)
      <4>1. At(r, "insert")' /\ req'[r].op = req[r].op /\ ~ At(r, "delete")'
        BY <3>4, ProceededIs DEF At
      <4>2. Keeps(r)' /\ Stores(r)' /\ Waits(r)'
        BY <3>1, <3>4, <4>1 DEF Keeps, Stores, Waits
      <4>3. ASSUME NEW q \in Request, q # r
            PROVE  Keeps(q)'
        <5>1. Keeps(q) /\ req'[q] = req[q]
          BY <2>1, <4>3 DEF FilesOK
        <5>2. ASSUME At(q, "delete") PROVE req[q].op.id # r
          <6>1. req[q].op.id \in {"i1", "i2"} \cup {p \in Request : At(p, "done")}
            BY <1>2, <5>2 DEF CatalogueOK, Sound
          <6> QED BY <3>1, <6>1, IdsAssumption DEF At
        <5> QED BY <3>4, <5>1, <5>2 DEF Keeps, At
      <4>4. \A i \in DOMAIN images' : i \in files' \/ Deleting(i)'
        BY <2>4, <3>1, <3>2, <3>4 DEF FilesOK
      <4> QED BY <2>3, <3>1, <3>4, <4>2, <4>3, <4>4 DEF FilesOK
    <3>5. Refuse(r) \/ Answer(r, "unhandled") => At(r, "done")'
      BY AnsweredIs DEF Refuse, At
    <3> QED BY <2>9, <3>3, <3>4, <3>5 DEF SaveFile
  <2>10. CASE WriteImages(r)
    <3>1. /\ UNCHANGED files /\ At(r, "insert") /\ At(r, "done")' /\ req'[r].op = req[r].op
          /\ req[r].op.do \in {"upload", "set primary"}
      BY <2>10, ImagesAreWritten DEF At
    <3>2. /\ Keeps(r)' /\ (r \in files => Stores(r)') /\ ~ At(r, "delete")
          /\ r \in files <=> req[r].op.do = "upload"
      BY <2>5, <3>1 DEF Keeps, Stores, At, FilesOK
    <3>3. CASE images' = images /\ req'[r].answer = "error"
      BY <2>6, <3>1, <3>2, <3>3 DEF Waits
    <3>4. CASE DOMAIN images' = DOMAIN images \cup (IF req[r].op.do = "upload" THEN {r} ELSE {})
      <4>1. \A i \in DOMAIN images' : i \in files' \/ Deleting(i)'
        BY <2>4, <3>1, <3>2, <3>4 DEF FilesOK
      <4>2. \A f \in files' : f \in DOMAIN images' \/ (f \in Request /\ Waits(f)')
        BY <2>3, <3>1, <3>2, <3>4 DEF FilesOK
      <4> QED BY <2>3, <3>1, <3>2, <4>1, <4>2 DEF FilesOK
    <3> QED BY <2>10, <3>3, <3>4, ImagesAreWritten
  <2>11. CASE DeleteRow(r)
    <3>1. /\ UNCHANGED files /\ At(r, "delete") /\ At(r, "done")' /\ req'[r].op = req[r].op
          /\ DOMAIN images' = DOMAIN images \ {req[r].op.id}
      BY <2>11, AnsweredIs DEF DeleteRow, Without, At
    <3>2. req[r].op.id \notin files /\ r \notin files /\ Keeps(r)'
      BY <2>5, <3>1 DEF FilesOK, Keeps, At
    <3>3. \A i \in DOMAIN images' : i \in files' \/ Deleting(i)'
      BY <2>4, <3>1 DEF FilesOK
    <3>4. \A f \in files' : f \in DOMAIN images' \/ (f \in Request /\ Waits(f)')
      BY <2>3, <3>1, <3>2 DEF FilesOK
    <3> QED BY <2>3, <3>1, <3>2, <3>3, <3>4 DEF FilesOK
  <2> QED BY <1>1, <1>6, <2>7, <2>8, <2>9, <2>10, <2>11, CatalogueSteps
<1> QED BY <1>5, <1>6, CatalogueAside

-----------------------------------------------------------------------------
(* The primary image.                                                      *)

\* One primary image, known to this request if it makes another primary.
PrimaryKnown(r) ==
  Runs(r) /\ MakesPrimary(r) =>
    \A id \in Primary : id \in DOMAIN req[r].read /\ req[r].read[id].primary

\* Who makes an image primary leaves no other primary that he has loaded.
LEMMA OneIsMade ==
  ASSUME SessionInv, CatalogueOK, NEW r \in Request, WriteImages(r), MakesPrimary(r),
         PrimaryKnown(r), images' # images
  PROVE  \E x : \A id \in Primary' : id = x
<1> DEFINE op == req[r].op
<1>1. /\ Runs(r) /\ op.do \in {"upload", "set primary"} /\ op.primary /\ r \notin DOMAIN images
      /\ DOMAIN images' = DOMAIN images \cup (IF op.do = "upload" THEN {r} ELSE {})
      /\ \A id \in DOMAIN images :
           images'[id].primary => \/ id \in Updated(r) /\ Primaries(r)[id]
                                  \/ id \notin Updated(r) /\ images[id].primary
  BY ImagesAreWritten DEF MakesPrimary
<1>2. ASSUME NEW id \in DOMAIN req[r].read
      PROVE  /\ op.do = "upload" => Primaries(r)[id] = FALSE
             /\ op.do # "upload" => Primaries(r)[id] = (id = op.id)
  BY <1>1 DEF Primaries
<1>3. ASSUME NEW id \in DOMAIN images, images'[id].primary
      PROVE  op.do # "upload" /\ id = op.id
  <2>1. CASE id \in Updated(r) /\ Primaries(r)[id]
    <3>1. id \in DOMAIN req[r].read
      BY <2>1 DEF Updated
    <3> QED BY <1>2, <2>1, <3>1
  <2>2. CASE id \notin Updated(r) /\ images[id].primary
    <3>1. id \in DOMAIN req[r].read /\ req[r].read[id].primary
      BY <1>1, <2>2 DEF PrimaryKnown, Primary
    <3>2. req[r].read[id].primary = TRUE
      <4>1. Sound(r, op, req[r].read)
        BY ImagesAreWritten
      <4>2. req[r].read[id].primary \in BOOLEAN
        BY <1>1, <3>1, <4>1 DEF Sound
      <4> QED BY <3>1, <4>2
    <3>3. Primaries(r)[id] = TRUE
      BY <2>2, <3>1, <3>2 DEF Updated
    <3> QED BY <1>2, <3>1, <3>3
  <2> QED BY <1>1, <1>3, <2>1, <2>2
<1>4. CASE op.do = "upload"
  <2>1. \A id \in Primary' : id = r
    BY <1>1, <1>3, <1>4 DEF Primary
  <2> QED BY <2>1
<1>5. CASE op.do # "upload"
  <2>1. PICK x : x = op.id
    OBVIOUS
  <2>2. \A id \in Primary' : id = x
    BY <1>1, <1>3, <1>5, <2>1 DEF Primary
  <2> QED BY <2>2
<1> QED BY <1>4, <1>5

\* An upload that is not primary leaves the others as they are.
LEMMA NoneIsMade ==
  ASSUME SessionInv, CatalogueOK, NEW r \in Request, WriteImages(r), ~ MakesPrimary(r)
  PROVE  Primary' \subseteq Primary
<1> DEFINE op == req[r].op
<1>1. /\ op.do \in {"upload", "set primary"} /\ Sound(r, op, req[r].read)
      /\ \/ images' = images
         \/ /\ DOMAIN images' = DOMAIN images \cup (IF op.do = "upload" THEN {r} ELSE {})
            /\ \A id \in DOMAIN images :
                 images'[id].primary => \/ id \in Updated(r) /\ Primaries(r)[id]
                                        \/ id \notin Updated(r) /\ images[id].primary
            /\ op.do = "upload" => (images'[r].primary => op.primary)
  BY ImagesAreWritten
<1>2. op.do = "upload" /\ ~ op.primary
  BY <1>1 DEF MakesPrimary, Sound
<1>3. Updated(r) = {}
  <2>1. ASSUME NEW id \in DOMAIN req[r].read
        PROVE  Primaries(r)[id] = req[r].read[id].primary
    <3>1. req[r].read[id].primary \in BOOLEAN
      BY <1>1, <1>2 DEF Sound
    <3>2. Primaries(r)[id] = (req[r].read[id].primary /\ ~ op.primary)
      BY <1>2 DEF Primaries
    <3> QED BY <1>2, <3>1, <3>2
  <2> QED BY <2>1 DEF Updated
<1> QED BY <1>1, <1>2, <1>3 DEF Primary

LEMMA NextPrimary ==
  ASSUME SessionInv, CatalogueOK, PrimaryLoaded, [Next]_vars
  PROVE  PrimaryLoaded'
<1>1. SessionInv' /\ Frozen
  BY NextSessions
<1>2. ASSUME TwoMakePrimary PROVE TwoMakePrimary'
  <2>1. PICK r \in Request, q \in Request : Met(r, q) /\ MakesPrimary(r) /\ MakesPrimary(q)
    BY <1>2 DEF TwoMakePrimary
  <2>2. ASSUME NEW p \in Request, MakesPrimary(p)
        PROVE  req'[p].op = req[p].op
    <3>1. ~ At(p, "new")
      BY <2>2 DEF SessionInv, RequestsOK, MakesPrimary
    <3> QED BY <1>1, <3>1 DEF Frozen
  <2>3. Met(r, q)'
    BY <1>1, <2>1 DEF Frozen, Met
  <2> QED BY <2>1, <2>2, <2>3 DEF TwoMakePrimary, MakesPrimary
<1>3. SUFFICES ASSUME ~ TwoMakePrimary
               PROVE  PrimaryLoaded'
  BY <1>2 DEF PrimaryLoaded
<1>4. /\ \A a, b \in Primary : a = b
      /\ \A q \in Request : PrimaryKnown(q)
  BY <1>3 DEF PrimaryLoaded, PrimaryKnown
<1>5. ASSUME \A q \in Request : PrimaryKnown(q)', \A a, b \in Primary' : a = b
      PROVE  PrimaryLoaded'
  BY <1>5 DEF PrimaryLoaded, PrimaryKnown
<1>6. ASSUME Primary' \subseteq Primary, NEW q \in Request,
             Runs(q)' /\ MakesPrimary(q)' =>
               Runs(q) /\ MakesPrimary(q) /\ req'[q].read = req[q].read
      PROVE  PrimaryKnown(q)'
  BY <1>4, <1>6 DEF PrimaryKnown
<1>7. CASE UNCHANGED catalogueVars /\ Aside(CatalogueKinds)
  <2>1. Primary' = Primary
    BY <1>7 DEF Primary, catalogueVars
  <2>2. ASSUME NEW q \in Request, Runs(q)', MakesPrimary(q)'
        PROVE  req'[q] = req[q]
    BY <1>7, <2>2 DEF Aside, MakesPrimary, CatalogueKinds, Runs
  <2>3. \A q \in Request : PrimaryKnown(q)'
    BY <1>6, <2>1, <2>2 DEF Runs, MakesPrimary
  <2> QED BY <1>4, <1>5, <2>1, <2>3
<1>8. ASSUME NEW r \in Request, CatalogueStep(r)
      PROVE  PrimaryLoaded'
  <2>1. \A q \in Request : q # r => req'[q] = req[q]
    BY <1>8, CatalogueSessions, OthersStay
  <2>2. ASSUME Primary' \subseteq Primary, PrimaryKnown(r)'
        PROVE  PrimaryLoaded'
    <3>1. ASSUME NEW q \in Request, q # r
          PROVE  PrimaryKnown(q)'
      BY <1>6, <2>1, <2>2, <3>1 DEF Runs, MakesPrimary
    <3> QED BY <1>4, <1>5, <2>2, <3>1
  <2>3. ASSUME Primary' \subseteq Primary, ~ Runs(r)' \/ ~ MakesPrimary(r)'
        PROVE  PrimaryLoaded'
    BY <2>2, <2>3 DEF PrimaryKnown
  <2>4. CASE Asks(r)
    <3>1. Primary' = Primary
      BY <2>4 DEF Asks, Primary
    <3>2. PrimaryKnown(r)'
      <4>1. ASSUME Runs(r)', MakesPrimary(r)'
            PROVE  req'[r].read = images'
        BY <2>4, <4>1 DEF Asks, Runs, Loads, MakesPrimary
      <4> QED BY <4>1 DEF PrimaryKnown, Primary
    <3> QED BY <2>2, <3>1, <3>2
  <2>5. CASE Probe(r) \/ WriteRow(r) \/ WriteProduct(r) \/ WriteVariant(r)
    <3>1. Primary' = Primary
      BY <2>5 DEF Probe, WriteRow, WriteProduct, WriteVariant, catalogueVars, Primary
    <3>2. ~ MakesPrimary(r)'
      <4>1. req[r].op.do \notin {"upload", "set primary"} /\ req'[r].op = req[r].op
        BY <2>5, KindAt, ProceededIs, AnsweredIs DEF Probe, WriteRow, WriteProduct, WriteVariant
      <4> QED BY <4>1 DEF MakesPrimary
    <3> QED BY <2>3, <3>1, <3>2
  <2>6. CASE SaveFile(r)
    <3>1. Primary' = Primary
      BY <2>6 DEF SaveFile, Primary
    <3>2. /\ Runs(r) /\ req'[r].op = req[r].op
          /\ Runs(r)' => req'[r].read = req[r].read
      BY <2>6, KindAt, ProceededIs, AnsweredIs DEF SaveFile, Refuse, Runs
    <3>3. PrimaryKnown(r)'
      BY <1>6, <3>1, <3>2 DEF MakesPrimary
    <3> QED BY <2>2, <3>1, <3>3
  <2>7. CASE WriteImages(r)
    <3>1. ~ Runs(r)' /\ Runs(r) /\ req'[r].op = req[r].op
      BY <2>7, ImagesAreWritten DEF Runs
    <3>2. CASE ~ MakesPrimary(r)
      BY <2>3, <2>7, <3>1, <3>2, NoneIsMade
    <3>3. CASE images' = images
      BY <2>3, <3>1, <3>3 DEF Primary
    <3>4. CASE MakesPrimary(r) /\ images' # images
      <4>1. \A a, b \in Primary' : a = b
        BY <1>4, <2>7, <3>4, OneIsMade
      <4>2. ASSUME NEW q \in Request, Runs(q)', MakesPrimary(q)'
            PROVE  FALSE
        <5>1. q # r /\ Runs(q) /\ MakesPrimary(q)
          BY <2>1, <3>1, <4>2 DEF Runs, MakesPrimary
        <5>2. Met(r, q)
          BY <3>1, <5>1 DEF SessionInv, MetOK
        <5> QED BY <1>3, <3>4, <5>1, <5>2 DEF TwoMakePrimary
      <4> QED BY <1>5, <4>1, <4>2 DEF PrimaryKnown
    <3> QED BY <3>2, <3>3, <3>4
  <2>8. CASE DeleteRow(r)
    <3>1. Primary' \subseteq Primary /\ ~ Runs(r)'
      BY <2>8, AnsweredIs DEF DeleteRow, Primary, Without, Runs
    <3> QED BY <2>3, <3>1
  <2> QED BY <1>1, <1>8, <2>4, <2>5, <2>6, <2>7, <2>8, CatalogueSteps
<1> QED BY <1>7, <1>8, CatalogueAside

-----------------------------------------------------------------------------
(* Slugs.                                                                  *)

\* The candidates are the slug of the name, and it with one more element.
LEMMA CandidateFollows ==
  ASSUME NEW r \in Request, req[r].op.row.name \in Name
  PROVE  Follows(Candidate(r), req[r].op.row.name)
<1> DEFINE base == Slugify[req[r].op.row.name]
           suffix == ToString(req[r].read.k)
           S == STRING \cup {suffix}
           slug == Append(base, suffix)
<1>1. base \in Seq(STRING)
  BY NamesAssumption
<1>2. base \in Seq(S) /\ suffix \in S
  BY <1>1
<1>3. Candidate(r) = base \/ Candidate(r) = slug
  BY DEF Candidate
<1> HIDE DEF base, suffix, S
<1>4. /\ slug \in Seq(S) /\ Len(slug) = Len(base) + 1
      /\ \A i \in 1 .. Len(base) : slug[i] = base[i]
  BY <1>2, AppendProperties
<1> HIDE DEF slug
<1>5. Len(base) \in Nat
  BY <1>2
<1>6. \A i \in 1 .. Len(base) : slug[i] \in S
  BY <1>2, <1>4
<1>7. /\ SubSeq(slug, 1, Len(base)) \in Seq(S)
      /\ Len(SubSeq(slug, 1, Len(base))) = Len(base)
      /\ \A i \in 1 .. Len(base) : SubSeq(slug, 1, Len(base))[i] = base[i]
  BY <1>4, <1>5, <1>6, SubSeqProperties
<1>8. SubSeq(slug, 1, Len(base)) = base
  BY <1>2, <1>7, SeqEqual
<1> QED BY <1>3, <1>4, <1>8 DEF Follows, base

\* A row that is loaded as it is gets the name and the slug that are assigned.
LEMMA UpdateFollows ==
  ASSUME SessionInv, CatalogueOK, NEW r \in Request, At(r, "write"), req[r].op.do = "update",
         req[r].read.loaded = rows[req[r].op.table][req[r].op.id]
  PROVE  Follows(Written(r).slug, Written(r).name)
<1> DEFINE op == req[r].op
           row == rows[op.table][op.id]
           given == Assigned(r)
           new == Written(r)
<1>1. Runs(r) /\ Sound(r, op, req[r].read)
  BY KindAt DEF CatalogueOK
<1>2. op.table \in {"categories", "brands"} /\ op.id \in DOMAIN rows[op.table]
      /\ op.row \in Payload(op.table)
  BY <1>1 DEF Sound
<1>3. DOMAIN row = Columns(op.table)
  BY <1>2 DEF CatalogueOK, RowsOK, Slugged
<1>4. "name" \in DOMAIN row /\ "slug" \in DOMAIN row
  BY <1>3 DEF Columns
<1>5. "name" \in DOMAIN op.row /\ op.row["name"] \in Name
  <2>1. CASE op.table = "categories"
    BY <1>2, <2>1 DEF Payload
  <2>2. CASE op.table = "brands"
    BY <1>2, <2>2 DEF Payload
  <2> QED BY <1>2, <2>1, <2>2
<1>6. /\ "name" \in DOMAIN given /\ "slug" \in DOMAIN given
      /\ given["name"] = op.row["name"] /\ given["slug"] = Candidate(r)
  BY <1>5 DEF Assigned, With
<1>7. new = Flush(row, row, given)
  BY DEF Written
<1> HIDE DEF row, given, new
<1>8. new["name"] = given["name"] /\ new["slug"] = given["slug"]
  BY <1>4, <1>6, <1>7 DEF Flush
<1>9. Follows(Candidate(r), op.row.name)
  BY <1>5, CandidateFollows
<1> QED BY <1>6, <1>8, <1>9 DEF new

LEMMA NextSlugs ==
  ASSUME SessionInv, CatalogueOK, SlugsLoaded, [Next]_vars
  PROVE  SlugsLoaded'
<1> DEFINE Update(q) == Runs(q) /\ req[q].op.do = "update"
           Two == {"k", "loaded"}
<1>1. SessionInv' /\ Frozen
  BY NextSessions
<1>2. CatalogueOK'
  BY NextCatalogue
<1>3. ASSUME NEW t, NEW id, TwoUpdate(t, id)
      PROVE  TwoUpdate(t, id)'
  <2>1. PICK r \in Request, q \in Request : Met(r, q) /\ Updates(r, t, id) /\ Updates(q, t, id)
    BY <1>3 DEF TwoUpdate
  <2>2. ASSUME NEW p \in Request, Updates(p, t, id)
        PROVE  Updates(p, t, id)'
    <3>1. ~ At(p, "new")
      BY <2>2 DEF SessionInv, RequestsOK, Updates
    <3> QED BY <1>1, <2>2, <3>1 DEF Frozen, Updates
  <2>3. Met(r, q)'
    BY <1>1, <2>1 DEF Frozen, Met
  <2> QED BY <2>1, <2>2, <2>3 DEF TwoUpdate
\* A row that stays, with the requests to update it.
<1>4. ASSUME NEW t \in {"categories", "brands"}, NEW id \in DOMAIN rows[t],
             rows'[t][id] = rows[t][id],
             \A q \in Request : Runs(q)' /\ Updates(q, t, id)' =>
               \/ req'[q].read.loaded = rows[t][id]
               \/ Runs(q) /\ Updates(q, t, id) /\ req'[q].read.loaded = req[q].read.loaded
      PROVE  \/ TwoUpdate(t, id)'
             \/ /\ Follows(rows'[t][id].slug, rows'[t][id].name)
                /\ \A q \in Request : Runs(q)' /\ Updates(q, t, id)'
                                        => req'[q].read.loaded = rows'[t][id]
  <2>1. CASE TwoUpdate(t, id)
    BY <1>3, <2>1
  <2>2. CASE ~ TwoUpdate(t, id)
    BY <1>4, <2>2 DEF SlugsLoaded
  <2> QED BY <2>1, <2>2
<1>5. CASE UNCHANGED catalogueVars /\ Aside(CatalogueKinds)
  <2>1. rows' = rows
    BY <1>5 DEF catalogueVars
  <2>2. ASSUME NEW q \in Request, Runs(q)', req'[q].op.do = "update"
        PROVE  Runs(q) /\ req'[q] = req[q]
    BY <1>5, <2>2 DEF Aside, CatalogueKinds, Runs
  <2>3. \A q \in Request : Runs(q)' /\ req'[q].op.do = "update" => DOMAIN req'[q].read = Two
    BY <2>2 DEF SlugsLoaded
  <2>4. ASSUME NEW t \in {"categories", "brands"}, NEW id \in DOMAIN rows[t]
        PROVE  \A q \in Request : Runs(q)' /\ Updates(q, t, id)' =>
                 Runs(q) /\ Updates(q, t, id) /\ req'[q].read.loaded = req[q].read.loaded
    BY <2>2 DEF Updates
  <2> QED BY <1>4, <2>1, <2>3, <2>4 DEF SlugsLoaded, Follows
<1>6. ASSUME NEW r \in Request, CatalogueStep(r)
      PROVE  SlugsLoaded'
  <2>1. \A q \in Request : q # r => req'[q] = req[q]
    BY <1>6, CatalogueSessions, OthersStay
  <2>2. ASSUME Update(r)' => DOMAIN req'[r].read = Two
        PROVE  \A q \in Request : Runs(q)' /\ req'[q].op.do = "update" => DOMAIN req'[q].read = Two
    BY <2>1, <2>2 DEF SlugsLoaded, Runs
  <2>3. ASSUME UNCHANGED rows, Update(r)' => DOMAIN req'[r].read = Two,
               Update(r)' => \/ req'[r].read.loaded = rows[req'[r].op.table][req'[r].op.id]
                             \/ /\ Runs(r) /\ req'[r].op = req[r].op
                                /\ req'[r].read.loaded = req[r].read.loaded
        PROVE  SlugsLoaded'
    <3>1. ASSUME NEW t \in {"categories", "brands"}, NEW id \in DOMAIN rows[t],
                 NEW q \in Request, Runs(q)', Updates(q, t, id)'
          PROVE  \/ req'[q].read.loaded = rows[t][id]
                 \/ Runs(q) /\ Updates(q, t, id) /\ req'[q].read.loaded = req[q].read.loaded
      <4>1. CASE q = r
        BY <2>3, <3>1, <4>1 DEF Updates
      <4>2. CASE q # r
        BY <2>1, <3>1, <4>2 DEF Updates, Runs
      <4> QED BY <4>1, <4>2
    <3> QED BY <1>4, <2>2, <2>3, <3>1 DEF SlugsLoaded, Follows
  <2>4. CASE Asks(r)
    <3>1. /\ UNCHANGED rows
          /\ Update(r)' => /\ DOMAIN req'[r].read = Two
                           /\ req'[r].read.loaded = rows[req'[r].op.table][req'[r].op.id]
      BY <2>4 DEF Asks, Loads, Runs
    <3> QED BY <2>3, <3>1
  <2>5. CASE Probe(r)
    <3>1. /\ UNCHANGED rows /\ Runs(r) /\ req'[r].op = req[r].op
          /\ \/ req'[r].read = req[r].read
             \/ req'[r].read = [req[r].read EXCEPT !["k"] = @ + 1]
      BY <2>5, KindAt, ProceededIs DEF Probe, catalogueVars
    <3>2. ASSUME Update(r)'
          PROVE  DOMAIN req'[r].read = Two /\ req'[r].read.loaded = req[r].read.loaded
      <4>1. DOMAIN req[r].read = Two
        BY <3>1, <3>2 DEF SlugsLoaded
      <4> QED BY <3>1, <4>1
    <3> QED BY <2>3, <3>1, <3>2
  <2>6. CASE SaveFile(r) \/ WriteImages(r) \/ DeleteRow(r) \/ WriteVariant(r)
    <3>1. UNCHANGED rows /\ ~ Update(r)'
      <4>1. req[r].op.do # "update" /\ req'[r].op = req[r].op
        BY <2>6, KindAt, ProceededIs, AnsweredIs
           DEF SaveFile, Refuse, WriteImages, DeleteRow, WriteVariant
      <4> QED BY <2>6, <4>1 DEF SaveFile, WriteImages, DeleteRow, WriteVariant
    <3> QED BY <2>3, <3>1
  <2>7. CASE WriteProduct(r)
    <3>1. ~ Runs(r)'
      BY <2>7, AnsweredIs DEF WriteProduct, Runs
    <3>2. rows'["categories"] = rows["categories"] /\ rows'["brands"] = rows["brands"]
      BY <2>7, ProductIsWritten
    <3>3. ASSUME NEW t \in {"categories", "brands"}, NEW id \in DOMAIN rows[t],
                 NEW q \in Request, Runs(q)', Updates(q, t, id)'
          PROVE  Runs(q) /\ Updates(q, t, id) /\ req'[q].read.loaded = req[q].read.loaded
      BY <2>1, <3>1, <3>3 DEF Updates, Runs
    <3>4. \A t \in {"categories", "brands"} : rows'[t] = rows[t]
      BY <3>2
    <3> QED BY <1>4, <2>2, <3>1, <3>3, <3>4 DEF SlugsLoaded, Follows
  <2>8. CASE WriteRow(r)
    <3> DEFINE table == req[r].op.table
               key == req[r].op.id
    <3>1. ~ Runs(r)' /\ At(r, "write") /\ Runs(r) /\ req'[r].op = req[r].op
          /\ req[r].op.do \in {"create", "update"} /\ met' = met
      BY <2>8, KindAt, AnsweredIs DEF WriteRow, Runs
    <3>2. ASSUME NEW q \in Request, Runs(q)'
          PROVE  q # r /\ Runs(q) /\ req'[q] = req[q] /\ Met(r, q)
      <4>1. q # r /\ Runs(q) /\ req'[q] = req[q]
        BY <2>1, <3>1, <3>2 DEF Runs
      <4> QED BY <3>1, <4>1 DEF SessionInv, MetOK
    <3>3. CASE UNCHANGED rows
      BY <2>3, <3>1, <3>3
    <3>4. CASE /\ \A u \in Slugged \ {table} : rows'[u] = rows[u]
               /\ DOMAIN rows'[table] = DOMAIN rows[table] \cup {key}
               /\ rows'[table][key] = Written(r)
               /\ \A i \in DOMAIN rows[table] \ {key} : rows'[table][i] = rows[table][i]
      <4>1. ASSUME NEW t \in {"categories", "brands"}, NEW id \in DOMAIN rows[t],
                   t # table \/ id # key
            PROVE  rows'[t][id] = rows[t][id]
        BY <3>4, <4>1 DEF Slugged
      <4>2. ASSUME NEW t \in {"categories", "brands"}, NEW id \in DOMAIN rows[t],
                   NEW q \in Request, Runs(q)', Updates(q, t, id)'
            PROVE  Runs(q) /\ Updates(q, t, id) /\ req'[q].read.loaded = req[q].read.loaded
        BY <3>2, <4>2 DEF Updates
      <4>3. ASSUME table \in {"categories", "brands"}
            PROVE  \/ TwoUpdate(table, key)'
                   \/ /\ Follows(rows'[table][key].slug, rows'[table][key].name)
                      /\ \A q \in Request : ~ (Runs(q)' /\ Updates(q, table, key)')
        <5>1. CASE req[r].op.do = "create"
          <6>1. key = r /\ Written(r).name = req[r].op.row.name /\ Written(r).slug = Candidate(r)
                /\ Written(r).name \in Name
            BY <3>1, <5>1, WrittenIs
          <6>2. Follows(Written(r).slug, Written(r).name)
            BY <6>1, CandidateFollows
          <6>3. r \notin DOMAIN rows[table]
            BY <3>1, <4>3, IdsAssumption DEF CatalogueOK, RowsOK, Slugged, Runs, At
          <6>4. ASSUME NEW q \in Request, Runs(q)', Updates(q, table, key)'
                PROVE  FALSE
            <7>1. Runs(q) /\ Updates(q, table, key)
              BY <3>1, <3>2, <6>4 DEF Updates
            <7>2. Sound(q, req[q].op, req[q].read)
              BY <7>1 DEF CatalogueOK
            <7>3. key \in DOMAIN rows[table]
              BY <7>1, <7>2 DEF Sound, Updates
            <7> QED BY <6>1, <6>3, <7>3
          <6> QED BY <3>4, <6>2, <6>4
        <5>2. CASE req[r].op.do = "update" /\ \A q \in Request : ~ (Runs(q)' /\ Updates(q, table, key)')
          <6>1. Updates(r, table, key)
            BY <5>2 DEF Updates
          <6>2. key \in DOMAIN rows[table]
            BY <3>1, <5>2 DEF CatalogueOK, Sound
          <6>3. CASE TwoUpdate(table, key)
            <7>1. PICK u, i : u = table /\ i = key
              OBVIOUS
            <7>2. TwoUpdate(u, i)'
              BY <1>3, <6>3, <7>1
            <7> QED BY <3>1, <7>1, <7>2 DEF TwoUpdate, Updates
          <6>4. CASE ~ TwoUpdate(table, key)
            <7>1. req[r].read.loaded = rows[table][key]
              BY <3>1, <4>3, <6>1, <6>2, <6>4 DEF SlugsLoaded
            <7>2. Follows(Written(r).slug, Written(r).name)
              BY <3>1, <5>2, <7>1, UpdateFollows
            <7> QED BY <3>4, <5>2, <7>2
          <6> QED BY <6>3, <6>4
        <5>3. ASSUME req[r].op.do = "update", NEW q \in Request, Runs(q)', Updates(q, table, key)'
              PROVE  TwoUpdate(table, key)'
          <6>1. Met(r, q)'
            BY <3>1, <3>2, <5>3 DEF Met
          <6>2. Updates(r, table, key)'
            BY <3>1, <5>3 DEF Updates
          <6> QED BY <5>3, <6>1, <6>2 DEF TwoUpdate
        <5> QED BY <3>1, <5>1, <5>2, <5>3
      <4>4. ASSUME NEW t \in {"categories", "brands"}, NEW id \in DOMAIN rows'[t]
            PROVE  \/ TwoUpdate(t, id)'
                   \/ /\ Follows(rows'[t][id].slug, rows'[t][id].name)
                      /\ \A q \in Request : Runs(q)' /\ Updates(q, t, id)'
                                              => req'[q].read.loaded = rows'[t][id]
        <5>1. CASE t = table /\ id = key
          <6>1. \/ TwoUpdate(table, key)'
                \/ /\ Follows(rows'[table][key].slug, rows'[table][key].name)
                   /\ \A q \in Request : ~ (Runs(q)' /\ Updates(q, table, key)')
            BY <4>3, <5>1
          <6> QED BY <3>1, <5>1, <6>1 DEF TwoUpdate, Updates
        <5>2. CASE ~ (t = table /\ id = key)
          <6>1. id \in DOMAIN rows[t]
            BY <3>4, <5>2 DEF Slugged
          <6> QED BY <1>4, <4>1, <4>2, <5>2, <6>1
        <5> QED BY <5>1, <5>2
      <4> QED BY <2>2, <3>1, <4>4 DEF SlugsLoaded, Follows
    <3> QED BY <2>8, <3>3, <3>4, RowIsWritten
  <2> QED BY <1>1, <1>6, <2>4, <2>5, <2>6, <2>7, <2>8, CatalogueSteps
<1> QED BY <1>5, <1>6, CatalogueAside

-----------------------------------------------------------------------------
\* Every reference leads to a row, every request asks what is sound, and the
\* excuses of the properties are the only ones.
THEOREM CatalogueHolds == Spec => []CatalogueInv
<1>1. Init => CatalogueInv
  BY InitCatalogue
<1>2. SessionInv /\ CatalogueInv /\ [Next]_vars => CatalogueInv'
  BY NextCatalogue, NextFiles, NextPrimary, NextSlugs DEF CatalogueInv
<1> QED BY <1>1, <1>2, SessionsHold, PTL DEF Spec

\* For any number of images and of requests to upload, delete and reorder them:
\* an image without a file is one whose deletion is on the way or whose worker
\* died, a file without an image one whose upload is on the way, died or failed
\* (admin_catalog.py 633-657, 681-695).
THEOREM FilesAndRowsAgree == Spec => []RowsHaveFiles
<1>1. CatalogueInv => RowsHaveFiles
  <2> SUFFICES ASSUME FilesOK PROVE RowsHaveFiles
    BY DEF CatalogueInv
  <2>1. \A id \in DOMAIN images \ files : Deleting(id)
    BY DEF FilesOK
  <2>2. ASSUME NEW f \in files \ DOMAIN images
        PROVE  \E r \in Request : r = f /\ (At(r, "insert") \/ req[r].answer \in {"lost", "error"})
    BY DEF FilesOK, Waits
  <2> QED BY <2>1, <2>2 DEF RowsHaveFiles
<1> QED BY <1>1, CatalogueHolds, PTL

\* "Only one primary image per product" (admin_catalog.py 645), for any number
\* of images and requests: two need two requests that ran at once and each made
\* an image primary.
THEOREM PrimaryIsUnique == Spec => []OnePrimaryImage
<1>1. CatalogueInv => OnePrimaryImage
  <2> SUFFICES ASSUME PrimaryLoaded, ~ TwoMakePrimary
               PROVE  Cardinality(Primary) <= 1
    BY DEF CatalogueInv, OnePrimaryImage, TwoMakePrimary, MakesPrimary, Primary
  <2>1. \A a, b \in Primary : a = b
    BY DEF PrimaryLoaded
  <2>2. Primary = {} => Cardinality(Primary) <= 1
    BY FS_EmptySet
  <2>3. ASSUME NEW a \in Primary PROVE Cardinality(Primary) <= 1
    <3>1. Primary = {a}
      BY <2>1
    <3>2. Cardinality({a}) = 1
      BY FS_Singleton
    <3> QED BY <3>1, <3>2
  <2> QED BY <2>2, <2>3
<1> QED BY <1>1, CatalogueHolds, PTL

\* The slug of every category and brand is its name's, with or without a
\* suffix, unless two updates of the same row ran at once: each then writes
\* only the columns that differ from what it had loaded (admin_catalog.py
\* 423-452, 468-490).
THEOREM SlugsAreOfNames == Spec => []SlugsFollowNames
<1>1. CatalogueInv => SlugsFollowNames
  <2> SUFFICES ASSUME SlugsLoaded, NEW t \in {"categories", "brands"}, NEW id \in DOMAIN rows[t],
                      ~ Follows(rows[t][id].slug, rows[t][id].name)
               PROVE  \E r, q \in Request :
                        /\ Met(r, q)
                        /\ \A p \in {r, q} : /\ req[p].op.do = "update"
                                             /\ req[p].op.table = t /\ req[p].op.id = id
    BY DEF CatalogueInv, SlugsFollowNames, Follows
  <2>1. TwoUpdate(t, id)
    BY DEF SlugsLoaded
  <2> QED BY <2>1 DEF TwoUpdate, Updates
<1> QED BY <1>1, CatalogueHolds, PTL
=============================================================================
