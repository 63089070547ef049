----------------------------- MODULE Deployment -----------------------------
(***************************************************************************)
(* Bringing the service up: docker-compose starts the backend container    *)
(* with "alembic upgrade head && gunicorn ..." and starts it again         *)
(* whenever it stops; an operator runs alembic by hand, also backwards,    *)
(* and fills the database with seed.py, perhaps twice, perhaps twice at    *)
(* once.  Any of these processes may die between two of its statements.    *)
(*                                                                         *)
(* alembic/env.py runs one revision after the other in one transaction,    *)
(* and PostgreSQL's DDL is transactional: what a migration has done is in  *)
(* its own view of the schema, and in the database only from its commit    *)
(* on.  seed.py commits row by row.                                        *)
(***************************************************************************)
EXTENDS Schema, Integers

CONSTANTS
  Seeder,      \* runs of seed.py
  MaxCrashes,  \* bound: processes that die
  MaxManual    \* bound: times the operator runs alembic by hand

ASSUME BoundsAssumption == MaxCrashes \in Nat /\ MaxManual \in Nat

VARIABLES
  db,       \* the committed schema: version, types, tables
  alembic,  \* the two alembic processes: the container's and the operator's
  service,  \* the backend container
  rows,     \* keys of the rows per table
  seeder,   \* the seed.py processes
  cut,      \* history: products whose run ended before it had their images
  crashes, manual

migrationVars == <<db, alembic, service, manual>>
seedVars == <<rows, seeder, cut>>
vars == <<migrationVars, seedVars, crashes>>

Process == {"container", "operator"}

-----------------------------------------------------------------------------
(* alembic.                                                                *)

\* A process reads the version when it starts and goes from revision to
\* revision to the one it was asked for: the version it has reached, how much
\* of the next script it has done, and from its first statement on the schema
\* that its transaction sees.
NoMigration == [pc |-> "idle", version |-> 0, to |-> 0, at |-> 0, schema |-> Empty]

Started(to) == [pc |-> "started", version |-> db.version, to |-> to, at |-> 0, schema |-> Empty]

Active(p) == alembic[p].pc # "idle"
Begun(p) == alembic[p].pc = "running"
Pending(p) == Active(p) /\ alembic[p].version # alembic[p].to

Script(p) ==
  IF alembic[p].version < alembic[p].to THEN Revisions[alembic[p].version + 1].up
                                        ELSE Revisions[alembic[p].version].down
NextStatement(p) == Script(p)[alembic[p].at + 1]

\* The next statement, or the next revision.
Advanced(p) ==
  IF alembic[p].at + 1 < Len(Script(p)) THEN [alembic[p] EXCEPT !.at = @ + 1]
  ELSE [alembic[p] EXCEPT !.at = 0,
          !.version = IF @ < alembic[p].to THEN @ + 1 ELSE @ - 1]

\* Before its first statement a transaction sees what is committed.
View(p) ==
  IF Begun(p) THEN alembic[p].schema ELSE [types |-> db.types, tables |-> db.tables]

Operate(to) ==
  /\ manual < MaxManual
  /\ ~ Active("operator")
  /\ alembic' = [alembic EXCEPT !["operator"] = Started(to)]
  /\ manual' = manual + 1
  /\ UNCHANGED <<db, service, seedVars, crashes>>

UpgradeByHand == Operate(HeadVersion)

\* The operator takes the service down, and nothing else, before a downgrade.
DowngradeByHand ==
  /\ service = "stopped"
  /\ \A s \in Seeder : seeder[s].pc # "running"
  /\ \E k \in 0 .. db.version - 1 : Operate(k)

\* Each waits for the other, whoever was first.
BugBothWait(p) == \A q \in Process \ {p} : ~ Active(q)

\* The first statement of a migration waits for a transaction that has
\* created or dropped the same object and is not finished.
NotBlocked(p) == \A q \in Process \ {p} : ~ Begun(q)

Statement(p) ==
  /\ Pending(p)
  /\ NotBlocked(p)
  /\ Legal(View(p), NextStatement(p))
  /\ alembic' = [alembic EXCEPT ![p] =
                   [Advanced(p) EXCEPT !.pc = "running",
                                       !.schema = Applied(View(p), NextStatement(p))]]
  /\ UNCHANGED <<db, service, manual, seedVars, crashes>>

\* A transaction that died leaves nothing: this one kept what it had done.
BugNotTransactional(p) ==
  [types |-> View(p).types, tables |-> View(p).tables, version |-> db.version]

RolledBack(p) == db

\* The container's "&&" written as ";".
BugStartsAnyway(p) == IF p = "container" THEN "serving" ELSE service

\* "&&" keeps gunicorn from starting after a migration that failed.
AfterFailure(p) == service

\* The first statement looks for its type and then creates it: between the two
\* it may have waited for the migration that has created the type.
Overtaken(p) ==
  /\ ~ Begun(p)
  /\ NextStatement(p).do = "create_type" /\ NextStatement(p).name \in DOMAIN db.types

MigrationFails(p) ==
  /\ Pending(p)
  /\ NotBlocked(p)
  /\ Legal(View(p), NextStatement(p)) => Overtaken(p)
  /\ db' = RolledBack(p)
  /\ service' = AfterFailure(p)
  /\ alembic' = [alembic EXCEPT ![p] = NoMigration]
  /\ UNCHANGED <<manual, seedVars, crashes>>

\* Rows go with the table that is dropped.
Surviving(tables) == [t \in DOMAIN rows |-> IF t \in DOMAIN tables THEN rows[t] ELSE {}]

CommitMigration(p) ==
  /\ Active(p)
  /\ alembic[p].version = alembic[p].to
  /\ db' = [types |-> View(p).types, tables |-> View(p).tables, version |-> alembic[p].to]
  /\ rows' = Surviving(View(p).tables)
  /\ cut' = IF "products" \in DOMAIN View(p).tables THEN cut ELSE {}
  /\ alembic' = [alembic EXCEPT ![p] = NoMigration]
  /\ service' = IF p = "container" THEN "serving" ELSE service
  /\ UNCHANGED <<manual, seeder, crashes>>

ProcessDies(p) ==
  /\ Active(p)
  /\ crashes < MaxCrashes
  /\ db' = RolledBack(p)
  /\ service' = AfterFailure(p)
  /\ alembic' = [alembic EXCEPT ![p] = NoMigration]
  /\ crashes' = crashes + 1
  /\ UNCHANGED <<manual, seedVars>>
-----------------------------------------------------------------------------
(* The container.                                                          *)

\* restart: unless-stopped.
ContainerStarts ==
  /\ service = "starting"
  /\ ~ Active("container")
  /\ alembic' = [alembic EXCEPT !["container"] = Started(HeadVersion)]
  /\ UNCHANGED <<db, service, manual, seedVars, crashes>>

GunicornDies ==
  /\ service = "serving"
  /\ crashes < MaxCrashes
  /\ service' = "starting"
  /\ crashes' = crashes + 1
  /\ UNCHANGED <<db, alembic, manual, seedVars>>

ComposeUp ==
  /\ service = "stopped"
  /\ ~ Active("operator")
  /\ service' = "starting"
  /\ UNCHANGED <<db, alembic, manual, seedVars, crashes>>

ComposeDown ==
  /\ service # "stopped"
  /\ manual < MaxManual
  /\ service' = "stopped"
  /\ alembic' = [alembic EXCEPT !["container"] = NoMigration]
  /\ manual' = manual + 1
  /\ UNCHANGED <<db, seedVars, crashes>>

-----------------------------------------------------------------------------
(* seed.py.                                                                *)

\* A row of the seed data: its table, its unique key, and of a product its
\* category, its brand and the SKUs of its variants.
Row(table, key) == [table |-> table, key |-> key, category |-> "none", brand |-> "none", skus |-> {}]

CATEGORY_NAMES == <<"men">>
BRAND_NAMES == <<"levis">>

\* The variant helpers make a SKU of the product's prefix, the size and the
\* colour, so no two products of the list share one.
SKU(prefix, size) == <<prefix, size>>

Entry(slug, category, brand, sizes) ==
  [table |-> "products", key |-> slug, category |-> category, brand |-> brand,
   skus |-> {SKU(slug, size) : size \in sizes}]

\* Two of the sixty products: one with sizes, one without.
PRODUCTS == <<Entry("jeans", "men", "levis", {"30", "32"}),
              Entry("belt", "men", "levis", {"ONE"})>>

COUPONS == <<"WELCOME10">>

\* main seeds one list after the other.
SeedPlan ==
  <<Row("users", "admin"), Row("categories", CATEGORY_NAMES[1]), Row("brands", BRAND_NAMES[1]),
    PRODUCTS[1], PRODUCTS[2], Row("coupons", COUPONS[1])>>

SeededTable == {"users", "categories", "brands", "products", "product_variants",
                "product_images", "coupons"}

NotSeeding == [pc |-> "idle", at |-> 1, step |-> "check"]

Init ==
  /\ db = [types |-> <<>>, tables |-> <<>>, version |-> 0]
  /\ alembic = [p \in Process |-> NoMigration]
  /\ service = "stopped"
  /\ rows = [t \in SeededTable |-> {}]
  /\ seeder = [s \in Seeder |-> NotSeeding]
  /\ cut = {}
  /\ crashes = 0
  /\ manual = 0

\* The sessions of seed.py keep out of a downgrade's way.
DowngradeRuns == Active("operator") /\ alembic["operator"].to < HeadVersion

\* main: without a users table the script only says so.
SeedStarts(s) ==
  /\ seeder[s].pc = "idle"
  /\ ~ DowngradeRuns
  /\ seeder' = [seeder EXCEPT ![s].pc = IF "users" \in DOMAIN db.tables THEN "running"
                                         ELSE "failed"]
  /\ UNCHANGED <<migrationVars, rows, cut, crashes>>

Current(s) == SeedPlan[seeder[s].at]
Working(s, step) == seeder[s].pc = "running" /\ seeder[s].step = step

NextRow(s) ==
  IF seeder[s].at = Len(SeedPlan) THEN [seeder EXCEPT ![s].pc = "done"]
  ELSE [seeder EXCEPT ![s].at = @ + 1, ![s].step = "check"]

\* An error that is printed and skipped.
BugGoesOn(s) == NextRow(s)

\* An error ends the script.
Fails(s) == [seeder EXCEPT ![s].pc = "failed"]

\* The existence check on the row's own key, and nothing else.
CheckRow(s) ==
  /\ Working(s, "check")
  /\ seeder' = IF Current(s).table \notin DOMAIN db.tables THEN Fails(s)
               ELSE IF Current(s).key \in rows[Current(s).table] THEN NextRow(s)
               ELSE [seeder EXCEPT ![s].step = "insert"]
  /\ UNCHANGED <<migrationVars, rows, cut, crashes>>

\* Variants of a product of their own commit.
BugVariantsLater(r) == [rows EXCEPT ![r.table] = @ \cup {r.key}]

Inserted(r) ==
  [rows EXCEPT ![r.table] = @ \cup {r.key}, !["product_variants"] = @ \cup r.skus]

Taken(r) == r.key \in rows[r.table] \/ r.skus \cap rows["product_variants"] # {}

\* The row, and with a product its variants, in one commit.
InsertRow(s) ==
  /\ Working(s, "insert")
  /\ IF Current(s).table \notin DOMAIN db.tables \/ Taken(Current(s))
       THEN /\ seeder' = Fails(s)
            /\ UNCHANGED rows
       ELSE /\ rows' = Inserted(Current(s))
            /\ seeder' = IF Current(s).table = "products"
                          THEN [seeder EXCEPT ![s].step = "images"] ELSE NextRow(s)
  /\ UNCHANGED <<migrationVars, cut, crashes>>

\* Both images are drawn and written to disk, then committed together.
InsertImages(s) ==
  /\ Working(s, "images")
  /\ rows' = [rows EXCEPT !["product_images"] = @ \cup {Current(s).key}]
  /\ seeder' = NextRow(s)
  /\ UNCHANGED <<migrationVars, cut, crashes>>

\* Killed, or ended by an image that cannot be drawn or written.
SeedDies(s) ==
  /\ seeder[s].pc = "running"
  /\ crashes < MaxCrashes
  /\ seeder' = Fails(s)
  /\ cut' = IF seeder[s].step = "images" THEN cut \cup {Current(s).key} ELSE cut
  /\ crashes' = crashes + 1
  /\ UNCHANGED <<migrationVars, rows>>

SeedStep(s) == CheckRow(s) \/ InsertRow(s) \/ InsertImages(s)

\* An administrator adds a product of his own under a SKU that is free.
OwnProduct ==
  /\ service = "serving"
  /\ "own" \notin rows["products"]
  /\ \E sku \in {SKU("jeans", "30"), SKU("own", "30")} :
       /\ sku \notin rows["product_variants"]
       /\ rows' = [rows EXCEPT !["products"] = @ \cup {"own"}, !["product_variants"] = @ \cup {sku}]
  /\ UNCHANGED <<migrationVars, seeder, cut, crashes>>

-----------------------------------------------------------------------------
MigrationStep(p) == Statement(p) \/ MigrationFails(p) \/ CommitMigration(p)

Next ==
  \/ \E p \in Process : MigrationStep(p) \/ ProcessDies(p)
  \/ UpgradeByHand \/ DowngradeByHand
  \/ ContainerStarts \/ GunicornDies \/ ComposeUp \/ ComposeDown
  \/ \E s \in Seeder : SeedStarts(s) \/ SeedStep(s) \/ SeedDies(s)
  \/ OwnProduct

\* Processes run on, and Docker starts a container that has stopped.
Fairness ==
  /\ \A p \in Process : WF_vars(MigrationStep(p))
  /\ WF_vars(ContainerStarts)
  /\ \A s \in Seeder : WF_vars(SeedStep(s))

Spec == Init /\ [][Next]_vars
FairSpec == Spec /\ Fairness

-----------------------------------------------------------------------------
(* Properties.                                                             *)

\* One type invariant: versions and cursors in range, rows only in tables that
\* exist, and a seeded product never without its variants, category or brand.
DeploymentTypeOK ==
  /\ db.version \in 0 .. HeadVersion
  /\ \A p \in Process : /\ alembic[p].pc \in {"idle", "started", "running"}
                        /\ alembic[p].version \in 0 .. HeadVersion
                        /\ alembic[p].to \in 0 .. HeadVersion
                        /\ Pending(p) => alembic[p].at + 1 \in DOMAIN Script(p)
  /\ service \in {"stopped", "starting", "serving"}
  /\ \A s \in Seeder : /\ seeder[s].pc \in {"idle", "running", "done", "failed"}
                       /\ seeder[s].at \in DOMAIN SeedPlan
  /\ crashes \in 0 .. MaxCrashes /\ manual \in 0 .. MaxManual
  /\ \A t \in SeededTable \ DOMAIN db.tables : rows[t] = {}
  /\ \A i \in DOMAIN PRODUCTS : PRODUCTS[i].key \in rows["products"] =>
       /\ PRODUCTS[i].skus \subseteq rows["product_variants"]
       /\ PRODUCTS[i].category \in rows["categories"]
       /\ PRODUCTS[i].brand \in rows["brands"]

\* What each revision introduces, by the title of its file, and what the models
\* declare of all that has been introduced up to a version.
Introduces ==
  <<{"user_role", "users", "addresses"},
    {"product_status", "categories", "brands", "products", "product_variants", "product_images"},
    {"discount_type", "order_status", "carts", "cart_items", "coupons", "orders", "order_items"},
    {"payment_status", "payments"},
    {"notification_type", "tracking_status", "reviews", "notifications", "delivery_partners",
     "tracking_events", "search_queries"}>>
Declared(v) ==
  LET names == UNION {Introduces[i] : i \in 1 .. v} IN
    [types |-> [x \in DOMAIN Metadata.types \cap names |-> Metadata.types[x]],
     tables |-> [x \in DOMAIN Metadata.tables \cap names |-> Metadata.tables[x]]]

\* The committed schema is what the models declare of the tables that the
\* recorded version is to have, no more and no less, whatever migrations
\* died, failed or ran at the same time, and however often the schema went
\* back and forth.
SchemaMatchesVersion ==
  db.types = Declared(db.version).types /\ db.tables = Declared(db.version).tables

\* A statement of a migration never lacks what it refers to, and never drops
\* what something still refers to: it can only meet a table that a
\* concurrent migration has created before it (or, see Overtaken, a type).
ScriptsAreSound ==
  \A p \in Process :
    Pending(p) /\ NotBlocked(p) =>
      \/ Legal(View(p), NextStatement(p))
      \/ NextStatement(p).do = "create_table" /\ NextStatement(p).name \in DOMAIN db.tables

\* At the newest version the tables, foreign keys, unique keys and enum
\* labels are those the models declare, which is what the code runs on.
HeadMatchesModels ==
  db.version = HeadVersion => db.types = Metadata.types /\ db.tables = Metadata.tables

\* "ensures the schema is current every time a new image rolls out"
\* (docker-compose.yml 54-55): the service answers only on the newest schema.
ServesCurrentSchema == service = "serving" => db.version = HeadVersion

\* A run of seed.py that ends well leaves every row of its list: also when the
\* service was taken down or alembic was run by hand before it or beside it
\* (upgrades only: nobody goes back while the script runs), and however many
\* runs there are.  A product has its images too, or a run is at them now, or
\* the run that inserted it ended between its two commits, which no later run
\* makes good, because the check finds the product.
SeedLeavesAll ==
  [][\A s \in Seeder : seeder[s].pc # "done" /\ seeder'[s].pc = "done" =>
       \A i \in DOMAIN SeedPlan :
         /\ SeedPlan[i].key \in rows'[SeedPlan[i].table]
         /\ SeedPlan[i].table = "products" =>
              \/ SeedPlan[i].key \in rows'["product_images"] \cup cut'
              \/ \E o \in Seeder : Working(o, "images")' /\ seeder'[o].at = i]_vars

\* However often processes die or migrations collide, a container that was
\* started ends up serving, or was taken down.
ServiceComesUp == service = "starting" ~> service \in {"serving", "stopped"}
=============================================================================
