-------------------------- MODULE DeploymentProofs --------------------------
(***************************************************************************)
(* What holds of Deployment however often processes die, however often an  *)
(* operator runs alembic by hand, and for any number of runs of seed.py.   *)
(*                                                                         *)
(* The revisions create the enum types and tables one after the other and  *)
(* take them down in the opposite order, so a schema on the way from one   *)
(* version to another always is a prefix of one list of names.             *)
(***************************************************************************)
EXTENDS Deployment, TLAPS

Names ==
  <<"user_role", "users", "addresses",
    "product_status", "categories", "brands", "products", "product_variants", "product_images",
    "discount_type", "order_status", "carts", "cart_items", "coupons", "orders", "order_items",
    "payment_status", "payments",
    "notification_type", "tracking_status", "reviews", "notifications", "delivery_partners",
    "tracking_events", "search_queries">>

\* The place of a name in the list.
Place ==
  [user_role |-> 1, users |-> 2, addresses |-> 3,
   product_status |-> 4, categories |-> 5, brands |-> 6, products |-> 7, product_variants |-> 8,
   product_images |-> 9,
   discount_type |-> 10, order_status |-> 11, carts |-> 12, cart_items |-> 13, coupons |-> 14,
   orders |-> 15, order_items |-> 16,
   payment_status |-> 17, payments |-> 18,
   notification_type |-> 19, tracking_status |-> 20, reviews |-> 21, notifications |-> 22,
   delivery_partners |-> 23, tracking_events |-> 24, search_queries |-> 25]

TypeName == DOMAIN Metadata.types
TableName == DOMAIN Metadata.tables
Steps == 25

\* The schema with the first k of the names, and how many a version has.
Prefix(k) ==
  [types |-> [x \in {y \in TypeName : Place[y] <= k} |-> Metadata.types[x]],
   tables |-> [x \in {y \in TableName : Place[y] <= k} |-> Metadata.tables[x]]]
Reached(v) == <<0, 3, 9, 16, 18, 25>>[v + 1]

-----------------------------------------------------------------------------
(* The list and the models.                                                *)

LEMMA TypeNames ==
  TypeName = {"user_role", "product_status", "discount_type", "order_status", "payment_status",
              "notification_type", "tracking_status"}
BY DEF TypeName, Metadata

LEMMA TableNames ==
  TableName = {"users", "addresses", "categories", "brands", "products", "product_variants",
               "product_images", "carts", "cart_items", "coupons", "orders", "order_items",
               "payments", "reviews", "notifications", "delivery_partners", "tracking_events",
               "search_queries"}
BY DEF TableName, Metadata

LEMMA Places ==
  /\ \A x \in TypeName \cup TableName : Place[x] \in 1 .. Steps /\ Names[Place[x]] = x
  /\ \A k \in 1 .. Steps : Names[k] \in TypeName \cup TableName /\ Place[Names[k]] = k
BY TypeNames, TableNames DEF Place, Names, Steps

LEMMA NamesApart == TypeName \cap TableName = {}
BY TypeNames, TableNames

\* Enum types and tables a table refers to come before it, itself excepted.
Earlier(table, k) ==
  /\ \A x \in table.types : x \in TypeName /\ Place[x] < k
  /\ \A fk \in table.fks : fk.target \in TableName /\ Place[fk.target] <= k

LEMMA ReferencesGoBack == \A x \in TableName : Earlier(Metadata.tables[x], Place[x])
<1> DEFINE Back(x) == Earlier(Metadata.tables[x], Place[x])
<1>1. Back("users") /\ Back("addresses")
  BY TypeNames, TableNames DEF Metadata, User, Address, Tbl, FK, Earlier, Place
<1>2. Back("categories") /\ Back("brands") /\ Back("products")
  BY TypeNames, TableNames DEF Metadata, Category, Brand, Product, Tbl, FK, Earlier, Place
<1>3. Back("product_variants") /\ Back("product_images")
  BY TypeNames, TableNames DEF Metadata, ProductVariant, ProductImage, Tbl, FK, Earlier, Place
<1>4. Back("carts") /\ Back("cart_items") /\ Back("coupons")
  BY TypeNames, TableNames DEF Metadata, Cart, CartItem, Coupon, Tbl, FK, Earlier, Place
<1>5. Back("orders") /\ Back("order_items") /\ Back("payments")
  BY TypeNames, TableNames DEF Metadata, Order, OrderItem, Payment, Tbl, FK, Earlier, Place
<1>6. Back("reviews") /\ Back("notifications")
  BY TypeNames, TableNames DEF Metadata, Review, Notification, Tbl, FK, Earlier, Place
<1>7. Back("delivery_partners") /\ Back("tracking_events") /\ Back("search_queries")
  BY TypeNames, TableNames DEF Metadata, DeliveryPartner, TrackingEvent, SearchQuery, Tbl, FK, Earlier, Place
<1> HIDE DEF Back
<1>8. \A x \in TableName : Back(x)
  BY <1>1, <1>2, <1>3, <1>4, <1>5, <1>6, <1>7, TableNames
<1> QED BY <1>8 DEF Back

LEMMA ReachedIs ==
  /\ Reached(0) = 0 /\ Reached(1) = 3 /\ Reached(2) = 9 /\ Reached(3) = 16 /\ Reached(4) = 18
  /\ Reached(5) = 25
BY DEF Reached

LEMMA EmptyIs == Prefix(0) = Empty
<1>1. {y \in TypeName : Place[y] <= 0} = {} /\ {y \in TableName : Place[y] <= 0} = {}
  BY Places
<1>2. \A f : [x \in {} |-> f[x]] = <<>>
  OBVIOUS
<1>3. Prefix(0).types = <<>> /\ Prefix(0).tables = <<>>
  BY <1>1, <1>2 DEF Prefix
<1> QED BY <1>3 DEF Prefix, Empty

LEMMA HeadIs == Prefix(Steps) = Metadata
<1>1. {y \in TypeName : Place[y] <= Steps} = TypeName /\ {y \in TableName : Place[y] <= Steps} = TableName
  BY Places
<1>2. Metadata.types = [x \in TypeName |-> Metadata.types[x]]
  BY DEF Metadata, TypeName
<1>3. Metadata.tables = [x \in TableName |-> Metadata.tables[x]]
  BY DEF Metadata, TableName
<1>4. Metadata = [types |-> Metadata.types, tables |-> Metadata.tables]
  BY DEF Metadata
<1> QED BY <1>1, <1>2, <1>3, <1>4 DEF Prefix

-----------------------------------------------------------------------------
(* The revisions.                                                          *)

\* A statement that creates, or drops, the k-th name as the models declare it.
Creates(st, k) ==
  \/ /\ st.do = "create_type" /\ st.name = Names[k] /\ st.name \in TypeName
     /\ st.labels = Metadata.types[st.name]
  \/ /\ st.do = "create_table" /\ st.name = Names[k] /\ st.name \in TableName
     /\ st.table = Metadata.tables[st.name]
Drops(st, k) ==
  \/ st.do = "drop_type" /\ st.name = Names[k] /\ st.name \in TypeName
  \/ st.do = "drop_table" /\ st.name = Names[k] /\ st.name \in TableName

\* The script creates, or drops, the n names above the first k, and an upgrade
\* ends with a table.
Climbs(script, k, n) ==
  /\ Len(script) = n /\ DOMAIN script = 1 .. n
  /\ \A i \in 1 .. n : Creates(script[i], k + i)
  /\ script[n].do = "create_table"
Falls(script, k, n) ==
  /\ Len(script) = n /\ DOMAIN script = 1 .. n
  /\ \A i \in 1 .. n : Drops(script[i], k + n + 1 - i)

LEMMA Creating ==
  ASSUME NEW k, NEW name, name = Names[k]
  PROVE  /\ name \in TypeName => Creates(Type(name, Metadata.types[name]), k)
         /\ name \in TableName => Creates(Table(name, Metadata.tables[name]), k)
BY DEF Creates, Type, Table

LEMMA Revision1Is == Climbs(Revision1.up, 0, 3) /\ Falls(Revision1.down, 0, 3)
<1> DEFINE s == Revision1.up
<1>1. Len(s) = 3 /\ DOMAIN s = 1 .. 3
  BY DEF Revision1
<1>2. /\ s[1] = Type("user_role", UserRole)
      /\ s[2] = Table("users", User)
      /\ s[3] = Table("addresses", Address)
  BY DEF Revision1, UserRole, User, Address
<1>3. /\ s[1] = Type(Names[1], Metadata.types[Names[1]])
      /\ s[2] = Table(Names[2], Metadata.tables[Names[2]])
      /\ s[3] = Table(Names[3], Metadata.tables[Names[3]])
  BY <1>2 DEF Metadata, Names
<1>4. /\ Creates(s[1], 1)
      /\ Creates(s[2], 2)
      /\ Creates(s[3], 3)
  BY <1>3, Creating, TypeNames, TableNames DEF Names
<1>5. s[3].do = "create_table"
  BY <1>2 DEF Table
<1> HIDE DEF s
<1>6. Climbs(s, 0, 3)
  BY <1>1, <1>4, <1>5 DEF Climbs
<1>7. Falls(Revision1.down, 0, 3)
  BY TypeNames, TableNames DEF Revision1, DropType, DropTable, Falls, Drops, Names
<1> QED BY <1>6, <1>7 DEF s

LEMMA Revision2Is == Climbs(Revision2.up, 3, 6) /\ Falls(Revision2.down, 3, 6)
<1> DEFINE s == Revision2.up
<1>1. Len(s) = 6 /\ DOMAIN s = 1 .. 6
  BY DEF Revision2
<1>2. /\ s[1] = Type("product_status", ProductStatus)
      /\ s[2] = Table("categories", Category)
      /\ s[3] = Table("brands", Brand)
      /\ s[4] = Table("products", Product)
      /\ s[5] = Table("product_variants", ProductVariant)
      /\ s[6] = Table("product_images", ProductImage)
  BY DEF Revision2, ProductStatus, Category, Brand, Product, ProductVariant, ProductImage
<1>3. /\ s[1] = Type(Names[4], Metadata.types[Names[4]])
      /\ s[2] = Table(Names[5], Metadata.tables[Names[5]])
      /\ s[3] = Table(Names[6], Metadata.tables[Names[6]])
      /\ s[4] = Table(Names[7], Metadata.tables[Names[7]])
      /\ s[5] = Table(Names[8], Metadata.tables[Names[8]])
      /\ s[6] = Table(Names[9], Metadata.tables[Names[9]])
  BY <1>2 DEF Metadata, Names
<1>4. /\ Creates(s[1], 4)
      /\ Creates(s[2], 5)
      /\ Creates(s[3], 6)
      /\ Creates(s[4], 7)
      /\ Creates(s[5], 8)
      /\ Creates(s[6], 9)
  BY <1>3, Creating, TypeNames, TableNames DEF Names
<1>5. s[6].do = "create_table"
  BY <1>2 DEF Table
<1> HIDE DEF s
<1>6. Climbs(s, 3, 6)
  BY <1>1, <1>4, <1>5 DEF Climbs
<1>7. Falls(Revision2.down, 3, 6)
  BY TypeNames, TableNames DEF Revision2, DropType, DropTable, Falls, Drops, Names
<1> QED BY <1>6, <1>7 DEF s

LEMMA Revision3Is == Climbs(Revision3.up, 9, 7) /\ Falls(Revision3.down, 9, 7)
<1> DEFINE s == Revision3.up
<1>1. Len(s) = 7 /\ DOMAIN s = 1 .. 7
  BY DEF Revision3
<1>2. /\ s[1] = Type("discount_type", DiscountType)
      /\ s[2] = Type("order_status", OrderStatus)
      /\ s[3] = Table("carts", Cart)
      /\ s[4] = Table("cart_items", CartItem)
      /\ s[5] = Table("coupons", Coupon)
      /\ s[6] = Table("orders", Order)
      /\ s[7] = Table("order_items", OrderItem)
  BY DEF Revision3, DiscountType, OrderStatus, Cart, CartItem, Coupon, Order, OrderItem
<1>3. /\ s[1] = Type(Names[10], Metadata.types[Names[10]])
      /\ s[2] = Type(Names[11], Metadata.types[Names[11]])
      /\ s[3] = Table(Names[12], Metadata.tables[Names[12]])
      /\ s[4] = Table(Names[13], Metadata.tables[Names[13]])
      /\ s[5] = Table(Names[14], Metadata.tables[Names[14]])
      /\ s[6] = Table(Names[15], Metadata.tables[Names[15]])
      /\ s[7] = Table(Names[16], Metadata.tables[Names[16]])
  BY <1>2 DEF Metadata, Names
<1>4. /\ Creates(s[1], 10)
      /\ Creates(s[2], 11)
      /\ Creates(s[3], 12)
      /\ Creates(s[4], 13)
      /\ Creates(s[5], 14)
      /\ Creates(s[6], 15)
      /\ Creates(s[7], 16)
  BY <1>3, Creating, TypeNames, TableNames DEF Names
<1>5. s[7].do = "create_table"
  BY <1>2 DEF Table
<1> HIDE DEF s
<1>6. Climbs(s, 9, 7)
  BY <1>1, <1>4, <1>5 DEF Climbs
<1>7. Falls(Revision3.down, 9, 7)
  BY TypeNames, TableNames DEF Revision3, DropType, DropTable, Falls, Drops, Names
<1> QED BY <1>6, <1>7 DEF s

LEMMA Revision4Is == Climbs(Revision4.up, 16, 2) /\ Falls(Revision4.down, 16, 2)
<1> DEFINE s == Revision4.up
<1>1. Len(s) = 2 /\ DOMAIN s = 1 .. 2
  BY DEF Revision4
<1>2. /\ s[1] = Type("payment_status", PaymentStatus)
      /\ s[2] = Table("payments", Payment)
  BY DEF Revision4, PaymentStatus, Payment
<1>3. /\ s[1] = Type(Names[17], Metadata.types[Names[17]])
      /\ s[2] = Table(Names[18], Metadata.tables[Names[18]])
  BY <1>2 DEF Metadata, Names
<1>4. /\ Creates(s[1], 17)
      /\ Creates(s[2], 18)
  BY <1>3, Creating, TypeNames, TableNames DEF Names
<1>5. s[2].do = "create_table"
  BY <1>2 DEF Table
<1> HIDE DEF s
<1>6. Climbs(s, 16, 2)
  BY <1>1, <1>4, <1>5 DEF Climbs
<1>7. Falls(Revision4.down, 16, 2)
  BY TypeNames, TableNames DEF Revision4, DropType, DropTable, Falls, Drops, Names
<1> QED BY <1>6, <1>7 DEF s

LEMMA Revision5Is == Climbs(Revision5.up, 18, 7) /\ Falls(Revision5.down, 18, 7)
<1> DEFINE s == Revision5.up
<1>1. Len(s) = 7 /\ DOMAIN s = 1 .. 7
  BY DEF Revision5
<1>2. /\ s[1] = Type("notification_type", NotificationType)
      /\ s[2] = Type("tracking_status", TrackingStatus)
      /\ s[3] = Table("reviews", Review)
      /\ s[4] = Table("notifications", Notification)
      /\ s[5] = Table("delivery_partners", DeliveryPartner)
      /\ s[6] = Table("tracking_events", TrackingEvent)
      /\ s[7] = Table("search_queries", SearchQuery)
  BY DEF Revision5, NotificationType, TrackingStatus, Review, Notification, DeliveryPartner,
     TrackingEvent, SearchQuery
<1>3. /\ s[1] = Type(Names[19], Metadata.types[Names[19]])
      /\ s[2] = Type(Names[20], Metadata.types[Names[20]])
      /\ s[3] = Table(Names[21], Metadata.tables[Names[21]])
      /\ s[4] = Table(Names[22], Metadata.tables[Names[22]])
      /\ s[5] = Table(Names[23], Metadata.tables[Names[23]])
      /\ s[6] = Table(Names[24], Metadata.tables[Names[24]])
      /\ s[7] = Table(Names[25], Metadata.tables[Names[25]])
  BY <1>2 DEF Metadata, Names
<1>4. /\ Creates(s[1], 19)
      /\ Creates(s[2], 20)
      /\ Creates(s[3], 21)
      /\ Creates(s[4], 22)
      /\ Creates(s[5], 23)
      /\ Creates(s[6], 24)
      /\ Creates(s[7], 25)
  BY <1>3, Creating, TypeNames, TableNames DEF Names
<1>5. s[7].do = "create_table"
  BY <1>2 DEF Table
<1> HIDE DEF s
<1>6. Climbs(s, 18, 7)
  BY <1>1, <1>4, <1>5 DEF Climbs
<1>7. Falls(Revision5.down, 18, 7)
  BY TypeNames, TableNames DEF Revision5, Downgrade5, DropType, DropTable, Falls, Drops, Names
<1> QED BY <1>6, <1>7 DEF s

Version == 0 .. 5

LEMMA RevisionsAre ==
  /\ HeadVersion = 5
  /\ \A v \in 1 .. 5 : /\ Reached(v - 1) \in Nat /\ Reached(v) \in 1 .. Steps
                       /\ Reached(v - 1) < Reached(v)
                       /\ Climbs(Revisions[v].up, Reached(v - 1), Reached(v) - Reached(v - 1))
                       /\ Falls(Revisions[v].down, Reached(v - 1), Reached(v) - Reached(v - 1))
<1>1. HeadVersion = 5
  BY DEF HeadVersion, Revisions
<1>2. /\ Revisions[1] = Revision1 /\ Revisions[2] = Revision2 /\ Revisions[3] = Revision3
      /\ Revisions[4] = Revision4 /\ Revisions[5] = Revision5
  BY DEF Revisions
<1> QED BY <1>1, <1>2, ReachedIs, Revision1Is, Revision2Is, Revision3Is, Revision4Is, Revision5Is
        DEF Steps

LEMMA DeclaredIs == ASSUME NEW v \in Version PROVE Declared(v) = Prefix(Reached(v))
<1>1. \A i \in 1 .. 5 : \A x \in TypeName \cup TableName :
        x \in Introduces[i] <=> Place[x] > Reached(i - 1) /\ Place[x] <= Reached(i)
  BY TypeNames, TableNames, ReachedIs DEF Introduces, Place
<1>2. \A x \in TypeName \cup TableName :
        x \in UNION {Introduces[i] : i \in 1 .. v} <=> Place[x] <= Reached(v)
  BY <1>1, Places, ReachedIs DEF Version
<1> DEFINE names == UNION {Introduces[i] : i \in 1 .. v}
<1>3. /\ TypeName \cap names = {y \in TypeName : Place[y] <= Reached(v)}
      /\ TableName \cap names = {y \in TableName : Place[y] <= Reached(v)}
  BY <1>2
<1> HIDE DEF names
<1> QED BY <1>3 DEF Declared, Prefix, TypeName, TableName, names

-----------------------------------------------------------------------------
(* One statement.                                                          *)

TypesTo(k) == {y \in TypeName : Place[y] <= k}
TablesTo(k) == {y \in TableName : Place[y] <= k}

LEMMA PrefixIs ==
  ASSUME NEW k
  PROVE  /\ Prefix(k) = [types |-> [x \in TypesTo(k) |-> Metadata.types[x]],
                         tables |-> [x \in TablesTo(k) |-> Metadata.tables[x]]]
         /\ DOMAIN Prefix(k).types = TypesTo(k) /\ DOMAIN Prefix(k).tables = TablesTo(k)
         /\ \A x \in TypesTo(k) : Prefix(k).types[x] = Metadata.types[x]
         /\ \A x \in TablesTo(k) : Prefix(k).tables[x] = Metadata.tables[x]
BY DEF Prefix, TypesTo, TablesTo

LEMMA OneMore ==
  ASSUME NEW k \in 1 .. Steps, NEW name, name = Names[k]
  PROVE  /\ name \in TypeName =>
              /\ TypesTo(k) = TypesTo(k - 1) \cup {name} /\ name \notin TypesTo(k - 1)
              /\ TablesTo(k) = TablesTo(k - 1)
         /\ name \in TableName =>
              /\ TablesTo(k) = TablesTo(k - 1) \cup {name} /\ name \notin TablesTo(k - 1)
              /\ TypesTo(k) = TypesTo(k - 1)
<1>1. Place[name] = k
  BY Places
<1>2. \A y \in TypeName \cup TableName : Place[y] \in Nat /\ (Place[y] = k => y = name)
  BY Places
<1>3. \A y \in TypeName \cup TableName :
        Place[y] <= k <=> Place[y] <= k - 1 \/ y = name
  BY <1>1, <1>2
<1> QED BY <1>1, <1>3, NamesApart DEF TypesTo, TablesTo

\* A statement of an upgrade fits the schema made so far.
LEMMA Climbing ==
  ASSUME NEW k \in 1 .. Steps, NEW st, Creates(st, k)
  PROVE  Legal(Prefix(k - 1), st) /\ Applied(Prefix(k - 1), st) = Prefix(k)
<1>1. CASE st.do = "create_type"
  <2>1. /\ st.name = Names[k] /\ st.name \in TypeName /\ st.labels = Metadata.types[st.name]
    BY <1>1 DEF Creates
  <2>2. /\ TypesTo(k) = TypesTo(k - 1) \cup {st.name} /\ TablesTo(k) = TablesTo(k - 1)
    BY <2>1, OneMore
  <2>3. Joined(Prefix(k - 1).types, [x \in {st.name} |-> st.labels])
          = [x \in TypesTo(k) |-> Metadata.types[x]]
    BY <2>1, <2>2, PrefixIs DEF Joined
  <2>4. Applied(Prefix(k - 1), st) = [Prefix(k - 1) EXCEPT !.types =
                                         Joined(@, [x \in {st.name} |-> st.labels])]
    BY <1>1 DEF Applied
  <2>5. Prefix(k - 1).tables = [x \in TablesTo(k) |-> Metadata.tables[x]]
    BY <2>2, PrefixIs
  <2>6. Applied(Prefix(k - 1), st) = Prefix(k)
    BY <2>3, <2>4, <2>5, PrefixIs
  <2> QED BY <1>1, <2>6 DEF Legal
<1>2. CASE st.do = "create_table"
  <2>1. /\ st.name = Names[k] /\ st.name \in TableName /\ st.table = Metadata.tables[st.name]
    BY <1>2 DEF Creates
  <2>2. /\ TablesTo(k) = TablesTo(k - 1) \cup {st.name} /\ TypesTo(k) = TypesTo(k - 1)
        /\ st.name \notin TablesTo(k - 1)
    BY <2>1, OneMore
  <2>3. Joined([x \in {st.name} |-> st.table], Prefix(k - 1).tables)
          = [x \in TablesTo(k) |-> Metadata.tables[x]]
    BY <2>1, <2>2, PrefixIs DEF Joined
  <2>4. Applied(Prefix(k - 1), st) = [Prefix(k - 1) EXCEPT !.tables =
                                         Joined([x \in {st.name} |-> st.table], @)]
    BY <1>2 DEF Applied
  <2>5. Prefix(k - 1).types = [x \in TypesTo(k) |-> Metadata.types[x]]
    BY <2>2, PrefixIs
  <2>6. Applied(Prefix(k - 1), st) = Prefix(k)
    BY <2>3, <2>4, <2>5, PrefixIs
  <2>7. Place[st.name] = k
    BY <2>1, Places
  <2>8. Earlier(st.table, k)
    BY <2>1, <2>7, ReferencesGoBack
  <2>9. st.table.types \subseteq DOMAIN Prefix(k - 1).types
    <3>1. \A x \in st.table.types : x \in TypeName /\ Place[x] < k /\ Place[x] \in Nat
      BY <2>8, Places DEF Earlier
    <3>2. \A x \in st.table.types : x \in TypesTo(k - 1)
      BY <3>1 DEF TypesTo
    <3> QED BY <3>2, PrefixIs
  <2>10. \A fk \in st.table.fks : fk.target \in DOMAIN Prefix(k - 1).tables \cup {st.name}
    <3>1. \A fk \in st.table.fks : fk.target \in TablesTo(k)
      BY <2>8 DEF Earlier, TablesTo
    <3> QED BY <2>2, <3>1, PrefixIs
  <2> QED BY <1>2, <2>2, <2>6, <2>9, <2>10, PrefixIs DEF Legal
<1> QED BY <1>1, <1>2 DEF Creates

\* On the newest schema an upgrade passes over the types and stops at a table.
LEMMA Repeating ==
  ASSUME NEW k \in 1 .. Steps, NEW st, Creates(st, k)
  PROVE  /\ st.do = "create_type" =>
              Legal(Prefix(Steps), st) /\ Applied(Prefix(Steps), st) = Prefix(Steps)
         /\ st.do = "create_table" =>
              ~ Legal(Prefix(Steps), st) /\ st.name \in DOMAIN Prefix(Steps).tables
<1>1. /\ TypesTo(Steps) = TypeName /\ TablesTo(Steps) = TableName
  BY Places DEF TypesTo, TablesTo
<1>2. CASE st.do = "create_type"
  <2>1. st.name \in TypeName
    BY <1>2 DEF Creates
  <2>2. Joined(Prefix(Steps).types, [x \in {st.name} |-> st.labels])
          = [x \in TypesTo(Steps) |-> Metadata.types[x]]
    BY <1>1, <2>1, PrefixIs DEF Joined
  <2>3. Applied(Prefix(Steps), st) = [Prefix(Steps) EXCEPT !.types =
                                         Joined(@, [x \in {st.name} |-> st.labels])]
    BY <1>2 DEF Applied
  <2>4. Applied(Prefix(Steps), st) = Prefix(Steps)
    BY <2>2, <2>3, PrefixIs
  <2> QED BY <1>2, <2>4 DEF Legal
<1>3. CASE st.do = "create_table"
  <2>1. st.name \in DOMAIN Prefix(Steps).tables
    BY <1>1, <1>3, PrefixIs DEF Creates
  <2> QED BY <1>3, <2>1 DEF Legal
<1> QED BY <1>2, <1>3

\* A statement of a downgrade drops nothing that is still referred to.
LEMMA Falling ==
  ASSUME NEW k \in 1 .. Steps, NEW st, Drops(st, k)
  PROVE  Legal(Prefix(k), st) /\ Applied(Prefix(k), st) = Prefix(k - 1)
<1>1. CASE st.do = "drop_type"
  <2>1. st.name = Names[k] /\ st.name \in TypeName
    BY <1>1 DEF Drops
  <2>2. /\ TypesTo(k) = TypesTo(k - 1) \cup {st.name} /\ TablesTo(k) = TablesTo(k - 1)
        /\ st.name \notin TypesTo(k - 1)
    BY <2>1, OneMore
  <2>3. Without(Prefix(k).types, st.name) = [x \in TypesTo(k - 1) |-> Metadata.types[x]]
    BY <2>2, PrefixIs DEF Without
  <2>4. Applied(Prefix(k), st) = [Prefix(k) EXCEPT !.types = Without(@, st.name)]
    BY <1>1 DEF Applied
  <2>5. Prefix(k).tables = [x \in TablesTo(k - 1) |-> Metadata.tables[x]]
    BY <2>2, PrefixIs
  <2>6. Applied(Prefix(k), st) = Prefix(k - 1)
    BY <2>3, <2>4, <2>5, PrefixIs
  <2>7. \A t \in TablesTo(k) : st.name \notin Metadata.tables[t].types
    <3>1. \A t \in TablesTo(k - 1) : t \in TableName /\ Place[t] <= k - 1
      BY DEF TablesTo
    <3>2. Place[st.name] = k
      BY <2>1, Places
    <3>3. \A t \in TableName : Place[t] \in Nat /\ Earlier(Metadata.tables[t], Place[t])
      BY Places, ReferencesGoBack
    <3> QED BY <2>2, <3>1, <3>2, <3>3 DEF Earlier
  <2> QED BY <1>1, <2>6, <2>7, PrefixIs DEF Legal
<1>2. CASE st.do = "drop_table"
  <2>1. st.name = Names[k] /\ st.name \in TableName
    BY <1>2 DEF Drops
  <2>2. /\ TablesTo(k) = TablesTo(k - 1) \cup {st.name} /\ TypesTo(k) = TypesTo(k - 1)
        /\ st.name \notin TablesTo(k - 1)
    BY <2>1, OneMore
  <2>3. Without(Prefix(k).tables, st.name) = [x \in TablesTo(k - 1) |-> Metadata.tables[x]]
    BY <2>2, PrefixIs DEF Without
  <2>4. Applied(Prefix(k), st) = [Prefix(k) EXCEPT !.tables = Without(@, st.name)]
    BY <1>2 DEF Applied
  <2>5. Prefix(k).types = [x \in TypesTo(k - 1) |-> Metadata.types[x]]
    BY <2>2, PrefixIs
  <2>6. Applied(Prefix(k), st) = Prefix(k - 1)
    BY <2>3, <2>4, <2>5, PrefixIs
  <2>7. \A t \in TablesTo(k) \ {st.name} : \A fk \in Metadata.tables[t].fks : fk.target # st.name
    <3>1. \A t \in TablesTo(k - 1) : t \in TableName /\ Place[t] <= k - 1
      BY DEF TablesTo
    <3>2. Place[st.name] = k
      BY <2>1, Places
    <3>3. \A t \in TableName : Place[t] \in Nat /\ Earlier(Metadata.tables[t], Place[t])
      BY Places, ReferencesGoBack
    <3>4. \A x \in TableName : Place[x] \in Nat
      BY Places
    <3> QED BY <2>2, <3>1, <3>2, <3>3, <3>4 DEF Earlier
  <2> QED BY <1>2, <2>2, <2>6, <2>7, PrefixIs DEF Legal
<1> QED BY <1>1, <1>2 DEF Drops

-----------------------------------------------------------------------------
(* The inductive invariant: the migrations.                                *)

Migration == [pc : {"idle", "started", "running"}, version : Version, to : Version,
              at : 0 .. Steps, schema : {Prefix(k) : k \in 0 .. Steps}]

\* A process's cursor stays within the script that is ahead of it.
Sits(p) ==
  LET m == alembic[p] IN
    /\ m.version < m.to => m.at < Reached(m.version + 1) - Reached(m.version)
    /\ m.version > m.to => m.at < Reached(m.version) - Reached(m.version - 1)
    /\ m.version = m.to => m.at = 0
    /\ m.pc = "started" => m.at = 0

\* How many names there are in the schema of a process.
Done(p) ==
  LET m == alembic[p] IN
    IF m.version <= m.to THEN Reached(m.version) + m.at ELSE Reached(m.version) - m.at

\* Either nothing has been committed since the process read the version, or
\* another upgrade has, and this one will meet its first table.
Fresh(p) ==
  /\ View(p) = Prefix(Done(p))
  /\ alembic[p].pc = "started" => alembic[p].version = db.version
Stale(p) ==
  /\ View(p) = Prefix(Steps)
  /\ db.version = 5 /\ alembic[p].version < 5

\* A downgrade has the database to itself.
Upgrades(p) == alembic[p].to = 5 /\ (Fresh(p) \/ Stale(p))
Downgrades(p) ==
  /\ p = "operator" /\ service = "stopped"
  /\ alembic[p].to < 5 /\ alembic[p].to <= alembic[p].version
  /\ Fresh(p)

DatabaseOK ==
  /\ db.version \in Version
  /\ db.types = Prefix(Reached(db.version)).types
  /\ db.tables = Prefix(Reached(db.version)).tables

MigrationsOK ==
  /\ alembic \in [Process -> Migration]
  /\ \A p \in Process : Active(p) => Sits(p) /\ (Upgrades(p) \/ Downgrades(p))
  /\ \A p, q \in Process : Begun(p) /\ Begun(q) => p = q
  /\ manual \in 0 .. MaxManual
  /\ manual = 0 => ~ Active("operator")

ServiceOK ==
  /\ service \in {"stopped", "starting", "serving"}
  /\ service = "stopped" => ~ Active("container")
  /\ service = "serving" => db.version = 5

SchemaInv == DatabaseOK /\ MigrationsOK /\ ServiceOK

-----------------------------------------------------------------------------
(* Every step of a migration keeps the schema on its way.                  *)

LEMMA ReachedGrows ==
  /\ \A v \in Version : Reached(v) \in 0 .. Steps
  /\ \A v \in 1 .. 5 : Reached(v - 1) < Reached(v)
  /\ \A v \in 0 .. 4 : Reached(v) < Reached(v + 1)
BY ReachedIs DEF Version, Steps

LEMMA UpIs ==
  ASSUME NEW v \in 0 .. 4
  PROVE  Climbs(Revisions[v + 1].up, Reached(v), Reached(v + 1) - Reached(v))
<1>1. PICK w \in 1 .. 5 : w = v + 1 /\ w - 1 = v
  OBVIOUS
<1>2. Climbs(Revisions[w].up, Reached(w - 1), Reached(w) - Reached(w - 1))
  BY RevisionsAre
<1> QED BY <1>1, <1>2

LEMMA MigrationIs ==
  ASSUME MigrationsOK, NEW p \in Process
  PROVE  /\ alembic[p] \in Migration
         /\ alembic[p].pc \in {"idle", "started", "running"}
         /\ alembic[p].version \in Version /\ alembic[p].to \in Version
         /\ alembic[p].at \in 0 .. Steps
         /\ alembic[p].schema \in {Prefix(k) : k \in 0 .. Steps}
BY DEF MigrationsOK, Migration

\* What a process has before it: the statement that creates the next name, or
\* drops the last one, and after it the cursor points there.
LEMMA Ahead ==
  ASSUME MigrationsOK, NEW p \in Process, Active(p), alembic[p].version < alembic[p].to
  PROVE  /\ Done(p) \in 0 .. Steps - 1
         /\ Creates(NextStatement(p), Done(p) + 1)
         /\ alembic[p].at + 1 \in DOMAIN Script(p)
         /\ Advanced(p) \in Migration
         /\ Advanced(p).pc = alembic[p].pc /\ Advanced(p).to = alembic[p].to
         /\ Advanced(p).version <= Advanced(p).to
         /\ Reached(Advanced(p).version) + Advanced(p).at = Done(p) + 1
         /\ Advanced(p).version < Advanced(p).to =>
              Advanced(p).at < Reached(Advanced(p).version + 1) - Reached(Advanced(p).version)
         /\ Advanced(p).version = Advanced(p).to => Advanced(p).at = 0
         /\ NextStatement(p).do # "create_table" => Advanced(p).version = alembic[p].version
<1>1. PICK m : m = alembic[p]
  OBVIOUS
<1>2. /\ m \in Migration /\ m.version \in Version /\ m.to \in Version /\ m.at \in 0 .. Steps
      /\ m.version < m.to /\ Sits(p)
  BY <1>1, MigrationIs DEF MigrationsOK
<1>3. PICK v \in 0 .. 4 : v = m.version
  BY <1>2 DEF Version
<1>4. /\ Reached(v) \in 0 .. Steps /\ Reached(v + 1) \in 0 .. Steps /\ Reached(v) < Reached(v + 1)
      /\ v + 1 \in Version
  BY <1>3, ReachedGrows DEF Version
<1>5. PICK n \in 1 .. Steps : n = Reached(v + 1) - Reached(v)
  BY <1>4 DEF Steps
<1>6. PICK script : script = Script(p) /\ script = Revisions[v + 1].up
  BY <1>1, <1>2, <1>3 DEF Script
<1>7. Climbs(script, Reached(v), n)
  BY <1>5, <1>6, UpIs
<1>8. PICK at \in 0 .. Steps : at = m.at
  BY <1>2
<1>9. PICK k : k = Done(p)
  OBVIOUS
<1>10. k = Reached(v) + at /\ at < n
  BY <1>1, <1>2, <1>3, <1>5, <1>8, <1>9 DEF Sits, Done, Version
<1>11. at + 1 \in 1 .. n /\ k \in 0 .. Steps - 1
  BY <1>4, <1>5, <1>10 DEF Steps
<1>12. NextStatement(p) = script[at + 1]
  BY <1>1, <1>6, <1>8 DEF NextStatement
<1>13. Creates(NextStatement(p), k + 1) /\ alembic[p].at + 1 \in DOMAIN Script(p)
  <2>1. Creates(script[at + 1], Reached(v) + (at + 1)) /\ at + 1 \in DOMAIN script
    BY <1>7, <1>11 DEF Climbs
  <2>2. Reached(v) + (at + 1) = k + 1
    BY <1>4, <1>10
  <2> QED BY <1>1, <1>6, <1>8, <1>12, <2>1, <2>2
<1>14. PICK new : new = Advanced(p)
  OBVIOUS
<1>15. Len(Script(p)) = n
  BY <1>6, <1>7 DEF Climbs
<1>16. CASE at + 1 < n
  <2>1. new = [m EXCEPT !.at = at + 1]
    BY <1>1, <1>8, <1>14, <1>15, <1>16 DEF Advanced
  <2>2. /\ new \in Migration /\ new.pc = m.pc /\ new.to = m.to /\ new.version = v
        /\ new.at = at + 1
    BY <1>2, <1>3, <1>5, <1>11, <2>1 DEF Migration, Steps
  <2>3. Reached(v) + (at + 1) = k + 1
    BY <1>4, <1>10
  <2> QED BY <1>1, <1>2, <1>3, <1>5, <1>9, <1>11, <1>13, <1>14, <1>16, <2>2, <2>3 DEF Version
<1>17. CASE at + 1 = n
  <2>1. new = [m EXCEPT !.at = 0, !.version = v + 1]
    BY <1>1, <1>2, <1>3, <1>8, <1>14, <1>15, <1>17 DEF Advanced
  <2>2. /\ new \in Migration /\ new.pc = m.pc /\ new.to = m.to /\ new.version = v + 1
        /\ new.at = 0
    <3>1. 0 \in 0 .. Steps
      BY DEF Steps
    <3>2. PICK w \in Version : w = v + 1
      BY <1>4
    <3>3. new = [m EXCEPT !.at = 0, !.version = w]
      BY <2>1, <3>2
    <3> QED BY <1>2, <3>1, <3>2, <3>3 DEF Migration
  <2>3. NextStatement(p).do = "create_table"
    BY <1>7, <1>12, <1>17 DEF Climbs
  <2>4. Reached(v + 1) + 0 = k + 1
    BY <1>4, <1>5, <1>10, <1>17
  <2>5. v + 1 <= m.to
    BY <1>2, <1>3 DEF Version
  <2>6. v + 1 < m.to => 0 < Reached((v + 1) + 1) - Reached(v + 1)
    <3>1. ASSUME v + 1 < m.to PROVE v + 1 \in 0 .. 4 /\ (v + 1) + 1 \in Version
      BY <1>2, <1>3, <3>1 DEF Version
    <3>2. ASSUME NEW w \in 0 .. 4, w + 1 \in Version PROVE 0 < Reached(w + 1) - Reached(w)
      BY <3>2, ReachedGrows DEF Version, Steps
    <3> QED BY <3>1, <3>2
  <2> QED BY <1>1, <1>9, <1>11, <1>13, <1>14, <2>2, <2>3, <2>4, <2>5, <2>6
<1> QED BY <1>5, <1>8, <1>10, <1>16, <1>17

LEMMA Behind ==
  ASSUME MigrationsOK, NEW p \in Process, Active(p), alembic[p].version > alembic[p].to
  PROVE  /\ Done(p) \in 1 .. Steps
         /\ Drops(NextStatement(p), Done(p))
         /\ alembic[p].at + 1 \in DOMAIN Script(p)
         /\ Advanced(p) \in Migration
         /\ Advanced(p).pc = alembic[p].pc /\ Advanced(p).to = alembic[p].to
         /\ Advanced(p).version >= Advanced(p).to
         /\ Reached(Advanced(p).version) - Advanced(p).at = Done(p) - 1
         /\ Advanced(p).version > Advanced(p).to =>
              Advanced(p).at < Reached(Advanced(p).version) - Reached(Advanced(p).version - 1)
         /\ Advanced(p).version = Advanced(p).to => Advanced(p).at = 0
<1>1. PICK m : m = alembic[p]
  OBVIOUS
<1>2. /\ m \in Migration /\ m.version \in Version /\ m.to \in Version /\ m.at \in 0 .. Steps
      /\ m.version > m.to /\ Sits(p)
  BY <1>1, MigrationIs DEF MigrationsOK
<1>3. PICK v \in 1 .. 5 : v = m.version
  BY <1>2 DEF Version
<1>4. /\ Reached(v) \in 0 .. Steps /\ Reached(v - 1) \in 0 .. Steps /\ Reached(v - 1) < Reached(v)
      /\ v - 1 \in Version
  BY <1>3, ReachedGrows DEF Version
<1>5. PICK n \in 1 .. Steps : n = Reached(v) - Reached(v - 1)
  BY <1>4 DEF Steps
<1>6. PICK script : script = Script(p) /\ script = Revisions[v].down
  BY <1>1, <1>2, <1>3 DEF Script, Version
<1>7. Falls(script, Reached(v - 1), n)
  BY <1>5, <1>6, RevisionsAre
<1>8. PICK at \in 0 .. Steps : at = m.at
  BY <1>2
<1>9. PICK k : k = Done(p)
  OBVIOUS
<1>10. k = Reached(v) - at /\ at < n
  BY <1>1, <1>2, <1>3, <1>5, <1>8, <1>9 DEF Sits, Done, Version
<1>11. at + 1 \in 1 .. n /\ k \in 1 .. Steps
  BY <1>4, <1>5, <1>10 DEF Steps
<1>12. NextStatement(p) = script[at + 1]
  BY <1>1, <1>6, <1>8 DEF NextStatement
<1>13. Drops(NextStatement(p), k) /\ alembic[p].at + 1 \in DOMAIN Script(p)
  <2>1. /\ Drops(script[at + 1], Reached(v - 1) + n + 1 - (at + 1)) /\ at + 1 \in DOMAIN script
    BY <1>7, <1>11 DEF Falls
  <2>2. Reached(v - 1) + n + 1 - (at + 1) = k
    BY <1>4, <1>5, <1>10
  <2> QED BY <1>1, <1>6, <1>8, <1>12, <2>1, <2>2
<1>14. PICK new : new = Advanced(p)
  OBVIOUS
<1>15. Len(Script(p)) = n
  BY <1>6, <1>7 DEF Falls
<1>16. CASE at + 1 < n
  <2>1. new = [m EXCEPT !.at = at + 1]
    BY <1>1, <1>8, <1>14, <1>15, <1>16 DEF Advanced
  <2>2. /\ new \in Migration /\ new.pc = m.pc /\ new.to = m.to /\ new.version = v
        /\ new.at = at + 1
    BY <1>2, <1>3, <1>5, <1>11, <2>1 DEF Migration, Steps
  <2>3. Reached(v) - (at + 1) = k - 1
    BY <1>4, <1>10
  <2> QED BY <1>1, <1>2, <1>3, <1>5, <1>9, <1>11, <1>13, <1>14, <1>16, <2>2, <2>3 DEF Version
<1>17. CASE at + 1 = n
  <2>1. new = [m EXCEPT !.at = 0, !.version = v - 1]
    <3>1. ~ (v < m.to) /\ ~ (at + 1 < Len(Script(p)))
      BY <1>2, <1>3, <1>15, <1>17 DEF Version
    <3> QED BY <1>1, <1>3, <1>8, <1>14, <3>1 DEF Advanced
  <2>2. /\ new \in Migration /\ new.pc = m.pc /\ new.to = m.to /\ new.version = v - 1
        /\ new.at = 0
    <3>1. 0 \in 0 .. Steps
      BY DEF Steps
    <3>2. PICK w \in Version : w = v - 1
      BY <1>4
    <3>3. new = [m EXCEPT !.at = 0, !.version = w]
      BY <2>1, <3>2
    <3> QED BY <1>2, <3>1, <3>2, <3>3 DEF Migration
  <2>3. Reached(v - 1) - 0 = k - 1
    BY <1>4, <1>5, <1>10, <1>17
  <2>4. v - 1 >= m.to
    BY <1>2, <1>3 DEF Version
  <2>5. v - 1 > m.to => 0 < Reached(v - 1) - Reached((v - 1) - 1)
    <3>1. ASSUME v - 1 > m.to PROVE v - 1 \in 1 .. 5 /\ (v - 1) - 1 \in Version
      BY <1>2, <1>3, <3>1 DEF Version
    <3>2. ASSUME NEW w \in 1 .. 5, w - 1 \in Version PROVE 0 < Reached(w) - Reached(w - 1)
      BY <3>2, ReachedGrows DEF Version, Steps
    <3> QED BY <3>1, <3>2
  <2> QED BY <1>1, <1>9, <1>11, <1>13, <1>14, <2>2, <2>3, <2>4, <2>5
<1> QED BY <1>5, <1>8, <1>10, <1>16, <1>17

LEMMA NoMigrationIs == NoMigration \in Migration /\ NoMigration.pc = "idle"
<1>1. Empty \in {Prefix(k) : k \in 0 .. Steps}
  BY EmptyIs DEF Steps
<1> QED BY <1>1 DEF NoMigration, Migration, Version, Steps

LEMMA InitSchema == Init => SchemaInv
<1> SUFFICES ASSUME Init PROVE SchemaInv
  OBVIOUS
<1>1. /\ db.version = 0 /\ db.types = <<>> /\ db.tables = <<>> /\ Reached(0) = 0
  BY ReachedIs DEF Init
<1>2. Prefix(0).types = <<>> /\ Prefix(0).tables = <<>>
  BY EmptyIs DEF Empty
<1>3. DatabaseOK
  BY <1>1, <1>2 DEF DatabaseOK, Version
<1>5. \A p \in Process : alembic[p] = NoMigration /\ ~ Active(p) /\ ~ Begun(p)
  BY DEF Init, Active, Begun, NoMigration
<1>6. MigrationsOK
  BY <1>5, NoMigrationIs, BoundsAssumption DEF Init, MigrationsOK, Process
<1>7. ServiceOK
  BY <1>5 DEF Init, ServiceOK, Process
<1> QED BY <1>3, <1>6, <1>7 DEF SchemaInv

\* What is said of a process that does not move, while nothing is committed.
LEMMA Undisturbed ==
  ASSUME NEW q, db' = db, alembic'[q] = alembic[q]
  PROVE  /\ Active(q)' <=> Active(q)
         /\ Begun(q)' <=> Begun(q)
         /\ Sits(q)' <=> Sits(q)
         /\ View(q)' = View(q) /\ Done(q)' = Done(q)
         /\ Fresh(q)' <=> Fresh(q)
         /\ Upgrades(q)' <=> Upgrades(q)
         /\ service' = service => (Downgrades(q)' <=> Downgrades(q))
<1>1. /\ Active(q)' <=> Active(q)
      /\ Begun(q)' <=> Begun(q)
      /\ Sits(q)' <=> Sits(q)
      /\ View(q)' = View(q) /\ Done(q)' = Done(q)
  BY DEF Active, Begun, Sits, View, Done
<1>2. (Fresh(q)' <=> Fresh(q)) /\ (Stale(q)' <=> Stale(q))
  BY <1>1 DEF Fresh, Stale
<1> QED BY <1>1, <1>2 DEF Upgrades, Downgrades

LEMMA StatementAdvances ==
  ASSUME SchemaInv, NEW p \in Process, Statement(p)
  PROVE  /\ alembic'[p] \in Migration /\ alembic'[p].pc = "running"
         /\ alembic'[p].to = alembic[p].to
         /\ Sits(p)' /\ (Upgrades(p)' \/ Downgrades(p)')
<1>1. /\ alembic \in [Process -> Migration] /\ Active(p) /\ Sits(p)
      /\ Upgrades(p) \/ Downgrades(p)
      /\ alembic[p].version # alembic[p].to /\ MigrationsOK
      /\ alembic[p].version \in Version /\ alembic[p].to \in Version
  BY MigrationIs DEF SchemaInv, MigrationsOK, Statement, Pending
<1>2. PICK st : st = NextStatement(p)
  OBVIOUS
<1>3. PICK view : view = View(p)
  OBVIOUS
<1>4. PICK adv : adv = Advanced(p)
  OBVIOUS
<1>5. /\ Legal(view, st) /\ db' = db /\ service' = service
      /\ alembic'[p] = [adv EXCEPT !.pc = "running", !.schema = Applied(view, st)]
  BY <1>1, <1>2, <1>3, <1>4 DEF Statement
<1>6. PICK new : new = alembic'[p]
  OBVIOUS
<1>7. ASSUME adv \in Migration, NEW k \in 0 .. Steps, Applied(view, st) = Prefix(k)
      PROVE  /\ new \in Migration /\ new.pc = "running" /\ new.schema = Prefix(k)
             /\ new.version = adv.version /\ new.at = adv.at /\ new.to = adv.to
             /\ View(p)' = Prefix(k)
  <2>1. new = [adv EXCEPT !.pc = "running", !.schema = Prefix(k)]
    BY <1>5, <1>6, <1>7
  <2>2. /\ new \in Migration /\ new.pc = "running" /\ new.schema = Prefix(k)
        /\ new.version = adv.version /\ new.at = adv.at /\ new.to = adv.to
    BY <1>7, <2>1 DEF Migration
  <2> QED BY <1>6, <2>2 DEF View, Begun
<1>8. CASE alembic[p].version < alembic[p].to
  <2>1. PICK k \in 0 .. Steps - 1 : k = Done(p)
    BY <1>1, <1>8, Ahead
  <2>2. k + 1 \in 1 .. Steps /\ k + 1 \in 0 .. Steps /\ Creates(st, k + 1)
    BY <1>1, <1>2, <1>8, <2>1, Ahead DEF Steps
  <2>3. /\ adv \in Migration /\ adv.to = alembic[p].to /\ adv.version <= adv.to
        /\ Reached(adv.version) + adv.at = k + 1
        /\ adv.version < adv.to => adv.at < Reached(adv.version + 1) - Reached(adv.version)
        /\ adv.version = adv.to => adv.at = 0
        /\ st.do # "create_table" => adv.version = alembic[p].version
    BY <1>1, <1>2, <1>4, <1>8, <2>1, Ahead
  <2>4. Upgrades(p) /\ alembic[p].to = 5
    BY <1>1, <1>8 DEF Downgrades, Upgrades, Version
  <2>5. ASSUME new.pc = "running", new.version = adv.version, new.at = adv.at, new.to = adv.to
        PROVE  Sits(p)' /\ Done(p)' = k + 1
    <3>1. adv.version \in Version /\ adv.to \in Version
      BY <2>3 DEF Migration
    <3> QED BY <1>6, <2>3, <2>5, <3>1 DEF Sits, Done, Version
  <2>6. CASE Fresh(p)
    <3>1. Applied(view, st) = Prefix(k + 1)
      <4>1. view = Prefix(k)
        BY <1>3, <2>1, <2>6 DEF Fresh
      <4>2. PICK w \in 1 .. Steps : w = k + 1 /\ w - 1 = k
        BY <2>2
      <4> QED BY <2>2, <4>1, <4>2, Climbing
    <3>2. /\ new \in Migration /\ new.pc = "running" /\ View(p)' = Prefix(k + 1)
          /\ new.version = adv.version /\ new.at = adv.at /\ new.to = adv.to
      BY <1>7, <2>2, <2>3, <3>1
    <3>3. Sits(p)' /\ Done(p)' = k + 1
      BY <2>5, <3>2
    <3>4. Fresh(p)'
      BY <1>6, <3>2, <3>3 DEF Fresh
    <3> QED BY <1>6, <2>3, <2>4, <3>2, <3>3, <3>4 DEF Upgrades
  <2>7. CASE Stale(p)
    <3>1. view = Prefix(Steps) /\ db.version = 5 /\ alembic[p].version < 5
      BY <1>3, <2>7 DEF Stale
    <3>2. st.do = "create_type" /\ Applied(view, st) = Prefix(Steps)
      BY <1>5, <2>2, <3>1, Repeating DEF Creates
    <3>3. Steps \in 0 .. Steps
      BY DEF Steps
    <3>4. /\ new \in Migration /\ new.pc = "running" /\ View(p)' = Prefix(Steps)
          /\ new.version = adv.version /\ new.at = adv.at /\ new.to = adv.to
      BY <1>7, <2>3, <3>2, <3>3
    <3>5. adv.version = alembic[p].version
      BY <2>3, <3>2
    <3>6. Stale(p)'
      BY <1>5, <1>6, <3>1, <3>4, <3>5 DEF Stale
    <3> QED BY <1>6, <2>3, <2>4, <2>5, <3>4, <3>6 DEF Upgrades
  <2> QED BY <2>4, <2>6, <2>7 DEF Upgrades
<1>9. CASE alembic[p].version > alembic[p].to
  <2>1. Downgrades(p)
    BY <1>1, <1>9 DEF Upgrades, Version
  <2>2. PICK k \in 1 .. Steps : k = Done(p)
    BY <1>1, <1>9, Behind
  <2>3. Drops(st, k)
    BY <1>1, <1>2, <1>9, <2>2, Behind
  <2>4. /\ adv \in Migration /\ adv.to = alembic[p].to /\ adv.version >= adv.to
        /\ Reached(adv.version) - adv.at = k - 1
        /\ adv.version > adv.to => adv.at < Reached(adv.version) - Reached(adv.version - 1)
        /\ adv.version = adv.to => adv.at = 0
    BY <1>1, <1>2, <1>4, <1>9, <2>2, Behind
  <2>5. Applied(view, st) = Prefix(k - 1)
    BY <1>3, <2>1, <2>2, <2>3, Falling DEF Downgrades, Fresh
  <2>6. /\ new \in Migration /\ new.pc = "running" /\ View(p)' = Prefix(k - 1)
        /\ new.version = adv.version /\ new.at = adv.at /\ new.to = adv.to
    <3>1. k - 1 \in 0 .. Steps
      BY DEF Steps
    <3> QED BY <1>7, <2>4, <2>5, <3>1
  <2>7. adv.version \in Version /\ adv.to \in Version /\ adv.at \in 0 .. Steps
        /\ Reached(adv.version) \in 0 .. Steps
    BY <2>4, ReachedGrows DEF Migration
  <2>8. Sits(p)' /\ Done(p)' = k - 1
    BY <1>6, <2>4, <2>6, <2>7 DEF Sits, Done, Version
  <2>9. Fresh(p)'
    BY <1>6, <2>6, <2>8 DEF Fresh
  <2> QED BY <1>5, <1>6, <2>1, <2>4, <2>6, <2>7, <2>8, <2>9 DEF Downgrades, Version
<1> QED BY <1>1, <1>6, <1>8, <1>9 DEF Version

\* What a commit leaves is the whole of a version, the newest unless the
\* operator goes back.
LEMMA CommitIs ==
  ASSUME SchemaInv, NEW p \in Process, CommitMigration(p)
  PROVE  /\ Active(p) /\ Fresh(p) /\ alembic[p].to \in Version
         /\ View(p) = Prefix(Reached(alembic[p].to))
         /\ db'.version = alembic[p].to
         /\ db'.types = View(p).types /\ db'.tables = View(p).tables
         /\ alembic[p].to = 5 \/ Downgrades(p)
<1>1. /\ Active(p) /\ Sits(p) /\ (Upgrades(p) \/ Downgrades(p))
      /\ alembic[p].version = alembic[p].to /\ alembic[p].to \in Version
      /\ db'.version = alembic[p].to
      /\ db'.types = View(p).types /\ db'.tables = View(p).tables
  BY MigrationIs DEF SchemaInv, MigrationsOK, CommitMigration
<1>2. Fresh(p)
  BY <1>1 DEF Upgrades, Downgrades, Stale
<1>3. Done(p) = Reached(alembic[p].to)
  BY <1>1, ReachedGrows DEF Done, Sits, Version, Steps
<1> QED BY <1>1, <1>2, <1>3 DEF Fresh, Upgrades

\* A migration that was under way at the commit of another one is an upgrade
\* that has done nothing yet, and finds itself on the newest schema.
LEMMA CommitSparesOthers ==
  ASSUME SchemaInv, NEW p \in Process, CommitMigration(p), NEW q \in Process, q # p, Active(q)
  PROVE  Sits(q)' /\ Upgrades(q)'
<1>1. /\ Active(p) /\ Fresh(p) /\ View(p) = Prefix(Reached(alembic[p].to))
      /\ db'.version = alembic[p].to
      /\ db'.types = View(p).types /\ db'.tables = View(p).tables
      /\ alembic[p].to = 5 \/ Downgrades(p)
  BY CommitIs
<1>2. alembic'[q] = alembic[q] /\ Active(q)
  BY DEF CommitMigration, SchemaInv, MigrationsOK, Process
<1>3. Sits(q) /\ Sits(q)'
  BY <1>2 DEF SchemaInv, MigrationsOK, Sits
<1>4. Upgrades(q) /\ alembic[p].to = 5
  BY <1>1, <1>2 DEF SchemaInv, MigrationsOK, ServiceOK, Process, Downgrades
<1>5. View(p) = Prefix(Steps) /\ db'.version = 5
  BY <1>1, <1>4, ReachedIs DEF Steps
<1>6. DatabaseOK
  BY DEF SchemaInv
<1>7. CASE db.version = 5
  <2>1. db.types = db'.types /\ db.tables = db'.tables
    BY <1>1, <1>5, <1>6, <1>7, ReachedIs DEF DatabaseOK, Steps
  <2>2. View(q)' = View(q) /\ Done(q)' = Done(q)
    BY <1>2, <2>1 DEF View, Begun, Done
  <2>3. (Fresh(q)' <=> Fresh(q)) /\ (Stale(q)' <=> Stale(q))
    BY <1>2, <1>5, <1>7, <2>2 DEF Fresh, Stale
  <2> QED BY <1>2, <1>3, <1>4, <2>3 DEF Upgrades
<1>8. CASE db.version # 5
  <2>1. Begun(p)
    BY <1>1, <1>4, <1>8, MigrationIs DEF Active, Begun, Fresh, CommitMigration, SchemaInv
  <2>2. ~ Begun(q) /\ alembic[q].pc = "started"
    BY <1>2, <2>1, MigrationIs DEF SchemaInv, MigrationsOK, Active, Begun
  <2>3. alembic[q].version = db.version
    BY <1>4, <1>8, <2>2 DEF Upgrades, Fresh, Stale
  <2>4. alembic[q].version < 5
    BY <1>6, <1>8, <2>3 DEF DatabaseOK, Version
  <2>5. View(q)' = [types |-> db'.types, tables |-> db'.tables]
    BY <1>2, <2>2 DEF View, Begun
  <2>6. View(q)' = Prefix(Steps)
    <3>1. Prefix(Steps) = [types |-> Prefix(Steps).types, tables |-> Prefix(Steps).tables]
      BY DEF Prefix
    <3> QED BY <1>1, <1>5, <2>5, <3>1
  <2>7. Stale(q)'
    BY <1>2, <1>5, <2>4, <2>6 DEF Stale
  <2> QED BY <1>2, <1>3, <1>4, <2>7 DEF Upgrades
<1> QED BY <1>7, <1>8

\* A process that starts: nothing done, nothing committed since.
LEMMA StartIs ==
  ASSUME SchemaInv, NEW p \in Process, NEW to \in Version,
         alembic' = [alembic EXCEPT ![p] = Started(to)], db' = db
  PROVE  /\ alembic' \in [Process -> Migration]
         /\ \A q \in Process \ {p} : alembic'[q] = alembic[q]
         /\ alembic'[p].pc = "started" /\ alembic'[p].to = to /\ alembic'[p].version = db.version
         /\ Sits(p)' /\ Fresh(p)'
<1>1. alembic \in [Process -> Migration] /\ DatabaseOK
  BY DEF SchemaInv, MigrationsOK
<1>2. Started(to) \in Migration
  <2>1. Empty \in {Prefix(k) : k \in 0 .. Steps}
    BY EmptyIs DEF Steps
  <2> QED BY <1>1, <2>1 DEF Started, Migration, DatabaseOK, Steps
<1>3. alembic'[p] = Started(to) /\ \A q \in Process \ {p} : alembic'[q] = alembic[q]
  BY <1>1
<1>4. /\ alembic'[p].pc = "started" /\ alembic'[p].to = to /\ alembic'[p].version = db.version
      /\ alembic'[p].at = 0
  BY <1>3 DEF Started
<1>5. db.version \in Version /\ Reached(db.version) \in 0 .. Steps
  BY <1>1, ReachedGrows DEF DatabaseOK
<1>6. Sits(p)'
  <2>1. to > db.version => 0 < Reached(db.version + 1) - Reached(db.version)
    <3>1. ASSUME to > db.version PROVE db.version \in 0 .. 4 /\ db.version + 1 \in Version
      BY <1>5, <3>1 DEF Version
    <3>2. ASSUME NEW w \in 0 .. 4, w + 1 \in Version PROVE 0 < Reached(w + 1) - Reached(w)
      BY <3>2, ReachedGrows DEF Version, Steps
    <3> QED BY <3>1, <3>2
  <2>2. to < db.version => 0 < Reached(db.version) - Reached(db.version - 1)
    <3>1. ASSUME to < db.version PROVE db.version \in 1 .. 5 /\ db.version - 1 \in Version
      BY <1>5, <3>1 DEF Version
    <3>2. ASSUME NEW w \in 1 .. 5, w - 1 \in Version PROVE 0 < Reached(w) - Reached(w - 1)
      BY <3>2, ReachedGrows DEF Version, Steps
    <3> QED BY <3>1, <3>2
  <2> QED BY <1>4, <2>1, <2>2 DEF Sits
<1>7. Fresh(p)'
  <2>1. View(p)' = [types |-> db.types, tables |-> db.tables]
    BY <1>4 DEF View, Begun
  <2>2. View(p)' = Prefix(Reached(db.version))
    BY <1>1, <2>1, PrefixIs DEF DatabaseOK
  <2>3. Done(p)' = Reached(db.version)
    BY <1>4, <1>5 DEF Done, Steps
  <2> QED BY <1>4, <2>2, <2>3 DEF Fresh
<1> QED BY <1>1, <1>2, <1>3, <1>4, <1>6, <1>7

\* The schema invariant is kept by every step.
LEMMA NextSchema == SchemaInv /\ [Next]_vars => SchemaInv'
<1> SUFFICES ASSUME SchemaInv, [Next]_vars PROVE SchemaInv'
  OBVIOUS
<1> USE DEF SchemaInv
<1>1. alembic \in [Process -> Migration] /\ DatabaseOK /\ MigrationsOK /\ ServiceOK
  BY DEF MigrationsOK
<1>2. ASSUME NEW p \in Process, alembic' \in [Process -> Migration],
             \A q \in Process \ {p} : alembic'[q] = alembic[q], db' = db, service' = service,
             Active(p)' => Sits(p)' /\ (Upgrades(p)' \/ Downgrades(p)'),
             Begun(p)' => NotBlocked(p) \/ Begun(p)
      PROVE  /\ DatabaseOK'
             /\ \A q \in Process : Active(q)' => Sits(q)' /\ (Upgrades(q)' \/ Downgrades(q)')
             /\ \A q, o \in Process : Begun(q)' /\ Begun(o)' => q = o
  <2>1. DatabaseOK'
    BY <1>2 DEF DatabaseOK
  <2>2. ASSUME NEW q \in Process, q # p
        PROVE  /\ Active(q)' => Sits(q)' /\ (Upgrades(q)' \/ Downgrades(q)')
               /\ Begun(q)' <=> Begun(q)
    BY <1>2, <2>2, Undisturbed DEF MigrationsOK
  <2>3. \A q, o \in Process : Begun(q)' /\ Begun(o)' => q = o
    BY <1>2, <2>2 DEF MigrationsOK, NotBlocked
  <2> QED BY <1>2, <2>1, <2>2, <2>3
<1>3. ASSUME NEW p \in Process, Statement(p)
      PROVE  SchemaInv'
  <2>1. /\ db' = db /\ service' = service /\ manual' = manual /\ NotBlocked(p) /\ Active(p)
        /\ alembic'[p] \in Migration /\ alembic'[p].pc = "running"
        /\ Sits(p)' /\ (Upgrades(p)' \/ Downgrades(p)')
        /\ alembic' = [alembic EXCEPT ![p] = alembic'[p]]
    BY <1>3, StatementAdvances DEF Statement, Pending
  <2>2. /\ alembic' \in [Process -> Migration]
        /\ \A q \in Process \ {p} : alembic'[q] = alembic[q]
    BY <1>1, <2>1
  <2>3. /\ DatabaseOK'
        /\ \A q \in Process : Active(q)' => Sits(q)' /\ (Upgrades(q)' \/ Downgrades(q)')
        /\ \A q, o \in Process : Begun(q)' /\ Begun(o)' => q = o
    BY <1>2, <2>1, <2>2
  <2>4. \A q \in Process : Active(q)' => Active(q)
    BY <2>1, <2>2 DEF Active
  <2> QED BY <2>1, <2>2, <2>3, <2>4 DEF MigrationsOK, ServiceOK, Process
<1>4. ASSUME NEW p \in Process, db' = db, service' = service, manual' = manual,
             alembic' = [alembic EXCEPT ![p] = NoMigration]
      PROVE  SchemaInv'
  <2>1. /\ alembic' \in [Process -> Migration] /\ ~ Active(p)' /\ ~ Begun(p)'
        /\ \A q \in Process \ {p} : alembic'[q] = alembic[q]
    BY <1>1, <1>4, NoMigrationIs DEF Active, Begun
  <2>2. /\ DatabaseOK'
        /\ \A q \in Process : Active(q)' => Sits(q)' /\ (Upgrades(q)' \/ Downgrades(q)')
        /\ \A q, o \in Process : Begun(q)' /\ Begun(o)' => q = o
    BY <1>2, <1>4, <2>1
  <2>3. \A q \in Process : Active(q)' => Active(q)
    BY <2>1 DEF Active
  <2> QED BY <1>4, <2>1, <2>2, <2>3 DEF MigrationsOK, ServiceOK, Process
<1>5. ASSUME NEW p \in Process, CommitMigration(p)
      PROVE  SchemaInv'
  <2>1. /\ Active(p) /\ alembic[p].to \in Version /\ View(p) = Prefix(Reached(alembic[p].to))
        /\ db'.version = alembic[p].to
        /\ db'.types = View(p).types /\ db'.tables = View(p).tables
        /\ alembic[p].to = 5 \/ Downgrades(p)
    BY <1>5, CommitIs
  <2>2. DatabaseOK'
    BY <2>1 DEF DatabaseOK
  <2>3. /\ alembic' \in [Process -> Migration] /\ ~ Active(p)' /\ ~ Begun(p)' /\ manual' = manual
        /\ \A q \in Process \ {p} : alembic'[q] = alembic[q]
    BY <1>1, <1>5, NoMigrationIs DEF CommitMigration, Active, Begun
  <2>4. \A q \in Process : Active(q)' => Active(q) /\ q # p
    BY <2>3 DEF Active
  <2>5. \A q \in Process : Active(q)' => Sits(q)' /\ Upgrades(q)'
    BY <1>5, <2>4, CommitSparesOthers
  <2>6. \A q, o \in Process : Begun(q)' /\ Begun(o)' => q = o
    BY <2>3 DEF MigrationsOK, Begun
  <2>7. ServiceOK'
    <3>1. CASE p = "container"
      BY <1>5, <2>1, <2>3, <3>1 DEF ServiceOK, CommitMigration, Downgrades
    <3>2. CASE p # "container"
      <4>1. service' = service
        BY <1>5, <3>2 DEF CommitMigration
      <4> QED BY <2>1, <2>4, <4>1 DEF ServiceOK, Downgrades, Process
    <3> QED BY <3>1, <3>2
  <2> QED BY <2>2, <2>3, <2>4, <2>5, <2>6, <2>7 DEF MigrationsOK, Process
<1>6. ASSUME NEW to \in Version, Operate(to),
             to = 5 \/ (service = "stopped" /\ to < db.version)
      PROVE  SchemaInv'
  <2> DEFINE p == "operator"
  <2>1. /\ p \in Process /\ ~ Active(p) /\ db' = db /\ service' = service
        /\ manual < MaxManual /\ manual' = manual + 1
        /\ alembic' = [alembic EXCEPT ![p] = Started(to)]
    BY <1>6 DEF Operate, Process
  <2>2. /\ alembic' \in [Process -> Migration]
        /\ \A q \in Process \ {p} : alembic'[q] = alembic[q]
        /\ alembic'[p].pc = "started" /\ alembic'[p].to = to /\ alembic'[p].version = db.version
        /\ Sits(p)' /\ Fresh(p)'
    BY <2>1, StartIs
  <2>3. Upgrades(p)' \/ Downgrades(p)'
    BY <1>1, <1>6, <2>1, <2>2 DEF Upgrades, Downgrades, DatabaseOK, Version
  <2>4. ~ Begun(p)'
    BY <2>2 DEF Begun
  <2>5. /\ DatabaseOK'
        /\ \A q \in Process : Active(q)' => Sits(q)' /\ (Upgrades(q)' \/ Downgrades(q)')
        /\ \A q, o \in Process : Begun(q)' /\ Begun(o)' => q = o
    BY <1>2, <2>1, <2>2, <2>3, <2>4
  <2>6. Active("container")' <=> Active("container")
    BY <2>2 DEF Active, Process
  <2>7. manual' \in 1 .. MaxManual
    BY <2>1, BoundsAssumption DEF MigrationsOK
  <2> QED BY <2>1, <2>2, <2>5, <2>6, <2>7 DEF MigrationsOK, ServiceOK
<1>7. CASE ContainerStarts
  <2> DEFINE p == "container"
  <2>1. /\ p \in Process /\ ~ Active(p) /\ db' = db /\ service' = service /\ manual' = manual
        /\ service = "starting" /\ HeadVersion = 5 /\ HeadVersion \in Version
        /\ alembic' = [alembic EXCEPT ![p] = Started(HeadVersion)]
    BY <1>7, RevisionsAre DEF ContainerStarts, Process, Version
  <2>2. /\ alembic' \in [Process -> Migration]
        /\ \A q \in Process \ {p} : alembic'[q] = alembic[q]
        /\ alembic'[p].pc = "started" /\ alembic'[p].to = 5
        /\ Sits(p)' /\ Fresh(p)'
    BY <2>1, StartIs
  <2>3. Upgrades(p)' /\ ~ Begun(p)'
    BY <2>2 DEF Upgrades, Begun
  <2>4. /\ DatabaseOK'
        /\ \A q \in Process : Active(q)' => Sits(q)' /\ (Upgrades(q)' \/ Downgrades(q)')
        /\ \A q, o \in Process : Begun(q)' /\ Begun(o)' => q = o
    BY <1>2, <2>1, <2>2, <2>3
  <2>5. Active("operator")' <=> Active("operator")
    BY <2>2 DEF Active, Process
  <2> QED BY <2>1, <2>2, <2>4, <2>5 DEF MigrationsOK, ServiceOK
<1>8. ASSUME db' = db, alembic' = alembic, manual' = manual, service' = service
      PROVE  SchemaInv'
  <2>1. DatabaseOK' /\ ServiceOK'
    BY <1>8 DEF DatabaseOK, ServiceOK, Active
  <2>2. \A q \in Process :
          /\ Active(q)' => Sits(q)' /\ (Upgrades(q)' \/ Downgrades(q)')
          /\ Begun(q)' <=> Begun(q)
          /\ Active(q)' <=> Active(q)
    BY <1>8, Undisturbed DEF MigrationsOK
  <2> QED BY <1>8, <2>1, <2>2 DEF MigrationsOK, Process
<1>9. CASE GunicornDies \/ ComposeUp
  <2>1. /\ db' = db /\ alembic' = alembic /\ manual' = manual /\ service' = "starting"
        /\ service = "serving" \/ ~ Active("operator")
    BY <1>9 DEF GunicornDies, ComposeUp
  <2>2. DatabaseOK' /\ ServiceOK'
    BY <2>1 DEF DatabaseOK, ServiceOK
  <2>3. \A q \in Process : Active(q) => ~ Downgrades(q)
    BY <2>1 DEF Downgrades
  <2>4. ASSUME NEW q \in Process
        PROVE  /\ Active(q)' => Sits(q)' /\ Upgrades(q)'
               /\ Begun(q)' <=> Begun(q)
               /\ Active(q)' <=> Active(q)
    <3>1. Active(q) => Sits(q) /\ Upgrades(q)
      BY <2>3 DEF MigrationsOK
    <3>2. alembic'[q] = alembic[q]
      BY <2>1
    <3> QED BY <2>1, <3>1, <3>2, Undisturbed
  <2>5. MigrationsOK'
    BY <2>1, <2>4 DEF MigrationsOK, Process
  <2> QED BY <2>2, <2>5
<1>10. CASE ComposeDown
  <2> DEFINE p == "container"
  <2>1. /\ p \in Process /\ db' = db /\ service' = "stopped" /\ service # "stopped"
        /\ manual < MaxManual /\ manual' = manual + 1
        /\ alembic' = [alembic EXCEPT ![p] = NoMigration]
    BY <1>10 DEF ComposeDown, Process
  <2>2. /\ alembic' \in [Process -> Migration] /\ ~ Active(p)' /\ ~ Begun(p)'
        /\ \A q \in Process \ {p} : alembic'[q] = alembic[q]
    BY <1>1, <2>1, NoMigrationIs DEF Active, Begun
  <2>3. DatabaseOK' /\ ServiceOK'
    BY <2>1, <2>2 DEF DatabaseOK, ServiceOK
  <2>4. \A q \in Process : ~ Downgrades(q)
    BY <2>1 DEF Downgrades
  <2>5. \A q \in Process : /\ Active(q)' => Sits(q)' /\ Upgrades(q)'
                           /\ Begun(q)' => Begun(q)
    <3>1. ASSUME NEW q \in Process, q # p
          PROVE  (Active(q)' => Sits(q)' /\ Upgrades(q)') /\ (Begun(q)' => Begun(q))
      BY <2>1, <2>2, <2>4, <3>1, Undisturbed DEF MigrationsOK
    <3> QED BY <2>2, <3>1
  <2>6. manual' \in 0 .. MaxManual /\ manual' # 0
    BY <2>1, BoundsAssumption DEF MigrationsOK
  <2>7. MigrationsOK'
    BY <2>2, <2>5, <2>6 DEF MigrationsOK
  <2> QED BY <2>3, <2>7
<1>11. CASE UpgradeByHand
  <2>1. HeadVersion = 5 /\ HeadVersion \in Version
    BY RevisionsAre DEF Version
  <2> QED BY <1>6, <1>11, <2>1 DEF UpgradeByHand
<1>12. CASE DowngradeByHand
  <2>1. PICK k \in 0 .. db.version - 1 : Operate(k)
    BY <1>12 DEF DowngradeByHand
  <2>2. k \in Version /\ k < db.version
    BY <1>1 DEF DatabaseOK, Version
  <2> QED BY <1>6, <1>12, <2>1, <2>2 DEF DowngradeByHand
<1>13. ASSUME NEW p \in Process, MigrationFails(p) \/ ProcessDies(p)
       PROVE  SchemaInv'
  <2>1. /\ db' = db /\ service' = service /\ manual' = manual
        /\ alembic' = [alembic EXCEPT ![p] = NoMigration]
    BY <1>13 DEF MigrationFails, ProcessDies, RolledBack, AfterFailure, seedVars
  <2> QED BY <1>4, <2>1
<1>14. CASE (\E s \in Seeder : SeedStarts(s) \/ SeedStep(s) \/ SeedDies(s)) \/ OwnProduct
  <2>1. UNCHANGED migrationVars
    BY <1>14 DEF SeedStarts, SeedStep, CheckRow, InsertRow, InsertImages, SeedDies, OwnProduct
  <2> QED BY <1>8, <2>1 DEF migrationVars
<1>15. CASE UNCHANGED vars
  BY <1>8, <1>15 DEF vars, migrationVars
<1> QED BY <1>3, <1>5, <1>7, <1>9, <1>10, <1>11, <1>12, <1>13, <1>14, <1>15 DEF Next, MigrationStep

\* Whatever runs, dies or is undone: the committed schema is that of its version,
\* and each migration's is that of the names it has got to.
THEOREM SchemaHolds == Spec => []SchemaInv
BY InitSchema, NextSchema, PTL DEF Spec

-----------------------------------------------------------------------------
(* The inductive invariant: the rows.                                      *)

Entries == 1 .. 6
Present(i) == SeedPlan[i].key \in rows[SeedPlan[i].table]
Illustrated(i) ==
  \/ SeedPlan[i].key \in rows["product_images"]
  \/ \E o \in Seeder : Working(o, "images") /\ seeder[o].at = i
  \/ SeedPlan[i].key \in cut

Housed == \A t \in SeededTable \ DOMAIN db.tables : rows[t] = {}
Complete ==
  \A i \in DOMAIN PRODUCTS : PRODUCTS[i].key \in rows["products"] =>
    /\ PRODUCTS[i].skus \subseteq rows["product_variants"]
    /\ PRODUCTS[i].category \in rows["categories"]
    /\ PRODUCTS[i].brand \in rows["brands"]
Pictured == \A i \in Entries : (SeedPlan[i].table = "products" /\ Present(i)) => Illustrated(i)

RowsOK ==
  /\ DOMAIN rows = SeededTable /\ crashes \in 0 .. MaxCrashes
  /\ Housed /\ Complete /\ Pictured

Run == [pc : {"idle", "running", "done", "failed"}, at : Entries,
        step : {"check", "insert", "images"}]

\* A run has what it has passed.
Orderly(run) ==
  /\ run.pc = "idle" => run = NotSeeding
  /\ run.pc = "running" =>
       /\ ~ DowngradeRuns
       /\ \A i \in 1 .. run.at - 1 : Present(i)
       /\ run.step = "images" => (Present(run.at) /\ SeedPlan[run.at].table = "products")

SeedersOK ==
  /\ seeder \in [Seeder -> Run]
  /\ \A s \in Seeder : Orderly(seeder[s])

SeedInv == RowsOK /\ SeedersOK

-----------------------------------------------------------------------------
(* Every step keeps the rows together.                                     *)

LEMMA PlanIs ==
  /\ Len(SeedPlan) = 6 /\ DOMAIN SeedPlan = Entries
  /\ SeedPlan[1] = Row("users", "admin") /\ SeedPlan[2] = Row("categories", "men")
  /\ SeedPlan[3] = Row("brands", "levis") /\ SeedPlan[6] = Row("coupons", "WELCOME10")
  /\ SeedPlan[4] = PRODUCTS[1] /\ SeedPlan[5] = PRODUCTS[2]
BY DEF SeedPlan, CATEGORY_NAMES, BRAND_NAMES, COUPONS, Entries

LEMMA ProductsAre ==
  /\ DOMAIN PRODUCTS = {1, 2}
  /\ \A i \in {1, 2} : /\ PRODUCTS[i].table = "products"
                       /\ PRODUCTS[i].category = "men" /\ PRODUCTS[i].brand = "levis"
  /\ PRODUCTS[1].key = "jeans" /\ PRODUCTS[2].key = "belt"
BY DEF PRODUCTS, Entry

\* What the list holds, entry by entry.
LEMMA EntriesAre ==
  /\ \A i \in Entries : /\ SeedPlan[i].table \in SeededTable
                        /\ SeedPlan[i].table # "product_variants"
                        /\ SeedPlan[i].table # "product_images"
                        /\ SeedPlan[i].table = "products" <=> i \in {4, 5}
  /\ \A i \in Entries : i \notin {4, 5} => SeedPlan[i].skus = {}
  /\ SeedPlan[2].key = "men" /\ SeedPlan[2].table = "categories"
  /\ SeedPlan[3].key = "levis" /\ SeedPlan[3].table = "brands"
  /\ SeedPlan[4].key = "jeans" /\ SeedPlan[5].key = "belt"
<1>1. \A i \in Entries : i \in {1, 2, 3, 4, 5, 6}
  BY DEF Entries
<1>2. /\ SeedPlan[1].table = "users" /\ SeedPlan[1].skus = {}
      /\ SeedPlan[2].table = "categories" /\ SeedPlan[2].skus = {} /\ SeedPlan[2].key = "men"
      /\ SeedPlan[3].table = "brands" /\ SeedPlan[3].skus = {} /\ SeedPlan[3].key = "levis"
      /\ SeedPlan[6].table = "coupons" /\ SeedPlan[6].skus = {}
  BY PlanIs DEF Row
<1>3. /\ SeedPlan[4].table = "products" /\ SeedPlan[4].key = "jeans"
      /\ SeedPlan[5].table = "products" /\ SeedPlan[5].key = "belt"
  BY PlanIs, ProductsAre
<1> QED BY <1>1, <1>2, <1>3 DEF SeededTable

\* The tables of the catalogue come and go together, and the newest version
\* has every table that is seeded.
LEMMA TablesTogether ==
  ASSUME NEW v \in Version, NEW tables, tables = Prefix(Reached(v)).tables
  PROVE  /\ "products" \in DOMAIN tables =>
              {"categories", "brands", "product_variants", "product_images"} \subseteq DOMAIN tables
         /\ v = 5 => SeededTable \subseteq DOMAIN tables
<1>1. DOMAIN tables = TablesTo(Reached(v))
  BY PrefixIs
<1>2. /\ Place["categories"] = 5 /\ Place["brands"] = 6 /\ Place["products"] = 7
      /\ Place["product_variants"] = 8 /\ Place["product_images"] = 9 /\ Place["users"] = 2
      /\ Place["coupons"] = 14
  BY DEF Place
<1>3. Reached(v) \in {0, 3, 9, 16, 18, 25} /\ (v = 5 => Reached(v) = 25)
  BY ReachedIs DEF Version
<1> QED BY <1>1, <1>2, <1>3, TableNames DEF TablesTo, SeededTable

LEMMA InitSeed == Init => SeedInv
<1> SUFFICES ASSUME Init PROVE SeedInv
  OBVIOUS
<1>1. RowsOK
  BY BoundsAssumption, EntriesAre, ProductsAre
     DEF Init, RowsOK, Housed, Complete, Pictured, Present, SeededTable
<1>2. SeedersOK
  <2>1. NotSeeding \in Run /\ Orderly(NotSeeding)
    BY DEF NotSeeding, Run, Entries, Orderly
  <2> QED BY <2>1 DEF Init, SeedersOK
<1> QED BY <1>1, <1>2 DEF SeedInv

LEMMA PresentStays ==
  ASSUME \A t \in SeededTable : rows[t] \subseteq rows'[t]
  PROVE  \A i \in Entries : Present(i) => Present(i)'
BY EntriesAre DEF Present

\* One run moves on, and no row is lost.
LEMMA RunMoves ==
  ASSUME SeedersOK, NEW s \in Seeder, NEW new \in Run,
         alembic' = alembic, seeder' = [seeder EXCEPT ![s] = new],
         \A t \in SeededTable : rows[t] \subseteq rows'[t],
         Orderly(new)'
  PROVE  SeedersOK'
<1>1. \A i \in Entries : Present(i) => Present(i)'
  BY PresentStays
<1>2. DowngradeRuns' <=> DowngradeRuns
  BY DEF DowngradeRuns, Active
<1>3. seeder' \in [Seeder -> Run] /\ seeder'[s] = new
  BY DEF SeedersOK
<1>4. ASSUME NEW run \in Run, Orderly(run) PROVE Orderly(run)'
  <2>1. run.at \in Entries /\ \A i \in 1 .. run.at - 1 : i \in Entries
    BY DEF Run, Entries
  <2> QED BY <1>1, <1>2, <1>4, <2>1 DEF Orderly
<1>5. ASSUME NEW o \in Seeder PROVE Orderly(seeder[o])'
  <2>1. PICK run \in Run : run = seeder[o] /\ Orderly(run)
    BY DEF SeedersOK
  <2>2. PICK next : next = seeder'[o]
    OBVIOUS
  <2>3. Orderly(next)'
    BY <1>3, <1>4, <2>1, <2>2 DEF SeedersOK
  <2> QED BY <2>2, <2>3
<1> QED BY <1>3, <1>5 DEF SeedersOK

\* The next entry of the list, or the end of it.
LEMMA NextRowIs ==
  ASSUME SeedersOK, NEW s \in Seeder, seeder[s].pc = "running"
  PROVE  \E new \in Run :
           /\ NextRow(s) = [seeder EXCEPT ![s] = new]
           /\ \/ new.pc = "done" /\ seeder[s].at = 6
              \/ /\ new.pc = "running" /\ new.at = seeder[s].at + 1 /\ new.step = "check"
                 /\ seeder[s].at \in 1 .. 5
<1>1. PICK run \in Run : run = seeder[s]
  BY DEF SeedersOK
<1>2. Len(SeedPlan) = 6 /\ run.at \in 1 .. 6 /\ run.pc = "running"
  BY <1>1, PlanIs DEF Run, Entries
<1>3. CASE run.at = 6
  <2>1. PICK new : new = [run EXCEPT !.pc = "done"]
    OBVIOUS
  <2>2. NextRow(s) = [seeder EXCEPT ![s] = new]
    BY <1>1, <1>2, <1>3, <2>1 DEF NextRow, SeedersOK
  <2>3. new \in Run /\ new.pc = "done"
    BY <2>1 DEF Run
  <2> QED BY <1>1, <1>3, <2>2, <2>3
<1>4. CASE run.at # 6
  <2>1. PICK at \in Entries : at = run.at + 1
    BY <1>2, <1>4 DEF Entries
  <2>2. PICK new : new = [run EXCEPT !.at = at, !.step = "check"]
    OBVIOUS
  <2>3. NextRow(s) = [seeder EXCEPT ![s] = new]
    BY <1>1, <1>2, <1>4, <2>1, <2>2 DEF NextRow, SeedersOK
  <2>4. new \in Run /\ new.pc = "running" /\ new.at = at /\ new.step = "check"
    BY <1>2, <2>2 DEF Run
  <2>5. run.at \in 1 .. 5
    BY <1>2, <1>4
  <2> QED BY <1>1, <2>1, <2>3, <2>4, <2>5
<1> QED BY <1>3, <1>4

LEMMA FailsIs ==
  ASSUME SeedersOK, NEW s \in Seeder
  PROVE  \E new \in Run : Fails(s) = [seeder EXCEPT ![s] = new] /\ new.pc = "failed"
<1>1. PICK run \in Run : run = seeder[s]
  BY DEF SeedersOK
<1>2. PICK new : new = [run EXCEPT !.pc = "failed"]
  OBVIOUS
<1>3. new \in Run /\ new.pc = "failed"
  BY <1>2 DEF Run
<1>4. Fails(s) = [seeder EXCEPT ![s] = new]
  BY <1>1, <1>2 DEF Fails, SeedersOK
<1> QED BY <1>3, <1>4

\* What a commit does to the rows.  An upgrade keeps them all; a downgrade has
\* no run of seed.py beside it, and takes a product with all that belongs to it.
LEMMA CommitKeepsRows ==
  ASSUME SchemaInv, SeedInv, NEW p \in Process, CommitMigration(p)
  PROVE  SeedInv'
<1>1. /\ Active(p) /\ db'.version = alembic[p].to /\ db'.tables = View(p).tables
      /\ alembic[p].to \in Version
      /\ alembic[p].to = 5 \/ Downgrades(p)
  BY CommitIs
<1>2. /\ seeder' = seeder /\ crashes' = crashes
      /\ "products" \in DOMAIN db'.tables => cut' = cut
      /\ rows' = [t \in DOMAIN rows |-> IF t \in DOMAIN db'.tables THEN rows[t] ELSE {}]
  BY <1>1 DEF CommitMigration, Surviving
<1>3. DOMAIN rows = SeededTable /\ RowsOK /\ SeedersOK
  BY DEF SeedInv, RowsOK
<1>4. /\ DOMAIN rows' = SeededTable
      /\ \A t \in SeededTable : rows'[t] = IF t \in DOMAIN db'.tables THEN rows[t] ELSE {}
  BY <1>2, <1>3
<1>5. /\ "products" \in DOMAIN db'.tables =>
           {"categories", "brands", "product_variants", "product_images"} \subseteq DOMAIN db'.tables
      /\ db'.version = 5 => SeededTable \subseteq DOMAIN db'.tables
  <2>1. PICK tables : tables = db'.tables /\ tables = Prefix(Reached(alembic[p].to)).tables
    BY <1>1, CommitIs
  <2> QED BY <1>1, <2>1, TablesTogether
<1>6. CASE alembic[p].to = 5
  <2>1. \A t \in SeededTable : rows'[t] = rows[t]
    BY <1>1, <1>4, <1>5, <1>6
  <2>2. \A i \in Entries : Present(i)' <=> Present(i)
    BY <2>1, EntriesAre DEF Present
  <2>3. Housed' /\ Complete'
    <3>1. Complete
      BY <1>3 DEF RowsOK
    <3>2. {"products", "product_variants", "categories", "brands"} \subseteq SeededTable
      BY DEF SeededTable
    <3> QED BY <1>1, <1>5, <1>6, <2>1, <3>1, <3>2 DEF Housed, Complete
  <2>4. Pictured'
    <3>1. \A i \in Entries : Illustrated(i) => Illustrated(i)'
      BY <1>1, <1>2, <1>5, <1>6, <2>1 DEF Illustrated, Working, SeededTable
    <3> QED BY <1>3, <2>2, <3>1 DEF RowsOK, Pictured
  <2>5. SeedersOK'
    <3>1. DowngradeRuns' => DowngradeRuns
      BY <1>1, <1>6, RevisionsAre DEF DowngradeRuns, Active, CommitMigration, SchemaInv, MigrationsOK,
         NoMigration, Process
    <3>2. ASSUME NEW run \in Run, Orderly(run) PROVE Orderly(run)'
      <4>1. run.at \in Entries /\ \A i \in 1 .. run.at - 1 : i \in Entries
        BY DEF Run, Entries
      <4> QED BY <1>2, <2>2, <3>1, <3>2, <4>1 DEF Orderly
    <3>3. ASSUME NEW s \in Seeder PROVE Orderly(seeder[s])'
      <4>1. PICK run \in Run : run = seeder[s] /\ run = seeder'[s] /\ Orderly(run)
        BY <1>2, <1>3 DEF SeedersOK
      <4> QED BY <3>2, <4>1
    <3> QED BY <1>2, <1>3, <3>3 DEF SeedersOK
  <2> QED BY <1>2, <1>3, <1>4, <2>3, <2>4, <2>5 DEF SeedInv, RowsOK
<1>7. CASE Downgrades(p) /\ alembic[p].to # 5
  <2>1. DowngradeRuns
    BY <1>1, <1>7, RevisionsAre DEF Downgrades, DowngradeRuns, SchemaInv, MigrationsOK
  <2>2. \A s \in Seeder : seeder[s].pc # "running"
    BY <1>3, <2>1 DEF SeedersOK, Orderly
  <2>3. Housed'
    BY <1>4 DEF Housed
  <2>4. Complete'
    <3>1. Complete
      BY <1>3 DEF RowsOK
    <3>2. {"products", "product_variants", "categories", "brands"} \subseteq SeededTable
      BY DEF SeededTable
    <3>3. CASE "products" \in DOMAIN db'.tables
      BY <1>4, <1>5, <3>1, <3>2, <3>3 DEF Complete
    <3>4. CASE "products" \notin DOMAIN db'.tables
      BY <1>4, <3>2, <3>4 DEF Complete
    <3> QED BY <3>3, <3>4
  <2>5. Pictured'
    <3>1. ASSUME NEW i \in Entries, SeedPlan[i].table = "products", Present(i)'
          PROVE  Illustrated(i)'
      <4>1. "products" \in DOMAIN db'.tables /\ Present(i)
        BY <1>4, <3>1 DEF Present, SeededTable
      <4>2. rows'["product_images"] = rows["product_images"]
        BY <1>4, <1>5, <4>1 DEF SeededTable
      <4>3. Illustrated(i)
        BY <1>3, <3>1, <4>1 DEF RowsOK, Pictured
      <4> QED BY <1>2, <4>1, <4>2, <4>3 DEF Illustrated, Working
    <3> QED BY <3>1 DEF Pictured
  <2>6. SeedersOK'
    <3>1. ASSUME NEW s \in Seeder PROVE Orderly(seeder[s])'
      <4>1. PICK run \in Run : run = seeder[s] /\ run = seeder'[s] /\ Orderly(run)
        BY <1>2, <1>3 DEF SeedersOK
      <4>2. run.pc # "running"
        BY <2>2, <4>1
      <4>3. Orderly(run)'
        BY <4>1, <4>2 DEF Orderly
      <4> QED BY <4>1, <4>3
    <3> QED BY <1>2, <1>3, <3>1 DEF SeedersOK
  <2> QED BY <1>2, <1>3, <1>4, <2>3, <2>4, <2>5, <2>6 DEF SeedInv, RowsOK
<1> QED BY <1>1, <1>6, <1>7

\* A step that leaves rows and runs alone: if a downgrade begins, no run of
\* seed.py is under way.
LEMMA RowsUntouched ==
  ASSUME SeedInv, db' = db, rows' = rows, seeder' = seeder, cut' = cut,
         crashes' \in crashes .. MaxCrashes,
         DowngradeRuns' => DowngradeRuns \/ \A s \in Seeder : seeder[s].pc # "running"
  PROVE  SeedInv'
<1>1. RowsOK'
  <2>1. crashes \in 0 .. MaxCrashes
    BY DEF SeedInv, RowsOK
  <2>2. \A i \in Entries : Illustrated(i) => Illustrated(i)'
    BY <2>1 DEF Illustrated, Working
  <2>3. \A i \in Entries : Present(i)' <=> Present(i)
    BY DEF Present
  <2>4. Pictured'
    BY <2>2, <2>3 DEF SeedInv, RowsOK, Pictured
  <2> QED BY <2>1, <2>4, BoundsAssumption DEF SeedInv, RowsOK, Housed, Complete
<1>2. SeedersOK'
  <2>1. ASSUME NEW s \in Seeder PROVE Orderly(seeder[s])'
    <3>1. PICK run \in Run : run = seeder[s] /\ run = seeder'[s] /\ Orderly(run)
      BY DEF SeedInv, SeedersOK
    <3>2. \A i \in Nat : Present(i)' <=> Present(i)
      BY DEF Present
    <3>3. run.pc = "running" => ~ DowngradeRuns'
      BY <3>1 DEF Orderly
    <3>4. Orderly(run)'
      BY <3>1, <3>2, <3>3 DEF Orderly, Run, Entries
    <3> QED BY <3>1, <3>4
  <2> QED BY <2>1 DEF SeedInv, SeedersOK
<1> QED BY <1>1, <1>2 DEF SeedInv

\* An existing row is passed by only if it is there.
LEMMA CheckKeepsRows ==
  ASSUME SeedInv, NEW s \in Seeder, CheckRow(s)
  PROVE  SeedInv'
<1>1. /\ seeder[s].pc = "running" /\ seeder[s].step = "check"
      /\ db' = db /\ alembic' = alembic /\ rows' = rows /\ cut' = cut /\ crashes' = crashes
      /\ SeedersOK /\ RowsOK
  BY DEF CheckRow, Working, migrationVars, SeedInv
<1>2. PICK run \in Run : run = seeder[s] /\ Orderly(run)
  BY <1>1 DEF SeedersOK
<1>3. PICK new \in Run : seeder' = [seeder EXCEPT ![s] = new] /\ Orderly(new)' /\ new.pc # "idle"
  <2>1. /\ ~ DowngradeRuns' /\ \A i \in 1 .. run.at - 1 : Present(i)'
        /\ \A i \in Nat : Present(i)' <=> Present(i)
    BY <1>1, <1>2 DEF Orderly, DowngradeRuns, Active, Present, Run, Entries
  <2>2. CASE seeder' = Fails(s)
    <3>1. PICK new \in Run : seeder' = [seeder EXCEPT ![s] = new] /\ new.pc = "failed"
      BY <1>1, <2>2, FailsIs
    <3> QED BY <3>1 DEF Orderly
  <2>3. CASE Present(run.at) /\ seeder' = NextRow(s)
    <3>1. PICK new \in Run :
            /\ seeder' = [seeder EXCEPT ![s] = new]
            /\ \/ new.pc = "done" /\ run.at = 6
               \/ /\ new.pc = "running" /\ new.at = run.at + 1 /\ new.step = "check"
                  /\ run.at \in 1 .. 5
      BY <1>1, <1>2, <2>3, NextRowIs
    <3>2. \A i \in 1 .. run.at : Present(i)'
      BY <2>1, <2>3 DEF Run, Entries
    <3>3. Orderly(new)'
      BY <2>1, <3>1, <3>2 DEF Orderly, Entries
    <3> QED BY <3>1, <3>3
  <2>4. CASE seeder' = [seeder EXCEPT ![s].step = "insert"]
    <3>1. PICK new : new = [run EXCEPT !.step = "insert"]
      OBVIOUS
    <3>2. new \in Run /\ new.pc = "running" /\ new.at = run.at /\ new.step = "insert"
      BY <1>1, <1>2, <3>1 DEF Run
    <3>3. seeder' = [seeder EXCEPT ![s] = new]
      BY <1>1, <1>2, <2>4, <3>1 DEF SeedersOK
    <3>4. Orderly(new)'
      BY <2>1, <3>2 DEF Orderly
    <3> QED BY <3>2, <3>3, <3>4
  <2>5. Current(s) = SeedPlan[run.at]
    BY <1>2 DEF Current
  <2> QED BY <2>2, <2>3, <2>4, <2>5 DEF CheckRow, Present
<1>4. SeedersOK'
  BY <1>1, <1>3, RunMoves
<1>5. RowsOK'
  <2>1. ASSUME NEW o \in Seeder, Working(o, "images") PROVE seeder'[o] = seeder[o]
    BY <1>1, <1>3, <2>1 DEF Working, SeedersOK
  <2>2. \A i \in Entries : Illustrated(i) => Illustrated(i)'
    BY <1>1, <2>1 DEF Illustrated, Working
  <2>3. Pictured'
    BY <1>1, <2>2 DEF RowsOK, Pictured, Present
  <2> QED BY <1>1, <2>3 DEF RowsOK, Housed, Complete
<1> QED BY <1>4, <1>5 DEF SeedInv

\* A row goes in when its category and its brand are there, and a product with
\* its variants and with its images still to come.
LEMMA InsertKeepsRows ==
  ASSUME SchemaInv, SeedInv, NEW s \in Seeder, InsertRow(s)
  PROVE  SeedInv'
<1>1. /\ seeder[s].pc = "running" /\ seeder[s].step = "insert"
      /\ db' = db /\ alembic' = alembic /\ cut' = cut /\ crashes' = crashes
      /\ SeedersOK /\ RowsOK
  BY DEF InsertRow, Working, migrationVars, SeedInv
<1>2. PICK run \in Run : run = seeder[s] /\ Orderly(run)
  BY <1>1 DEF SeedersOK
<1>3. /\ run.pc = "running" /\ run.at \in Entries /\ ~ DowngradeRuns'
      /\ \A i \in 1 .. run.at - 1 : Present(i)
  BY <1>1, <1>2 DEF Orderly, DowngradeRuns, Active, Run
<1>4. PICK e : e = SeedPlan[run.at] /\ e = Current(s)
  BY <1>2 DEF Current
<1>5. ASSUME NEW o \in Seeder, Working(o, "images")
      PROVE  o # s
  BY <1>1, <1>5 DEF Working
<1>6. CASE seeder' = Fails(s) /\ UNCHANGED rows
  <2>1. PICK new \in Run : seeder' = [seeder EXCEPT ![s] = new] /\ new.pc = "failed"
    BY <1>1, <1>6, FailsIs
  <2>2. Orderly(new)'
    BY <2>1 DEF Orderly
  <2>3. SeedersOK'
    BY <1>1, <1>6, <2>1, <2>2, RunMoves
  <2>4. ASSUME NEW o \in Seeder, Working(o, "images") PROVE seeder'[o] = seeder[o]
    BY <1>1, <1>5, <2>1, <2>4 DEF SeedersOK
  <2>5. \A i \in Entries : Illustrated(i) => Illustrated(i)'
    BY <1>1, <1>6, <2>4 DEF Illustrated, Working
  <2>6. Pictured'
    BY <1>1, <1>6, <2>5 DEF RowsOK, Pictured, Present
  <2> QED BY <1>1, <1>6, <2>3, <2>6 DEF SeedInv, RowsOK, Housed, Complete
<1>7. CASE /\ e.table \in DOMAIN db.tables /\ rows' = Inserted(e)
           /\ seeder' = IF e.table = "products" THEN [seeder EXCEPT ![s].step = "images"]
                        ELSE NextRow(s)
  <2>1. /\ e.table \in SeededTable /\ e.table # "product_variants" /\ e.table # "product_images"
        /\ e.table = "products" <=> run.at \in {4, 5}
        /\ e.table # "products" => e.skus = {}
    BY <1>3, <1>4, EntriesAre
  <2>2. /\ DOMAIN rows' = SeededTable
        /\ rows'[e.table] = rows[e.table] \cup {e.key}
        /\ rows'["product_variants"] = rows["product_variants"] \cup e.skus
        /\ \A t \in SeededTable \ {e.table, "product_variants"} : rows'[t] = rows[t]
    BY <1>1, <1>7, <2>1 DEF Inserted, RowsOK, SeededTable
  <2>3. \A t \in SeededTable : rows[t] \subseteq rows'[t]
    BY <2>1, <2>2
  <2>4. \A i \in Entries : Present(i) => Present(i)'
    BY <2>3, PresentStays
  <2>5. Present(run.at)'
    BY <1>4, <2>2 DEF Present
  <2>6. \A i \in 1 .. run.at : Present(i)'
    BY <1>3, <2>4, <2>5 DEF Entries
  <2>7. PICK new \in Run :
          /\ seeder' = [seeder EXCEPT ![s] = new] /\ Orderly(new)'
          /\ e.table = "products" => new.pc = "running" /\ new.at = run.at /\ new.step = "images"
    <3>1. CASE e.table = "products"
      <4>1. PICK new : new = [run EXCEPT !.step = "images"]
        OBVIOUS
      <4>2. new \in Run /\ new.pc = "running" /\ new.at = run.at /\ new.step = "images"
        BY <1>3, <4>1 DEF Run
      <4>3. seeder' = [seeder EXCEPT ![s] = new]
        BY <1>1, <1>2, <1>7, <3>1, <4>1 DEF SeedersOK
      <4>4. Present(new.at)' /\ SeedPlan[new.at].table = "products"
        BY <1>4, <2>5, <3>1, <4>2
      <4>5. \A i \in 1 .. new.at - 1 : Present(i)'
        BY <1>3, <2>6, <4>2 DEF Entries
      <4>6. Orderly(new)'
        BY <1>3, <4>2, <4>4, <4>5 DEF Orderly
      <4> QED BY <4>2, <4>3, <4>6
    <3>2. CASE e.table # "products"
      <4>1. PICK new \in Run :
              /\ seeder' = [seeder EXCEPT ![s] = new]
              /\ \/ new.pc = "done" /\ run.at = 6
                 \/ /\ new.pc = "running" /\ new.at = run.at + 1 /\ new.step = "check"
                    /\ run.at \in 1 .. 5
        BY <1>1, <1>2, <1>7, <3>2, NextRowIs
      <4>2. Orderly(new)'
        BY <1>3, <2>6, <4>1 DEF Orderly, Entries
      <4> QED BY <3>2, <4>1, <4>2
    <3> QED BY <3>1, <3>2
  <2>8. SeedersOK'
    BY <1>1, <2>3, <2>7, RunMoves
  <2>9. Housed'
    <3>1. e.table = "products" => "product_variants" \in DOMAIN db.tables
      <4>1. PICK v, tables :
              v \in Version /\ tables = db.tables /\ tables = Prefix(Reached(v)).tables
        BY DEF SchemaInv, DatabaseOK
      <4> QED BY <1>7, <4>1, TablesTogether
    <3> QED BY <1>1, <1>7, <2>1, <2>2, <3>1 DEF RowsOK, Housed
  <2>10. Complete'
    <3>1. ASSUME NEW i \in DOMAIN PRODUCTS, PRODUCTS[i].key \in rows'["products"]
          PROVE  /\ PRODUCTS[i].skus \subseteq rows'["product_variants"]
                 /\ PRODUCTS[i].category \in rows'["categories"]
                 /\ PRODUCTS[i].brand \in rows'["brands"]
      <4>1. CASE PRODUCTS[i].key \in rows["products"]
        BY <1>1, <2>3, <3>1, <4>1 DEF RowsOK, Complete, SeededTable
      <4>2. CASE PRODUCTS[i].key \notin rows["products"]
        <5>1. e.table = "products" /\ PRODUCTS[i].key = e.key /\ run.at \in {4, 5}
          BY <2>1, <2>2, <3>1, <4>2 DEF SeededTable
        <5>2. e = PRODUCTS[i]
          BY <1>4, <3>1, <5>1, PlanIs, ProductsAre
        <5>3. Present(2)' /\ Present(3)'
          BY <2>6, <5>1
        <5>4. "men" \in rows'["categories"] /\ "levis" \in rows'["brands"]
          BY <5>3, EntriesAre DEF Present
        <5> QED BY <2>2, <3>1, <5>2, <5>4, ProductsAre
      <4> QED BY <4>1, <4>2
    <3> QED BY <3>1 DEF Complete
  <2>11. Pictured'
    <3>1. ASSUME NEW i \in Entries, SeedPlan[i].table = "products", Present(i)'
          PROVE  Illustrated(i)'
      <4>1. CASE i = run.at
        <5>1. seeder'[s] = new /\ new.pc = "running" /\ new.at = i /\ new.step = "images"
          BY <1>1, <1>4, <2>7, <3>1, <4>1 DEF SeedersOK
        <5> QED BY <5>1 DEF Illustrated, Working
      <4>2. CASE i # run.at
        <5>1. Present(i)
          <6>1. CASE e.table = "products"
            <7>1. i \in {4, 5} /\ run.at \in {4, 5}
              BY <1>3, <2>1, <3>1, <6>1, EntriesAre
            <7>2. SeedPlan[i].key # e.key
              BY <1>4, <4>2, <7>1, EntriesAre
            <7> QED BY <2>2, <3>1, <6>1, <7>2 DEF Present
          <6>2. CASE e.table # "products"
            <7>1. rows'["products"] = rows["products"]
              BY <2>2, <6>2 DEF SeededTable
            <7> QED BY <3>1, <7>1 DEF Present
          <6> QED BY <6>1, <6>2
        <5>2. Illustrated(i)
          BY <1>1, <3>1, <5>1 DEF RowsOK, Pictured
        <5>3. ASSUME NEW o \in Seeder, Working(o, "images") PROVE seeder'[o] = seeder[o]
          BY <1>1, <1>5, <2>7, <5>3 DEF SeedersOK
        <5>4. rows["product_images"] \subseteq rows'["product_images"]
          BY <2>3 DEF SeededTable
        <5> QED BY <1>1, <5>2, <5>3, <5>4 DEF Illustrated, Working
      <4> QED BY <4>1, <4>2
    <3> QED BY <3>1 DEF Pictured
  <2> QED BY <1>1, <2>2, <2>8, <2>9, <2>10, <2>11 DEF SeedInv, RowsOK
<1> QED BY <1>4, <1>6, <1>7 DEF InsertRow

\* The images of the product that the run is at.
LEMMA ImagesKeepRows ==
  ASSUME SchemaInv, SeedInv, NEW s \in Seeder, InsertImages(s)
  PROVE  SeedInv'
<1>1. /\ seeder[s].pc = "running" /\ seeder[s].step = "images"
      /\ db' = db /\ alembic' = alembic /\ cut' = cut /\ crashes' = crashes
      /\ SeedersOK /\ RowsOK
  BY DEF InsertImages, Working, migrationVars, SeedInv
<1>2. PICK run \in Run : run = seeder[s] /\ Orderly(run)
  BY <1>1 DEF SeedersOK
<1>3. /\ run.pc = "running" /\ run.at \in Entries /\ ~ DowngradeRuns'
      /\ \A i \in 1 .. run.at - 1 : Present(i)
      /\ Present(run.at) /\ SeedPlan[run.at].table = "products"
  BY <1>1, <1>2 DEF Orderly, DowngradeRuns, Active, Run
<1>4. PICK key : key = SeedPlan[run.at].key /\ key = Current(s).key
  BY <1>2 DEF Current
<1>5. /\ DOMAIN rows' = SeededTable
      /\ rows'["product_images"] = rows["product_images"] \cup {key}
      /\ \A t \in SeededTable \ {"product_images"} : rows'[t] = rows[t]
  BY <1>1, <1>4 DEF InsertImages, RowsOK, SeededTable
<1>6. \A t \in SeededTable : rows[t] \subseteq rows'[t]
  BY <1>5
<1>7. \A i \in Entries : Present(i)' <=> Present(i)
  BY <1>5, EntriesAre DEF Present
<1>8. PICK new \in Run :
        /\ seeder' = [seeder EXCEPT ![s] = new]
        /\ \/ new.pc = "done" /\ run.at = 6
           \/ /\ new.pc = "running" /\ new.at = run.at + 1 /\ new.step = "check"
              /\ run.at \in 1 .. 5
  BY <1>1, <1>2, NextRowIs DEF InsertImages
<1>9. SeedersOK'
  <2>1. \A i \in 1 .. run.at : Present(i)'
    BY <1>3, <1>7 DEF Entries
  <2>2. Orderly(new)'
    BY <1>3, <1>8, <2>1 DEF Orderly, Entries
  <2> QED BY <1>1, <1>6, <1>8, <2>2, RunMoves
<1>10. Housed'
  <2>1. PICK v, tables : v \in Version /\ tables = db.tables /\ tables = Prefix(Reached(v)).tables
    BY DEF SchemaInv, DatabaseOK
  <2>2. "products" \in DOMAIN db.tables
    BY <1>1, <1>3 DEF RowsOK, Housed, Present, SeededTable
  <2>3. "product_images" \in DOMAIN db.tables
    BY <2>1, <2>2, TablesTogether
  <2> QED BY <1>1, <1>5, <2>3 DEF RowsOK, Housed
<1>11. Complete'
  BY <1>1, <1>5 DEF RowsOK, Complete, SeededTable
<1>12. Pictured'
  <2>1. ASSUME NEW i \in Entries, SeedPlan[i].table = "products", Present(i)'
        PROVE  Illustrated(i)'
    <3>1. CASE i = run.at
      BY <1>4, <1>5, <3>1 DEF Illustrated
    <3>2. CASE i # run.at
      <4>1. Illustrated(i)
        BY <1>1, <1>7, <2>1 DEF RowsOK, Pictured
      <4>2. ASSUME NEW o \in Seeder, Working(o, "images"), seeder[o].at = i
            PROVE  seeder'[o] = seeder[o]
        BY <1>1, <1>2, <1>8, <3>2, <4>2 DEF SeedersOK
      <4> QED BY <1>1, <1>5, <4>1, <4>2 DEF Illustrated, Working
    <3> QED BY <3>1, <3>2
  <2> QED BY <2>1 DEF Pictured
<1> QED BY <1>1, <1>5, <1>9, <1>10, <1>11, <1>12 DEF SeedInv, RowsOK

\* A run that dies may leave a product without images.
LEMMA DeathKeepsRows ==
  ASSUME SeedInv, NEW s \in Seeder, SeedDies(s)
  PROVE  SeedInv'
<1>1. /\ db' = db /\ alembic' = alembic /\ rows' = rows
      /\ crashes' = crashes + 1 /\ crashes < MaxCrashes /\ seeder' = Fails(s)
      /\ cut' = IF seeder[s].step = "images" THEN cut \cup {Current(s).key} ELSE cut
      /\ SeedersOK /\ RowsOK
  BY DEF SeedDies, migrationVars, SeedInv
<1>2. PICK new \in Run : seeder' = [seeder EXCEPT ![s] = new] /\ new.pc = "failed"
  BY <1>1, FailsIs
<1>3. SeedersOK'
  <2>1. Orderly(new)'
    BY <1>2 DEF Orderly
  <2> QED BY <1>1, <1>2, <2>1, RunMoves
<1>4. crashes' \in 0 .. MaxCrashes
  BY <1>1, BoundsAssumption DEF RowsOK
<1>5. Pictured'
  <2>1. ASSUME NEW i \in Entries, SeedPlan[i].table = "products", Present(i)'
        PROVE  Illustrated(i)'
    <3>1. Illustrated(i)
      BY <1>1, <2>1 DEF RowsOK, Pictured, Present
    <3>2. CASE Working(s, "images") /\ seeder[s].at = i
      BY <1>1, <3>2 DEF Illustrated, Working, Current
    <3>3. CASE ~ (Working(s, "images") /\ seeder[s].at = i)
      <4>1. ASSUME NEW o \in Seeder, Working(o, "images"), seeder[o].at = i
            PROVE  Working(o, "images")' /\ seeder'[o].at = i
        BY <1>1, <1>2, <3>3, <4>1 DEF SeedersOK, Working
      <4> QED BY <1>1, <3>1, <4>1 DEF Illustrated
    <3> QED BY <3>2, <3>3
  <2> QED BY <2>1 DEF Pictured
<1> QED BY <1>1, <1>3, <1>4, <1>5 DEF SeedInv, RowsOK, Housed, Complete

\* A run begins at the first entry, and not beside a downgrade.
LEMMA BeginningKeepsRows ==
  ASSUME SeedInv, NEW s \in Seeder, SeedStarts(s)
  PROVE  SeedInv'
<1>1. /\ db' = db /\ alembic' = alembic /\ rows' = rows /\ cut' = cut /\ crashes' = crashes
      /\ ~ DowngradeRuns /\ seeder[s].pc = "idle" /\ SeedersOK /\ RowsOK
  BY DEF SeedStarts, migrationVars, SeedInv
<1>2. seeder[s] = NotSeeding
  BY <1>1 DEF SeedersOK, Orderly
<1>3. PICK pc \in {"running", "failed"} : seeder' = [seeder EXCEPT ![s].pc = pc]
  BY DEF SeedStarts
<1>4. PICK new : new = [pc |-> pc, at |-> 1, step |-> "check"]
  OBVIOUS
<1>5. new \in Run /\ seeder' = [seeder EXCEPT ![s] = new]
  <2>1. new \in Run
    BY <1>4 DEF Run, Entries
  <2>2. [NotSeeding EXCEPT !.pc = pc] = new
    BY <1>4 DEF NotSeeding
  <2> QED BY <1>1, <1>2, <1>3, <2>1, <2>2 DEF SeedersOK
<1>6. SeedersOK'
  <2>1. ~ DowngradeRuns'
    BY <1>1 DEF DowngradeRuns, Active
  <2>2. Orderly(new)'
    BY <1>4, <2>1 DEF Orderly
  <2> QED BY <1>1, <1>5, <2>2, RunMoves
<1>7. Pictured'
  <2>1. ASSUME NEW o \in Seeder, Working(o, "images") PROVE seeder'[o] = seeder[o]
    BY <1>1, <1>5, <2>1 DEF Working, SeedersOK
  <2>2. \A i \in Entries : Illustrated(i) => Illustrated(i)'
    BY <1>1, <2>1 DEF Illustrated, Working
  <2> QED BY <1>1, <2>2 DEF RowsOK, Pictured, Present
<1> QED BY <1>1, <1>6, <1>7 DEF SeedInv, RowsOK, Housed, Complete

\* An administrator's product is none of the list's.
LEMMA OwnKeepsRows ==
  ASSUME SchemaInv, SeedInv, OwnProduct
  PROVE  SeedInv'
<1>1. /\ db' = db /\ alembic' = alembic /\ seeder' = seeder /\ cut' = cut
      /\ crashes' = crashes /\ service = "serving" /\ SeedersOK /\ RowsOK
  BY DEF OwnProduct, migrationVars, SeedInv
<1>2. PICK sku : rows' = [rows EXCEPT !["products"] = @ \cup {"own"},
                                      !["product_variants"] = @ \cup {sku}]
  BY DEF OwnProduct
<1>3. /\ DOMAIN rows' = SeededTable
      /\ rows'["products"] = rows["products"] \cup {"own"}
      /\ \A t \in SeededTable \ {"products", "product_variants"} : rows'[t] = rows[t]
      /\ \A t \in SeededTable : rows[t] \subseteq rows'[t]
  BY <1>1, <1>2 DEF RowsOK, SeededTable
<1>4. \A i \in Entries : Present(i) => Present(i)'
  BY <1>3, PresentStays
<1>5. SeedersOK'
  <2>1. ASSUME NEW s \in Seeder PROVE Orderly(seeder[s])'
    <3>1. PICK run \in Run : run = seeder[s] /\ run = seeder'[s] /\ Orderly(run)
      BY <1>1 DEF SeedersOK
    <3>2. run.at \in Entries /\ \A i \in 1 .. run.at - 1 : i \in Entries
      BY DEF Run, Entries
    <3>3. DowngradeRuns' <=> DowngradeRuns
      BY <1>1 DEF DowngradeRuns, Active
    <3>4. Orderly(run)'
      BY <1>1, <1>4, <3>1, <3>2, <3>3 DEF Orderly
    <3> QED BY <3>1, <3>4
  <2> QED BY <1>1, <2>1 DEF SeedersOK
<1>6. Housed'
  <2>1. PICK v, tables : /\ v \in Version /\ v = 5 /\ tables = db.tables
                         /\ tables = Prefix(Reached(v)).tables
    BY <1>1 DEF SchemaInv, DatabaseOK, ServiceOK
  <2>2. SeededTable \subseteq DOMAIN db.tables
    BY <2>1, TablesTogether
  <2> QED BY <1>1, <2>2 DEF Housed
<1>7. Complete'
  <2>1. \A i \in DOMAIN PRODUCTS : PRODUCTS[i].key # "own"
    BY ProductsAre
  <2>2. \A i \in DOMAIN PRODUCTS : PRODUCTS[i].key \in rows'["products"]
                                     => PRODUCTS[i].key \in rows["products"]
    BY <1>3, <2>1
  <2>3. {"product_variants", "categories", "brands"} \subseteq SeededTable
    BY DEF SeededTable
  <2> QED BY <1>1, <1>3, <2>2, <2>3 DEF RowsOK, Complete
<1>8. Pictured'
  <2>1. ASSUME NEW i \in Entries, SeedPlan[i].table = "products", Present(i)'
        PROVE  Illustrated(i)'
    <3>1. SeedPlan[i].key # "own"
      BY <2>1, EntriesAre
    <3>2. Illustrated(i)
      BY <1>1, <1>3, <2>1, <3>1 DEF RowsOK, Pictured, Present
    <3>3. rows["product_images"] \subseteq rows'["product_images"]
      BY <1>3 DEF SeededTable
    <3> QED BY <1>1, <3>2, <3>3 DEF Illustrated, Working
  <2> QED BY <2>1 DEF Pictured
<1> QED BY <1>1, <1>3, <1>5, <1>6, <1>7, <1>8 DEF SeedInv, RowsOK

LEMMA NextSeed == SchemaInv /\ SeedInv /\ [Next]_vars => SeedInv'
<1> SUFFICES ASSUME SchemaInv, SeedInv, [Next]_vars PROVE SeedInv'
  OBVIOUS
<1>1. crashes \in 0 .. MaxCrashes /\ manual \in 0 .. MaxManual /\ DOMAIN alembic = Process
  BY DEF SeedInv, RowsOK, SchemaInv, MigrationsOK
<1>2. \A p \in Process : Active(p) /\ alembic[p].to # 5 => p = "operator"
  BY DEF SchemaInv, MigrationsOK, Upgrades, Downgrades
<1>3. ASSUME NEW p \in Process, Statement(p) PROVE SeedInv'
  <2>1. PICK next : alembic' = [alembic EXCEPT ![p] = next] /\ alembic'[p].to = alembic[p].to
    BY <1>3, StatementAdvances DEF Statement
  <2>2. DowngradeRuns' => DowngradeRuns
    BY <1>1, <1>3, <2>1 DEF DowngradeRuns, Active, Statement, Pending, Process
  <2> QED BY <1>1, <1>3, <2>2, RowsUntouched DEF Statement, seedVars
<1>4. ASSUME NEW p \in Process, MigrationFails(p) \/ ProcessDies(p) PROVE SeedInv'
  <2>1. DowngradeRuns' => DowngradeRuns
    BY <1>1, <1>4 DEF DowngradeRuns, Active, MigrationFails, ProcessDies, NoMigration, Process
  <2>2. crashes' \in crashes .. MaxCrashes
    BY <1>1, <1>4, BoundsAssumption DEF MigrationFails, ProcessDies
  <2> QED BY <1>4, <2>1, <2>2, RowsUntouched DEF MigrationFails, ProcessDies, RolledBack, seedVars
<1>5. ASSUME NEW to \in Version, Operate(to),
             to = 5 \/ \A s \in Seeder : seeder[s].pc # "running"
      PROVE  SeedInv'
  <2>1. DowngradeRuns' => \A s \in Seeder : seeder[s].pc # "running"
    <3>1. alembic'["operator"].to = to
      BY <1>1, <1>5 DEF Operate, Started, Process
    <3> QED BY <1>5, <3>1, RevisionsAre DEF DowngradeRuns
  <2> QED BY <1>1, <1>5, <2>1, RowsUntouched DEF Operate, seedVars
<1>6. CASE UpgradeByHand
  BY <1>5, <1>6, RevisionsAre DEF UpgradeByHand, Version
<1>7. CASE DowngradeByHand
  <2>1. PICK k \in 0 .. db.version - 1 : Operate(k)
    BY <1>7 DEF DowngradeByHand
  <2>2. k \in Version
    BY <2>1 DEF SchemaInv, DatabaseOK, Version
  <2> QED BY <1>5, <1>7, <2>1, <2>2 DEF DowngradeByHand
<1>8. CASE ContainerStarts \/ ComposeDown
  <2>1. DowngradeRuns' => DowngradeRuns
    BY <1>1, <1>8 DEF DowngradeRuns, Active, ContainerStarts, ComposeDown, Process
  <2> QED BY <1>1, <1>8, <2>1, RowsUntouched DEF ContainerStarts, ComposeDown, seedVars
<1>9. CASE GunicornDies \/ ComposeUp \/ UNCHANGED vars
  <2>1. DowngradeRuns' => DowngradeRuns
    BY <1>9 DEF DowngradeRuns, Active, GunicornDies, ComposeUp, vars, migrationVars
  <2>2. crashes' \in crashes .. MaxCrashes
    BY <1>1, <1>9, BoundsAssumption DEF GunicornDies, ComposeUp, vars
  <2> QED BY <1>9, <2>1, <2>2, RowsUntouched
          DEF GunicornDies, ComposeUp, vars, migrationVars, seedVars
<1>10. ASSUME NEW p \in Process, CommitMigration(p) PROVE SeedInv'
  BY <1>10, CommitKeepsRows
<1>11. ASSUME NEW s \in Seeder, SeedStarts(s) \/ SeedStep(s) \/ SeedDies(s) PROVE SeedInv'
  BY <1>11, BeginningKeepsRows, CheckKeepsRows, InsertKeepsRows, ImagesKeepRows, DeathKeepsRows
     DEF SeedStep
<1>12. CASE OwnProduct
  BY <1>12, OwnKeepsRows
<1> QED BY <1>3, <1>4, <1>6, <1>7, <1>8, <1>9, <1>10, <1>11, <1>12 DEF Next, MigrationStep

\* Each run of seed.py has left what it has passed, and whoever runs beside it
\* leaves that alone.
THEOREM SeedHolds == Spec => [](SchemaInv /\ SeedInv)
<1>1. Init => SchemaInv /\ SeedInv
  BY InitSchema, InitSeed
<1>2. (SchemaInv /\ SeedInv) /\ [Next]_vars => (SchemaInv /\ SeedInv)'
  BY NextSchema, NextSeed
<1> QED BY <1>1, <1>2, PTL DEF Spec

-----------------------------------------------------------------------------
(* The theorems.                                                           *)

\* For any number of seed.py runs, deaths and interventions: versions and
\* cursors stay in range, no row outlives its table, and a seeded product
\* always has its variants, its category and its brand (alembic/env.py 56-71,
\* seed.py).
THEOREM DeploymentTypes == Spec => []DeploymentTypeOK
<1>1. SchemaInv /\ SeedInv => DeploymentTypeOK
  <2> SUFFICES ASSUME SchemaInv, SeedInv PROVE DeploymentTypeOK
    OBVIOUS
  <2>1. Version = 0 .. HeadVersion /\ DOMAIN SeedPlan = Entries
    BY RevisionsAre, PlanIs DEF Version
  <2>2. ASSUME NEW p \in Process
        PROVE  /\ alembic[p].pc \in {"idle", "started", "running"}
               /\ alembic[p].version \in 0 .. HeadVersion
               /\ alembic[p].to \in 0 .. HeadVersion
               /\ Pending(p) => alembic[p].at + 1 \in DOMAIN Script(p)
    <3>1. /\ alembic[p].pc \in {"idle", "started", "running"}
          /\ alembic[p].version \in Version /\ alembic[p].to \in Version
      BY MigrationIs DEF SchemaInv
    <3>2. ASSUME Pending(p) PROVE alembic[p].at + 1 \in DOMAIN Script(p)
      <4>1. alembic[p].version < alembic[p].to \/ alembic[p].version > alembic[p].to
        BY <3>1, <3>2 DEF Pending, Version
      <4> QED BY <3>2, <4>1, Ahead, Behind DEF Pending, SchemaInv
    <3> QED BY <2>1, <3>1, <3>2
  <2>3. ASSUME NEW s \in Seeder
        PROVE  /\ seeder[s].pc \in {"idle", "running", "done", "failed"}
               /\ seeder[s].at \in DOMAIN SeedPlan
    BY <2>1 DEF SeedInv, SeedersOK, Run
  <2>4. /\ crashes \in 0 .. MaxCrashes /\ manual \in 0 .. MaxManual
        /\ db.version \in 0 .. HeadVersion /\ service \in {"stopped", "starting", "serving"}
        /\ \A t \in SeededTable \ DOMAIN db.tables : rows[t] = {}
        /\ Complete
    BY <2>1 DEF SchemaInv, DatabaseOK, MigrationsOK, ServiceOK, SeedInv, RowsOK, Housed
  <2> QED BY <2>2, <2>3, <2>4 DEF DeploymentTypeOK, Complete
<1> QED BY <1>1, SeedHolds, PTL

\* Whatever migrations die, fail or run at the same time, and however often the
\* schema goes back and forth: the committed schema is what the models declare
\* of the recorded version (alembic/env.py 56-71 and the five revisions).
THEOREM SchemaMatches == Spec => []SchemaMatchesVersion
<1>1. SchemaInv => SchemaMatchesVersion
  BY DeclaredIs DEF SchemaInv, DatabaseOK, SchemaMatchesVersion
<1> QED BY <1>1, SchemaHolds, PTL

\* No revision, up or down, lacks what it refers to or drops what is referred
\* to: a migration can only fail on a table, or on a type it had looked for too
\* early, that another one created first (the statements of alembic/versions).
THEOREM ScriptsHold == Spec => []ScriptsAreSound
<1>1. ASSUME SchemaInv, NEW p \in Process, Pending(p)
      PROVE  \/ Legal(View(p), NextStatement(p))
             \/ NextStatement(p).do = "create_table" /\ NextStatement(p).name \in DOMAIN db.tables
  <2>1. /\ alembic[p].version \in Version /\ alembic[p].to \in Version
        /\ Active(p) /\ MigrationsOK /\ alembic[p].version # alembic[p].to
        /\ Upgrades(p) \/ Downgrades(p)
    BY <1>1, MigrationIs DEF SchemaInv, MigrationsOK, Pending
  <2>2. PICK st, view : st = NextStatement(p) /\ view = View(p)
    OBVIOUS
  <2>3. CASE alembic[p].version < alembic[p].to
    <3>1. PICK k \in 1 .. Steps : k - 1 = Done(p) /\ Creates(st, k)
      <4>1. Done(p) \in 0 .. Steps - 1 /\ Creates(st, Done(p) + 1)
        BY <2>1, <2>2, <2>3, Ahead
      <4>2. PICK k \in 1 .. Steps : k = Done(p) + 1 /\ k - 1 = Done(p)
        BY <4>1 DEF Steps
      <4> QED BY <4>1, <4>2
    <3>2. CASE Fresh(p)
      BY <2>2, <3>1, <3>2, Climbing DEF Fresh
    <3>3. CASE Stale(p)
      <4>1. view = Prefix(Steps) /\ db.version = 5
        BY <2>2, <3>3 DEF Stale
      <4>2. db.tables = Prefix(Steps).tables
        BY <1>1, <4>1, ReachedIs DEF SchemaInv, DatabaseOK, Steps
      <4>3. st.do = "create_type" \/ st.do = "create_table"
        BY <3>1 DEF Creates
      <4> QED BY <2>2, <3>1, <4>1, <4>2, <4>3, Repeating
    <3> QED BY <2>1, <2>3, <3>2, <3>3 DEF Upgrades, Downgrades, Version
  <2>4. CASE alembic[p].version > alembic[p].to
    <3>1. Fresh(p) /\ Done(p) \in 1 .. Steps /\ Drops(st, Done(p))
      BY <2>1, <2>2, <2>4, Behind DEF Upgrades, Downgrades, Version
    <3> QED BY <2>2, <3>1, Falling DEF Fresh
  <2> QED BY <2>1, <2>3, <2>4 DEF Version
<1>2. SchemaInv => ScriptsAreSound
  BY <1>1 DEF ScriptsAreSound
<1> QED BY <1>2, SchemaHolds, PTL

\* At the newest version the schema is the one the models declare, which the
\* tests, on tables made from the models, never check (app/models,
\* alembic/versions).
THEOREM HeadMatches == Spec => []HeadMatchesModels
<1>1. SchemaInv => HeadMatchesModels
  <2> SUFFICES ASSUME SchemaInv, db.version = 5
               PROVE  db.types = Metadata.types /\ db.tables = Metadata.tables
    BY RevisionsAre DEF HeadMatchesModels
  <2>1. Reached(5) = Steps
    BY ReachedIs DEF Steps
  <2> QED BY <2>1, HeadIs DEF SchemaInv, DatabaseOK
<1> QED BY <1>1, SchemaHolds, PTL

\* The service answers on the newest schema only: "&&" starts gunicorn after a
\* migration that succeeded, and nobody goes back beside it
\* (docker-compose.yml 54-57).
THEOREM ServesCurrent == Spec => []ServesCurrentSchema
<1>1. SchemaInv => ServesCurrentSchema
  BY RevisionsAre DEF SchemaInv, ServiceOK, ServesCurrentSchema
<1> QED BY <1>1, SchemaHolds, PTL

\* A run that ends has every row of the list, and the images of each product
\* or what excuses them.
LEMMA EndOfRun ==
  ASSUME SeedInv, SeedInv', NEW s \in Seeder, SeedStep(s), seeder'[s].pc = "done"
  PROVE  \A i \in Entries : Present(i)'
<1>1. PICK run \in Run : run = seeder[s] /\ Orderly(run) /\ run.pc = "running"
  BY DEF SeedInv, SeedersOK, SeedStep, CheckRow, InsertRow, InsertImages, Working
<1>2. SeedersOK /\ RowsOK /\ \A i \in 1 .. run.at - 1 : Present(i)
  BY <1>1 DEF SeedInv, Orderly
<1>3. ASSUME seeder' = NextRow(s) PROVE run.at = 6
  BY <1>1, <1>2, <1>3, NextRowIs DEF SeedersOK
<1>4. ASSUME seeder' = Fails(s) PROVE FALSE
  BY <1>2, <1>4, FailsIs DEF SeedersOK
<1>5. ASSUME NEW step, seeder' = [seeder EXCEPT ![s].step = step] PROVE FALSE
  BY <1>1, <1>2, <1>5 DEF SeedersOK
<1>6. Current(s) = SeedPlan[run.at]
  BY <1>1 DEF Current
<1>7. CASE CheckRow(s)
  <2>1. seeder' = NextRow(s) /\ Present(run.at) /\ rows' = rows
    BY <1>4, <1>5, <1>6, <1>7 DEF CheckRow, Present
  <2> QED BY <1>2, <1>3, <2>1 DEF Present, Entries
<1>8. CASE InsertRow(s)
  <2>1. seeder' = NextRow(s) /\ rows' = Inserted(SeedPlan[run.at])
    BY <1>4, <1>5, <1>6, <1>8 DEF InsertRow
  <2>2. run.at = 6 /\ 6 \in Entries
    BY <1>3, <2>1 DEF Entries
  <2>3. SeedPlan[6].table \in SeededTable /\ SeedPlan[6].table # "product_variants"
    BY <2>2, EntriesAre
  <2>4. /\ \A t \in SeededTable : rows[t] \subseteq rows'[t]
        /\ SeedPlan[6].key \in rows'[SeedPlan[6].table]
    BY <1>2, <2>1, <2>2, <2>3 DEF Inserted, RowsOK
  <2>5. \A i \in Entries : Present(i) => Present(i)'
    BY <2>4, PresentStays
  <2> QED BY <1>2, <2>2, <2>4, <2>5 DEF Present, Entries
<1>9. CASE InsertImages(s)
  <2>1. run.at = 6 /\ run.step = "images"
    BY <1>1, <1>3, <1>9 DEF InsertImages, Working
  <2>2. SeedPlan[6].table = "products"
    BY <1>1, <2>1 DEF Orderly
  <2> QED BY <2>2, EntriesAre DEF Entries
<1> QED BY <1>7, <1>8, <1>9 DEF SeedStep

\* Only a run's own step ends it well.
LEMMA WhoEnds ==
  ASSUME SeedInv, Next, NEW s \in Seeder, seeder[s].pc # "done", seeder'[s].pc = "done"
  PROVE  SeedStep(s)
<1>1. seeder' # seeder /\ seeder \in [Seeder -> Run]
  BY DEF SeedInv, SeedersOK
<1>2. PICK o \in Seeder : SeedStarts(o) \/ SeedStep(o) \/ SeedDies(o)
  BY <1>1 DEF Next, MigrationStep, Statement, MigrationFails, CommitMigration, ProcessDies,
     UpgradeByHand, DowngradeByHand, Operate, ContainerStarts, GunicornDies, ComposeUp, ComposeDown,
     OwnProduct, seedVars
<1>3. CASE SeedStarts(o)
  BY <1>1, <1>3 DEF SeedStarts
<1>4. CASE SeedDies(o)
  BY <1>1, <1>4 DEF SeedDies, Fails
<1>5. CASE SeedStep(o)
  <2>1. \E new : seeder' = [seeder EXCEPT ![o] = new]
    <3>1. SeedersOK /\ seeder[o].pc = "running"
      BY <1>5 DEF SeedInv, SeedStep, CheckRow, InsertRow, InsertImages, Working
    <3>2. \/ seeder' = NextRow(o) \/ seeder' = Fails(o)
          \/ \E step : seeder' = [seeder EXCEPT ![o].step = step]
      BY <1>5 DEF SeedStep, CheckRow, InsertRow, InsertImages
    <3> QED BY <1>1, <3>1, <3>2, NextRowIs, FailsIs
  <2>2. o = s
    BY <1>1, <2>1
  <2> QED BY <1>5, <2>2
<1> QED BY <1>2, <1>3, <1>4, <1>5

\* Any number of runs of seed.py, one after the other or at once, after and
\* beside whatever the container, an administrator and the operator do (only a
\* downgrade waits for the script to end): a run that ends well leaves every
\* row of its list, and a product without images only if a run is still at
\* them or was ended between the product's commit and theirs (seed.py).
THEOREM SeedIsComplete == Spec => SeedLeavesAll
<1> DEFINE Ends(s) == seeder[s].pc # "done" /\ seeder'[s].pc = "done"
           Left(i) == /\ Present(i)'
                      /\ SeedPlan[i].table = "products" => Illustrated(i)'
           Leaves == \A s \in Seeder : Ends(s) => \A i \in Entries : Left(i)
<1>1. SeedInv /\ SeedInv' /\ [Next]_vars => [Leaves]_vars
  <2> SUFFICES ASSUME SeedInv, SeedInv', Next, NEW s \in Seeder, Ends(s), NEW i \in Entries
               PROVE  Left(i)
    OBVIOUS
  <2>1. Present(i)'
    BY EndOfRun, WhoEnds
  <2> QED BY <2>1 DEF SeedInv, RowsOK, Pictured
<1>2. Leaves => \A s \in Seeder : seeder[s].pc # "done" /\ seeder'[s].pc = "done" =>
        \A i \in DOMAIN SeedPlan :
          /\ SeedPlan[i].key \in rows'[SeedPlan[i].table]
          /\ SeedPlan[i].table = "products" =>
               \/ SeedPlan[i].key \in rows'["product_images"] \cup cut'
               \/ \E o \in Seeder : Working(o, "images")' /\ seeder'[o].at = i
  BY PlanIs DEF Present, Illustrated
<1> QED BY <1>1, <1>2, SeedHolds, PTL DEF Spec, SeedLeavesAll
=============================================================================
