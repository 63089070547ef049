------------------------------- MODULE Schema -------------------------------
(***************************************************************************)
(* The database schema, twice: as the SQLAlchemy models of app/models      *)
(* declare it and as the five Alembic revisions build it and take it down  *)
(* again.  The tests create their SQLite tables from the models, so        *)
(* nothing but the revisions themselves ever runs the revisions.           *)
(*                                                                         *)
(* Of a table we keep its foreign keys, the enum types of its columns and  *)
(* its unique keys; of an enum type its labels.  The indexes of a table    *)
(* count as part of the statement that creates it.                         *)
(***************************************************************************)
EXTENDS Sequences, Naturals

Tbl(fks, types, keys) == [fks |-> fks, types |-> types, keys |-> keys]
FK(column, target, ondelete) == [column |-> column, target |-> target, ondelete |-> ondelete]

-----------------------------------------------------------------------------
(* The models, file by file.                                               *)

\* An enum column bound to the members' names, not their values.
BugNamesBound == {"CUSTOMER", "ADMIN", "SUPER_ADMIN"}

UserRole == {"customer", "admin", "super_admin"}
User == Tbl({}, {"user_role"}, {{"email"}})

Address == Tbl({FK("user_id", "users", "CASCADE")}, {}, {})

ProductStatus == {"draft", "active", "inactive"}
Category == Tbl({FK("parent_id", "categories", "SET_NULL")}, {}, {{"slug"}})
Brand == Tbl({}, {}, {{"slug"}})
Product == Tbl({FK("category_id", "categories", "RESTRICT"), FK("brand_id", "brands", "RESTRICT")},
               {"product_status"}, {{"slug"}})
ProductVariant == Tbl({FK("product_id", "products", "CASCADE")}, {}, {{"sku"}})
ProductImage == Tbl({FK("product_id", "products", "CASCADE"),
                     FK("variant_id", "product_variants", "CASCADE")}, {}, {})

Cart == Tbl({FK("user_id", "users", "CASCADE")}, {}, {{"user_id"}})
CartItem == Tbl({FK("cart_id", "carts", "CASCADE"), FK("variant_id", "product_variants", "CASCADE")},
                {}, {{"cart_id", "variant_id"}})

DiscountType == {"percentage", "flat"}
Coupon == Tbl({}, {"discount_type"}, {{"code"}})

OrderStatus == {"pending", "packed", "shipped", "out_for_delivery",
                "delivered", "cancelled", "returned", "refunded"}
Order == Tbl({FK("user_id", "users", "RESTRICT")}, {"order_status"}, {{"order_number"}})
OrderItem == Tbl({FK("order_id", "orders", "CASCADE"), FK("product_id", "products", "SET_NULL"),
                  FK("variant_id", "product_variants", "SET_NULL")}, {}, {})

PaymentStatus == {"created", "paid", "failed", "refunded"}
Payment == Tbl({FK("order_id", "orders", "CASCADE")}, {"payment_status"}, {{"razorpay_order_id"}})

Review == Tbl({FK("product_id", "products", "CASCADE"), FK("user_id", "users", "CASCADE")},
              {}, {{"product_id", "user_id"}})

NotificationType == {"order_update", "payment_update", "general"}
Notification == Tbl({FK("user_id", "users", "CASCADE"), FK("related_order_id", "orders", "SET_NULL")},
                    {"notification_type"}, {})

TrackingStatus == {"order_packed", "shipped", "in_transit", "out_for_delivery", "delivered"}
DeliveryPartner == Tbl({}, {}, {})
TrackingEvent == Tbl({FK("order_id", "orders", "CASCADE"),
                      FK("delivery_partner_id", "delivery_partners", "SET_NULL")},
                     {"tracking_status"}, {})

SearchQuery == Tbl({}, {}, {{"query_text"}})

\* Base.metadata once env.py (or seed.py) has imported every model.
Metadata ==
  [types |-> [user_role |-> UserRole, product_status |-> ProductStatus,
              discount_type |-> DiscountType, order_status |-> OrderStatus,
              payment_status |-> PaymentStatus, notification_type |-> NotificationType,
              tracking_status |-> TrackingStatus],
   tables |-> [users |-> User, addresses |-> Address,
               categories |-> Category, brands |-> Brand, products |-> Product,
               product_variants |-> ProductVariant, product_images |-> ProductImage,
               carts |-> Cart, cart_items |-> CartItem, coupons |-> Coupon,
               orders |-> Order, order_items |-> OrderItem, payments |-> Payment,
               reviews |-> Review, notifications |-> Notification,
               delivery_partners |-> DeliveryPartner, tracking_events |-> TrackingEvent,
               search_queries |-> SearchQuery]]

-----------------------------------------------------------------------------
(* The statements of a revision, and what each needs and does.             *)

Type(name, labels) == [do |-> "create_type", name |-> name, labels |-> labels]
Table(name, table) == [do |-> "create_table", name |-> name, table |-> table]
DropTable(name) == [do |-> "drop_table", name |-> name]
DropType(name) == [do |-> "drop_type", name |-> name]

Empty == [types |-> <<>>, tables |-> <<>>]

\* Both functions, the first where they overlap.
Joined(f, g) == [x \in DOMAIN f \cup DOMAIN g |-> IF x \in DOMAIN f THEN f[x] ELSE g[x]]
Without(f, x) == [y \in DOMAIN f \ {x} |-> f[y]]

\* Types are created and dropped with checkfirst=True, tables without.
Legal(s, st) ==
  \/ /\ st.do = "create_type"
  \/ /\ st.do = "create_table"
     /\ st.name \notin DOMAIN s.tables
     /\ st.table.types \subseteq DOMAIN s.types
     /\ \A fk \in st.table.fks : fk.target \in DOMAIN s.tables \cup {st.name}
  \/ /\ st.do = "drop_table"
     /\ st.name \in DOMAIN s.tables
     /\ \A t \in DOMAIN s.tables \ {st.name} : \A fk \in s.tables[t].fks : fk.target # st.name
  \/ /\ st.do = "drop_type"
     /\ \A t \in DOMAIN s.tables : st.name \notin s.tables[t].types

Applied(s, st) ==
  CASE st.do = "create_type" -> [s EXCEPT !.types = Joined(@, [x \in {st.name} |-> st.labels])]
    [] st.do = "create_table" -> [s EXCEPT !.tables = Joined([x \in {st.name} |-> st.table], @)]
    [] st.do = "drop_table" -> [s EXCEPT !.tables = Without(@, st.name)]
    [] st.do = "drop_type" -> [s EXCEPT !.types = Without(@, st.name)]

-----------------------------------------------------------------------------
(* The revisions.                                                          *)

Revision1 ==
  [up |-> <<Type("user_role", {"customer", "admin", "super_admin"}),
            Table("users", Tbl({}, {"user_role"}, {{"email"}})),
            Table("addresses", Tbl({FK("user_id", "users", "CASCADE")}, {}, {}))>>,
   down |-> <<DropTable("addresses"), DropTable("users"), DropType("user_role")>>]

Revision2 ==
  [up |-> <<Type("product_status", {"draft", "active", "inactive"}),
            Table("categories", Tbl({FK("parent_id", "categories", "SET_NULL")}, {}, {{"slug"}})),
            Table("brands", Tbl({}, {}, {{"slug"}})),
            Table("products", Tbl({FK("category_id", "categories", "RESTRICT"),
                                   FK("brand_id", "brands", "RESTRICT")},
                                  {"product_status"}, {{"slug"}})),
            Table("product_variants", Tbl({FK("product_id", "products", "CASCADE")}, {}, {{"sku"}})),
            Table("product_images", Tbl({FK("product_id", "products", "CASCADE"),
                                         FK("variant_id", "product_variants", "CASCADE")}, {}, {}))>>,
   down |-> <<DropTable("product_images"), DropTable("product_variants"), DropTable("products"),
              DropTable("brands"), DropTable("categories"), DropType("product_status")>>]

Revision3 ==
  [up |-> <<Type("discount_type", {"percentage", "flat"}),
            Type("order_status", {"pending", "packed", "shipped", "out_for_delivery",
                                  "delivered", "cancelled", "returned", "refunded"}),
            Table("carts", Tbl({FK("user_id", "users", "CASCADE")}, {}, {{"user_id"}})),
            Table("cart_items", Tbl({FK("cart_id", "carts", "CASCADE"),
                                     FK("variant_id", "product_variants", "CASCADE")},
                                    {}, {{"cart_id", "variant_id"}})),
            Table("coupons", Tbl({}, {"discount_type"}, {{"code"}})),
            Table("orders", Tbl({FK("user_id", "users", "RESTRICT")}, {"order_status"},
                                {{"order_number"}})),
            Table("order_items", Tbl({FK("order_id", "orders", "CASCADE"),
                                      FK("product_id", "products", "SET_NULL"),
                                      FK("variant_id", "product_variants", "SET_NULL")}, {}, {}))>>,
   down |-> <<DropTable("order_items"), DropTable("orders"), DropTable("coupons"),
              DropTable("cart_items"), DropTable("carts"),
              DropType("order_status"), DropType("discount_type")>>]

Revision4 ==
  [up |-> <<Type("payment_status", {"created", "paid", "failed", "refunded"}),
            Table("payments", Tbl({FK("order_id", "orders", "CASCADE")}, {"payment_status"},
                                  {{"razorpay_order_id"}}))>>,
   down |-> <<DropTable("payments"), DropType("payment_status")>>]

\* The partners dropped before the events that refer to them.
BugDropOrder ==
  <<DropTable("search_queries"), DropTable("delivery_partners"), DropTable("tracking_events"),
    DropTable("notifications"), DropTable("reviews"),
    DropType("tracking_status"), DropType("notification_type")>>

Downgrade5 ==
  <<DropTable("search_queries"), DropTable("tracking_events"), DropTable("delivery_partners"),
    DropTable("notifications"), DropTable("reviews"),
    DropType("tracking_status"), DropType("notification_type")>>

Revision5 ==
  [up |-> <<Type("notification_type", {"order_update", "payment_update", "general"}),
            Type("tracking_status", {"order_packed", "shipped", "in_transit",
                                     "out_for_delivery", "delivered"}),
            Table("reviews", Tbl({FK("product_id", "products", "CASCADE"),
                                  FK("user_id", "users", "CASCADE")},
                                 {}, {{"product_id", "user_id"}})),
            Table("notifications", Tbl({FK("user_id", "users", "CASCADE"),
                                        FK("related_order_id", "orders", "SET_NULL")},
                                       {"notification_type"}, {})),
            Table("delivery_partners", Tbl({}, {}, {})),
            Table("tracking_events", Tbl({FK("order_id", "orders", "CASCADE"),
                                          FK("delivery_partner_id", "delivery_partners", "SET_NULL")},
                                         {"tracking_status"}, {})),
            Table("search_queries", Tbl({}, {}, {{"query_text"}}))>>,
   down |-> Downgrade5]

\* The chain of down_revision.
Revisions == <<Revision1, Revision2, Revision3, Revision4, Revision5>>
HeadVersion == Len(Revisions)
=============================================================================
