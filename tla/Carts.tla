-------------------------------- MODULE Carts --------------------------------
(***************************************************************************)
(* The cart of one user (api/v1/cart.py), who has it open in several tabs: *)
(* the cart row is created by whoever needs it first, lines are added to,  *)
(* changed and removed by handlers that read before they write, and every  *)
(* answer is serialized by _serialize_cart, which may itself drop the      *)
(* coupon.  Whether a coupon fits is not the cart's alone: prices and      *)
(* discounts, the coupon's own row and the date change without it, and a   *)
(* checkout of the same customer empties it.                               *)
(***************************************************************************)
EXTENDS Catalogue

CONSTANTS
  Quantity,  \* quantities a customer asks for
  Coupon,
  MinOrder,  \* the subtotal each coupon requires
  Terms      \* what a unit of each variant costs after its product's discount, and
             \* which coupons are active, within their dates and below their limit

VariantId == {FirstVariant} \cup (Request \X Sku)

ASSUME CartAssumption ==
  /\ Quantity \subseteq Nat \ {0} /\ MinOrder \in [Coupon -> Nat] /\ "none" \notin Coupon
  /\ Terms # {} /\ Terms \subseteq [price : [VariantId -> Nat], usable : SUBSET Coupon]

VARIABLES
  cart,   \* the row of carts, if there is one
  lines,  \* its lines by variant
  top,    \* the highest stock each variant ever had (a history)
  terms,  \* the prices and coupons as they are
  moved   \* they, or a checkout the cart, moved since a request answered with the
          \* cart's coupon (a history)

cartVars == <<cart, lines, top>>
termVars == <<terms, moved>>

NoCart == [exists |-> FALSE, coupon |-> "none"]
NewCart == [exists |-> TRUE, coupon |-> "none"]

\* The session: what it has loaded of the line, the stock and the coupon.
NoLine == [id |-> "none", quantity |-> 0]
NothingRead == [line |-> NoLine, stock |-> -1, coupon |-> "none"]

Subtotal(ls) ==
  LET sum[V \in SUBSET DOMAIN ls] ==
        IF V = {} THEN 0
        ELSE LET v == CHOOSE v \in V : TRUE
             IN terms.price[v] * ls[v].quantity + sum[V \ {v}]
  IN sum[DOMAIN ls]

\* get_valid_coupon_or_raise.
Valid(coupon) == coupon \in terms.usable /\ Subtotal(lines) >= MinOrder[coupon]

CartInit ==
  /\ terms \in Terms /\ moved = FALSE
  /\ top = [v \in DOMAIN variants |-> variants[v].stock]
  /\ \/ cart = NoCart /\ lines = <<>>
     \/ /\ \E n \in 1 .. FirstStock :
              lines = [v \in {FirstVariant} |-> [id |-> "l0", quantity |-> n]]
        /\ \/ cart = NewCart
           \/ \E c \in Coupon : cart = [NewCart EXCEPT !.coupon = c] /\ Valid(c)

-----------------------------------------------------------------------------
(* Getting the cart.                                                       *)

\* add_item loads the variant first.
AddItem(r) ==
  \E v \in DOMAIN variants, n \in Quantity :
    LET op == [do |-> "add", variant |-> v, quantity |-> n]
        product == variants[v].product IN
      IF rows.products[product].status # "active" THEN RefuseAtOnce(r, op)
      ELSE Begin(r, op, "cart", [NothingRead EXCEPT !.stock = variants[v].stock])

\* The handlers of a line name it by the id it had when the page was loaded.
ChangeLine(r) ==
  \E v \in DOMAIN lines :
    \/ \E n \in Quantity :
         Begin(r, [do |-> "update line", variant |-> v, id |-> lines[v].id, quantity |-> n],
               "cart", NothingRead)
    \/ Begin(r, [do |-> "remove", variant |-> v, id |-> lines[v].id], "cart", NothingRead)

OtherRequest(r) ==
  \/ Begin(r, [do |-> "view"], "cart", NothingRead)
  \/ \E c \in Coupon : Begin(r, [do |-> "apply", coupon |-> c], "cart", NothingRead)
  \/ Begin(r, [do |-> "clear"], "cart", NothingRead)

AfterCart(r) ==
  CASE req[r].op.do \in {"add", "update line", "remove"} -> "line"
    [] req[r].op.do = "view" -> "serialize"
    [] req[r].op.do = "apply" -> "price"
    [] req[r].op.do = "clear" -> "coupon"

\* _get_or_create_cart.
FindCart(r) ==
  /\ At(r, "cart")
  /\ IF cart.exists THEN Proceed(r, AfterCart(r), [req[r].read EXCEPT !.coupon = cart.coupon])
     ELSE Proceed(r, "create cart", req[r].read)
  /\ UNCHANGED cartVars

\* The commit makes the session forget what it had loaded.
CreateCart(r) ==
  /\ At(r, "create cart")
  /\ IF cart.exists THEN Answer(r, "conflict") /\ UNCHANGED cart
     ELSE Proceed(r, AfterCart(r), NothingRead) /\ cart' = NewCart
  /\ UNCHANGED <<lines, top>>

-----------------------------------------------------------------------------
(* Lines.                                                                  *)

LineOf(v) == IF v \in DOMAIN lines THEN lines[v] ELSE NoLine

StockRead(r) ==
  IF req[r].read.stock = -1 THEN variants[req[r].op.variant].stock ELSE req[r].read.stock

\* The quantity the handler is about to store.
Wanted(r, line) ==
  IF req[r].op.do = "add" THEN line.quantity + req[r].op.quantity ELSE req[r].op.quantity

\* The line is looked up, and compared with the stock.
FindLine(r) ==
  /\ At(r, "line")
  /\ LET line == LineOf(req[r].op.variant)
         known == line.id = req[r].op.id
         read == [req[r].read EXCEPT !.line = line] IN
       \/ /\ req[r].op.do = "add"
          /\ IF Wanted(r, line) > StockRead(r) THEN Refuse(r) ELSE Proceed(r, "write line", read)
       \/ /\ req[r].op.do = "update line"
          /\ IF ~ known \/ Wanted(r, line) > StockRead(r) THEN Refuse(r)
             ELSE Proceed(r, "write line", read)
       \/ /\ req[r].op.do = "remove"
          /\ IF known THEN Proceed(r, "write line", read) ELSE Refuse(r)
  /\ UNCHANGED cartVars

\* UPDATE ... SET quantity = quantity + n.
BugIncrementInPlace(r) ==
  LET v == req[r].op.variant IN
    IF req[r].op.do = "add" /\ v \in DOMAIN lines THEN lines[v].quantity + req[r].op.quantity
    ELSE Wanted(r, req[r].read.line)

\* The quantity computed from the line that was read.
Stored(r) == Wanted(r, req[r].read.line)

\* The line that was read is still there.
Present(r) ==
  LET v == req[r].op.variant IN
    v \in DOMAIN lines /\ lines[v].id = req[r].read.line.id

InsertLine(r) ==
  /\ At(r, "write line") /\ req[r].op.do = "add" /\ req[r].read.line = NoLine
  /\ LET v == req[r].op.variant IN
       IF v \in DOMAIN lines
       THEN Answer(r, "conflict") /\ UNCHANGED lines
       ELSE /\ Proceed(r, "serialize", NothingRead)
            /\ lines' = With(lines, v, [id |-> r, quantity |-> Stored(r)])
  /\ UNCHANGED <<cart, top>>

WriteLine(r) ==
  /\ At(r, "write line") /\ req[r].op.do # "remove" /\ req[r].read.line # NoLine
  /\ LET changed == Stored(r) # req[r].read.line.quantity IN
       IF changed /\ ~ Present(r)
       THEN Answer(r, "error") /\ UNCHANGED lines
       ELSE /\ Proceed(r, "serialize", NothingRead)
            /\ lines' = IF changed THEN [lines EXCEPT ![req[r].op.variant].quantity = Stored(r)]
                        ELSE lines
  /\ UNCHANGED <<cart, top>>

\* Deleting a line that is already gone is no error.
RemoveLine(r) ==
  /\ At(r, "write line") /\ req[r].op.do = "remove"
  /\ Proceed(r, "serialize", NothingRead)
  /\ lines' = IF Present(r) THEN Without(lines, req[r].op.variant) ELSE lines
  /\ UNCHANGED <<cart, top>>

-----------------------------------------------------------------------------
(* Coupons and the answer.                                                 *)

\* apply_coupon: the cart is serialized and priced first, and an old coupon
\* that no longer fits is dropped on the way.
Price(r) ==
  /\ At(r, "price")
  /\ LET old == req[r].read.coupon
         fits == lines # <<>> /\ Valid(req[r].op.coupon) IN
       IF old # "none" /\ ~ Valid(old)
       THEN Proceed(r, IF fits THEN "drop old" ELSE "drop old and refuse", NothingRead)
       ELSE IF fits THEN Proceed(r, "coupon", req[r].read) ELSE Refuse(r)
  /\ UNCHANGED cartVars

DropOld(r) ==
  /\ \/ At(r, "drop old") /\ Proceed(r, "coupon", NothingRead)
     \/ At(r, "drop old and refuse") /\ Refuse(r)
  /\ cart' = [cart EXCEPT !.coupon = "none"]
  /\ UNCHANGED <<lines, top>>

WriteCoupon(r) ==
  /\ At(r, "coupon")
  /\ LET coupon == IF req[r].op.do = "apply" THEN req[r].op.coupon ELSE "none" IN
       cart' = IF coupon = req[r].read.coupon THEN cart ELSE [cart EXCEPT !.coupon = coupon]
  /\ Proceed(r, "serialize", NothingRead)
  /\ UNCHANGED <<lines, top>>

\* After a commit the cart is read again; get_cart has read it before.
CouponRead(r) == IF req[r].op.do = "view" THEN req[r].read.coupon ELSE cart.coupon

\* The cart answered as it is.
BugNeverDrops(r) == FALSE

Unfit(r) == CouponRead(r) # "none" /\ ~ Valid(CouponRead(r))

\* _serialize_cart: a coupon that no longer fits is dropped.
Serialize(r) ==
  /\ At(r, "serialize")
  /\ IF Unfit(r) THEN Proceed(r, "drop coupon", req[r].read) ELSE Answer(r, "ok")
  /\ UNCHANGED cartVars

DropCoupon(r) ==
  /\ At(r, "drop coupon")
  /\ cart' = [cart EXCEPT !.coupon = "none"]
  /\ Answer(r, "ok")
  /\ UNCHANGED <<lines, top>>

-----------------------------------------------------------------------------
(* What moves without the cart's requests.                                 *)

\* An administrator edits a price, a discount or a coupon, other customers use
\* one up, or its dates come and go.
Reprice ==
  /\ terms' \in Terms \ {terms}
  /\ moved' = TRUE
  /\ UNCHANGED cartVars

\* A checkout of the same customer deletes the lines it had loaded and takes
\* the coupon off if it had loaded one.
CheckOut ==
  /\ cart.exists
  /\ \E gone \in SUBSET DOMAIN lines : lines' = [v \in DOMAIN lines \ gone |-> lines[v]]
  /\ cart' \in {cart, [cart EXCEPT !.coupon = "none"]}
  /\ moved' = TRUE
  /\ UNCHANGED <<top, terms>>

\* r is answering with the cart's coupon, which it has found to fit.
Judges(r) == At(r, "serialize") /\ ~ Unfit(r) /\ CouponRead(r) = cart.coupon

-----------------------------------------------------------------------------
CartStep(r) ==
  \/ (AddItem(r) \/ ChangeLine(r) \/ OtherRequest(r)) /\ UNCHANGED cartVars
  \/ FindCart(r) \/ CreateCart(r)
  \/ FindLine(r) \/ InsertLine(r) \/ WriteLine(r) \/ RemoveLine(r)
  \/ Price(r) \/ DropOld(r) \/ WriteCoupon(r) \/ Serialize(r) \/ DropCoupon(r)
=============================================================================
