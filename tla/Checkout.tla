------------------------------ MODULE Checkout ------------------------------
(***************************************************************************)
(* The checkout transaction of orders.py together with every handler that  *)
(* writes the rows it reads: the cart handlers of cart.py and the          *)
(* administrator's update_variant of admin_catalog.py.                     *)
(*                                                                         *)
(* The service runs several worker processes against one PostgreSQL        *)
(* database at READ COMMITTED, so any two handlers interleave between      *)
(* their statements.  A checkout is one step per database round trip: it   *)
(* keeps what it read in its own record, as the ORM session keeps it in    *)
(* memory, and its writes all appear at its commit.  A cart handler writes *)
(* one row in one commit and is one step; the races between the reads and  *)
(* the writes of the cart handlers themselves are not in this module.      *)
(*                                                                         *)
(* Prices, addresses and the coupon's dates and minimum are left out: what *)
(* they decide (a refusal) is a choice the request may always make.        *)
(***************************************************************************)
EXTENDS Naturals, FiniteSets

CONSTANTS User,
          Variant,        \* product variants, each a locked row
          Coupon,
          Request,        \* checkout requests; each is handled once
          AdminRequest,   \* update_variant requests; each is handled once
          None,           \* SQL NULL: no coupon, no lock holder
          MaxQty,         \* bound: the largest quantity of a cart line
          StockLevel,     \* the quantities an administrator may set
          UsageLimit      \* Coupon -> usage_limit, or None for unlimited

ASSUME NoneAssumption ==
  /\ None \notin Coupon
  /\ None \notin Request
  /\ None \notin Variant
  /\ None \notin User
  /\ None \notin Nat
ASSUME BoundAssumption ==
  /\ MaxQty \in Nat \ {0}
  /\ StockLevel \subseteq Nat
ASSUME LimitAssumption == UsageLimit \in [Coupon -> (Nat \ {0}) \cup {None}]
ASSUME FiniteAssumption == IsFiniteSet(Request)

VARIABLES
  stock,        \* Variant -> product_variants.stock_quantity
  lockedBy,     \* Variant -> the request whose transaction locked the row
  cart,         \* User -> Variant -> cart_items.quantity, 0 when no row
  cartCoupon,   \* User -> carts.applied_coupon_code
  timesUsed,    \* Coupon -> coupons.times_used
  order,        \* Request -> the order row and its lines, if committed
  req,          \* Request -> what the handler holds in memory
  adm,          \* AdminRequest -> the same for update_variant
  supplied,     \* history: initial stock plus what administrators added
  sold          \* history: Variant -> quantity in committed orders

rows == <<stock, lockedBy, cart, cartCoupon, timesUsed, order>>
history == <<supplied, sold>>
vars == <<rows, req, adm, history>>

Lines == [Variant -> 0 .. MaxQty]      \* 0: no line for this variant
NoLines == [v \in Variant |-> 0]
LinesOf(lines) == {v \in Variant : lines[v] > 0}

Active == {"items", "lock", "coupon", "commit"}   \* a transaction is open
Ended == {"done", "failed"}

NewRequest == [pc |-> "new", user |-> None, code |-> None, lines |-> NoLines,
               live |-> {}, want |-> None, seen |-> NoLines, uses |-> 0]

\* The session is closed: only the answer is left of the request.
Answered(pc) == [NewRequest EXCEPT !.pc = pc]

NoEdit(pc) == [pc |-> pc, variant |-> None, seen |-> 0]
NoOrder == [user |-> None, code |-> None, lines |-> NoLines]

Init ==
  /\ stock \in [Variant -> StockLevel]
  /\ lockedBy = [v \in Variant |-> None]
  /\ cart = [u \in User |-> NoLines]
  /\ cartCoupon = [u \in User |-> None]
  /\ timesUsed = [c \in Coupon |-> 0]
  /\ order = [r \in Request |-> NoOrder]
  /\ req = [r \in Request |-> NewRequest]
  /\ adm = [a \in AdminRequest |-> NoEdit("new")]
  /\ supplied = stock
  /\ sold = NoLines

-----------------------------------------------------------------------------
(* Row locks of PostgreSQL, as checkout uses them.                         *)

Held(r) == {v \in Variant : lockedBy[v] = r}

\* Whether a statement that needs the row's lock can go on at once.
BugNoRowLock(v) == TRUE
RowFree(v) == lockedBy[v] = None

\* The locks after the transaction of r ends, by commit or by rollback.
BugLocksKept(r) == lockedBy
LocksReleased(r) == [v \in Variant |-> IF lockedBy[v] = r THEN None ELSE lockedBy[v]]

Waits(r) == req[r].pc = "lock" /\ ~RowFree(req[r].want)

\* r is on a cycle of transactions each waiting for the next one.
InDeadlock(r) ==
  \E S \in SUBSET Request :
    /\ r \in S
    /\ \A s \in S : Waits(s) /\ lockedBy[req[s].want] \in S
    /\ \A s \in S : \E t \in S : lockedBy[req[t].want] = s

-----------------------------------------------------------------------------
(* checkout(), one action per statement that reads or writes the database. *)

\* The transaction ends without a commit: nothing it did is visible.
Rollback(r) ==
  /\ req' = [req EXCEPT ![r] = Answered("failed")]
  /\ lockedBy' = LocksReleased(r)
  /\ UNCHANGED <<stock, cart, cartCoupon, timesUsed, order, adm, history>>

\* The cart row: its coupon code stays in memory from here on.
LoadCart(r, u) ==
  /\ req[r].pc = "new"
  /\ req' = [req EXCEPT ![r].pc = "items", ![r].user = u, ![r].code = cartCoupon[u]]
  /\ UNCHANGED <<rows, adm, history>>

\* 400 "Your cart is empty".
RefuseEmptyCart(r) ==
  /\ req[r].pc = "items"
  /\ cart[req[r].user] = NoLines
  /\ Rollback(r)

\* No "if not cart.items": the loop over no lines goes straight on.
BugEmptyAccepted(r) ==
  /\ req[r].pc = "items"
  /\ LET lines == cart[req[r].user]
     IN  \/ \E first \in LinesOf(lines) :
              req' = [req EXCEPT ![r].pc = "lock", ![r].lines = lines,
                                 ![r].live = LinesOf(lines), ![r].want = first]
         \/ lines = NoLines /\ req' = [req EXCEPT ![r].pc = "coupon"]
  /\ UNCHANGED <<rows, adm, history>>

\* cart.items, read without a lock and without an order: the first line to
\* lock is any of them.
LoadItems(r) ==
  /\ req[r].pc = "items"
  /\ LET lines == cart[req[r].user]
     IN  \E first \in LinesOf(lines) :
           req' = [req EXCEPT ![r].pc = "lock", ![r].lines = lines,
                              ![r].live = LinesOf(lines), ![r].want = first]
  /\ UNCHANGED <<rows, adm, history>>

\* variant.stock_quantity < cart_item.quantity, negated.
BugOffByOne(r, v) == stock[v] + 1 >= req[r].lines[v]
Enough(r, v) == stock[v] >= req[r].lines[v]

\* SELECT ... FOR UPDATE returns the current row once nobody else holds it;
\* the loop then goes on to any line it has not locked yet.
LockVariant(r) ==
  LET v == req[r].want
      rest == LinesOf(req[r].lines) \ (Held(r) \cup {v})
      locked == [req[r] EXCEPT !.seen[v] = stock[v]]
  IN  /\ req[r].pc = "lock"
      /\ RowFree(v)
      /\ Enough(r, v)
      /\ lockedBy' = [lockedBy EXCEPT ![v] = r]
      /\ \/ \E w \in rest : req' = [req EXCEPT ![r] = [locked EXCEPT !.want = w]]
         \/ rest = {} /\ req' = [req EXCEPT ![r] = [locked EXCEPT !.want = None, !.pc = "coupon"]]
      /\ UNCHANGED <<stock, cart, cartCoupon, timesUsed, order, adm, history>>

\* 409 "Insufficient stock".
RefuseStock(r) ==
  /\ req[r].pc = "lock"
  /\ RowFree(req[r].want)
  /\ ~Enough(r, req[r].want)
  /\ Rollback(r)

\* The database breaks a deadlock: the statement of one victim fails.
DeadlockVictim(r) ==
  /\ req[r].pc = "lock"
  /\ InDeadlock(r)
  /\ Rollback(r)

\* usage_limit is not None and times_used >= usage_limit.
BugLimitOffByOne(c) == UsageLimit[c] # None /\ timesUsed[c] > UsageLimit[c]
Exhausted(c) == UsageLimit[c] # None /\ timesUsed[c] >= UsageLimit[c]

NoCouponApplied(r) ==
  /\ req[r].pc = "coupon"
  /\ req[r].code = None
  /\ req' = [req EXCEPT ![r].pc = "commit"]
  /\ UNCHANGED <<rows, adm, history>>

\* get_valid_coupon_or_raise: an ordinary SELECT, the row is not locked.
BugCountedEarly(r) ==
  LET c == req[r].code
  IN  /\ req[r].pc = "coupon"
      /\ c # None
      /\ ~Exhausted(c)
      /\ timesUsed' = [timesUsed EXCEPT ![c] = @ + 1]
      /\ req' = [req EXCEPT ![r].pc = "commit", ![r].uses = timesUsed[c]]
      /\ UNCHANGED <<stock, lockedBy, cart, cartCoupon, order, adm, history>>
ReadCoupon(r) ==
  LET c == req[r].code
  IN  /\ req[r].pc = "coupon"
      /\ c # None
      /\ ~Exhausted(c)
      /\ req' = [req EXCEPT ![r].pc = "commit", ![r].uses = timesUsed[c]]
      /\ UNCHANGED <<rows, adm, history>>

\* 400/404: exhausted, or inactive, out of its dates or below its minimum.
RefuseCoupon(r) ==
  /\ req[r].pc = "coupon"
  /\ req[r].code # None
  /\ Rollback(r)

\* The rows the sessions in memory refer to lose the deleted ones: a line
\* added again is another row, which a pending DELETE by id does not match.
Forget(rq, u, gone) ==
  [r \in Request |-> IF rq[r].user = u THEN [rq[r] EXCEPT !.live = @ \ gone] ELSE rq[r]]

\* The cart rows that the commit of r deletes: those it loaded, by id.
BugWholeCart(r) == Variant
DeletedLines(r) == req[r].live

\* db.commit(): every write of the transaction, each the value computed in
\* memory from what it had read.
Commit(r) ==
  LET u == req[r].user
      c == req[r].code
      lines == req[r].lines
  IN  /\ req[r].pc = "commit"
      /\ stock' = [v \in Variant |-> IF lines[v] > 0 THEN req[r].seen[v] - lines[v]
                                                     ELSE stock[v]]
      /\ sold' = [v \in Variant |-> sold[v] + lines[v]]
      /\ order' = [order EXCEPT ![r] = [user |-> u, code |-> c, lines |-> lines]]
      /\ timesUsed' = IF c = None THEN timesUsed
                                  ELSE [timesUsed EXCEPT ![c] = req[r].uses + 1]
      /\ cart' = [cart EXCEPT ![u] = [v \in Variant |->
                                        IF v \in DeletedLines(r) THEN 0 ELSE @[v]]]
      /\ cartCoupon' = IF c = None THEN cartCoupon ELSE [cartCoupon EXCEPT ![u] = None]
      /\ req' = Forget([req EXCEPT ![r] = Answered("done")], u, DeletedLines(r))
      /\ lockedBy' = LocksReleased(r)
      /\ UNCHANGED <<adm, supplied>>

\* 404 "Address not found", a killed worker or a lost connection: the
\* transaction is rolled back wherever it stands.
Crash(r) ==
  /\ req[r].pc \in Active
  /\ Rollback(r)

CheckoutStep(r) ==
  \/ RefuseEmptyCart(r) \/ LoadItems(r)
  \/ LockVariant(r) \/ RefuseStock(r) \/ DeadlockVictim(r)
  \/ NoCouponApplied(r) \/ ReadCoupon(r) \/ RefuseCoupon(r)
  \/ Commit(r)

-----------------------------------------------------------------------------
(* The cart handlers.  Adding or changing a line checks the stock it can   *)
(* see; inserting a row takes a foreign-key lock on the variant's row,     *)
(* which waits for a checkout that has locked it.                          *)

SetLine(u, v, q) ==
  /\ cart' = [cart EXCEPT ![u][v] = q]
  /\ UNCHANGED <<stock, lockedBy, cartCoupon, timesUsed, order, adm, history>>

\* add_item: a new line, or a larger quantity on the existing one.
AddItem(u, v, q) ==
  /\ cart[u][v] + q <= stock[v]
  /\ cart[u][v] + q <= MaxQty
  /\ cart[u][v] = 0 => RowFree(v)
  /\ SetLine(u, v, cart[u][v] + q)
  /\ UNCHANGED req

\* update_item: any quantity in stock, smaller ones too.
UpdateItem(u, v, q) ==
  /\ cart[u][v] > 0
  /\ q <= stock[v]
  /\ SetLine(u, v, q)
  /\ UNCHANGED req

RemoveItem(u, v) ==
  /\ cart[u][v] > 0
  /\ SetLine(u, v, 0)
  /\ req' = Forget(req, u, {v})

ApplyCoupon(u, c) ==
  /\ cart[u] # NoLines
  /\ ~Exhausted(c)
  /\ cartCoupon' = [cartCoupon EXCEPT ![u] = c]
  /\ UNCHANGED <<stock, lockedBy, cart, timesUsed, order, req, adm, history>>

\* remove_coupon, and _serialize_cart dropping a coupon that is no longer
\* valid in a commit of its own.
ClearCoupon(u) ==
  /\ cartCoupon[u] # None
  /\ cartCoupon' = [cartCoupon EXCEPT ![u] = None]
  /\ UNCHANGED <<stock, lockedBy, cart, timesUsed, order, req, adm, history>>

-----------------------------------------------------------------------------
(* update_variant: reads the row without a lock, then sets an absolute     *)
(* quantity.  The ORM writes nothing when the value is the one it read.    *)

LoadVariant(a, v) ==
  /\ adm[a].pc = "new"
  /\ adm' = [adm EXCEPT ![a] = [pc |-> "loaded", variant |-> v, seen |-> stock[v]]]
  /\ UNCHANGED <<rows, req, history>>

SetStock(a, q) ==
  LET v == adm[a].variant
  IN  /\ adm[a].pc = "loaded"
      /\ q # adm[a].seen
      /\ RowFree(v)
      /\ stock' = [stock EXCEPT ![v] = q]
      /\ supplied' = [supplied EXCEPT ![v] = (@ + q) - stock[v]]
      /\ adm' = [adm EXCEPT ![a] = NoEdit("done")]
      /\ UNCHANGED <<lockedBy, cart, cartCoupon, timesUsed, order, req, sold>>

KeepStock(a) ==
  /\ adm[a].pc = "loaded"
  /\ adm' = [adm EXCEPT ![a] = NoEdit("done")]
  /\ UNCHANGED <<rows, req, history>>

AdminStep(a) == KeepStock(a) \/ \E q \in StockLevel : SetStock(a, q)

-----------------------------------------------------------------------------
CartStep ==
  \/ \E u \in User, v \in Variant, q \in 1 .. MaxQty : AddItem(u, v, q) \/ UpdateItem(u, v, q)
  \/ \E u \in User, v \in Variant : RemoveItem(u, v)
  \/ \E u \in User, c \in Coupon : ApplyCoupon(u, c)
  \/ \E u \in User : ClearCoupon(u)

Next ==
  \/ \E r \in Request : CheckoutStep(r) \/ Crash(r) \/ \E u \in User : LoadCart(r, u)
  \/ \E a \in AdminRequest : AdminStep(a) \/ \E v \in Variant : LoadVariant(a, v)
  \/ CartStep

Spec == Init /\ [][Next]_vars

\* A request that has begun runs on: its thread is scheduled, a lock is
\* granted once it is free, and PostgreSQL's deadlock_timeout fires.
Fairness == \A r \in Request : WF_vars(CheckoutStep(r))

FairSpec == Spec /\ Fairness

-----------------------------------------------------------------------------
(* Properties.                                                             *)

OrderRow == [user : User \cup {None}, code : Coupon \cup {None}, lines : Lines]
Session == [pc : {"new"} \cup Active \cup Ended, user : User \cup {None},
            code : Coupon \cup {None}, lines : Lines, live : SUBSET Variant,
            want : Variant \cup {None}, seen : [Variant -> Nat], uses : Nat]
Edit == [pc : {"new", "loaded", "done"}, variant : Variant \cup {None}, seen : Nat]

\* The rows and the requests' memory have the values their columns allow:
\* above all, no stock_quantity is ever negative.
TypeOK ==
  /\ stock \in [Variant -> Nat]
  /\ lockedBy \in [Variant -> Request \cup {None}]
  /\ cart \in [User -> Lines]
  /\ cartCoupon \in [User -> Coupon \cup {None}]
  /\ timesUsed \in [Coupon -> Nat]
  /\ order \in [Request -> OrderRow]
  /\ req \in [Request -> Session]
  /\ adm \in [AdminRequest -> Edit]
  /\ supplied \in [Variant -> Nat]
  /\ sold \in [Variant -> Nat]
  /\ \A r \in Request : req[r].pc \in Active => req[r].user \in User
  /\ \A a \in AdminRequest : adm[a].pc = "loaded" => adm[a].variant \in Variant

\* A locked row is the row its holder read: the quantity in the session of a
\* checkout (orders.py 97-122) is the one in the table until it commits, it
\* covers the line, and past the loop every line of the order is locked.
HolderIsCurrent(v) ==
  lockedBy[v] # None =>
    LET rq == req[lockedBy[v]]
    IN  /\ rq.pc \in {"lock", "coupon", "commit"}
        /\ v \in LinesOf(rq.lines)
        /\ rq.seen[v] = stock[v]
        /\ rq.lines[v] <= stock[v]
LinesGetLocked(r) ==
  /\ req[r].pc \in {"coupon", "commit"} =>
       LinesOf(req[r].lines) # {} /\ LinesOf(req[r].lines) \subseteq Held(r)
  /\ req[r].pc = "lock" => req[r].want \in LinesOf(req[r].lines) \ Held(r)

LockedRowsCurrent ==
  /\ \A v \in Variant : HolderIsCurrent(v)
  /\ \A r \in Request : LinesGetLocked(r)

\* Nobody "oversold a product that doesn't exist" (orders.py 13-24): what is
\* left and what committed orders took add up to what was ever supplied,
\* whatever the order in which checkouts and administrators wrote the row.
StockConserved == \A v \in Variant : stock[v] + sold[v] = supplied[v]

\* A request has an order, with at least one line, exactly when it was
\* answered with one: a refused, failed or running one has left no part of
\* an order behind, and an empty cart becomes no order (orders.py 80, 175).
AllOrNothing ==
  \A r \in Request :
    /\ req[r].pc = "done" <=> order[r].lines # NoLines
    /\ req[r].pc # "done" => order[r] = NoOrder

\* What the orders of a coupon are, for the two properties below.
OrdersWith(c) == {r \in Request : order[r].code = c}

\* "no coupon usage counted without an order to match it" (orders.py 35-36):
\* a crash or a refusal after the coupon was read leaves no count behind.
UsesHaveOrders == \A c \in Coupon : timesUsed[c] <= Cardinality(OrdersWith(c))

\* The counter itself never passes usage_limit (coupons.py 35-36), although
\* it is read without a lock and written back at the commit.
CounterWithinLimit == \A c \in Coupon : UsageLimit[c] # None => timesUsed[c] <= UsageLimit[c]

\* A checkout's commit removes from the cart only lines its order holds: an
\* item added while the checkout was running stays (orders.py 171-172
\* deletes the rows it loaded, not the cart's rows).
UnorderedLinesStay ==
  [][\A r \in Request : req[r].pc = "commit" /\ req'[r].pc = "done" =>
       \A u \in User, v \in Variant :
         cart[u][v] > 0 /\ cart'[u][v] = 0 => u = order'[r].user /\ order'[r].lines[v] > 0]_vars

\* Checkout is atomic in spite of its many statements: stock and orders
\* change as if each order had been sold in one step from current stock.
Abstract == INSTANCE Inventory WITH bought <- [r \in Request |-> order[r].lines]
SellsAtomically == Abstract!Spec

\* Every checkout that begins is answered, although two of them may lock the
\* same variants in opposite orders (no order_by on cart.items).
CheckoutEnds == \A r \in Request : req[r].pc \in Active ~> req[r].pc \in Ended

\* No row stays locked behind a request that ended or failed.
LocksComeFree == \A v \in Variant : lockedBy[v] # None ~> lockedBy[v] = None

\* models/coupon.py 11-15 says counting inside the order's transaction keeps
\* concurrent checkouts from overselling the coupon: orders that carry it
\* never outnumber usage_limit.
CouponNotOversold ==
  \A c \in Coupon : UsageLimit[c] # None => Cardinality(OrdersWith(c)) <= UsageLimit[c]
=============================================================================
