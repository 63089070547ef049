----------------------------- MODULE CartProofs -----------------------------
(***************************************************************************)
(* Proofs about the cart of Store, whose lines stay within the stock that  *)
(* the variant once had and whose coupon fits its lines, and about what    *)
(* needs all areas at once: the types, and that a conflict is a race.      *)
(***************************************************************************)
EXTENDS CatalogueProofs

-----------------------------------------------------------------------------
(* The cart and what is asked of it.                                       *)

CartOK ==
  /\ DOMAIN cart = {"exists", "coupon"} /\ cart.coupon \in Coupon \cup {"none"}
  /\ DOMAIN top = DOMAIN variants /\ DOMAIN lines \subseteq DOMAIN variants
  /\ DOMAIN lines # {} => cart.exists
  /\ \A v \in DOMAIN variants : top[v] \in Nat /\ variants[v].stock <= top[v]
  /\ \A v \in DOMAIN lines : lines[v] \in [id : {"l0"} \cup Request, quantity : Nat]

\* Which handler takes which step.
CartAt(do, step) ==
  \/ step \in {"cart", "create cart", "serialize", "drop coupon"}
  \/ step \in {"line", "write line"} /\ do \in {"add", "update line", "remove"}
  \/ step \in {"price", "drop old", "drop old and refuse"} /\ do = "apply"
  \/ step = "coupon" /\ do \in {"apply", "clear"}

\* The quantity that is asked for, given the line.
Asked(op, line) == IF op.do = "add" THEN line.quantity + op.quantity ELSE op.quantity
SetsQuantity(op) == op.do \in {"add", "update line"}

\* What is about to be stored is within the stock the variant once had.
CartSound(op, step, read) ==
  /\ CartAt(op.do, step) /\ DOMAIN read = {"line", "stock", "coupon"}
  /\ step \notin {"cart", "create cart"} => cart.exists
  /\ op.do = "apply" => op.coupon \in Coupon
  /\ SetsQuantity(op) => /\ op.variant \in DOMAIN variants /\ op.quantity \in Nat
                         /\ read.stock = -1 \/ (read.stock \in Nat /\ read.stock <= top[op.variant])
  /\ SetsQuantity(op) /\ step = "write line" =>
       Asked(op, read.line) \in Nat /\ Asked(op, read.line) <= top[op.variant]

CartsOK ==
  /\ CartOK /\ LinesWithinStock
  /\ \A r \in Request : Runs(r) /\ req[r].op.do \in CartKinds =>
       CartSound(req[r].op, req[r].at, req[r].read)

\* A coupon that does not fit is about to be looked at, unless a worker died or
\* what it has to fit moved.
Fine == cart.coupon = "none" \/ Valid(cart.coupon)
Mends(r) == req[r].op.do \in CartKinds /\ (\/ At(r, "drop coupon")
                                           \/ At(r, "serialize") /\ req[r].op.do # "view")
Excused == \E r \in Request : req[r].answer = "lost"
CouponMended == Excused \/ moved \/ Fine \/ \E r \in Request : Mends(r)

-----------------------------------------------------------------------------
(* Races.                                                                  *)

Rival(r) == \E q \in Request : Met(r, q) /\ Contend(req[r].op, req[q].op)

\* What a request has found free, so that it may take it.
SlugFree(r) ==
  At(r, "write") =>
    \A id \in DOMAIN rows[req[r].op.table] \ {req[r].op.id} :
      rows[req[r].op.table][id].slug # Candidate(r)
SkusUntaken(op) ==
  /\ op.do = "create" => \A s \in op.skus : ~ SkuTaken(s)
  /\ op.do = "variant" /\ "sku" \in DOMAIN op.row =>
       \A v \in DOMAIN variants \ {op.id} : variants[v].sku # op.row.sku
RowFree(r) == SlugFree(r) /\ (Runs(r) => SkusUntaken(req[r].op))
CartFree(r) ==
  /\ At(r, "create cart") => ~ cart.exists
  /\ At(r, "write line") /\ req[r].op.do = "add" /\ req[r].read.line = NoLine
       => req[r].op.variant \notin DOMAIN lines
ReviewFree(r) ==
  /\ (At(r, "purchase") \/ At(r, "insert review")) /\ req[r].op.product # "gone" => ~ review.exists
  /\ At(r, "search") /\ req[r].read.count = 0 => req[r].op.query \notin DOMAIN searches
EmailFree(r) == At(r, "signup") => ~ EmailTaken(req[r].op.email)

ParentKnown(op) == op.do = "create" /\ op.table = "categories" => Known(op.row.parent)

\* Slugs and SKUs are unique, and a parent that was looked up stays.
KeysUnique ==
  /\ \A t \in Slugged : \A i, j \in DOMAIN rows[t] : i # j => rows[t][i].slug # rows[t][j].slug
  /\ \A v, w \in DOMAIN variants : v # w => variants[v].sku # variants[w].sku
  /\ \A r \in Request : Runs(r) => ParentKnown(req[r].op)
RowRaces == \A r \in Request : Rival(r) \/ RowFree(r)
CartRaces == \A r \in Request : Rival(r) \/ CartFree(r)
ReviewRaces == \A r \in Request : Rival(r) \/ ReviewFree(r)
AccountRaces == \A r \in Request : Rival(r) \/ EmailFree(r)

RacesInv == KeysUnique /\ RowRaces /\ CartRaces /\ ReviewRaces /\ AccountRaces /\ ConflictsAreRaces

-----------------------------------------------------------------------------
(* Lines within the stock.                                                 *)

\* Stock, once highest, stays in the history; carts are not deleted.
CartGrows ==
  /\ DOMAIN variants \subseteq DOMAIN variants'
  /\ cart.exists => cart'.exists
  /\ \A v \in DOMAIN variants : top[v] \in Nat /\ top'[v] \in Nat /\ top[v] <= top'[v]

\* What was within the stock stays within more.
LEMMA WithinMore ==
  ASSUME NEW n \in Nat, NEW a \in Nat, NEW b \in Nat, n <= a, a <= b
  PROVE  n <= b
OBVIOUS

\* What is not more than the stock is within it.
LEMMA NotMore ==
  ASSUME NEW n \in Nat, NEW a \in Nat, ~ (n > a)
  PROVE  n <= a
OBVIOUS

LEMMA CartSoundStays ==
  ASSUME NEW op, NEW step, NEW read, CartSound(op, step, read), CartGrows
  PROVE  CartSound(op, step, read)'
<1>1. SetsQuantity(op) =>
        /\ op.variant \in DOMAIN variants' /\ op.quantity \in Nat
        /\ top[op.variant] \in Nat /\ top'[op.variant] \in Nat
        /\ top[op.variant] <= top'[op.variant]
  BY DEF CartSound, CartGrows
<1>2. SetsQuantity(op) => read.stock = -1 \/ (read.stock \in Nat /\ read.stock <= top'[op.variant])
  <2>1. SetsQuantity(op) => read.stock = -1 \/ (read.stock \in Nat /\ read.stock <= top[op.variant])
    BY DEF CartSound
  <2> QED BY <1>1, <2>1
<1>3. SetsQuantity(op) /\ step = "write line" =>
        Asked(op, read.line) \in Nat /\ Asked(op, read.line) <= top'[op.variant]
  <2>1. SetsQuantity(op) /\ step = "write line" =>
          Asked(op, read.line) \in Nat /\ Asked(op, read.line) <= top[op.variant]
    BY DEF CartSound
  <2> QED BY <1>1, <2>1, WithinMore
<1>4. step \notin {"cart", "create cart"} => cart'.exists
  BY DEF CartSound, CartGrows
<1>5. CartAt(op.do, step) /\ DOMAIN read = {"line", "stock", "coupon"}
      /\ (op.do = "apply" => op.coupon \in Coupon)
  BY DEF CartSound
<1> QED BY <1>1, <1>2, <1>3, <1>4, <1>5, ZenonT(30) DEF CartSound, CartAt, SetsQuantity, Asked

\* A request goes to a step where what it asks and has read is sound.
Goes(r, step, read) ==
  /\ req'[r].at = step /\ req'[r].op = req[r].op /\ req'[r].read = read
  /\ \A op : op = req[r].op => CartSound(op, step, read)'

LEMMA GoesSoundly ==
  ASSUME NEW r, NEW step, NEW read, Goes(r, step, read)
  PROVE  CartSound(req[r].op, req[r].at, req[r].read)'
<1>1. PICK op : op = req[r].op
  OBVIOUS
<1>2. CartSound(op, step, read)' /\ req'[r].op = op /\ req'[r].at = step /\ req'[r].read = read
  BY <1>1 DEF Goes
<1> QED BY <1>2, ZenonT(30) DEF CartSound, CartAt, SetsQuantity, Asked

\* The cart is asked for what is sound.
LEMMA CartAsks ==
  ASSUME SessionInv, CartsOK, VariantsOK, NEW r \in Request,
         AddItem(r) \/ ChangeLine(r) \/ OtherRequest(r), UNCHANGED <<cartVars, variants>>
  PROVE  /\ At(r, "new") /\ \A q \in Request \ {r} : req'[q] = req[q]
         /\ \/ req'[r].at = "done" /\ req'[r].answer = "refused"
            \/ /\ req'[r].at = "cart"
               /\ CartSound(req[r].op, req[r].at, req[r].read)'
<1>1. ASSUME NEW op, NEW read, CartSound(op, "cart", read),
             RefuseAtOnce(r, op) \/ Begin(r, op, "cart", read)
      PROVE  /\ At(r, "new") /\ \A q \in Request \ {r} : req'[q] = req[q]
             /\ \/ req'[r].at = "done" /\ req'[r].answer = "refused"
                \/ /\ req'[r].at = "cart"
                   /\ CartSound(req[r].op, req[r].at, req[r].read)'
  <2>1. CASE RefuseAtOnce(r, op)
    BY <2>1, RefusedIs
  <2>2. CASE Begin(r, op, "cart", read)
    <3>1. CartGrows
      BY DEF CartGrows, CartsOK, CartOK, cartVars
    <3>2. CartSound(op, "cart", read)'
      BY <1>1, <3>1, CartSoundStays
    <3>3. /\ At(r, "new") /\ req'[r].at = "cart" /\ req'[r].op = op /\ req'[r].read = read
          /\ \A q \in Request \ {r} : req'[q] = req[q]
      BY <2>2, BegunIs
    <3>4. CartSound(req[r].op, req[r].at, req[r].read)'
      BY <3>2, <3>3, ZenonT(30) DEF CartSound, CartAt, SetsQuantity, Asked
    <3> QED BY <3>3, <3>4
  <2> QED BY <1>1, <2>1, <2>2
<1>2. DOMAIN NothingRead = {"line", "stock", "coupon"} /\ NothingRead.stock = -1
  BY DEF NothingRead
<1>3. CASE AddItem(r)
  <2> DEFINE op(v, n) == [do |-> "add", variant |-> v, quantity |-> n]
             read(v) == [NothingRead EXCEPT !.stock = variants[v].stock]
  <2>1. PICK v \in DOMAIN variants, n \in Quantity :
          RefuseAtOnce(r, op(v, n)) \/ Begin(r, op(v, n), "cart", read(v))
    BY <1>3 DEF AddItem
  <2>2. n \in Nat /\ variants[v].stock \in Nat /\ variants[v].stock <= top[v]
    BY CartAssumption DEF CartsOK, CartOK, VariantsOK
  <2>3. DOMAIN read(v) = {"line", "stock", "coupon"} /\ read(v).stock = variants[v].stock
    BY <1>2
  <2>4. CartSound(op(v, n), "cart", read(v))
    BY <2>2, <2>3 DEF CartSound, CartAt, SetsQuantity
  <2> HIDE DEF op, read
  <2> QED BY <1>1, <2>1, <2>4
<1>4. CASE ChangeLine(r)
  <2> DEFINE update(v, n) == [do |-> "update line", variant |-> v, id |-> lines[v].id,
                              quantity |-> n]
             remove(v) == [do |-> "remove", variant |-> v, id |-> lines[v].id]
  <2>1. PICK v \in DOMAIN lines : \/ \E n \in Quantity : Begin(r, update(v, n), "cart", NothingRead)
                                  \/ Begin(r, remove(v), "cart", NothingRead)
    BY <1>4 DEF ChangeLine
  <2>2. v \in DOMAIN variants /\ Quantity \subseteq Nat
    BY CartAssumption DEF CartsOK, CartOK
  <2>3. /\ \A n \in Quantity : CartSound(update(v, n), "cart", NothingRead)
        /\ CartSound(remove(v), "cart", NothingRead)
    BY <1>2, <2>2 DEF CartSound, CartAt, SetsQuantity
  <2> HIDE DEF update, remove
  <2> QED BY <1>1, <2>1, <2>3
<1>5. CASE OtherRequest(r)
  <2> DEFINE view == [do |-> "view"]
             apply(c) == [do |-> "apply", coupon |-> c]
             clear == [do |-> "clear"]
  <2>1. \/ Begin(r, view, "cart", NothingRead)
        \/ \E c \in Coupon : Begin(r, apply(c), "cart", NothingRead)
        \/ Begin(r, clear, "cart", NothingRead)
    BY <1>5 DEF OtherRequest
  <2>2. /\ CartSound(view, "cart", NothingRead) /\ CartSound(clear, "cart", NothingRead)
        /\ \A c \in Coupon : CartSound(apply(c), "cart", NothingRead)
    BY <1>2 DEF CartSound, CartAt, SetsQuantity
  <2> HIDE DEF view, apply, clear
  <2> QED BY <1>1, <2>1, <2>2
<1> QED BY <1>3, <1>4, <1>5

\* What a step of a handler must see to, for the next one to be sound.
LEMMA CartGoesOn ==
  ASSUME SessionInv, CartsOK, NEW r \in Request, Runs(r), req[r].op.do \in CartKinds,
         NEW step, NEW read, Proceed(r, step, read), CartGrows, CartAt(req[r].op.do, step),
         DOMAIN read = {"line", "stock", "coupon"}, cart'.exists \/ step \in {"cart", "create cart"},
         read.stock \in {-1, req[r].read.stock},
         SetsQuantity(req[r].op) /\ step = "write line" =>
           /\ Asked(req[r].op, read.line) \in Nat
           /\ Asked(req[r].op, read.line) <= top[req[r].op.variant]
  PROVE  CartSound(req[r].op, req[r].at, req[r].read)'
<1>1. ASSUME NEW op, op = req[r].op
      PROVE  CartSound(op, step, read)'
  <2>1. CartSound(op, req[r].at, req[r].read)
    BY <1>1 DEF CartsOK
  <2>2. SetsQuantity(op) =>
          /\ op.variant \in DOMAIN variants' /\ op.quantity \in Nat
          /\ top[op.variant] \in Nat /\ top'[op.variant] \in Nat
          /\ top[op.variant] <= top'[op.variant]
    BY <2>1 DEF CartSound, CartGrows
  <2>3. SetsQuantity(op) => read.stock = -1 \/ (read.stock \in Nat /\ read.stock <= top[op.variant])
    BY <1>1, <2>1 DEF CartSound
  <2>4. SetsQuantity(op) => read.stock = -1 \/ (read.stock \in Nat /\ read.stock <= top'[op.variant])
    BY <2>2, <2>3, WithinMore
  <2>5. SetsQuantity(op) /\ step = "write line" =>
          Asked(op, read.line) \in Nat /\ Asked(op, read.line) <= top'[op.variant]
    <3>1. SetsQuantity(op) /\ step = "write line" =>
            Asked(op, read.line) \in Nat /\ Asked(op, read.line) <= top[op.variant]
      BY <1>1
    <3> QED BY <2>2, <3>1, WithinMore
  <2>6. CartAt(op.do, step) /\ (op.do = "apply" => op.coupon \in Coupon)
    BY <1>1, <2>1 DEF CartSound
  <2>7. step \notin {"cart", "create cart"} => cart'.exists
    OBVIOUS
  <2>8. DOMAIN read = {"line", "stock", "coupon"}
    OBVIOUS
  <2> QED BY <2>2, <2>4, <2>5, <2>6, <2>7, <2>8, ZenonT(30) DEF CartSound, CartAt, SetsQuantity, Asked
<1>2. Goes(r, step, read)
  BY <1>1, ProceededIs DEF Goes
<1> QED BY <1>2, GoesSoundly

\* The step a handler takes once it has a cart.
LEMMA AfterCartIs ==
  ASSUME NEW r, req[r].op.do \in CartKinds
  PROVE  /\ CartAt(req[r].op.do, AfterCart(r))
         /\ AfterCart(r) \in {"line", "serialize", "price", "coupon"}
BY DEF AfterCart, CartAt, CartKinds

\* A step that leaves the lines alone, and of the cart writes the coupon alone.
LEMMA LinesLeftAlone ==
  ASSUME CartsOK, UNCHANGED <<lines, top, variants>>,
         \/ cart' = cart \/ cart' = NewCart
         \/ \E c \in Coupon \cup {"none"} : cart' = [cart EXCEPT !.coupon = c]
  PROVE  CartOK' /\ LinesWithinStock' /\ CartGrows
<1>1. DOMAIN cart' = {"exists", "coupon"} /\ cart'.coupon \in Coupon \cup {"none"}
      /\ (cart.exists => cart'.exists)
  BY DEF CartsOK, CartOK, NewCart
<1>2. CartGrows
  BY <1>1 DEF CartsOK, CartOK, CartGrows
<1> QED BY <1>1, <1>2 DEF CartsOK, CartOK, LinesWithinStock

\* A step that writes the line of one variant, with a quantity within its stock.
LEMMA LineIsWritten ==
  ASSUME CartsOK, UNCHANGED <<cart, top, variants>>, cart.exists, NEW v \in DOMAIN variants,
         DOMAIN lines' \subseteq DOMAIN lines \cup {v},
         \A w \in DOMAIN lines' \ {v} : lines'[w] = lines[w],
         v \in DOMAIN lines' => /\ lines'[v] \in [id : {"l0"} \cup Request, quantity : Nat]
                                /\ lines'[v].quantity <= top[v]
  PROVE  CartOK' /\ LinesWithinStock' /\ CartGrows
<1>1. CartGrows
  BY DEF CartsOK, CartOK, CartGrows
<1>2. ASSUME NEW w \in DOMAIN lines'
      PROVE  /\ w \in DOMAIN variants
             /\ lines'[w] \in [id : {"l0"} \cup Request, quantity : Nat]
             /\ lines'[w].quantity <= top[w]
  BY DEF CartsOK, CartOK, LinesWithinStock
<1>3. CartOK'
  BY <1>2 DEF CartsOK, CartOK
<1> QED BY <1>1, <1>2, <1>3 DEF LinesWithinStock

LEMMA CartStepKeeps ==
  ASSUME SessionInv, CartsOK, VariantsOK, NEW r \in Request, CartStep(r), UNCHANGED catalogueVars
  PROVE  /\ CartOK' /\ LinesWithinStock' /\ CartGrows
         /\ Runs(r)' => CartSound(req[r].op, req[r].at, req[r].read)'
<1> USE DEF catalogueVars, cartVars
<1>1. CASE (AddItem(r) \/ ChangeLine(r) \/ OtherRequest(r)) /\ UNCHANGED cartVars
  <2>1. CartOK' /\ LinesWithinStock' /\ CartGrows
    BY <1>1, LinesLeftAlone
  <2>2. \/ req'[r].at = "done"
        \/ CartSound(req[r].op, req[r].at, req[r].read)'
    BY <1>1, CartAsks
  <2> QED BY <2>1, <2>2 DEF Runs
<1>2. ASSUME NEW at \in CartSteps, At(r, at)
      PROVE  /\ Runs(r) /\ req[r].op.do \in CartKinds /\ req[r].at = at
             /\ CartSound(req[r].op, at, req[r].read)
             /\ at \notin {"cart", "create cart"} => cart.exists
             /\ DOMAIN req[r].read = {"line", "stock", "coupon"}
  <2>1. Runs(r) /\ req[r].op.do \in CartKinds /\ req[r].at = at
    BY <1>2, KindAt DEF At
  <2>2. CartSound(req[r].op, at, req[r].read)
    BY <2>1 DEF CartsOK
  <2> QED BY <2>1, <2>2 DEF CartSound
<1>3. ASSUME NEW answer, Answer(r, answer)
      PROVE  ~ Runs(r)'
  BY <1>3, AnsweredIs DEF Runs
<1>4. DOMAIN NothingRead = {"line", "stock", "coupon"} /\ NothingRead.stock = -1
  BY DEF NothingRead
<1>5. CASE FindCart(r)
  <2> DEFINE read == IF cart.exists THEN [req[r].read EXCEPT !.coupon = cart.coupon]
                     ELSE req[r].read
  <2>1. /\ Runs(r) /\ req[r].op.do \in CartKinds /\ DOMAIN req[r].read = {"line", "stock", "coupon"}
    BY <1>2, <1>5 DEF FindCart, CartSteps
  <2>2. CartOK' /\ LinesWithinStock' /\ CartGrows
    BY <1>5, LinesLeftAlone DEF FindCart
  <2>3. DOMAIN read = {"line", "stock", "coupon"} /\ read.stock = req[r].read.stock
    BY <2>1
  <2>4. /\ Proceed(r, IF cart.exists THEN AfterCart(r) ELSE "create cart", read)
        /\ cart' = cart
    BY <1>5 DEF FindCart
  <2> HIDE DEF read
  <2>5. CartAt(req[r].op.do, AfterCart(r)) /\ AfterCart(r) \in {"line", "serialize", "price", "coupon"}
    BY <2>1, AfterCartIs
  <2>6. CASE cart.exists
    <3>1. Proceed(r, AfterCart(r), read)
      BY <2>4, <2>6
    <3> QED BY <2>1, <2>2, <2>3, <2>4, <2>5, <2>6, <3>1, CartGoesOn
  <2>7. CASE ~ cart.exists
    <3>1. Proceed(r, "create cart", read)
      BY <2>4, <2>7
    <3>2. CartAt(req[r].op.do, "create cart")
      BY DEF CartAt
    <3> QED BY <2>1, <2>2, <2>3, <3>1, <3>2, CartGoesOn
  <2> QED BY <2>6, <2>7
<1>6. CASE CreateCart(r)
  <2>1. Runs(r) /\ req[r].op.do \in CartKinds
    BY <1>2, <1>6 DEF CreateCart, CartSteps
  <2>2. CASE cart.exists
    <3>1. Answer(r, "conflict") /\ UNCHANGED cartVars
      BY <1>6, <2>2 DEF CreateCart
    <3> QED BY <1>3, <3>1, LinesLeftAlone
  <2>3. CASE ~ cart.exists
    <3>1. Proceed(r, AfterCart(r), NothingRead) /\ cart' = NewCart /\ UNCHANGED <<lines, top>>
      BY <1>6, <2>3 DEF CreateCart
    <3>2. CartOK' /\ LinesWithinStock' /\ CartGrows
      BY <3>1, LinesLeftAlone
    <3>3. cart'.exists
      BY <3>1 DEF NewCart
    <3>4. CartAt(req[r].op.do, AfterCart(r)) /\ AfterCart(r) # "write line"
      BY <2>1, AfterCartIs
    <3> QED BY <1>4, <2>1, <3>1, <3>2, <3>3, <3>4, CartGoesOn
  <2> QED BY <2>2, <2>3
<1>7. CASE FindLine(r)
  <2> DEFINE line == LineOf(req[r].op.variant)
             read == [req[r].read EXCEPT !.line = line]
             asked == Wanted(r, line)
  <2>1. /\ Runs(r) /\ req[r].op.do \in CartKinds /\ cart.exists
        /\ DOMAIN req[r].read = {"line", "stock", "coupon"}
        /\ CartSound(req[r].op, "line", req[r].read)
    BY <1>2, <1>7 DEF FindLine, CartSteps
  <2>2. /\ UNCHANGED cartVars /\ req[r].op.do \in {"add", "update line", "remove"}
        /\ \/ Answer(r, "refused")
           \/ /\ Proceed(r, "write line", read)
              /\ req[r].op.do \in {"add", "update line"} => ~ (asked > StockRead(r))
    BY <1>7 DEF FindLine, Refuse
  <2>3. CartOK' /\ LinesWithinStock' /\ CartGrows
    BY <2>2, LinesLeftAlone
  <2>4. ASSUME Proceed(r, "write line", read),
               req[r].op.do \in {"add", "update line"} => ~ (asked > StockRead(r))
        PROVE  CartSound(req[r].op, req[r].at, req[r].read)'
    <3>1. /\ DOMAIN read = {"line", "stock", "coupon"} /\ read.stock = req[r].read.stock
          /\ read.line = line
      BY <2>1
    <3>2. asked = Asked(req[r].op, line)
      BY DEF Wanted, Asked
    <3>3. ASSUME SetsQuantity(req[r].op)
          PROVE  /\ asked \in Nat /\ StockRead(r) \in Nat
                 /\ StockRead(r) <= top[req[r].op.variant] /\ top[req[r].op.variant] \in Nat
      <4> PICK v : v = req[r].op.variant
        OBVIOUS
      <4>1. /\ v \in DOMAIN variants /\ req[r].op.quantity \in Nat
            /\ req[r].read.stock = -1
                \/ (req[r].read.stock \in Nat /\ req[r].read.stock <= top[v])
        BY <2>1, <3>3 DEF CartSound
      <4>2. variants[v].stock \in Nat /\ top[v] \in Nat /\ variants[v].stock <= top[v]
        BY <4>1 DEF CartsOK, CartOK, VariantsOK
      <4>3. line.quantity \in Nat
        BY DEF LineOf, NoLine, CartsOK, CartOK
      <4>4. StockRead(r) \in Nat /\ StockRead(r) <= top[v]
        BY <4>1, <4>2 DEF StockRead
      <4> HIDE DEF line
      <4>5. asked \in Nat
        BY <4>1, <4>3 DEF Wanted
      <4> QED BY <4>2, <4>4, <4>5
    <3> HIDE DEF read, asked, line
    <3>4. SetsQuantity(req[r].op) => asked <= StockRead(r)
      <4>1. SetsQuantity(req[r].op) => ~ (asked > StockRead(r))
        BY <2>4 DEF SetsQuantity
      <4> QED BY <3>3, <4>1, NotMore
    <3>5. SetsQuantity(req[r].op) => asked \in Nat /\ asked <= top[req[r].op.variant]
      BY <3>3, <3>4, WithinMore
    <3>6. CartAt(req[r].op.do, "write line")
      BY <2>2 DEF CartAt
    <3> QED BY <2>1, <2>2, <2>3, <2>4, <3>1, <3>2, <3>5, <3>6, CartGoesOn
  <2> QED BY <1>3, <2>2, <2>3, <2>4
<1>8. CASE InsertLine(r)
  <2> PICK v : v = req[r].op.variant
    OBVIOUS
  <2>1. /\ Runs(r) /\ req[r].op.do \in CartKinds /\ cart.exists
        /\ CartSound(req[r].op, "write line", req[r].read)
    BY <1>2, <1>8 DEF InsertLine, CartSteps
  <2>2. CASE v \in DOMAIN lines
    <3>1. Answer(r, "conflict") /\ UNCHANGED cartVars
      BY <1>8, <2>2 DEF InsertLine
    <3> QED BY <1>3, <3>1, LinesLeftAlone
  <2>3. CASE v \notin DOMAIN lines
    <3> DEFINE line == [id |-> r, quantity |-> Stored(r)]
    <3>1. /\ Proceed(r, "serialize", NothingRead) /\ UNCHANGED <<cart, top>>
          /\ lines' = With(lines, v, line) /\ SetsQuantity(req[r].op)
      BY <1>8, <2>3 DEF InsertLine, SetsQuantity
    <3>2. v \in DOMAIN variants /\ Stored(r) \in Nat /\ Stored(r) <= top[v]
      BY <2>1, <3>1 DEF CartSound, Stored, Wanted, Asked
    <3>3. line \in [id : {"l0"} \cup Request, quantity : Nat] /\ line.quantity <= top[v]
      BY <3>2
    <3> HIDE DEF line
    <3>4. /\ DOMAIN lines' = DOMAIN lines \cup {v} /\ lines'[v] = line
          /\ \A w \in DOMAIN lines \ {v} : lines'[w] = lines[w]
      BY <3>1 DEF With
    <3>5. CartOK' /\ LinesWithinStock' /\ CartGrows
      BY <2>1, <3>1, <3>2, <3>3, <3>4, LineIsWritten
    <3>6. CartAt(req[r].op.do, "serialize") /\ "serialize" # "write line"
      BY DEF CartAt
    <3> QED BY <1>4, <2>1, <3>1, <3>5, <3>6, CartGoesOn
  <2> QED BY <2>2, <2>3
<1>9. CASE WriteLine(r)
  <2> PICK v : v = req[r].op.variant
    OBVIOUS
  <2> DEFINE changed == Stored(r) # req[r].read.line.quantity
  <2>1. /\ Runs(r) /\ req[r].op.do \in CartKinds /\ cart.exists
        /\ CartSound(req[r].op, "write line", req[r].read)
    BY <1>2, <1>9 DEF WriteLine, CartSteps
  <2>2. CASE changed /\ ~ Present(r)
    <3>1. Answer(r, "error") /\ UNCHANGED cartVars
      BY <1>9, <2>2 DEF WriteLine
    <3> QED BY <1>3, <3>1, LinesLeftAlone
  <2>3. CASE ~ (changed /\ ~ Present(r))
    <3>1. /\ Proceed(r, "serialize", NothingRead) /\ UNCHANGED <<cart, top>>
          /\ lines' = IF changed THEN [lines EXCEPT ![v].quantity = Stored(r)] ELSE lines
          /\ SetsQuantity(req[r].op)
      BY <1>9, <2>1, <2>3 DEF WriteLine, SetsQuantity, CartSound, CartAt
    <3>2. v \in DOMAIN variants /\ Stored(r) \in Nat /\ Stored(r) <= top[v]
      BY <2>1, <3>1 DEF CartSound, Stored, Wanted, Asked
    <3>3. /\ DOMAIN lines' = DOMAIN lines
          /\ \A w \in DOMAIN lines \ {v} : lines'[w] = lines[w]
          /\ v \in DOMAIN lines => lines'[v] \in {lines[v], [lines[v] EXCEPT !.quantity = Stored(r)]}
      BY <3>1
    <3>4. v \in DOMAIN lines => /\ lines'[v] \in [id : {"l0"} \cup Request, quantity : Nat]
                                /\ lines'[v].quantity <= top[v]
      BY <3>2, <3>3 DEF CartsOK, CartOK, LinesWithinStock
    <3>5. CartOK' /\ LinesWithinStock' /\ CartGrows
      BY <2>1, <3>1, <3>2, <3>3, <3>4, LineIsWritten
    <3>6. CartAt(req[r].op.do, "serialize") /\ "serialize" # "write line"
      BY DEF CartAt
    <3> QED BY <1>4, <2>1, <3>1, <3>5, <3>6, CartGoesOn
  <2> QED BY <2>2, <2>3
<1>10. CASE RemoveLine(r)
  <2> PICK v : v = req[r].op.variant
    OBVIOUS
  <2>1. /\ Runs(r) /\ req[r].op.do \in CartKinds /\ cart.exists
    BY <1>2, <1>10 DEF RemoveLine, CartSteps
  <2>2. /\ Proceed(r, "serialize", NothingRead) /\ UNCHANGED <<cart, top>>
        /\ lines' = IF Present(r) THEN Without(lines, v) ELSE lines
    BY <1>10 DEF RemoveLine
  <2>3. CartOK' /\ LinesWithinStock' /\ CartGrows
    <3>1. CASE Present(r)
      <4>1. v \in DOMAIN variants
        BY <3>1 DEF Present, CartsOK, CartOK
      <4>2. /\ DOMAIN lines' = DOMAIN lines \ {v}
            /\ \A w \in DOMAIN lines \ {v} : lines'[w] = lines[w]
        BY <2>2, <3>1, WithoutIs
      <4> QED BY <2>1, <2>2, <4>1, <4>2, LineIsWritten
    <3>2. CASE ~ Present(r)
      BY <2>2, <3>2, LinesLeftAlone
    <3> QED BY <3>1, <3>2
  <2>4. CartAt(req[r].op.do, "serialize") /\ "serialize" # "write line"
    BY DEF CartAt
  <2> QED BY <1>4, <2>1, <2>2, <2>3, <2>4, CartGoesOn
<1>11. CASE Price(r)
  <2>1. /\ Runs(r) /\ req[r].op.do \in CartKinds /\ cart.exists
        /\ DOMAIN req[r].read = {"line", "stock", "coupon"}
        /\ CartSound(req[r].op, "price", req[r].read)
    BY <1>2, <1>11 DEF Price, CartSteps
  <2>2. /\ UNCHANGED cartVars
        /\ \/ \E step \in {"drop old", "drop old and refuse"} : Proceed(r, step, NothingRead)
           \/ Proceed(r, "coupon", req[r].read)
           \/ Answer(r, "refused")
    BY <1>11 DEF Price, Refuse
  <2>3. CartOK' /\ LinesWithinStock' /\ CartGrows
    BY <2>2, LinesLeftAlone
  <2>4. \A step \in {"drop old", "drop old and refuse", "coupon"} :
          CartAt(req[r].op.do, step) /\ step # "write line"
    BY <2>1 DEF CartSound, CartAt
  <2>5. ASSUME NEW step \in {"drop old", "drop old and refuse"}, Proceed(r, step, NothingRead)
        PROVE  CartSound(req[r].op, req[r].at, req[r].read)'
    BY <1>4, <2>1, <2>2, <2>3, <2>4, <2>5, CartGoesOn
  <2>6. ASSUME Proceed(r, "coupon", req[r].read)
        PROVE  CartSound(req[r].op, req[r].at, req[r].read)'
    BY <2>1, <2>2, <2>3, <2>4, <2>6, CartGoesOn
  <2> QED BY <1>3, <2>2, <2>3, <2>5, <2>6
<1>12. CASE DropOld(r)
  <2>1. /\ Runs(r) /\ req[r].op.do \in CartKinds /\ cart.exists
        /\ At(r, "drop old") => CartSound(req[r].op, "drop old", req[r].read)
    BY <1>2, <1>12 DEF DropOld, CartSteps
  <2>2. /\ cart' = [cart EXCEPT !.coupon = "none"] /\ UNCHANGED <<lines, top>>
        /\ \/ At(r, "drop old") /\ Proceed(r, "coupon", NothingRead)
           \/ Answer(r, "refused")
    BY <1>12 DEF DropOld, Refuse
  <2>3. CartOK' /\ LinesWithinStock' /\ CartGrows
    BY <2>2, LinesLeftAlone
  <2>4. ASSUME At(r, "drop old"), Proceed(r, "coupon", NothingRead)
        PROVE  CartSound(req[r].op, req[r].at, req[r].read)'
    <3>1. CartAt(req[r].op.do, "coupon") /\ "coupon" # "write line"
      BY <2>1, <2>4 DEF CartSound, CartAt
    <3>2. cart'.exists
      BY <2>1, <2>3 DEF CartGrows
    <3> QED BY <1>4, <2>1, <2>3, <2>4, <3>1, <3>2, CartGoesOn
  <2> QED BY <1>3, <2>2, <2>3, <2>4
<1>13. CASE WriteCoupon(r)
  <2>1. /\ Runs(r) /\ req[r].op.do \in CartKinds /\ cart.exists
        /\ CartSound(req[r].op, "coupon", req[r].read)
    BY <1>2, <1>13 DEF WriteCoupon, CartSteps
  <2>2. /\ Proceed(r, "serialize", NothingRead) /\ UNCHANGED <<lines, top>>
        /\ cart' = cart \/ \E c \in Coupon \cup {"none"} : cart' = [cart EXCEPT !.coupon = c]
    BY <1>13, <2>1 DEF WriteCoupon, CartSound
  <2>3. CartOK' /\ LinesWithinStock' /\ CartGrows
    BY <2>2, LinesLeftAlone
  <2>4. CartAt(req[r].op.do, "serialize") /\ "serialize" # "write line" /\ cart'.exists
    BY <2>1, <2>3 DEF CartAt, CartGrows
  <2> QED BY <1>4, <2>1, <2>2, <2>3, <2>4, CartGoesOn
<1>14. CASE Serialize(r)
  <2>1. /\ Runs(r) /\ req[r].op.do \in CartKinds /\ cart.exists
        /\ DOMAIN req[r].read = {"line", "stock", "coupon"}
    BY <1>2, <1>14 DEF Serialize, CartSteps
  <2>2. UNCHANGED cartVars /\ (Proceed(r, "drop coupon", req[r].read) \/ Answer(r, "ok"))
    BY <1>14 DEF Serialize
  <2>3. CartOK' /\ LinesWithinStock' /\ CartGrows
    BY <2>2, LinesLeftAlone
  <2>4. CartAt(req[r].op.do, "drop coupon") /\ "drop coupon" # "write line"
    BY DEF CartAt
  <2>5. Proceed(r, "drop coupon", req[r].read) => CartSound(req[r].op, req[r].at, req[r].read)'
    BY <2>1, <2>2, <2>3, <2>4, CartGoesOn
  <2> QED BY <1>3, <2>2, <2>3, <2>5
<1>15. CASE DropCoupon(r)
  <2>1. /\ cart' = [cart EXCEPT !.coupon = "none"] /\ UNCHANGED <<lines, top>>
        /\ Answer(r, "ok")
    BY <1>15 DEF DropCoupon
  <2> QED BY <1>3, <2>1, LinesLeftAlone
<1> QED BY <1>1, <1>5, <1>6, <1>7, <1>8, <1>9, <1>10, <1>11, <1>12, <1>13, <1>14, <1>15
        DEF CartStep

LEMMA InitCarts == Init => CartsOK
<1> SUFFICES ASSUME Init PROVE CartsOK
  OBVIOUS
<1>1. /\ DOMAIN variants = {FirstVariant} /\ variants[FirstVariant].stock = FirstStock
      /\ DOMAIN top = DOMAIN variants /\ top[FirstVariant] = FirstStock
  BY DEF Init, CatalogueInit, CartInit
<1>2. \A r \in Request : ~ Runs(r)
  BY DEF Init, SessionsInit, NotMade, Runs
<1>3. FirstStock \in Nat
  BY NewStockIs
<1>4. CASE cart = NoCart /\ lines = <<>>
  <2>1. DOMAIN lines = {}
    <3>1. <<>> \in Seq({}) /\ Len(<<>>) = 0
      OBVIOUS
    <3> QED BY <1>4, <3>1
  <2>2. DOMAIN cart = {"exists", "coupon"} /\ cart.coupon = "none"
    BY <1>4 DEF NoCart
  <2>3. CartOK
    BY <1>1, <1>3, <2>1, <2>2 DEF CartOK
  <2> QED BY <1>2, <2>1, <2>3 DEF CartsOK, LinesWithinStock
<1>5. CASE /\ \E n \in 1 .. FirstStock :
                lines = [v \in {FirstVariant} |-> [id |-> "l0", quantity |-> n]]
           /\ cart = NewCart \/ \E c \in Coupon : cart = [NewCart EXCEPT !.coupon = c]
  <2>1. PICK n \in 1 .. FirstStock :
          lines = [v \in {FirstVariant} |-> [id |-> "l0", quantity |-> n]]
    BY <1>5
  <2>2. cart = NewCart \/ \E c \in Coupon : cart = [NewCart EXCEPT !.coupon = c]
    BY <1>5
  <2>3. DOMAIN cart = {"exists", "coupon"} /\ cart.coupon \in Coupon \cup {"none"} /\ cart.exists
    BY <2>2 DEF NewCart
  <2>4. /\ DOMAIN lines = {FirstVariant} /\ n \in Nat /\ n <= FirstStock
        /\ lines[FirstVariant] = [id |-> "l0", quantity |-> n]
    BY <1>3, <2>1
  <2>5. CartOK
    BY <1>1, <1>3, <2>3, <2>4 DEF CartOK
  <2>6. LinesWithinStock
    BY <1>1, <2>4 DEF LinesWithinStock
  <2> QED BY <1>2, <2>5, <2>6 DEF CartsOK
<1> QED BY <1>4, <1>5 DEF Init, CartInit

\* The history goes with the stock.
LEMMA HistoryGrows ==
  ASSUME CartsOK, CatalogueOK', DOMAIN variants \subseteq DOMAIN variants', top' = Highest,
         UNCHANGED <<cart, lines>>
  PROVE  CartOK' /\ LinesWithinStock' /\ CartGrows
<1>1. \A v \in DOMAIN variants' : variants'[v].stock \in Nat
  BY DEF CatalogueOK, VariantsOK
<1>2. DOMAIN top' = DOMAIN variants'
  BY DEF Highest
<1>3. ASSUME NEW v \in DOMAIN variants'
      PROVE  /\ top'[v] \in Nat /\ variants'[v].stock <= top'[v]
             /\ v \in DOMAIN variants => top[v] \in Nat /\ top[v] <= top'[v]
  <2>1. top'[v] = IF v \in DOMAIN top /\ top[v] >= variants'[v].stock THEN top[v]
                  ELSE variants'[v].stock
    BY DEF Highest
  <2>2. v \in DOMAIN top => v \in DOMAIN variants /\ top[v] \in Nat
    BY DEF CartsOK, CartOK
  <2>3. v \in DOMAIN variants => v \in DOMAIN top
    BY DEF CartsOK, CartOK
  <2> QED BY <1>1, <2>1, <2>2, <2>3
<1>4. CartGrows
  BY <1>3 DEF CartGrows
<1>5. CartOK'
  BY <1>2, <1>3 DEF CartsOK, CartOK
<1>6. ASSUME NEW v \in DOMAIN lines
      PROVE  lines[v].quantity <= top'[v]
  <2>1. v \in DOMAIN variants /\ lines[v].quantity \in Nat /\ lines[v].quantity <= top[v]
    BY DEF CartsOK, CartOK, LinesWithinStock
  <2>2. top[v] \in Nat /\ top'[v] \in Nat /\ top[v] <= top'[v]
    BY <1>4, <2>1 DEF CartGrows
  <2> QED BY <2>1, <2>2, WithinMore
<1> QED BY <1>4, <1>5, <1>6 DEF LinesWithinStock

\* What a checkout in another tab leaves is part of what was there.
LEMMA CheckOutLeaves ==
  ASSUME CartOK, CheckOut
  PROVE  /\ DOMAIN lines' \subseteq DOMAIN lines
         /\ \A v \in DOMAIN lines' : lines'[v] = lines[v]
         /\ DOMAIN cart' = DOMAIN cart /\ cart'.exists = cart.exists /\ cart.exists
         /\ cart'.coupon \in {cart.coupon, "none"}
<1>1. PICK gone \in SUBSET DOMAIN lines : lines' = [v \in DOMAIN lines \ gone |-> lines[v]]
  BY DEF CheckOut
<1>2. DOMAIN cart = {"exists", "coupon"}
  BY DEF CartOK
<1>3. cart.exists /\ cart' \in {cart, [cart EXCEPT !.coupon = "none"]}
  BY DEF CheckOut
<1> QED BY <1>1, <1>2, <1>3

LEMMA NextCarts ==
  ASSUME SessionInv, CatalogueOK, CartsOK, [Next]_vars
  PROVE  CartsOK' /\ (cart.exists => cart'.exists)
<1>1. SessionInv' /\ Frozen
  BY NextSessions
<1>2. CatalogueOK' /\ DOMAIN variants \subseteq DOMAIN variants'
  BY NextCatalogue
<1>3. ASSUME CartGrows, NEW q \in Request, req'[q] = req[q], Runs(q)', req'[q].op.do \in CartKinds
      PROVE  CartSound(req[q].op, req[q].at, req[q].read)'
  <2>1. PICK s : s = req[q]
    OBVIOUS
  <2>2. CartSound(s.op, s.at, s.read)
    BY <1>3, <2>1 DEF CartsOK, Runs
  <2>3. CartSound(s.op, s.at, s.read)'
    BY <1>3, <2>2, CartSoundStays
  <2>4. req'[q] = s
    BY <1>3, <2>1
  <2> QED BY <2>3, <2>4, ZenonT(30) DEF CartSound, CartAt, SetsQuantity, Asked
<1>4. ASSUME NEW r \in Request, CartStep(r), UNCHANGED catalogueVars
      PROVE  CartsOK' /\ CartGrows
  <2>1. /\ CartOK' /\ LinesWithinStock' /\ CartGrows
        /\ Runs(r)' => CartSound(req[r].op, req[r].at, req[r].read)'
    BY <1>4, CartStepKeeps DEF CatalogueOK
  <2>2. \A q \in Request \ {r} : req'[q] = req[q]
    BY <1>4, CartSessions, OthersStay
  <2>3. ASSUME NEW q \in Request, Runs(q)', req'[q].op.do \in CartKinds
        PROVE  CartSound(req[q].op, req[q].at, req[q].read)'
    BY <1>3, <2>1, <2>2, <2>3
  <2> QED BY <2>1, <2>3 DEF CartsOK
<1>5. ASSUME UNCHANGED <<cart, lines>>, Aside(CartKinds),
             UNCHANGED <<variants, rows, top>> \/ top' = Highest
      PROVE  CartsOK' /\ CartGrows
  <2>1. CartOK' /\ LinesWithinStock' /\ CartGrows
    <3>1. CASE UNCHANGED <<variants, rows, top>>
      BY <1>5, <3>1, LinesLeftAlone
    <3>2. CASE top' = Highest
      BY <1>2, <1>5, <3>2, HistoryGrows
    <3> QED BY <1>5, <3>1, <3>2
  <2>2. ASSUME NEW q \in Request, Runs(q)', req'[q].op.do \in CartKinds
        PROVE  CartSound(req[q].op, req[q].at, req[q].read)'
    <3>1. req'[q] = req[q]
      BY <1>5, <2>2 DEF Aside, Runs
    <3> QED BY <1>3, <2>1, <2>2, <3>1
  <2> QED BY <2>1, <2>2 DEF CartsOK
<1>6. ASSUME CheckOut, UNCHANGED <<sessionVars, catalogueVars>>
      PROVE  CartsOK' /\ CartGrows
  <2>1. /\ DOMAIN lines' \subseteq DOMAIN lines /\ \A v \in DOMAIN lines' : lines'[v] = lines[v]
        /\ DOMAIN cart' = DOMAIN cart /\ cart'.exists = cart.exists /\ cart.exists
        /\ cart'.coupon \in {cart.coupon, "none"} /\ top' = top /\ variants' = variants
    BY <1>6, CheckOutLeaves DEF CartsOK, CheckOut, catalogueVars
  <2>2. CartOK' /\ LinesWithinStock' /\ CartGrows
    BY <2>1 DEF CartsOK, CartOK, LinesWithinStock, CartGrows
  <2>3. ASSUME NEW q \in Request, Runs(q)', req'[q].op.do \in CartKinds
        PROVE  CartSound(req[q].op, req[q].at, req[q].read)'
    BY <1>3, <1>6, <2>2, <2>3 DEF sessionVars
  <2> QED BY <2>2, <2>3 DEF CartsOK
<1>7. CartsOK' /\ CartGrows
  BY <1>4, <1>5, <1>6, CartsAside
<1> QED BY <1>7 DEF CartGrows

\* What is in the cart, and what its requests are about to store.
THEOREM CartsHold == Spec => []CartsOK
<1>1. CatalogueInv => CatalogueOK
  BY DEF CatalogueInv
<1> QED BY <1>1, InitCarts, NextCarts, CatalogueHolds, SessionsHold, PTL DEF Spec

\* For any number of tabs, variants and edits of the stock: no line of the cart
\* asks for more than the variant once had.
THEOREM LinesAreWithinStock == Spec => []LinesWithinStock
<1> QED BY CartsHold, PTL DEF CartsOK

\* The types of the store: references lead to rows, stock and counts are
\* numbers, emails differ in more than their case.
THEOREM TypesHold == Spec => []StoreTypeOK
<1>1. CatalogueInv => CatalogueOK
  BY DEF CatalogueInv
<1>2. CatalogueOK /\ CartsOK /\ ReviewsInv /\ AccountsInv => StoreTypeOK
  <2> SUFFICES ASSUME CatalogueOK, CartsOK, ReviewsInv, AccountsInv PROVE StoreTypeOK
    OBVIOUS
  <2>1. /\ \A id \in DOMAIN rows.products : /\ rows.products[id].category \in DOMAIN rows.categories
                                            /\ rows.products[id].status \in Status
        /\ \A id \in DOMAIN rows.categories :
             rows.categories[id].parent \in DOMAIN rows.categories \cup {"none"}
    BY DEF CatalogueOK, RowsOK, Known
  <2>2. \A v \in DOMAIN variants : /\ variants[v].product \in DOMAIN rows.products
                                   /\ variants[v].stock \in Nat
    BY DEF CatalogueOK, VariantsOK
  <2>3. /\ DOMAIN lines \subseteq DOMAIN variants /\ DOMAIN top = DOMAIN variants
        /\ cart.coupon \in Coupon \cup {"none"} /\ (DOMAIN lines # {} => cart.exists)
    BY DEF CartsOK, CartOK
  <2>4. review.helpful \in Nat /\ \A q \in DOMAIN searches : searches[q] \in Nat \ {0}
    BY DEF ReviewsInv, ReviewsOK
  <2>5. \A u \in DOMAIN users : users[u].role \in Role /\ Lower[users[u].email] = users[u].email
    BY DEF AccountsInv, AccountsOK, Account, LowerEmail
  <2>6. \A u, w \in DOMAIN users : u # w => users[u].email # users[w].email
    BY DEF AccountsInv, AccountsOK
  <2>7. \A a \in DOMAIN addresses : addresses[a].user \in DOMAIN users
    BY DEF AccountsInv, AccountsOK
  <2> QED BY <2>1, <2>2, <2>3, <2>4, <2>5, <2>6, <2>7 DEF StoreTypeOK
<1> QED BY <1>1, <1>2, CatalogueHolds, CartsHold, ReviewsHold, AccountsHold, PTL

-----------------------------------------------------------------------------
(* The coupon.                                                             *)

LEMMA InitCoupon == Init => CouponMended
<1> SUFFICES ASSUME Init PROVE Fine
  BY DEF CouponMended
<1>1. CASE cart = NoCart
  BY <1>1 DEF Fine, NoCart
<1>2. CASE cart = NewCart
  BY <1>2 DEF Fine, NewCart
<1>3. ASSUME NEW c \in Coupon, cart = [NewCart EXCEPT !.coupon = c], Valid(c)
      PROVE  Fine
  <2>1. cart.coupon = c
    BY <1>3 DEF NewCart
  <2> QED BY <1>3, <2>1 DEF Fine
<1> QED BY <1>1, <1>2, <1>3 DEF Init, CartInit

\* Every step that changes the lines or the coupon leads to serialize, which
\* answers only when the coupon fits, or drops it.
LEMMA NextCoupon ==
  ASSUME SessionInv, CartsOK, CouponMended, [Next]_vars
  PROVE  CouponMended'
<1>1. SessionInv' /\ Frozen
  BY NextSessions
<1>2. SUFFICES ASSUME ~ Excused' PROVE CouponMended'
  BY DEF CouponMended
<1>3. ~ Excused
  BY <1>1, <1>2 DEF Excused, Frozen, SessionInv, RequestsOK, At, Runs
<1>4. moved \/ Fine \/ \E r \in Request : Mends(r)
  BY <1>3 DEF CouponMended
<1>m. SUFFICES ASSUME ~ moved' PROVE CouponMended'
  BY DEF CouponMended
<1>5. ASSUME NEW q \in Request, Mends(q), req'[q] = req[q]
      PROVE  Mends(q)'
  BY <1>5 DEF Mends, At
<1>6. ASSUME UNCHANGED <<cart, lines, terms>>
      PROVE  Fine' <=> Fine
  BY <1>6 DEF Fine, Valid, Subtotal
<1>7. ASSUME UNCHANGED <<cart, lines, terms>>, ~ moved, Aside(CartKinds)
      PROVE  CouponMended'
  <2>1. ASSUME NEW q \in Request, Mends(q)
        PROVE  Mends(q)'
    <3>1. req'[q].op.do \in CartKinds /\ Runs(q)
      BY <1>1, <2>1 DEF Frozen, Mends, At, Runs
    <3>2. req'[q] = req[q]
      BY <1>2, <1>7, <3>1 DEF Aside, Excused
    <3> QED BY <1>5, <2>1, <3>2
  <2> QED BY <1>4, <1>6, <1>7, <2>1 DEF CouponMended
<1>8. ASSUME NEW r \in Request, CartStep(r), UNCHANGED terms, moved' = (moved /\ ~ Judges(r))
      PROVE  CouponMended'
  <2>0. ~ At(r, "serialize") \/ CouponRead(r) # cart.coupon => ~ moved
    BY <1>m, <1>8 DEF Judges
  <2>1. \A q \in Request \ {r} : req'[q] = req[q]
    BY <1>8, CartSessions, OthersStay
  <2>2. ASSUME UNCHANGED <<cart, lines>>, ~ Mends(r), ~ moved
        PROVE  CouponMended'
    BY <1>4, <1>5, <1>6, <1>8, <2>1, <2>2 DEF CouponMended
  <2>3. ASSUME cart'.coupon = "none"
        PROVE  CouponMended'
    BY <2>3 DEF CouponMended, Fine
  <2>4. ASSUME NEW read, Proceed(r, "serialize", read), req[r].op.do \in CartKinds \ {"view"}
        PROVE  CouponMended'
    <3>1. req'[r].at = "serialize" /\ req'[r].op = req[r].op
      BY <2>4, ProceededIs
    <3> QED BY <2>4, <3>1 DEF CouponMended, Mends, At
  <2>5. DOMAIN cart = {"exists", "coupon"}
    BY DEF CartsOK, CartOK
  <2>6. CASE (AddItem(r) \/ ChangeLine(r) \/ OtherRequest(r)) /\ UNCHANGED cartVars
    <3>1. At(r, "new")
      <4>1. CASE AddItem(r)
        BY <4>1 DEF AddItem, RefuseAtOnce, Begin
      <4>2. CASE ChangeLine(r)
        BY <4>2 DEF ChangeLine, Begin
      <4>3. CASE OtherRequest(r)
        BY <4>3 DEF OtherRequest, Begin
      <4> QED BY <2>6, <4>1, <4>2, <4>3
    <3> QED BY <2>0, <2>2, <2>6, <3>1 DEF Mends, At, cartVars
  <2>7. CASE FindCart(r) \/ FindLine(r) \/ Price(r)
    BY <2>0, <2>2, <2>7 DEF FindCart, FindLine, Price, Mends, At, cartVars
  <2>8. CASE CreateCart(r)
    <3>1. ~ Mends(r) /\ lines' = lines /\ ~ moved
      BY <2>0, <2>8 DEF CreateCart, Mends, At
    <3>2. cart' = cart \/ cart'.coupon = "none"
      <4>1. cart' = cart \/ cart' = NewCart
        BY <2>8 DEF CreateCart
      <4> QED BY <4>1 DEF NewCart
    <3> QED BY <2>2, <2>3, <3>1, <3>2
  <2>9. CASE InsertLine(r) \/ WriteLine(r) \/ RemoveLine(r)
    <3>1. At(r, "write line") /\ Runs(r) /\ req[r].op.do \in CartKinds
      BY <2>9, KindAt DEF InsertLine, WriteLine, RemoveLine, CartSteps
    <3>2. req[r].op.do # "view"
      BY <3>1 DEF CartsOK, CartSound, CartAt, At
    <3>3. ~ Mends(r) /\ ~ moved
      BY <2>0, <3>1 DEF Mends, At
    <3>4. Proceed(r, "serialize", NothingRead) \/ UNCHANGED <<cart, lines>>
      BY <2>9 DEF InsertLine, WriteLine, RemoveLine
    <3> QED BY <2>2, <2>4, <3>1, <3>2, <3>3, <3>4
  <2>10. CASE DropOld(r) \/ DropCoupon(r)
    BY <2>3, <2>5, <2>10 DEF DropOld, DropCoupon
  <2>11. CASE WriteCoupon(r)
    <3>1. At(r, "coupon") /\ Runs(r) /\ req[r].op.do \in CartKinds
      BY <2>11, KindAt DEF WriteCoupon, CartSteps
    <3>2. req[r].op.do # "view"
      BY <3>1 DEF CartsOK, CartSound, CartAt, At
    <3> QED BY <2>4, <2>11, <3>1, <3>2 DEF WriteCoupon
  <2>12. CASE Serialize(r)
    <3>1. At(r, "serialize") /\ Runs(r) /\ req[r].op.do \in CartKinds /\ UNCHANGED <<cart, lines>>
      BY <2>12, KindAt DEF Serialize, CartSteps, cartVars
    <3>2. CASE Unfit(r)
      <4>1. req'[r].at = "drop coupon" /\ req'[r].op = req[r].op
        BY <2>12, <3>2, ProceededIs DEF Serialize
      <4> QED BY <3>1, <4>1 DEF CouponMended, Mends, At
    <3>3. CASE ~ Unfit(r)
      <4>1. CASE CouponRead(r) = cart.coupon
        <5>1. Fine
          BY <3>3, <4>1 DEF Unfit, Fine
        <5> QED BY <1>6, <1>8, <3>1, <5>1 DEF CouponMended
      <4>2. CASE CouponRead(r) # cart.coupon
        <5>1. ~ Mends(r)
          BY <3>1, <4>2 DEF CouponRead, Mends, At
        <5> QED BY <2>0, <2>2, <3>1, <4>2, <5>1
      <4> QED BY <4>1, <4>2
    <3> QED BY <3>2, <3>3
  <2> QED BY <1>8, <2>6, <2>7, <2>8, <2>9, <2>10, <2>11, <2>12 DEF CartStep
<1>9. ~ CheckOut /\ ~ Reprice
  BY <1>m DEF CheckOut, Reprice
<1>10. UNCHANGED termVars => UNCHANGED terms /\ ~ moved
  BY <1>m DEF termVars
<1> QED BY <1>7, <1>8, <1>9, <1>10, CartsAside

\* For any number of tabs, prices and coupons: when nobody is at the cart, its
\* coupon fits, unless what it has to fit moved since a request answered with
\* it or a worker died; and counters have counted, as CountsHold says.
THEOREM RivalsSpoilNoMore == Spec => []OnlyRivalsSpoil
<1>1. SessionInv /\ CouponMended => CouponFits
  <2> SUFFICES ASSUME SessionInv, CouponMended, Idle PROVE Excused \/ moved \/ Fine
    BY DEF CouponFits, Excused, Fine
  <2>1. \A r \in Request : ~ Mends(r)
    BY DEF Idle, Mends, At, Runs
  <2> QED BY <2>1 DEF CouponMended
<1>2. Spec => []CouponMended
  BY InitCoupon, NextCoupon, CartsHold, SessionsHold, PTL DEF Spec
<1> QED BY <1>1, <1>2, SessionsHold, CountsHold, PTL DEF OnlyRivalsSpoil

-----------------------------------------------------------------------------
(* Conflicts.                                                              *)

Conflict(r) == req[r].answer = "conflict" => Rival(r) \/ Unchecked(req[r].op)

LEMMA RivalsRemain ==
  ASSUME SessionInv, Frozen
  PROVE  \A r \in Request : Rival(r) => Rival(r)'
<1> SUFFICES ASSUME NEW r \in Request, Rival(r) PROVE Rival(r)'
  OBVIOUS
<1>1. PICK q \in Request : Met(r, q) /\ Contend(req[r].op, req[q].op)
  BY DEF Rival
<1>2. ~ At(r, "new") /\ ~ At(q, "new")
  BY <1>1 DEF SessionInv, RequestsOK, MetOK, Met
<1>3. req'[r].op = req[r].op /\ req'[q].op = req[q].op /\ Met(r, q)'
  BY <1>1, <1>2 DEF Frozen, Met
<1> QED BY <1>1, <1>3 DEF Rival

LEMMA RivalsMeet ==
  ASSUME SessionInv, NEW r \in Request, NEW q \in Request, r # q, Runs(r), Runs(q),
         Contend(req[r].op, req[q].op)
  PROVE  Rival(r)
BY DEF Rival, SessionInv, MetOK

\* Reviews and searches.
LEMMA NextReviewRaces ==
  ASSUME SessionInv, SessionInv', Frozen, ReviewsInv, ReviewRaces, NEW s \in Request, ReviewStep(s)
  PROVE  ReviewRaces' /\ Conflict(s)'
<1>1. \A r \in Request \ {s} : req'[r] = req[r]
  BY ReviewSessions, OthersStay
<1>2. \A r \in Request : Rival(r) => Rival(r)'
  BY RivalsRemain
<1>3. ASSUME review'.exists = review.exists, DOMAIN searches' = DOMAIN searches,
             ReviewFree(s)', req'[s].answer # "conflict"
      PROVE  ReviewRaces' /\ Conflict(s)'
  <2>1. ASSUME NEW r \in Request \ {s}, ReviewFree(r) PROVE ReviewFree(r)'
    BY <1>1, <1>3, <2>1 DEF ReviewFree, At
  <2> QED BY <1>2, <1>3, <2>1 DEF ReviewRaces, Conflict
<1>4. DOMAIN review = {"exists", "verified", "helpful", "reported"}
  BY DEF ReviewsInv, ReviewsOK
<1>5. CASE CreateReview(s) /\ UNCHANGED reviewVars
  <2>0. PICK product \in {"p0", "gone"} :
          LET op == [do |-> "review", product |-> product]
          IN  IF product = "p0" /\ review.exists THEN RefuseAtOnce(s, op)
              ELSE Begin(s, op, "purchase", <<>>)
    BY <1>5 DEF CreateReview
  <2> DEFINE op == [do |-> "review", product |-> product]
  <2>1. IF product = "p0" /\ review.exists THEN RefuseAtOnce(s, op) ELSE Begin(s, op, "purchase", <<>>)
    BY <2>0
  <2>p. op.product = product
    OBVIOUS
  <2> HIDE DEF op
  <2>2. \/ req'[s].at = "done" /\ req'[s].answer = "refused"
        \/ /\ req'[s].at = "purchase" /\ req'[s].answer = "none"
           /\ req'[s].op.product = "gone" \/ ~ review.exists
    BY <2>0, <2>1, <2>p, AskedIs, RefusedIs, BegunIs
  <2> QED BY <1>3, <1>5, <2>2 DEF ReviewFree, At, reviewVars
<1>6. CASE (MarkHelpful(s) \/ ReportReview(s)) /\ UNCHANGED reviewVars
  <2> DEFINE helpful == [do |-> "helpful"]
             report == [do |-> "report"]
             read == [count |-> review.helpful]
  <2>1. \/ RefuseAtOnce(s, helpful) \/ Begin(s, helpful, "helpful", read)
        \/ RefuseAtOnce(s, report) \/ Begin(s, report, "report", <<>>)
    BY <1>6 DEF MarkHelpful, ReportReview
  <2> HIDE DEF helpful, report, read
  <2>2. req'[s].at \in {"done", "helpful", "report"} /\ req'[s].answer \in {"refused", "none"}
    BY <2>1, AskedIs
  <2> QED BY <1>3, <1>6, <2>2 DEF ReviewFree, At, reviewVars
<1>7. CASE LogSearch(s) /\ UNCHANGED reviewVars
  <2> DEFINE op(q) == [do |-> "search", query |-> q]
             read(q) == [count |-> IF q \in DOMAIN searches THEN searches[q] ELSE 0]
  <2>1. PICK q \in Query : Begin(s, op(q), "search", read(q))
    BY <1>7 DEF LogSearch
  <2>2. op(q).query = q /\ read(q).count = IF q \in DOMAIN searches THEN searches[q] ELSE 0
    OBVIOUS
  <2>3. q \in DOMAIN searches => read(q).count # 0
    BY <2>2 DEF ReviewsInv, ReviewsOK
  <2> HIDE DEF op, read
  <2>4. req'[s].at = "search" /\ req'[s].op = op(q) /\ req'[s].read = read(q) /\ req'[s].answer = "none"
    BY <2>1, BegunIs
  <2> QED BY <1>3, <1>7, <2>2, <2>3, <2>4 DEF ReviewFree, At, reviewVars
<1>8. CASE CheckPurchase(s)
  <2> DEFINE read == [verified |-> bought /\ req[s].op.product = "p0"]
  <2>1. At(s, "purchase") /\ Proceed(s, "insert review", read) /\ UNCHANGED reviewVars
    BY <1>8 DEF CheckPurchase
  <2> HIDE DEF read
  <2>2. /\ req'[s].at = "insert review" /\ req'[s].answer = req[s].answer
        /\ req[s].answer = "none" /\ req'[s].op = req[s].op
    <3>1. Runs(s)
      BY <2>1, KindAt
    <3>2. req[s].answer = "none"
      BY <3>1 DEF SessionInv, RequestsOK
    <3> QED BY <2>1, <3>2, ProceededIs
  <2>3. ASSUME NEW r \in Request, ReviewFree(r) PROVE ReviewFree(r)'
    <3>1. CASE r = s
      BY <2>1, <2>2, <2>3, <3>1 DEF ReviewFree, At, reviewVars
    <3>2. CASE r # s
      BY <1>1, <2>1, <2>3, <3>2 DEF ReviewFree, At, reviewVars
    <3> QED BY <3>1, <3>2
  <2> QED BY <1>2, <2>2, <2>3 DEF ReviewRaces, Conflict
<1>9. CASE InsertReview(s)
  <2>1. At(s, "insert review") /\ Runs(s) /\ req[s].op.do = "review" /\ searches' = searches
    BY <1>9, KindAt DEF InsertReview
  <2>2. CASE req[s].op.product = "gone" \/ review.exists
    <3>1. /\ req'[s].at = "done" /\ req'[s].answer = "conflict" /\ review' = review
          /\ req'[s].op = req[s].op
      BY <1>9, <2>2, AnsweredIs DEF InsertReview
    <3>2. Rival(s) \/ Unchecked(req'[s].op)
      BY <2>1, <2>2, <3>1 DEF ReviewRaces, ReviewFree, Unchecked
    <3>3. ASSUME NEW r \in Request \ {s}, ReviewFree(r) PROVE ReviewFree(r)'
      BY <1>1, <2>1, <3>1, <3>3 DEF ReviewFree, At
    <3>4. ReviewFree(s)'
      BY <3>1 DEF ReviewFree, At
    <3> QED BY <1>2, <3>2, <3>3, <3>4 DEF ReviewRaces, Conflict
  <2>3. CASE ~ (req[s].op.product = "gone" \/ review.exists)
    <3>1. req'[s].at = "done" /\ req'[s].answer = "ok"
      BY <1>9, <2>3, AnsweredIs DEF InsertReview
    <3>2. ASSUME NEW r \in Request \ {s}, ReviewFree(r), ~ Rival(r) PROVE ReviewFree(r)'
      <4>1. ASSUME At(r, "purchase") \/ At(r, "insert review") PROVE FALSE
        <5>1. Runs(r) /\ req[r].op.do = "review"
          BY <4>1, KindAt
        <5>2. Contend(req[r].op, req[s].op)
          BY <2>1, <5>1 DEF Contend
        <5> QED BY <2>1, <3>2, <5>1, <5>2, RivalsMeet
      <4> QED BY <1>1, <2>1, <3>2, <4>1 DEF ReviewFree, At
    <3> QED BY <1>2, <3>1, <3>2 DEF ReviewRaces, ReviewFree, Conflict, At
  <2> QED BY <2>2, <2>3
<1>10. CASE WriteHelpful(s) \/ WriteReport(s)
  <2>1. searches' = searches /\ review'.exists = review.exists
    BY <1>4, <1>10 DEF WriteHelpful, WriteReport
  <2>2. req'[s].at = "done" /\ req'[s].answer = "ok"
    BY <1>10, AnsweredIs DEF WriteHelpful, WriteReport
  <2> QED BY <1>3, <2>1, <2>2 DEF ReviewFree, At
<1>11. CASE WriteSearch(s)
  <2> PICK q : q = req[s].op.query
    OBVIOUS
  <2> DEFINE legal == req[s].read.count = 0 => q \notin DOMAIN searches
  <2>1. At(s, "search") /\ Runs(s) /\ req[s].op.do = "search" /\ review' = review
    BY <1>11, KindAt DEF WriteSearch
  <2>2. /\ Answer(s, IF legal THEN "ok" ELSE "conflict")
        /\ searches' = IF legal THEN With(searches, q, req[s].read.count + 1) ELSE searches
    BY <1>11 DEF WriteSearch, CommitAnswer
  <2>3. DOMAIN searches' \subseteq DOMAIN searches \cup {q}
    BY <2>2 DEF With
  <2>4. req'[s].at = "done" /\ (req'[s].answer = "conflict" => ~ legal)
    BY <2>2, AnsweredIs
  <2>5. ~ legal => Rival(s)
    BY <2>1 DEF ReviewRaces, ReviewFree
  <2>6. ASSUME NEW r \in Request \ {s}, ReviewFree(r), ~ Rival(r) PROVE ReviewFree(r)'
    <3>1. ASSUME At(r, "search"), req[r].op.query = q PROVE FALSE
      <4>1. Runs(r) /\ req[r].op.do = "search"
        BY <3>1, KindAt
      <4>2. Contend(req[r].op, req[s].op)
        BY <2>1, <3>1, <4>1 DEF Contend
      <4> QED BY <2>1, <2>6, <4>1, <4>2, RivalsMeet
    <3> QED BY <1>1, <2>1, <2>3, <2>6, <3>1 DEF ReviewFree, At
  <2>7. ReviewFree(s)'
    BY <2>4 DEF ReviewFree, At
  <2> QED BY <1>2, <2>4, <2>5, <2>6, <2>7 DEF ReviewRaces, Conflict
<1> QED BY <1>5, <1>6, <1>7, <1>8, <1>9, <1>10, <1>11 DEF ReviewStep

\* Emails.
LEMMA NextAccountRaces ==
  ASSUME SessionInv, SessionInv', Frozen, AccountsOK, AccountRequestsOK, AccountRaces,
         NEW s \in Request, AccountStep(s)
  PROVE  AccountRaces' /\ Conflict(s)'
<1>1. \A r \in Request \ {s} : req'[r] = req[r]
  BY AccountSessions, OthersStay
<1>2. \A r \in Request : Rival(r) => Rival(r)'
  BY RivalsRemain
<1>3. ASSUME DOMAIN users' = DOMAIN users, \A u \in DOMAIN users : users'[u].email = users[u].email,
             EmailFree(s)', req'[s].answer # "conflict"
      PROVE  AccountRaces' /\ Conflict(s)'
  <2>1. ASSUME NEW r \in Request \ {s}, EmailFree(r) PROVE EmailFree(r)'
    BY <1>1, <1>3, <2>1 DEF EmailFree, EmailTaken, At
  <2> QED BY <1>2, <1>3, <2>1 DEF AccountRaces, Conflict
<1>4. CASE Signup(s) /\ UNCHANGED accountVars
  <2> DEFINE op(typed) == [do |-> "signup", email |-> Normalized(typed)]
  <2>1. PICK typed \in NewEmail :
          IF EmailTaken(op(typed).email) THEN RefuseAtOnce(s, op(typed))
          ELSE Begin(s, op(typed), "signup", <<>>)
    BY <1>4 DEF Signup
  <2> HIDE DEF op
  <2>2. \/ req'[s].at = "done" /\ req'[s].answer = "refused"
        \/ /\ req'[s].at = "signup" /\ req'[s].op = op(typed) /\ req'[s].answer = "none"
           /\ ~ EmailTaken(op(typed).email)
    BY <2>1, RefusedIs, BegunIs
  <2> QED BY <1>3, <1>4, <2>2 DEF EmailFree, EmailTaken, At, accountVars
<1>5. ASSUME NEW op, NEW step, NEW read, step # "signup", UNCHANGED users,
             RefuseAtOnce(s, op) \/ Begin(s, op, step, read)
      PROVE  AccountRaces' /\ Conflict(s)'
  <2>1. req'[s].at \in {"done", step} /\ req'[s].answer \in {"none", "refused"}
    BY <1>5, AskedIs
  <2> QED BY <1>3, <1>5, <2>1 DEF EmailFree, At
<1>6. CASE (ChangeUser(s) \/ CreateAddress(s) \/ DeleteAddress(s)) /\ UNCHANGED accountVars
  <2>1. \E op, step, read : step # "signup" /\ (RefuseAtOnce(s, op) \/ Begin(s, op, step, read))
    <3> DEFINE user(actor, target, change) == [do |-> "user", actor |-> actor, target |-> target,
                                               row |-> change]
               address(u, default) == [do |-> "address", user |-> u, default |-> default]
               delete(u, a) == [do |-> "delete address", user |-> u, id |-> a]
    <3>1. CASE ChangeUser(s)
      <4>1. \E actor, target, change :
              RefuseAtOnce(s, user(actor, target, change))
               \/ Begin(s, user(actor, target, change), "load user", <<>>)
        BY <3>1 DEF ChangeUser
      <4> HIDE DEF user
      <4> QED BY <4>1
    <3>2. CASE CreateAddress(s)
      <4>1. PICK u \in DOMAIN users, default \in BOOLEAN :
              RefuseAtOnce(s, address(u, default))
               \/ Begin(s, address(u, default), IF default THEN "unset" ELSE "insert address", {})
        BY <3>2 DEF CreateAddress
      <4> HIDE DEF address
      <4>2. PICK step : step = IF default THEN "unset" ELSE "insert address"
        OBVIOUS
      <4>3. RefuseAtOnce(s, address(u, default)) \/ Begin(s, address(u, default), step, {})
        BY <4>1, <4>2, Zenon
      <4>4. step # "signup"
        BY <4>2
      <4> QED BY <4>3, <4>4
    <3>3. CASE DeleteAddress(s)
      <4>1. \E u, a : RefuseAtOnce(s, delete(u, a)) \/ Begin(s, delete(u, a), "delete address", <<>>)
        BY <3>3 DEF DeleteAddress
      <4> HIDE DEF delete
      <4> QED BY <4>1
    <3> QED BY <1>6, <3>1, <3>2, <3>3
  <2> QED BY <1>5, <1>6, <2>1 DEF accountVars
<1>7. CASE LoadUser(s) \/ UnsetDefaults(s) \/ LockDefaults(s)
  <2>1. Runs(s) /\ UNCHANGED users
    BY <1>7, KindAt DEF LoadUser, UnsetDefaults, LockDefaults, accountVars
  <2>2. req[s].answer = "none"
    BY <2>1 DEF SessionInv, RequestsOK
  <2>3. req'[s].at \in {"write user", "lock", "insert address"} /\ req'[s].answer = req[s].answer
    BY <1>7, ProceededIs DEF LoadUser, UnsetDefaults, LockDefaults
  <2> QED BY <1>3, <2>1, <2>2, <2>3 DEF EmailFree, At
<1>8. CASE InsertUser(s)
  <2> PICK email : email = req[s].op.email
    OBVIOUS
  <2>1. At(s, "signup") /\ Runs(s) /\ req[s].op.do = "signup"
    BY <1>8, KindAt DEF InsertUser
  <2>2. CASE EmailTaken(email)
    <3>1. Answer(s, "conflict") /\ users' = users
      BY <1>8, <2>2 DEF InsertUser, CommitAnswer
    <3>2. req'[s].at = "done"
      BY <3>1, AnsweredIs
    <3>3. Rival(s)
      BY <2>1, <2>2 DEF AccountRaces, EmailFree
    <3>4. ASSUME NEW r \in Request, EmailFree(r) PROVE EmailFree(r)'
      BY <1>1, <3>1, <3>2, <3>4 DEF EmailFree, EmailTaken, At
    <3> QED BY <1>2, <3>3, <3>4 DEF AccountRaces, Conflict
  <2>3. CASE ~ EmailTaken(email)
    <3> DEFINE new == [email |-> email, role |-> "customer", active |-> TRUE]
    <3>1. Answer(s, "ok") /\ users' = With(users, s, new) /\ new.email = email
      BY <1>8, <2>3 DEF InsertUser, CommitAnswer
    <3> HIDE DEF new
    <3>2. /\ DOMAIN users' = DOMAIN users \cup {s} /\ users'[s].email = email
          /\ \A u \in DOMAIN users \ {s} : users'[u] = users[u]
      BY <3>1 DEF With
    <3>3. req'[s].at = "done" /\ req'[s].answer = "ok"
      BY <3>1, AnsweredIs
    <3>4. ASSUME NEW r \in Request \ {s}, EmailFree(r), ~ Rival(r) PROVE EmailFree(r)'
      <4>1. ASSUME At(r, "signup"), req[r].op.email = email PROVE FALSE
        <5>1. Runs(r) /\ req[r].op.do = "signup"
          BY <4>1, KindAt
        <5>2. Contend(req[r].op, req[s].op)
          BY <2>1, <4>1, <5>1 DEF Contend
        <5> QED BY <2>1, <3>4, <5>1, <5>2, RivalsMeet
      <4> QED BY <1>1, <3>2, <3>4, <4>1 DEF EmailFree, EmailTaken, At
    <3> QED BY <1>2, <3>3, <3>4 DEF AccountRaces, EmailFree, Conflict, At
  <2> QED BY <2>2, <2>3
<1>9. CASE WriteUser(s)
  <2> PICK target, loaded, change :
        target = req[s].op.target /\ loaded = req[s].read /\ change = req[s].op.row
    OBVIOUS
  <2>1. /\ At(s, "write user") /\ Answer(s, "ok")
        /\ users' = [users EXCEPT ![target] = Flush(@, loaded, change)]
    BY <1>9 DEF WriteUser
  <2>2. Runs(s) /\ req[s].op.do = "user"
    BY <2>1, KindAt
  <2>3. target \in DOMAIN users /\ change \in Change
    BY <2>2 DEF AccountRequestsOK
  <2>4. Flush(users[target], loaded, change).email = users[target].email
    BY <2>3, FlushedAccount DEF AccountsOK
  <2>5. DOMAIN users' = DOMAIN users /\ \A u \in DOMAIN users : users'[u].email = users[u].email
    BY <2>1, <2>4
  <2>6. req'[s].at = "done" /\ req'[s].answer = "ok"
    BY <2>1, AnsweredIs
  <2> QED BY <1>3, <2>5, <2>6 DEF EmailFree, At
<1>10. CASE InsertAddress(s) \/ RemoveAddress(s)
  <2>1. req'[s].at = "done" /\ req'[s].answer = "ok" /\ users' = users
    BY <1>10, AnsweredIs DEF InsertAddress, RemoveAddress
  <2> QED BY <1>3, <2>1 DEF EmailFree, At
<1> QED BY <1>4, <1>6, <1>7, <1>8, <1>9, <1>10 DEF AccountStep

\* The cart: any two of its requests that run at once are rivals.
LEMMA NextCartRaces ==
  ASSUME SessionInv, SessionInv', Frozen, CartsOK, CartRaces, NEW s \in Request, CartStep(s)
  PROVE  CartRaces' /\ Conflict(s)'
<1>1. \A r \in Request \ {s} : req'[r] = req[r]
  BY CartSessions, OthersStay
<1>2. \A r \in Request : Rival(r) => Rival(r)'
  BY RivalsRemain
<1>3. ASSUME NEW r \in Request, ~ Rival(r) PROVE CartFree(r)
  BY <1>3 DEF CartRaces
<1>4. ASSUME NEW r \in Request, ~ (Runs(r) /\ req[r].op.do \in CartKinds) PROVE CartFree(r)
  BY <1>4, KindAt DEF CartFree, CartSteps
<1>5. ASSUME Runs(s), req[s].op.do \in CartKinds,
             Rival(s)' \/ CartFree(s)', req'[s].answer = "conflict" => Rival(s)'
      PROVE  CartRaces' /\ Conflict(s)'
  <2>1. ASSUME NEW r \in Request \ {s}, ~ Rival(r) PROVE CartFree(r)'
    <3>1. ~ (Runs(r) /\ req[r].op.do \in CartKinds)
      <4>1. ASSUME Runs(r), req[r].op.do \in CartKinds PROVE FALSE
        <5>1. Contend(req[r].op, req[s].op)
          BY <1>5, <4>1 DEF Contend
        <5> QED BY <1>5, <2>1, <4>1, <5>1, RivalsMeet
      <4> QED BY <4>1
    <3>2. ~ At(r, "create cart") /\ ~ At(r, "write line")
      BY <3>1, KindAt DEF CartSteps
    <3> QED BY <1>1, <3>2 DEF CartFree, At
  <2> QED BY <1>2, <1>5, <2>1 DEF CartRaces, Conflict
<1>6. ASSUME UNCHANGED <<cart, lines>>, req'[s].at \in {"done", "cart"}, req'[s].answer # "conflict"
      PROVE  CartRaces' /\ Conflict(s)'
  <2>1. ASSUME NEW r \in Request \ {s}, CartFree(r) PROVE CartFree(r)'
    BY <1>1, <1>6, <2>1 DEF CartFree, At
  <2>2. CartFree(s)'
    BY <1>6 DEF CartFree, At
  <2> QED BY <1>2, <1>6, <2>1, <2>2 DEF CartRaces, Conflict
<1>7. CASE (AddItem(s) \/ ChangeLine(s) \/ OtherRequest(s)) /\ UNCHANGED cartVars
  <2>1. \E op, read : RefuseAtOnce(s, op) \/ Begin(s, op, "cart", read)
    <3> DEFINE add(v, n) == [do |-> "add", variant |-> v, quantity |-> n]
               read(v) == [NothingRead EXCEPT !.stock = variants[v].stock]
               update(v, n) == [do |-> "update line", variant |-> v, id |-> lines[v].id,
                                quantity |-> n]
               remove(v) == [do |-> "remove", variant |-> v, id |-> lines[v].id]
               view == [do |-> "view"]
               apply(c) == [do |-> "apply", coupon |-> c]
               clear == [do |-> "clear"]
    <3>1. \/ \E v, n : RefuseAtOnce(s, add(v, n)) \/ Begin(s, add(v, n), "cart", read(v))
          \/ \E v, n : Begin(s, update(v, n), "cart", NothingRead)
          \/ \E v : Begin(s, remove(v), "cart", NothingRead)
          \/ Begin(s, view, "cart", NothingRead)
          \/ \E c : Begin(s, apply(c), "cart", NothingRead)
          \/ Begin(s, clear, "cart", NothingRead)
      BY <1>7 DEF AddItem, ChangeLine, OtherRequest
    <3> HIDE DEF add, read, update, remove, view, apply, clear
    <3> QED BY <3>1
  <2>2. req'[s].at \in {"done", "cart"} /\ req'[s].answer \in {"none", "refused"}
    BY <2>1, AskedIs
  <2> QED BY <1>6, <1>7, <2>2 DEF cartVars
<1>8. ASSUME Runs(s) PROVE req[s].answer = "none"
  BY <1>8 DEF SessionInv, RequestsOK
<1>9. ASSUME Runs(s), NEW step, NEW read, Proceed(s, step, read)
      PROVE  /\ req'[s].at = step /\ req'[s].op = req[s].op /\ req'[s].read = read
             /\ req'[s].answer = "none"
  BY <1>8, <1>9, ProceededIs
<1>10. ASSUME NEW answer, Answer(s, answer)
       PROVE  req'[s].answer = answer /\ CartFree(s)'
  BY <1>10, AnsweredIs DEF CartFree, At
<1>11. CASE FindCart(s)
  <2>1. Runs(s) /\ req[s].op.do \in CartKinds
    BY <1>11, KindAt DEF FindCart, CartSteps
  <2>2. AfterCart(s) \in {"line", "serialize", "price", "coupon"}
    BY <2>1, AfterCartIs
  <2>3. /\ req'[s].answer = "none" /\ cart' = cart
        /\ req'[s].at \in {"line", "serialize", "price", "coupon"}
            \/ (req'[s].at = "create cart" /\ ~ cart.exists)
    BY <1>9, <1>11, <2>1, <2>2 DEF FindCart, cartVars
  <2>4. CartFree(s)'
    BY <2>3 DEF CartFree, At
  <2> QED BY <1>5, <2>1, <2>3, <2>4
<1>12. CASE CreateCart(s)
  <2>1. Runs(s) /\ req[s].op.do \in CartKinds /\ At(s, "create cart")
    BY <1>12, KindAt DEF CreateCart, CartSteps
  <2>2. CASE cart.exists
    <3>1. Answer(s, "conflict")
      BY <1>12, <2>2 DEF CreateCart
    <3>2. Rival(s)
      BY <1>3, <2>1, <2>2 DEF CartFree
    <3> QED BY <1>2, <1>5, <1>10, <2>1, <3>1, <3>2
  <2>3. CASE ~ cart.exists
    <3>1. AfterCart(s) \in {"line", "serialize", "price", "coupon"}
      BY <2>1, AfterCartIs
    <3>2. req'[s].at = AfterCart(s) /\ req'[s].answer = "none"
      BY <1>9, <1>12, <2>1, <2>3 DEF CreateCart
    <3>3. CartFree(s)'
      BY <3>1, <3>2 DEF CartFree, At
    <3> QED BY <1>5, <2>1, <3>2, <3>3
  <2> QED BY <2>2, <2>3
<1>13. CASE FindLine(s)
  <2> DEFINE line == LineOf(req[s].op.variant)
             read == [req[s].read EXCEPT !.line = line]
  <2>1. Runs(s) /\ req[s].op.do \in CartKinds /\ At(s, "line") /\ lines' = lines
    BY <1>13, KindAt DEF FindLine, CartSteps, cartVars
  <2>2. Proceed(s, "write line", read) \/ Answer(s, "refused")
    BY <1>13 DEF FindLine, Refuse
  <2>3. "line" \in DOMAIN req[s].read
    BY <2>1 DEF CartsOK, CartSound
  <2>4. read.line = line
    BY <2>3
  <2>5. line = NoLine => req[s].op.variant \notin DOMAIN lines
    <3>1. \A v \in DOMAIN lines : lines[v].id # "none"
      BY IdsAssumption DEF CartsOK, CartOK
    <3> QED BY <3>1 DEF LineOf, NoLine
  <2> HIDE DEF line, read
  <2>6. ASSUME Proceed(s, "write line", read)
        PROVE  CartFree(s)' /\ req'[s].answer = "none"
    <3>1. /\ req'[s].at = "write line" /\ req'[s].op = req[s].op /\ req'[s].read = read
          /\ req'[s].answer = "none"
      BY <1>9, <2>1, <2>6
    <3> QED BY <2>1, <2>4, <2>5, <3>1 DEF CartFree, At
  <2>7. Answer(s, "refused") => CartFree(s)' /\ req'[s].answer = "refused"
    BY <1>10
  <2>8. CartFree(s)' /\ req'[s].answer # "conflict"
    BY <2>2, <2>6, <2>7
  <2> QED BY <1>5, <2>1, <2>8
<1>14. CASE InsertLine(s)
  <2>1. Runs(s) /\ req[s].op.do \in CartKinds /\ At(s, "write line") /\ req[s].op.do = "add"
        /\ req[s].read.line = NoLine
    BY <1>14, KindAt DEF InsertLine, CartSteps
  <2>2. CASE req[s].op.variant \in DOMAIN lines
    <3>1. Answer(s, "conflict")
      BY <1>14, <2>2 DEF InsertLine
    <3>2. Rival(s)
      BY <1>3, <2>1, <2>2 DEF CartFree
    <3> QED BY <1>2, <1>5, <1>10, <2>1, <3>1, <3>2
  <2>3. CASE req[s].op.variant \notin DOMAIN lines
    <3>1. req'[s].at = "serialize" /\ req'[s].answer = "none"
      BY <1>9, <1>14, <2>1, <2>3 DEF InsertLine
    <3>2. CartFree(s)'
      BY <3>1 DEF CartFree, At
    <3> QED BY <1>5, <2>1, <3>1, <3>2
  <2> QED BY <2>2, <2>3
<1>15. CASE WriteLine(s) \/ RemoveLine(s) \/ Price(s) \/ DropOld(s) \/ WriteCoupon(s)
            \/ Serialize(s) \/ DropCoupon(s)
  <2>1. Runs(s) /\ req[s].op.do \in CartKinds
    BY <1>15, KindAt DEF WriteLine, RemoveLine, Price, DropOld, WriteCoupon, Serialize, DropCoupon,
                        CartSteps
  <2> DEFINE Later == {"serialize", "drop old", "drop old and refuse", "coupon", "drop coupon"}
  <2>2. \/ \E answer \in {"error", "refused", "ok"} : Answer(s, answer)
        \/ \E step \in Later : \E read : Proceed(s, step, read)
    <3>1. CASE WriteLine(s) \/ RemoveLine(s) \/ WriteCoupon(s) \/ DropCoupon(s)
      BY <3>1 DEF WriteLine, RemoveLine, WriteCoupon, DropCoupon
    <3>2. CASE Price(s)
      BY <3>2 DEF Price, Refuse
    <3>3. CASE DropOld(s) \/ Serialize(s)
      BY <3>3 DEF DropOld, Serialize, Refuse
    <3> QED BY <1>15, <3>1, <3>2, <3>3
  <2>3. ASSUME NEW step \in Later, NEW read, Proceed(s, step, read)
        PROVE  CartFree(s)' /\ req'[s].answer = "none"
    <3>1. req'[s].at = step /\ req'[s].answer = "none"
      BY <1>9, <2>1, <2>3
    <3> QED BY <3>1 DEF CartFree, At
  <2>4. CartFree(s)' /\ req'[s].answer # "conflict"
    BY <1>10, <2>2, <2>3
  <2> QED BY <1>5, <2>1, <2>4
<1> QED BY <1>7, <1>11, <1>12, <1>13, <1>14, <1>15 DEF CartStep

\* Slugs and SKUs: what a request to the catalogue has looked up when it begins.
LEMMA RowAsks ==
  ASSUME SessionInv, KeysUnique, NEW s \in Request,
         \/ CreateRow(s) \/ UpdateRow(s) \/ CreateProduct(s) \/ UpdateProduct(s)
         \/ CreateVariant(s) \/ UpdateVariant(s) \/ Upload(s) \/ SetPrimary(s) \/ DeleteImage(s)
  PROVE  \E op, step, read :
           /\ step \notin {"write", "done"}
           /\ \/ RefuseAtOnce(s, op)
              \/ Begin(s, op, step, read) /\ SkusUntaken(op) /\ ParentKnown(op)
<1>1. CASE CreateRow(s)
  <2> DEFINE op(table, row) == [do |-> "create", table |-> table, id |-> s, row |-> row,
                                skus |-> {}]
             read == [k |-> 1, loaded |-> <<>>]
  <2>1. PICK table \in {"categories", "brands"} : \E row \in Payload(table) :
          IF table = "categories" /\ ~ Known(row.parent) THEN RefuseAtOnce(s, op(table, row))
          ELSE Begin(s, op(table, row), "probe", read)
    BY <1>1 DEF CreateRow
  <2>2. PICK row \in Payload(table) :
          IF table = "categories" /\ ~ Known(row.parent) THEN RefuseAtOnce(s, op(table, row))
          ELSE Begin(s, op(table, row), "probe", read)
    BY <2>1
  <2>3. SkusUntaken(op(table, row))
    BY DEF SkusUntaken
  <2>4. (table = "categories" => Known(row.parent)) => ParentKnown(op(table, row))
    BY DEF ParentKnown
  <2> HIDE DEF op, read
  <2>5. \/ RefuseAtOnce(s, op(table, row))
        \/ Begin(s, op(table, row), "probe", read) /\ ParentKnown(op(table, row))
    BY <2>2, <2>4
  <2> QED BY <2>3, <2>5
<1>2. CASE UpdateRow(s)
  <2> DEFINE op(table, id, row) == [do |-> "update", table |-> table, id |-> id, row |-> row,
                                    skus |-> {}]
             read(table, id) == [k |-> 1, loaded |-> rows[table][id]]
  <2>1. \E table, id, row : Begin(s, op(table, id, row), "probe", read(table, id))
    BY <1>2 DEF UpdateRow
  <2>2. \A table, id, row : SkusUntaken(op(table, id, row)) /\ ParentKnown(op(table, id, row))
    BY DEF SkusUntaken, ParentKnown
  <2> HIDE DEF op, read
  <2> QED BY <2>1, <2>2
<1>3. CASE CreateProduct(s)
  <2> DEFINE op(name, category, skus) == [do |-> "create", table |-> "products", id |-> s,
                                          skus |-> skus,
                       row |-> [name |-> name, status |-> "draft", category |-> category]]
             read == [k |-> 1, loaded |-> <<>>]
  <2>1. PICK name \in Name, category \in {"root", "gone"}, skus \in SUBSET Sku :
          \/ RefuseAtOnce(s, op(name, category, skus))
          \/ /\ \A k \in skus : ~ SkuTaken(k)
             /\ Begin(s, op(name, category, skus), "probe", read)
    BY <1>3 DEF CreateProduct
  <2>2. (\A k \in skus : ~ SkuTaken(k)) => SkusUntaken(op(name, category, skus))
    BY DEF SkusUntaken
  <2>3. ParentKnown(op(name, category, skus))
    BY DEF ParentKnown
  <2> HIDE DEF op, read
  <2>4. PICK o : /\ RefuseAtOnce(s, o) \/ (Begin(s, o, "probe", read) /\ SkusUntaken(o))
                 /\ ParentKnown(o)
    BY <2>1, <2>2, <2>3, Zenon
  <2>5. "probe" \notin {"write", "done"}
    OBVIOUS
  <2> QED BY <2>4, <2>5
<1>4. CASE UpdateProduct(s)
  <2> DEFINE op(id, change) == [do |-> "product", id |-> id, row |-> change]
  <2>1. \E id, change : \/ RefuseAtOnce(s, op(id, change))
                        \/ Begin(s, op(id, change), "product", rows.products[id])
    BY <1>4 DEF UpdateProduct
  <2>2. \A id, change : SkusUntaken(op(id, change)) /\ ParentKnown(op(id, change))
    BY DEF SkusUntaken, ParentKnown
  <2> HIDE DEF op
  <2> QED BY <2>1, <2>2
<1>5. CASE CreateVariant(s)
  <2> DEFINE op(sku, n) == [do |-> "variant", id |-> <<s, sku>>,
                            row |-> [product |-> "p0", sku |-> sku, stock |-> n]]
  <2>1. PICK sku \in Sku, n \in Stock :
          IF SkuTaken(sku) THEN RefuseAtOnce(s, op(sku, n)) ELSE Begin(s, op(sku, n), "variant", <<>>)
    BY <1>5 DEF CreateVariant
  <2>2. ~ SkuTaken(sku) => SkusUntaken(op(sku, n))
    BY DEF SkusUntaken, SkuTaken
  <2>3. ParentKnown(op(sku, n))
    BY DEF ParentKnown
  <2> HIDE DEF op
  <2>4. PICK o : /\ RefuseAtOnce(s, o) \/ (Begin(s, o, "variant", <<>>) /\ SkusUntaken(o))
                 /\ ParentKnown(o)
    BY <2>1, <2>2, <2>3, Zenon
  <2>5. "variant" \notin {"write", "done"}
    OBVIOUS
  <2> QED BY <2>4, <2>5
<1>6. CASE UpdateVariant(s)
  <2> DEFINE op(v, change) == [do |-> "variant", id |-> v, row |-> change]
             free(v, change) == "sku" \in DOMAIN change =>
                                  change.sku = variants[v].sku \/ ~ SkuTaken(change.sku)
  <2>1. PICK v \in DOMAIN variants, change \in [sku : Sku \cup {Null}] \cup [stock : Stock] :
          \/ RefuseAtOnce(s, op(v, change))
          \/ free(v, change) /\ Begin(s, op(v, change), "variant", variants[v])
    BY <1>6 DEF UpdateVariant
  <2>2. free(v, change) => SkusUntaken(op(v, change))
    BY DEF SkusUntaken, SkuTaken, KeysUnique
  <2>3. ParentKnown(op(v, change))
    BY DEF ParentKnown
  <2> HIDE DEF op, free
  <2> QED BY <2>1, <2>2, <2>3
<1>7. CASE Upload(s) \/ SetPrimary(s) \/ DeleteImage(s)
  <2> DEFINE upload(primary) == [do |-> "upload", id |-> s, primary |-> primary]
             set(id) == [do |-> "set primary", id |-> id, primary |-> TRUE]
             delete(id) == [do |-> "delete", id |-> id]
  <2>1. \/ \E primary \in BOOLEAN : Begin(s, upload(primary), "save", images)
        \/ \E id : RefuseAtOnce(s, set(id)) \/ Begin(s, set(id), "insert", images)
        \/ \E id : RefuseAtOnce(s, delete(id)) \/ Begin(s, delete(id), "delete", <<>>)
    BY <1>7 DEF Upload, SetPrimary, DeleteImage
  <2>2. /\ \A primary \in BOOLEAN : SkusUntaken(upload(primary)) /\ ParentKnown(upload(primary))
        /\ \A id : /\ SkusUntaken(set(id)) /\ ParentKnown(set(id))
                   /\ SkusUntaken(delete(id)) /\ ParentKnown(delete(id))
    BY DEF SkusUntaken, ParentKnown
  <2> HIDE DEF upload, set, delete
  <2>3. \/ \E op : Begin(s, op, "save", images) /\ SkusUntaken(op) /\ ParentKnown(op)
        \/ \E op, step : /\ step \in {"insert", "delete"}
                         /\ \/ RefuseAtOnce(s, op)
                            \/ \E read : Begin(s, op, step, read) /\ SkusUntaken(op) /\ ParentKnown(op)
    BY <2>1, <2>2, Zenon
  <2> QED BY <2>3
<1> QED BY <1>1, <1>2, <1>3, <1>4, <1>5, <1>6, <1>7

\* The keys a commit would write, and why a constraint refuses them.
LEMMA WrittenKeys ==
  ASSUME SessionInv, CatalogueOK, NEW r \in Request, At(r, "write")
  PROVE  LET op == req[r].op new == Written(r) IN
           /\ op.do \in {"create", "update"}
           /\ op.do = "create" /\ op.table = "categories" => new.parent = op.row.parent
           /\ op.do = "update" =>
                /\ op.table \in {"categories", "brands"} /\ op.id \in DOMAIN rows[op.table]
                /\ new.slug \in {Candidate(r), rows[op.table][op.id].slug}
                /\ op.table = "categories" =>
                     /\ "parent" \in DOMAIN op.row /\ op.row.parent \in {"none", "root", "gone"}
                     /\ new.parent \in {op.row.parent, rows[op.table][op.id].parent}
<1> DEFINE op == req[r].op
           new == Written(r)
           given == Assigned(r)
<1>1. Runs(r) /\ op.do \in {"create", "update"}
  BY KindAt
<1>2. Sound(r, op, req[r].read)
  BY <1>1 DEF CatalogueOK
<1>3. /\ DOMAIN given = DOMAIN op.row \cup {"slug"} /\ given["slug"] = Candidate(r)
      /\ \A c \in DOMAIN op.row \ {"slug"} : given[c] = op.row[c]
  BY DEF Assigned, With
<1>4. op.do = "create" /\ op.table = "categories" => new.parent = op.row.parent
  <2>1. op.do = "create" /\ op.table = "categories" => "parent" \in DOMAIN op.row
    BY <1>2 DEF Sound, Payload
  <2> QED BY <1>3, <2>1 DEF Written
<1>5. ASSUME op.do = "update"
      PROVE  /\ op.table \in {"categories", "brands"} /\ op.id \in DOMAIN rows[op.table]
             /\ new.slug \in {Candidate(r), rows[op.table][op.id].slug}
             /\ op.table = "categories" =>
                  /\ "parent" \in DOMAIN op.row /\ op.row.parent \in {"none", "root", "gone"}
                  /\ new.parent \in {op.row.parent, rows[op.table][op.id].parent}
  <2> DEFINE row == rows[op.table][op.id]
  <2>1. op.table \in {"categories", "brands"} /\ op.id \in DOMAIN rows[op.table]
        /\ op.row \in Payload(op.table)
    BY <1>2, <1>5 DEF Sound
  <2>2. op.table = "categories" =>
          "parent" \in DOMAIN op.row /\ op.row.parent \in {"none", "root", "gone"}
    BY <2>1 DEF Payload
  <2>3. DOMAIN row = Columns(op.table)
    BY <2>1 DEF CatalogueOK, RowsOK, Slugged
  <2>4. new = Flush(row, req[r].read.loaded, given)
    BY <1>5 DEF Written
  <2> HIDE DEF row, given, new
  <2>5. \A c \in Columns(op.table) : new[c] = row[c] \/ (c \in DOMAIN given /\ new[c] = given[c])
    BY <2>3, <2>4 DEF Flush
  <2>6. "slug" \in Columns(op.table) /\ (op.table = "categories" => "parent" \in Columns(op.table))
    BY DEF Columns
  <2>7. new["slug"] = row["slug"] \/ new["slug"] = Candidate(r)
    BY <1>3, <2>5, <2>6
  <2>8. op.table = "categories" => new["parent"] = row["parent"] \/ new["parent"] = op.row["parent"]
    BY <1>3, <2>2, <2>5, <2>6
  <2> QED BY <2>1, <2>2, <2>7, <2>8 DEF row
<1> QED BY <1>1, <1>4, <1>5

\* A constraint that refuses a category, brand or product is one that a rival
\* broke after the check, or that of an unchecked parent.
LEMMA RowConflicts ==
  ASSUME SessionInv, CatalogueOK, KeysUnique, RowRaces, NEW r \in Request, At(r, "write"),
         ~ RowLegal(r)
  PROVE  Rival(r) \/ Unchecked(req[r].op)
<1> DEFINE op == req[r].op
           new == Written(r)
<1> SUFFICES ASSUME ~ Rival(r) PROVE Unchecked(op)
  OBVIOUS
<1>1. Runs(r) /\ RowFree(r)
  BY KindAt DEF RowRaces
<1>2. /\ op.table \in Slugged
      /\ op.do = "create" => new.slug = Candidate(r)
  BY WrittenIs
<1>3. /\ op.do \in {"create", "update"}
      /\ op.do = "create" /\ op.table = "categories" => new.parent = op.row.parent
      /\ op.do = "update" =>
           /\ op.table \in {"categories", "brands"} /\ op.id \in DOMAIN rows[op.table]
           /\ new.slug \in {Candidate(r), rows[op.table][op.id].slug}
           /\ op.table = "categories" =>
                /\ "parent" \in DOMAIN op.row /\ op.row.parent \in {"none", "root", "gone"}
                /\ new.parent \in {op.row.parent, rows[op.table][op.id].parent}
  BY WrittenKeys
<1>4. op.do = "update" => op.skus = {}
  BY <1>1 DEF CatalogueOK, Sound
<1> HIDE DEF new
<1>5. \A id \in DOMAIN rows[op.table] \ {op.id} : rows[op.table][id].slug # Candidate(r)
  BY <1>1 DEF RowFree, SlugFree
<1>6. \A id \in DOMAIN rows[op.table] \ {op.id} : rows[op.table][id].slug # new.slug
  BY <1>2, <1>3, <1>5 DEF KeysUnique
<1>7. \A k \in op.skus : ~ SkuTaken(k)
  BY <1>1, <1>3, <1>4 DEF RowFree, SkusUntaken
<1>8. op.table = "categories" /\ ~ Known(new.parent)
  BY <1>6, <1>7 DEF RowLegal, new
<1>9. op.do = "update"
  BY <1>1, <1>3, <1>8 DEF KeysUnique, ParentKnown
<1>10. Known(rows[op.table][op.id].parent)
  BY <1>3, <1>8, <1>9 DEF CatalogueOK, RowsOK
<1>11. Known("none") /\ Known("root")
  BY DEF CatalogueOK, RowsOK, Known
<1> QED BY <1>3, <1>8, <1>9, <1>10, <1>11 DEF Unchecked

LEMMA VariantConflicts ==
  ASSUME SessionInv, CatalogueOK, KeysUnique, RowRaces, NEW r \in Request, At(r, "variant"),
         ~ VariantLegal(r)
  PROVE  Rival(r) \/ Unchecked(req[r].op)
<1> DEFINE op == req[r].op
           new == WrittenVariant(r)
<1> SUFFICES ASSUME ~ Rival(r) PROVE Unchecked(op)
  OBVIOUS
<1>1. Runs(r) /\ RowFree(r) /\ op.do = "variant"
  BY KindAt DEF RowRaces
<1>2. \/ /\ req[r].read = <<>> /\ op.row \in [product : {"p0"}, sku : Sku, stock : Stock]
      \/ /\ req[r].read # <<>> /\ op.id \in DOMAIN variants
         /\ op.row \in [sku : Sku \cup {Null}] \cup [stock : Stock]
  BY <1>1 DEF CatalogueOK, Sound
<1>3. "sku" \in DOMAIN op.row =>
        \A v \in DOMAIN variants \ {op.id} : variants[v].sku # op.row.sku
  BY <1>1 DEF RowFree, SkusUntaken
<1>4. \/ "sku" \in DOMAIN op.row /\ new.sku = op.row.sku
      \/ op.id \in DOMAIN variants /\ new.sku = variants[op.id].sku
  <2>1. CASE req[r].read = <<>>
    BY <1>2, <2>1 DEF WrittenVariant
  <2>2. CASE req[r].read # <<>>
    <3>1. op.id \in DOMAIN variants /\ DOMAIN variants[op.id] = {"product", "sku", "stock"}
      BY <1>2, <2>2 DEF CatalogueOK, VariantsOK
    <3> QED BY <2>2, <3>1 DEF WrittenVariant, Flush
  <2> QED BY <2>1, <2>2
<1>5. \A v \in DOMAIN variants : variants[v].sku \in Sku
  BY DEF CatalogueOK, VariantsOK
<1> HIDE DEF new
<1>6. \A v \in DOMAIN variants \ {op.id} : variants[v].sku # new.sku
  BY <1>3, <1>4 DEF KeysUnique
<1>7. new.sku = Null
  BY <1>6 DEF VariantLegal, new
<1> QED BY <1>1, <1>4, <1>5, <1>7, IdsAssumption DEF Unchecked

LEMMA NextRowRaces ==
  ASSUME SessionInv, SessionInv', Frozen, CatalogueOK, KeysUnique, RowRaces, NEW s \in Request,
         CatalogueStep(s), \A u \in Slugged : DOMAIN rows[u] \subseteq DOMAIN rows'[u]
  PROVE  KeysUnique' /\ RowRaces' /\ Conflict(s)'
<1>1. \A r \in Request \ {s} : req'[r] = req[r]
  BY CatalogueSessions, OthersStay
<1>2. \A r \in Request : Rival(r) => Rival(r)'
  BY RivalsRemain
<1>3. \A op : ParentKnown(op) => ParentKnown(op)'
  BY DEF ParentKnown, Known, Slugged
<1>4. ASSUME Runs(s)' => Runs(s) /\ req'[s].op = req[s].op
      PROVE  \A r \in Request : Runs(r)' => ParentKnown(req[r].op)'
  <2>1. ASSUME NEW r \in Request, Runs(r)' PROVE ParentKnown(req[r].op)'
    <3>1. PICK op : op = req[r].op
      OBVIOUS
    <3>2. Runs(r) /\ req'[r].op = op
      BY <1>1, <1>4, <2>1, <3>1 DEF Runs
    <3>3. ParentKnown(op)'
      BY <1>3, <3>1, <3>2 DEF KeysUnique
    <3> QED BY <3>2, <3>3, ZenonT(30) DEF ParentKnown
  <2> QED BY <2>1
<1>5. ASSUME NEW r \in Request, RowFree(r), req'[r].op = req[r].op, UNCHANGED <<rows, variants>>,
             Runs(r), req'[r].at # "write" \/ req'[r] = req[r]
      PROVE  RowFree(r)'
  <2>1. SlugFree(r)'
    BY <1>5 DEF RowFree, SlugFree, At, Candidate
  <2>2. SkusUntaken(req[r].op)'
    BY <1>5 DEF RowFree, SkusUntaken, SkuTaken
  <2> QED BY <2>1, <2>2 DEF RowFree
<1>6. ASSUME NEW r \in Request, ~ Runs(r)' PROVE RowFree(r)'
  BY <1>6 DEF RowFree, SlugFree, At, Runs
<1>7. ASSUME UNCHANGED <<rows, variants>>, Rival(s)' \/ RowFree(s)',
             Runs(s)' => ParentKnown(req[s].op)',
             req'[s].answer = "conflict" => Rival(s)' \/ Unchecked(req[s].op)'
      PROVE  KeysUnique' /\ RowRaces' /\ Conflict(s)'
  <2>1. ASSUME NEW r \in Request \ {s}, RowFree(r) PROVE RowFree(r)'
    <3>1. CASE Runs(r)
      BY <1>1, <1>5, <1>7, <2>1, <3>1
    <3>2. CASE ~ Runs(r)
      <4>1. ~ Runs(r)'
        BY <1>1, <3>2 DEF Runs
      <4> QED BY <1>6, <4>1
    <3> QED BY <3>1, <3>2
  <2>2. RowRaces'
    BY <1>2, <1>7, <2>1 DEF RowRaces
  <2>3. ASSUME NEW r \in Request \ {s}, Runs(r)' PROVE ParentKnown(req[r].op)'
    <3>1. PICK op : op = req[r].op
      OBVIOUS
    <3>2. Runs(r) /\ req'[r].op = op
      BY <1>1, <2>3, <3>1 DEF Runs
    <3>3. ParentKnown(op)'
      BY <1>3, <3>1, <3>2 DEF KeysUnique
    <3> QED BY <3>2, <3>3, ZenonT(30) DEF ParentKnown
  <2>4. KeysUnique'
    BY <1>7, <2>3 DEF KeysUnique
  <2> QED BY <1>7, <2>2, <2>4 DEF Conflict
<1>8. CASE /\ \/ CreateRow(s) \/ UpdateRow(s) \/ CreateProduct(s) \/ UpdateProduct(s)
              \/ CreateVariant(s) \/ UpdateVariant(s) \/ Upload(s) \/ SetPrimary(s) \/ DeleteImage(s)
           /\ UNCHANGED <<rows, variants>>
  <2>1. PICK op, step, read :
          /\ step \notin {"write", "done"}
          /\ \/ RefuseAtOnce(s, op)
             \/ Begin(s, op, step, read) /\ SkusUntaken(op) /\ ParentKnown(op)
    BY <1>8, RowAsks
  <2>2. CASE RefuseAtOnce(s, op)
    <3>1. ~ Runs(s)' /\ req'[s].answer = "refused"
      BY <2>2, RefusedIs DEF Runs
    <3> QED BY <1>6, <1>7, <1>8, <3>1
  <2>3. CASE Begin(s, op, step, read) /\ SkusUntaken(op) /\ ParentKnown(op)
    <3>1. req'[s].at = step /\ req'[s].op = op /\ req'[s].answer = "none"
      BY <2>3, BegunIs
    <3>2. SkusUntaken(op)' /\ ParentKnown(op)'
      BY <1>3, <1>8, <2>3 DEF SkusUntaken, SkuTaken
    <3>3. SkusUntaken(req[s].op)' /\ ParentKnown(req[s].op)'
      BY <3>1, <3>2, ZenonT(30) DEF SkusUntaken, ParentKnown
    <3>4. RowFree(s)'
      BY <2>1, <3>1, <3>3 DEF RowFree, SlugFree, At
    <3> QED BY <1>7, <1>8, <3>1, <3>3, <3>4
  <2> QED BY <2>1, <2>2, <2>3
<1>9. CASE Probe(s)
  <2>1. Runs(s) /\ UNCHANGED <<rows, variants>> /\ req[s].op.do \in {"create", "update"}
    BY <1>9, KindAt DEF Probe, catalogueVars
  <2>2. req'[s].op = req[s].op /\ req'[s].answer = "none"
    <3>1. req[s].answer = "none"
      BY <2>1 DEF SessionInv, RequestsOK
    <3> QED BY <1>9, <3>1, ProceededIs DEF Probe
  <2>3. Runs(s)' => ParentKnown(req[s].op)'
    BY <1>4, <2>1, <2>2
  <2>4. ASSUME RowFree(s) PROVE RowFree(s)'
    <3>1. SkusUntaken(req[s].op)'
      BY <2>1, <2>2, <2>4 DEF RowFree, SkusUntaken, SkuTaken
    <3>2. SlugFree(s)'
      <4>1. CASE Taken(req[s].op.table, Candidate(s))
        <5>1. req'[s].at = "probe"
          BY <1>9, <4>1, ProceededIs DEF Probe
        <5> QED BY <5>1 DEF SlugFree, At
      <4>2. CASE ~ Taken(req[s].op.table, Candidate(s))
        <5>1. req'[s].read = req[s].read
          BY <1>9, <4>2, ProceededIs DEF Probe
        <5>2. Candidate(s)' = Candidate(s)
          BY <2>2, <5>1 DEF Candidate
        <5> QED BY <2>1, <2>2, <4>2, <5>2 DEF SlugFree, Taken
      <4> QED BY <4>1, <4>2
    <3> QED BY <3>1, <3>2 DEF RowFree
  <2>5. Rival(s)' \/ RowFree(s)'
    BY <1>2, <2>4 DEF RowRaces
  <2> QED BY <1>7, <2>1, <2>2, <2>3, <2>5
<1>10. ASSUME NEW answer, Answer(s, answer)
       PROVE  /\ req'[s].answer = answer /\ req'[s].op = req[s].op /\ ~ Runs(s)' /\ RowFree(s)'
              /\ \A r \in Request : Runs(r)' => r # s /\ Runs(r) /\ req'[r] = req[r]
  <2>1. req'[s].answer = answer /\ req'[s].op = req[s].op /\ ~ Runs(s)'
    BY <1>10, AnsweredIs DEF Runs
  <2> QED BY <1>1, <1>6, <2>1 DEF Runs
<1>11. ASSUME Answer(s, "conflict"), UNCHANGED <<rows, variants>>, Rival(s) \/ Unchecked(req[s].op)
       PROVE  KeysUnique' /\ RowRaces' /\ Conflict(s)'
  <2>1. Rival(s)' \/ Unchecked(req[s].op)'
    <3>1. PICK op : op = req[s].op
      OBVIOUS
    <3>2. Unchecked(op) => Unchecked(req'[s].op)
      BY <1>10, <1>11, <3>1
    <3> QED BY <1>2, <1>11, <3>1, <3>2
  <2> QED BY <1>7, <1>10, <1>11, <2>1
<1>12. CASE SaveFile(s) \/ WriteImages(s) \/ DeleteRow(s)
  <2>1. UNCHANGED <<rows, variants>> /\ Runs(s)
    BY <1>12, KindAt DEF SaveFile, WriteImages, DeleteRow
  <2>2. \/ \E answer \in {"refused", "unhandled", "ok", "error"} : Answer(s, answer)
        \/ Proceed(s, "insert", req[s].read)
    BY <1>12 DEF SaveFile, WriteImages, DeleteRow, Refuse, CommitAnswer
  <2>3. CASE \E answer \in {"refused", "unhandled", "ok", "error"} : Answer(s, answer)
    <3>1. PICK answer \in {"refused", "unhandled", "ok", "error"} : Answer(s, answer)
      BY <2>3
    <3>2. /\ req'[s].answer = answer /\ ~ Runs(s)' /\ RowFree(s)'
      BY <1>10, <3>1
    <3> QED BY <1>7, <2>1, <3>1, <3>2
  <2>4. CASE Proceed(s, "insert", req[s].read)
    <3>1. req'[s].at = "insert" /\ req'[s].op = req[s].op /\ req'[s].answer = "none"
      <4>1. req[s].answer = "none"
        BY <2>1 DEF SessionInv, RequestsOK
      <4> QED BY <2>4, <4>1, ProceededIs
    <3>2. RowFree(s) => RowFree(s)'
      BY <1>5, <2>1, <3>1
    <3>3. Runs(s)' => ParentKnown(req[s].op)'
      BY <1>4, <2>1, <3>1
    <3>4. Rival(s)' \/ RowFree(s)'
      BY <1>2, <3>2 DEF RowRaces
    <3> QED BY <1>7, <2>1, <3>1, <3>3, <3>4
  <2> QED BY <2>2, <2>3, <2>4
<1>13. CASE WriteRow(s)
  <2> DEFINE t == req[s].op.table
             id == req[s].op.id
             new == Written(s)
             skus == req[s].op.skus
  <2>1. /\ At(s, "write") /\ Runs(s) /\ req[s].op.do \in {"create", "update"}
        /\ Answer(s, CommitAnswer(TRUE, RowLegal(s)))
        /\ ~ RowLegal(s) => UNCHANGED <<rows, variants>>
    BY <1>13, KindAt DEF WriteRow
  <2>2. CASE ~ RowLegal(s)
    <3>1. Answer(s, "conflict")
      BY <2>1, <2>2 DEF CommitAnswer
    <3> QED BY <1>11, <2>1, <2>2, <3>1, RowConflicts
  <2>3. CASE RowLegal(s)
    <3>1. Answer(s, "ok")
      BY <2>1, <2>3 DEF CommitAnswer
    <3>2. /\ req'[s].answer = "ok" /\ ~ Runs(s)' /\ RowFree(s)'
          /\ \A r \in Request : Runs(r)' => r # s /\ Runs(r) /\ req'[r] = req[r]
      BY <1>10, <3>1
    <3>3. /\ \A u \in Slugged \ {t} : rows'[u] = rows[u]
          /\ DOMAIN rows'[t] = DOMAIN rows[t] \cup {id} /\ rows'[t][id] = new
          /\ \A i \in DOMAIN rows[t] \ {id} : rows'[t][i] = rows[t][i]
          /\ DOMAIN variants' = DOMAIN variants \cup NewVariants(s)
          /\ \A v \in DOMAIN variants : variants'[v] = variants[v]
          /\ \A v \in NewVariants(s) \ DOMAIN variants :
               variants'[v] = [product |-> s, sku |-> v[2], stock |-> FirstStock]
      BY <1>13, <3>2, RowIsWritten
    <3>4. t \in Slugged /\ (skus # {} => t = "products" /\ req[s].op.do = "create")
      <4>1. Sound(s, req[s].op, req[s].read)
        BY <2>1 DEF CatalogueOK
      <4> QED BY <2>1, <4>1, WrittenIs DEF Sound
    <3>5. /\ \A i \in DOMAIN rows[t] \ {id} : rows[t][i].slug # new.slug
          /\ \A k \in skus : ~ SkuTaken(k)
      BY <2>3 DEF RowLegal
    <3> HIDE DEF new
    <3>6. \A u \in Slugged : \A i, j \in DOMAIN rows'[u] :
            i # j => rows'[u][i].slug # rows'[u][j].slug
      <4>1. ASSUME NEW u \in Slugged \ {t}, NEW i \in DOMAIN rows'[u], NEW j \in DOMAIN rows'[u], i # j
            PROVE  rows'[u][i].slug # rows'[u][j].slug
        BY <3>3, <4>1 DEF KeysUnique
      <4>2. ASSUME NEW i \in DOMAIN rows'[t], NEW j \in DOMAIN rows'[t], i # j
            PROVE  rows'[t][i].slug # rows'[t][j].slug
        BY <3>3, <3>4, <3>5, <4>2 DEF KeysUnique
      <4> QED BY <4>1, <4>2
    <3>7. \A v, w \in DOMAIN variants' : v # w => variants'[v].sku # variants'[w].sku
      <4>1. ASSUME NEW v \in NewVariants(s) \ DOMAIN variants
            PROVE  v = <<s, variants'[v].sku>> /\ variants'[v].sku \in skus
        <5>1. PICK k \in skus : v = <<s, k>>
          BY <4>1 DEF NewVariants
        <5>2. variants'[v].sku = k
          BY <3>3, <4>1, <5>1
        <5> QED BY <5>1, <5>2
      <4>2. ASSUME NEW v \in DOMAIN variants
            PROVE  variants'[v].sku = variants[v].sku /\ variants[v].sku \notin skus
        BY <3>3, <3>5 DEF SkuTaken
      <4>3. \A v, w \in DOMAIN variants : v # w => variants[v].sku # variants[w].sku
        BY DEF KeysUnique
      <4> QED BY <3>3, <4>1, <4>2, <4>3
    <3>8. \A r \in Request : Runs(r)' => ParentKnown(req[r].op)'
      BY <1>4, <3>2
    <3>9. ASSUME NEW r \in Request, Runs(r)', RowFree(r), ~ Rival(r)
          PROVE  RowFree(r)'
      <4>1. r # s /\ Runs(r) /\ req'[r] = req[r]
        BY <3>2, <3>9
      <4>2. ~ Contend(req[r].op, req[s].op)
        BY <2>1, <3>9, <4>1, RivalsMeet
      <4>3. Sound(r, req[r].op, req[r].read)
        BY <4>1 DEF CatalogueOK
      <4>4. SlugFree(r)'
        <5>1. SUFFICES ASSUME At(r, "write") PROVE SlugFree(r)'
          BY <4>1 DEF SlugFree, At
        <5>2. req[r].op.do \in {"create", "update"} /\ req[r].op.table \in Slugged
          BY <5>1, KindAt, WrittenIs
        <5>3. req[r].op.table # t
          BY <2>1, <4>2, <5>2 DEF Contend
        <5>4. rows'[req[r].op.table] = rows[req[r].op.table]
          BY <3>3, <5>2, <5>3
        <5>5. Candidate(r)' = Candidate(r)
          BY <4>1 DEF Candidate
        <5> QED BY <3>9, <4>1, <5>1, <5>4, <5>5 DEF RowFree, SlugFree, At
      <4>5. SkusUntaken(req[r].op)'
        <5>1. CASE skus = {}
          <6>1. DOMAIN variants' = DOMAIN variants
            BY <3>3, <5>1 DEF NewVariants
          <6> QED BY <3>3, <3>9, <4>1, <6>1 DEF RowFree, SkusUntaken, SkuTaken
        <5>2. CASE skus # {}
          <6>1. req[r].op.do # "variant"
            BY <3>4, <4>2, <5>2 DEF Contend
          <6>2. req[r].op.do = "create" => req[r].op.skus = {}
            BY <3>4, <4>2, <4>3, <5>2 DEF Contend, Sound
          <6> QED BY <4>1, <6>1, <6>2 DEF SkusUntaken
        <5> QED BY <5>1, <5>2
      <4> QED BY <4>4, <4>5 DEF RowFree
    <3>10. RowRaces'
      BY <1>2, <1>6, <3>9 DEF RowRaces
    <3> QED BY <3>2, <3>6, <3>7, <3>8, <3>10 DEF KeysUnique, Conflict
  <2> QED BY <2>2, <2>3
<1>14. CASE WriteProduct(s)
  <2> DEFINE id == req[s].op.id
             new == Flush(rows.products[id], req[s].read, req[s].op.row)
  <2>1. /\ Runs(s) /\ req[s].op.do = "product" /\ UNCHANGED <<variants, images, files>>
        /\ id \in DOMAIN rows["products"]
        /\ \/ rows' = rows /\ new.status = Null /\ req'[s].answer = "conflict"
           \/ /\ new.status \in Status /\ DOMAIN rows' = DOMAIN rows /\ req'[s].answer = "ok"
              /\ rows'["categories"] = rows["categories"] /\ rows'["brands"] = rows["brands"]
              /\ DOMAIN rows'["products"] = DOMAIN rows["products"]
              /\ rows'["products"][id] = new
              /\ \A i \in DOMAIN rows["products"] \ {id} :
                   rows'["products"][i] = rows["products"][i]
    BY <1>14, ProductIsWritten
  <2>2. /\ DOMAIN rows["products"][id] = Columns("products") /\ rows["products"][id].status \in Status
        /\ req[s].op.row \in [status : Status \cup {Null}] \cup [name : Name] \cup [category : {"root"}]
    BY <2>1 DEF CatalogueOK, RowsOK, Slugged, Sound
  <2>3. Answer(s, CommitAnswer(TRUE, new.status # Null))
    BY <1>14 DEF WriteProduct
  <2>4. \A r \in Request : Runs(r)' => r # s /\ Runs(r) /\ req'[r] = req[r]
    BY <1>10, <2>3
  <2>5. "slug" \notin DOMAIN req[s].op.row /\ "slug" \in Columns("products")
    BY <2>2 DEF Columns
  <2>6. new.slug = rows["products"][id].slug
    BY <2>2, <2>5 DEF Flush
  <2>7. CASE new.status = Null
    <3>1. Answer(s, "conflict") /\ UNCHANGED <<rows, variants>>
      BY <1>14, <2>3, <2>7 DEF CommitAnswer, WriteProduct
    <3>2. Null \notin Status
      BY DEF Null, Status
    <3>3. "status" \in DOMAIN req[s].op.row /\ req[s].op.row.status = Null
      BY <2>2, <2>7, <3>2 DEF Flush, Columns
    <3> QED BY <1>11, <2>1, <3>1, <3>3 DEF Unchecked
  <2>8. CASE new.status # Null
    <3> HIDE DEF new
    <3>1. Answer(s, "ok")
      BY <2>3, <2>8 DEF CommitAnswer
    <3>2. /\ \A u \in Slugged : DOMAIN rows'[u] = DOMAIN rows[u]
          /\ \A u \in Slugged : \A i \in DOMAIN rows[u] : rows'[u][i].slug = rows[u][i].slug
      BY <2>1, <2>6, <2>8 DEF Slugged
    <3>3. \A r \in Request : Runs(r)' => ParentKnown(req[r].op)'
      BY <1>4, <2>4
    <3>4. KeysUnique'
      BY <2>1, <3>2, <3>3 DEF KeysUnique
    <3>5. ASSUME NEW r \in Request, Runs(r)', RowFree(r)
          PROVE  RowFree(r)'
      <4>1. r # s /\ Runs(r) /\ req'[r] = req[r]
        BY <2>4, <3>5
      <4>2. SlugFree(r)'
        <5>1. SUFFICES ASSUME At(r, "write") PROVE SlugFree(r)'
          BY <4>1 DEF SlugFree, At
        <5>2. req[r].op.table \in Slugged
          BY <5>1, WrittenIs
        <5>3. Candidate(r)' = Candidate(r)
          BY <4>1 DEF Candidate
        <5> QED BY <3>2, <3>5, <4>1, <5>1, <5>2, <5>3 DEF RowFree, SlugFree, At
      <4>3. SkusUntaken(req[r].op)'
        BY <2>1, <3>5, <4>1 DEF RowFree, SkusUntaken, SkuTaken
      <4> QED BY <4>2, <4>3 DEF RowFree
    <3>6. RowRaces'
      BY <1>2, <1>6, <3>5 DEF RowRaces
    <3>7. req'[s].answer = "ok"
      BY <1>10, <3>1
    <3> QED BY <3>4, <3>6, <3>7 DEF Conflict
  <2> QED BY <2>7, <2>8
<1>15. CASE WriteVariant(s)
  <2> DEFINE id == req[s].op.id
             new == WrittenVariant(s)
  <2>1. /\ Runs(s) /\ req[s].op.do = "variant" /\ rows' = rows /\ At(s, "variant")
        /\ \/ variants' = variants /\ ~ VariantLegal(s)
           \/ /\ VariantLegal(s) /\ DOMAIN variants' = DOMAIN variants \cup {id}
              /\ variants'[id] = new /\ \A w \in DOMAIN variants \ {id} : variants'[w] = variants[w]
        /\ Answer(s, CommitAnswer(TRUE, VariantLegal(s)))
    BY <1>15, VariantIsWritten DEF WriteVariant
  <2>2. CASE ~ VariantLegal(s)
    <3>1. Answer(s, "conflict")
      BY <2>1, <2>2 DEF CommitAnswer
    <3> QED BY <1>11, <2>1, <2>2, <3>1, VariantConflicts
  <2>3. CASE VariantLegal(s)
    <3>1. Answer(s, "ok")
      BY <2>1, <2>3 DEF CommitAnswer
    <3>2. /\ req'[s].answer = "ok"
          /\ \A r \in Request : Runs(r)' => r # s /\ Runs(r) /\ req'[r] = req[r]
      BY <1>10, <3>1
    <3>3. \A v \in DOMAIN variants \ {id} : variants[v].sku # new.sku
      BY <2>3 DEF VariantLegal
    <3> HIDE DEF new
    <3>4. \A v, w \in DOMAIN variants' : v # w => variants'[v].sku # variants'[w].sku
      BY <2>1, <2>3, <3>3 DEF KeysUnique
    <3>5. \A r \in Request : Runs(r)' => ParentKnown(req[r].op)'
      BY <1>4, <3>2
    <3>6. KeysUnique'
      BY <2>1, <3>4, <3>5 DEF KeysUnique
    <3>7. ASSUME NEW r \in Request, Runs(r)', RowFree(r), ~ Rival(r)
          PROVE  RowFree(r)'
      <4>1. r # s /\ Runs(r) /\ req'[r] = req[r]
        BY <3>2, <3>7
      <4>2. ~ Contend(req[r].op, req[s].op)
        BY <2>1, <3>7, <4>1, RivalsMeet
      <4>3. req[r].op.do \notin {"create", "variant"}
        BY <2>1, <4>2 DEF Contend
      <4>4. SlugFree(r)'
        <5>1. Candidate(r)' = Candidate(r)
          BY <4>1 DEF Candidate
        <5> QED BY <2>1, <3>7, <4>1, <5>1 DEF RowFree, SlugFree, At
      <4>5. SkusUntaken(req[r].op)'
        BY <4>1, <4>3 DEF SkusUntaken
      <4> QED BY <4>4, <4>5 DEF RowFree
    <3>8. RowRaces'
      BY <1>2, <1>6, <3>7 DEF RowRaces
    <3> QED BY <3>2, <3>6, <3>8 DEF Conflict
  <2> QED BY <2>2, <2>3
<1>16. CatalogueStep(s) =>
         \/ /\ \/ CreateRow(s) \/ UpdateRow(s) \/ CreateProduct(s) \/ UpdateProduct(s)
               \/ CreateVariant(s) \/ UpdateVariant(s) \/ Upload(s) \/ SetPrimary(s) \/ DeleteImage(s)
            /\ UNCHANGED <<rows, variants>>
         \/ Probe(s) \/ WriteRow(s) \/ WriteProduct(s) \/ WriteVariant(s)
         \/ SaveFile(s) \/ WriteImages(s) \/ DeleteRow(s)
  BY DEF CatalogueStep, SlugStep, ProductStep, ImageStep, catalogueVars, Upload, SetPrimary, DeleteImage
<1> QED BY <1>8, <1>9, <1>12, <1>13, <1>14, <1>15, <1>16

\* At first nobody has asked for anything, and each table has one row.
LEMMA InitRaces == Init => RacesInv
<1> SUFFICES ASSUME Init PROVE RacesInv
  OBVIOUS
<1>1. \A r \in Request : req[r].at = "new" /\ ~ Runs(r) /\ req[r].answer = "none"
  BY DEF Init, SessionsInit, NotMade, Runs
<1>2. /\ \A t \in Slugged : \A i, j \in DOMAIN rows[t] : i = j
      /\ \A v, w \in DOMAIN variants : v = w
  <2>1. /\ DOMAIN rows["categories"] = {"root"} /\ DOMAIN rows["brands"] = {"root"}
        /\ DOMAIN rows["products"] = {"p0"} /\ DOMAIN variants = {FirstVariant}
    BY DEF Init, CatalogueInit
  <2> QED BY <2>1 DEF Slugged
<1>3. KeysUnique
  BY <1>1, <1>2 DEF KeysUnique
<1>4. RowRaces /\ CartRaces /\ ReviewRaces /\ AccountRaces
  BY <1>1 DEF RowRaces, RowFree, SlugFree, CartRaces, CartFree, ReviewRaces, ReviewFree,
              AccountRaces, EmailFree, At
<1> QED BY <1>1, <1>3, <1>4 DEF RacesInv, ConflictsAreRaces

\* What was free stays free while the others leave the tables alone.
LEMMA FreeAside ==
  ASSUME SessionInv, SessionInv', Frozen
  PROVE  /\ KeysUnique /\ RowRaces /\ UNCHANGED catalogueVars /\ Aside(CatalogueKinds)
              => KeysUnique' /\ RowRaces'
         /\ CartRaces /\ Aside(CartKinds)
            /\ cart'.exists = cart.exists /\ DOMAIN lines' \subseteq DOMAIN lines => CartRaces'
         /\ ReviewRaces /\ UNCHANGED <<review, searches>> /\ Aside(ReviewKinds) => ReviewRaces'
         /\ AccountRaces /\ UNCHANGED accountVars /\ Aside(AccountKinds) => AccountRaces'
<1>1. \A r \in Request : Rival(r) => Rival(r)'
  BY RivalsRemain
<1>2. ASSUME NEW kinds, Aside(kinds), NEW r \in Request, Runs(r)', req'[r].op.do \in kinds
      PROVE  req'[r] = req[r] /\ Runs(r)
  BY <1>2 DEF Aside, Runs
<1>3. ASSUME KeysUnique, RowRaces, UNCHANGED catalogueVars, Aside(CatalogueKinds)
      PROVE  KeysUnique' /\ RowRaces'
  <2>1. UNCHANGED <<rows, variants>>
    BY <1>3 DEF catalogueVars
  <2>2. ASSUME NEW r \in Request, Runs(r)'
        PROVE  ParentKnown(req[r].op)'
    <3>1. CASE req'[r].op.do = "create"
      <4>1. req'[r].op.do \in CatalogueKinds
        BY <3>1 DEF CatalogueKinds
      <4>2. req'[r] = req[r] /\ Runs(r)
        BY <1>2, <1>3, <2>2, <4>1
      <4> QED BY <1>3, <2>1, <4>2 DEF KeysUnique, ParentKnown, Known
    <3>2. CASE req'[r].op.do # "create"
      BY <3>2 DEF ParentKnown
    <3> QED BY <3>1, <3>2
  <2>3. ASSUME NEW r \in Request, RowFree(r)
        PROVE  RowFree(r)'
    <3>1. SlugFree(r)'
      <4>1. SUFFICES ASSUME At(r, "write")' PROVE SlugFree(r)'
        BY DEF SlugFree
      <4>2. Runs(r)' /\ req'[r].op.do \in {"create", "update"}
        BY <4>1, SessionInv' DEF SessionInv, RequestsOK, Fits, At, Runs, CartSteps
      <4>3. req'[r] = req[r]
        BY <1>2, <1>3, <4>2 DEF CatalogueKinds
      <4>4. Candidate(r)' = Candidate(r)
        BY <4>3 DEF Candidate
      <4> QED BY <2>1, <2>3, <4>1, <4>3, <4>4 DEF RowFree, SlugFree, At
    <3>2. ASSUME Runs(r)' PROVE SkusUntaken(req[r].op)'
      <4>1. CASE req'[r].op.do \in {"create", "variant"}
        <5>1. req'[r] = req[r] /\ Runs(r)
          BY <1>2, <1>3, <3>2, <4>1 DEF CatalogueKinds
        <5> QED BY <2>1, <2>3, <5>1 DEF RowFree, SkusUntaken, SkuTaken
      <4>2. CASE req'[r].op.do \notin {"create", "variant"}
        BY <4>2 DEF SkusUntaken
      <4> QED BY <4>1, <4>2
    <3> QED BY <3>1, <3>2 DEF RowFree
  <2> QED BY <1>1, <1>3, <2>1, <2>2, <2>3 DEF KeysUnique, RowRaces
<1>4. ASSUME CartRaces, Aside(CartKinds), cart'.exists = cart.exists,
             DOMAIN lines' \subseteq DOMAIN lines
      PROVE  CartRaces'
  <2>1. ASSUME NEW r \in Request, CartFree(r)
        PROVE  CartFree(r)'
    <3>1. At(r, "create cart")' \/ At(r, "write line")' => Runs(r)' /\ req'[r].op.do \in CartKinds
      BY DEF SessionInv, RequestsOK, Fits, At, Runs, CartSteps
    <3>2. At(r, "create cart")' \/ At(r, "write line")' => req'[r] = req[r]
      BY <1>2, <1>4, <3>1
    <3> QED BY <1>4, <2>1, <3>2 DEF CartFree, At
  <2> QED BY <1>1, <1>4, <2>1 DEF CartRaces
<1>5. ASSUME ReviewRaces, UNCHANGED <<review, searches>>, Aside(ReviewKinds)
      PROVE  ReviewRaces'
  <2>1. ASSUME NEW r \in Request, ReviewFree(r)
        PROVE  ReviewFree(r)'
    <3>1. At(r, "purchase")' \/ At(r, "insert review")' \/ At(r, "search")' =>
            Runs(r)' /\ req'[r].op.do \in {"review", "search"}
      BY DEF SessionInv, RequestsOK, Fits, At, Runs, CartSteps
    <3>2. At(r, "purchase")' \/ At(r, "insert review")' \/ At(r, "search")' => req'[r] = req[r]
      BY <1>2, <1>5, <3>1 DEF ReviewKinds
    <3> QED BY <1>5, <2>1, <3>2 DEF ReviewFree, At
  <2> QED BY <1>1, <1>5, <2>1 DEF ReviewRaces
<1>6. ASSUME AccountRaces, UNCHANGED accountVars, Aside(AccountKinds)
      PROVE  AccountRaces'
  <2>1. ASSUME NEW r \in Request, EmailFree(r)
        PROVE  EmailFree(r)'
    <3>1. At(r, "signup")' => Runs(r)' /\ req'[r].op.do = "signup"
      BY DEF SessionInv, RequestsOK, Fits, At, Runs, CartSteps
    <3>2. At(r, "signup")' => Runs(r)' /\ req'[r].op.do \in AccountKinds
      BY <3>1 DEF AccountKinds
    <3>3. At(r, "signup")' => req'[r] = req[r]
      BY <1>2, <1>6, <3>2
    <3> QED BY <1>6, <2>1, <3>3 DEF EmailFree, EmailTaken, At, accountVars
  <2> QED BY <1>1, <1>6, <2>1 DEF AccountRaces
<1> QED BY <1>3, <1>4, <1>5, <1>6

LEMMA NextRaces ==
  ASSUME SessionInv, CatalogueOK, CartsOK, ReviewsInv, AccountsInv, RacesInv, [Next]_vars
  PROVE  RacesInv'
<1>1. SessionInv' /\ Frozen
  BY NextSessions
<1>2. \A u \in Slugged : DOMAIN rows[u] \subseteq DOMAIN rows'[u]
  BY NextCatalogue
<1>3. AccountsOK /\ AccountRequestsOK
  BY DEF AccountsInv
<1>4. ASSUME NEW s \in Request, CatalogueStep(s)
      PROVE  KeysUnique' /\ RowRaces' /\ Conflict(s)'
  BY <1>1, <1>2, <1>4, NextRowRaces DEF RacesInv
<1>5. ASSUME NEW s \in Request, CartStep(s)
      PROVE  CartRaces' /\ Conflict(s)'
  BY <1>1, <1>5, NextCartRaces DEF RacesInv
<1>6. ASSUME NEW s \in Request, ReviewStep(s)
      PROVE  ReviewRaces' /\ Conflict(s)'
  BY <1>1, <1>6, NextReviewRaces DEF RacesInv
<1>7. ASSUME NEW s \in Request, AccountStep(s)
      PROVE  AccountRaces' /\ Conflict(s)'
  BY <1>1, <1>3, <1>7, NextAccountRaces DEF RacesInv
<1>8. KeysUnique' /\ RowRaces'
  BY <1>1, <1>4, CatalogueAside, FreeAside DEF RacesInv
<1>9. CartRaces'
  <2>1. CASE CheckOut /\ UNCHANGED <<sessionVars, catalogueVars>>
    BY <1>1, <2>1, NothingIsAside, CheckOutLeaves, FreeAside DEF RacesInv, CartsOK
  <2> QED BY <1>1, <1>5, <2>1, CartsAside, FreeAside DEF RacesInv
<1>10. ReviewRaces'
  BY <1>1, <1>6, ReviewsAside, FreeAside DEF RacesInv
<1>11. AccountRaces'
  BY <1>1, <1>7, AccountsAside, FreeAside DEF RacesInv
<1>12. ASSUME NEW r \in Request, req'[r] = req[r]
       PROVE  Conflict(r)'
  <2>1. \A q \in Request : Rival(q) => Rival(q)'
    BY <1>1, RivalsRemain
  <2>2. PICK op : op = req[r].op
    OBVIOUS
  <2>3. req'[r].answer = "conflict" => Rival(r)' \/ Unchecked(op)
    BY <1>12, <2>1, <2>2 DEF RacesInv, ConflictsAreRaces, Rival
  <2>4. Unchecked(op) => Unchecked(req'[r].op)
    BY <1>12, <2>2
  <2> QED BY <2>3, <2>4 DEF Conflict
<1>13. ASSUME NEW s \in Request, CatalogueStep(s) \/ CartStep(s) \/ ReviewStep(s) \/ AccountStep(s)
       PROVE  \A r \in Request : Conflict(r)'
  <2>1. Conflict(s)'
    BY <1>4, <1>5, <1>6, <1>7, <1>13
  <2>2. \A r \in Request \ {s} : req'[r] = req[r]
    BY <1>13, CatalogueSessions, CartSessions, ReviewSessions, AccountSessions, OthersStay
  <2> QED BY <1>12, <2>1, <2>2
<1>14. ASSUME NEW s \in Request, Die(s)
       PROVE  \A r \in Request : Conflict(r)'
  <2>1. req' = Ended(s, "lost", NoResponse)
    BY <1>14 DEF Die
  <2>2. /\ req'[s].answer = "lost"
        /\ \A r \in Request \ {s} : req'[r] = req[r]
    BY <2>1, EndedIs DEF SessionInv
  <2>3. Conflict(s)'
    BY <2>2 DEF Conflict
  <2> QED BY <1>12, <2>2, <2>3
<1>15. UNCHANGED sessionVars => \A r \in Request : Conflict(r)'
  BY <1>12 DEF sessionVars
<1>16. \A r \in Request : Conflict(r)'
  BY <1>13, <1>14, <1>15 DEF Next, vars
<1>17. ConflictsAreRaces'
  BY <1>16 DEF Conflict, Rival, ConflictsAreRaces
<1> QED BY <1>8, <1>9, <1>10, <1>11, <1>17 DEF RacesInv

\* For any number of requests, names, SKUs, tabs and users: a request that meets
\* a constraint, and not its own check of it, met another that wanted the same
\* kind of key, or asked for what no check looks at (exception_handlers.py
\* 230-231).  The invariant says what each request has found free since: it
\* still is, unless there is a rival.
THEOREM ConflictsComeFromRaces == Spec => []ConflictsAreRaces
<1>1. CatalogueInv => CatalogueOK
  BY DEF CatalogueInv
<1>2. RacesInv => ConflictsAreRaces
  BY DEF RacesInv
<1> QED BY <1>1, <1>2, InitRaces, NextRaces, SessionsHold, CatalogueHolds, CartsHold, ReviewsHold,
           AccountsHold, PTL DEF Spec
=============================================================================
