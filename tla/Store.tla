-------------------------------- MODULE Store --------------------------------
(***************************************************************************)
(* The catalogue, one customer's cart, the reviews of a product and the    *)
(* accounts, with requests to all of them at once.  No handler locks what  *)
(* it reads: each reads, decides and writes, and relies on unique keys and *)
(* on the columns it does not write.  The properties say what this does    *)
(* whatever the interleaving, and what only a rival can spoil: a request   *)
(* of the same kind for the same row that ran at the same time.            *)
(***************************************************************************)
EXTENDS Carts, Reviews, Accounts

vars == <<sessionVars, catalogueVars, cartVars, termVars, reviewVars, accountVars>>

Init == SessionsInit /\ CatalogueInit /\ CartInit /\ ReviewsInit /\ AccountsInit

\* The history of the stock.
Highest == [v \in DOMAIN variants' |->
              IF v \in DOMAIN top /\ top[v] >= variants'[v].stock THEN top[v]
              ELSE variants'[v].stock]

Next ==
  \/ \E r \in Request :
       \/ /\ CatalogueStep(r) /\ top' = Highest
          /\ UNCHANGED <<cart, lines, termVars, reviewVars, accountVars>>
       \/ /\ CartStep(r) /\ moved' = (moved /\ ~ Judges(r))
          /\ UNCHANGED <<terms, catalogueVars, reviewVars, accountVars>>
       \/ ReviewStep(r) /\ UNCHANGED <<catalogueVars, cartVars, termVars, accountVars>>
       \/ AccountStep(r) /\ UNCHANGED <<catalogueVars, cartVars, termVars, reviewVars>>
       \/ Die(r) /\ UNCHANGED <<catalogueVars, cartVars, termVars, reviewVars, accountVars>>
  \/ Buy /\ UNCHANGED <<sessionVars, catalogueVars, cartVars, termVars, accountVars>>
  \/ (Reprice \/ CheckOut) /\ UNCHANGED <<sessionVars, catalogueVars, reviewVars, accountVars>>

Spec == Init /\ [][Next]_vars

-----------------------------------------------------------------------------
(* Properties.                                                             *)

\* One type invariant: every reference leads to a row, stock is a number,
\* counters count, and no two accounts have emails that differ only in case.
StoreTypeOK ==
  /\ \A id \in DOMAIN rows.products : /\ rows.products[id].category \in DOMAIN rows.categories
                                      /\ rows.products[id].status \in Status
  /\ \A id \in DOMAIN rows.categories :
       rows.categories[id].parent \in DOMAIN rows.categories \cup {"none"}
  /\ \A v \in DOMAIN variants : /\ variants[v].product \in DOMAIN rows.products
                                /\ variants[v].stock \in Nat
  /\ DOMAIN lines \subseteq DOMAIN variants /\ DOMAIN top = DOMAIN variants
  /\ cart.coupon \in Coupon \cup {"none"} /\ (DOMAIN lines # {} => cart.exists)
  /\ review.helpful \in Nat /\ \A q \in DOMAIN searches : searches[q] \in Nat \ {0}
  /\ \A u, w \in DOMAIN users :
       /\ users[u].role \in Role
       /\ u # w => Lower[users[u].email] # Lower[users[w].email]
  /\ \A a \in DOMAIN addresses : addresses[a].user \in DOMAIN users

CartKinds == {"add", "update line", "remove", "view", "apply", "clear"}

\* Two requests that insert or change the same kind of key.
Contend(a, b) ==
  \/ {a.do, b.do} \subseteq {"create", "update"} /\ a.table = b.table
  \/ {a.do, b.do} = {"create", "variant"} \/ {a.do, b.do} = {"variant"}
  \/ {a.do, b.do} \subseteq CartKinds
  \/ {a.do, b.do} = {"review"}
  \/ {a.do, b.do} = {"search"} /\ a.query = b.query
  \/ {a.do, b.do} = {"signup"} /\ a.email = b.email

\* What the check before the write does not look at: the parent of an update,
\* the product of a review, and an explicit null.
Unchecked(op) ==
  \/ op.do = "update" /\ "parent" \in DOMAIN op.row /\ op.row.parent = "gone"
  \/ op.do = "review" /\ op.product = "gone"
  \/ op.do = "product" /\ "status" \in DOMAIN op.row /\ op.row.status = Null
  \/ op.do = "variant" /\ "sku" \in DOMAIN op.row /\ op.row.sku = Null

\* "reaching this handler usually means a RACE CONDITION slipped past that
\* pre-check" (exception_handlers.py 230-231): a request that meets a
\* constraint, and not its own check of it, ran at the same time as another
\* for the same kind of key, or asked for what no check looks at.
ConflictsAreRaces ==
  \A r \in Request : req[r].answer = "conflict" =>
    \/ \E q \in Request : Met(r, q) /\ Contend(req[r].op, req[q].op)
    \/ Unchecked(req[r].op)

Deleting(id) ==
  \E r \in Request : /\ req[r].op.do = "delete" /\ req[r].op.id = id
                     /\ (At(r, "delete") \/ req[r].answer = "lost")

\* Every image has its file, unless its deletion is on the way or its
\* worker died on the way; and every file has its row, unless its upload is
\* on the way, died or failed.
RowsHaveFiles ==
  /\ \A id \in DOMAIN images \ files : Deleting(id)
  /\ \A f \in files \ DOMAIN images :
       \E r \in Request : r = f /\ (At(r, "insert") \/ req[r].answer \in {"lost", "error"})

\* However many tabs add to and change a line while the stock is edited, no
\* line ever asks for more than the variant once had in stock.
LinesWithinStock == \A v \in DOMAIN lines : lines[v].quantity <= top[v]

Rivals(kinds) ==
  \E r, q \in Request : Met(r, q) /\ req[r].op.do \in kinds /\ req[q].op.do \in kinds

\* "Only one primary image per product" (admin_catalog.py 645): two need two
\* requests that ran at once and each made an image primary.
OnePrimaryImage ==
  \/ Cardinality({id \in DOMAIN images : images[id].primary}) <= 1
  \/ \E r, q \in Request : /\ Met(r, q)
                           /\ \A p \in {r, q} : req[p].op.do \in {"upload", "set primary"}
                                                 /\ req[p].op.primary

\* The slug of a category or brand is made of its name: only two updates of
\* the same row at once leave the name of the one with the slug of the other.
SlugsFollowNames ==
  \A t \in {"categories", "brands"} : \A id \in DOMAIN rows[t] :
    LET base == Slugify[rows[t][id].name] slug == rows[t][id].slug IN
      \/ slug = base
      \/ Len(slug) = Len(base) + 1 /\ SubSeq(slug, 1, Len(base)) = base
      \/ \E r, q \in Request : /\ Met(r, q)
                               /\ \A p \in {r, q} : /\ req[p].op.do = "update"
                                                    /\ req[p].op.table = t /\ req[p].op.id = id

Answered(kind) == {r \in Request : Done(r, kind)}

\* A counter has counted every request that was answered unless two of its
\* kind ran at once, and never counts more; a report stays with its review
\* whatever else is written to it.
CountsAddUp ==
  /\ LET n == Cardinality(Answered("helpful")) IN
       /\ review.helpful <= n
       /\ review.helpful = n \/ Rivals({"helpful"})
  /\ \A q \in Query :
       LET n == Cardinality({r \in Answered("search") : req[r].op.query = q})
           count == IF q \in DOMAIN searches THEN searches[q] ELSE 0 IN
         count <= n /\ (count = n \/ Rivals({"search"}))
  /\ review.reported = (Answered("report") # {})
  /\ review.verified => bought

Idle == \A r \in Request : ~ Runs(r)

\* "silently drop it from the cart" (cart.py 79-84): when nobody is at the cart,
\* its coupon fits its lines, however many of its requests ran at once, unless
\* prices or the coupon's row have moved, its dates have passed or a checkout
\* has gone over the cart since a request last answered with that coupon, or
\* one died before its answer was put together.
CouponFits ==
  Idle /\ cart.coupon # "none" =>
    \/ Valid(cart.coupon)
    \/ moved
    \/ \E r \in Request : req[r].answer = "lost"

\* What requests of the same kind can spoil at the same time, and what not
\* even they can.
OnlyRivalsSpoil == CountsAddUp /\ CouponFits

\* "as long as it's added BEFORE CORSMiddleware" (exception_handlers.py 160):
\* every answer, errors of any kind included, leaves with the headers of CORS,
\* the security headers and the request id, and an error that quotes an id
\* quotes that of its own request, whatever else the process was running.
ResponsesAreTraced ==
  \A r \in Request : req[r].answer \notin {"none", "lost"} =>
    /\ {"CORS", "SecurityHeaders", "RequestContext"} \subseteq req[r].response.layers
    /\ req[r].response.id = r

\* Someone can restore what an administrator has done to the others: there is
\* an active administrator, who can activate accounts, and a super admin, who
\* can give roles.
Recoverable ==
  /\ \E u \in DOMAIN users : users[u].active /\ users[u].role # "customer"
  /\ \E u \in DOMAIN users : users[u].role = "super_admin"

\* "no one left who can undo it" (admin_users.py 14-17) takes a change made by
\* someone whose own account was being changed at the same time.
SomeoneCanUndo ==
  \/ Recoverable
  \/ \E r, q \in Request : /\ Met(r, q) /\ Done(r, "user") /\ req[q].op.do = "user"
                           /\ req[q].op.target = req[r].op.actor

\* "Only one default address per user" (addresses.py 42): two need two
\* requests that ran at once and each created a default for the same user.
OneDefaultAddress ==
  \A u \in DOMAIN users :
    \/ Cardinality({a \in DOMAIN addresses : addresses[a] = [user |-> u, default |-> TRUE]}) <= 1
    \/ \E r, q \in Request : /\ Met(r, q)
                             /\ \A p \in {r, q} : /\ req[p].op.do = "address"
                                                  /\ req[p].op.user = u /\ req[p].op.default
=============================================================================
