----------------------------- MODULE StoreProofs -----------------------------
(***************************************************************************)
(* Proofs about Store, for every set of requests, names, staff and so on.  *)
(* First what all its requests have in common: every step of a handler is  *)
(* a step of its session, a running request finds its own id in            *)
(* request_id_ctx, and two requests that run at once have met.             *)
(***************************************************************************)
EXTENDS Store, FiniteSetTheorems, TLAPS

-----------------------------------------------------------------------------
(* Sessions.                                                               *)

CatalogueKinds == {"create", "update", "product", "variant", "upload", "set primary", "delete"}
ReviewKinds == {"review", "helpful", "report", "search"}
AccountKinds == {"signup", "user", "address", "delete address"}
Kinds == CatalogueKinds \cup CartKinds \cup ReviewKinds \cup AccountKinds

CartSteps == {"cart", "create cart", "line", "write line", "price", "drop old",
              "drop old and refuse", "coupon", "serialize", "drop coupon"}

\* Where a running request of each kind can be.
Fits(do, step) ==
  \/ do \in {"create", "update"} /\ step \in {"probe", "write"}
  \/ do \in {"product", "variant", "delete", "helpful", "report", "search", "signup",
             "delete address"} /\ step = do
  \/ do = "upload" /\ step \in {"save", "insert"}
  \/ do = "set primary" /\ step = "insert"
  \/ do \in CartKinds /\ step \in CartSteps
  \/ do = "review" /\ step \in {"purchase", "insert review"}
  \/ do = "user" /\ step \in {"load user", "write user"}
  \/ do = "address" /\ step \in {"unset", "lock", "insert address"}

Given == {"ok", "refused", "conflict", "error", "unhandled"}

\* What a step of a handler may do to its own request, and to no other.
SessionStep(r, kinds) ==
  \/ \E op, step, read : op.do \in kinds /\ Fits(op.do, step) /\ Begin(r, op, step, read)
  \/ \E op : op.do \in kinds /\ RefuseAtOnce(r, op)
  \/ /\ Runs(r) /\ req[r].op.do \in kinds
     /\ \/ \E step, read : Fits(req[r].op.do, step) /\ Proceed(r, step, read)
        \/ \E answer \in Given : Answer(r, answer)

RequestsOK ==
  /\ DOMAIN req = Request /\ DOMAIN context = Request /\ DOMAIN met = Request
  /\ \A r \in Request :
       /\ DOMAIN req[r] = {"at", "op", "read", "answer", "response"}
       /\ At(r, "new") => req[r].op.do = "none" /\ req[r].answer = "none" /\ met[r] = {}
       /\ Runs(r) => /\ req[r].op.do \in Kinds /\ Fits(req[r].op.do, req[r].at)
                     /\ req[r].answer = "none" /\ context[r] = r
       /\ At(r, "done") => req[r].op.do \in Kinds /\ req[r].answer \in Given \cup {"lost"}

MetOK ==
  /\ \A r \in Request : met[r] \subseteq Request
  /\ \A r, q \in Request : Met(r, q) => Met(q, r)
  /\ \A r, q \in Request : r # q /\ Runs(r) /\ Runs(q) => Met(r, q)

SessionInv == RequestsOK /\ MetOK /\ ResponsesAreTraced

\* What every step keeps: a request that was made asks the same, one that was
\* answered keeps its answer, and who has met has met.
Frozen ==
  \A q \in Request :
    /\ ~ At(q, "new") => req'[q].op = req[q].op /\ req'[q].at # "new"
    /\ At(q, "done") => req'[q] = req[q]
    /\ met[q] \subseteq met'[q]

-----------------------------------------------------------------------------
LEMMA FitsIsNoEnd ==
  ASSUME NEW do, NEW step, Fits(do, step)
  PROVE  step \notin {"new", "done"} /\ do \in Kinds
BY DEF Fits, Kinds, CatalogueKinds, ReviewKinds, AccountKinds, CartKinds, CartSteps

\* Every answer but that of a dead worker leaves through the three layers.
LEMMA ResponseIs ==
  ASSUME NEW r \in Request, NEW answer,
         answer \in {"conflict", "error", "unhandled"} => context[r] = r
  PROVE  /\ {"CORS", "SecurityHeaders", "RequestContext"} \subseteq Response(r, answer).layers
         /\ Response(r, answer).id = r
<1>1. DOMAIN Layers = 1 .. 5 /\ Layers[1] = "UnhandledException" /\ Layers[2] = "CORS"
      /\ Layers[4] = "SecurityHeaders" /\ Layers[5] = "RequestContext"
  BY DEF Layers
<1>2. {2, 4, 5} \subseteq Outside(answer)
  <2>1. CASE answer # "unhandled"
    BY <1>1, <2>1 DEF Outside
  <2>2. CASE answer = "unhandled"
    <3>1. \A l \in {2, 4, 5} : 1 \in 1 .. l - 1 /\ l \in 1 .. 5
      OBVIOUS
    <3> QED BY <1>1, <2>2, <3>1 DEF Outside
  <2> QED BY <2>1, <2>2
<1>3. Response(r, answer).layers = {Layers[l] : l \in Outside(answer)}
  BY DEF Response
<1>4. \A l \in {2, 4, 5} : Layers[l] \in {Layers[m] : m \in Outside(answer)}
  BY <1>2
<1> QED BY <1>1, <1>3, <1>4 DEF Response

LEMMA InitSessions == Init => SessionInv
BY DEF Init, SessionsInit, SessionInv, RequestsOK, MetOK, ResponsesAreTraced, NotMade, At, Runs,
       Met, NoResponse

\* The four things a session may do.
LEMMA BeginKeeps ==
  ASSUME SessionInv, NEW r \in Request, NEW op, NEW step, NEW read,
         Fits(op.do, step), Begin(r, op, step, read)
  PROVE  SessionInv' /\ Frozen
<1>1. step \notin {"new", "done"} /\ op.do \in Kinds
  BY FitsIsNoEnd
<1>2. /\ req'[r].at = step /\ req'[r].op = op /\ req'[r].answer = "none"
      /\ DOMAIN req'[r] = {"at", "op", "read", "answer", "response"}
      /\ DOMAIN req' = Request /\ \A q \in Request \ {r} : req'[q] = req[q]
  BY DEF SessionInv, RequestsOK, Begin, NotMade
<1>3. context'[r] = r /\ DOMAIN context' = Request
      /\ \A q \in Request \ {r} : context'[q] = context[q]
  BY DEF SessionInv, RequestsOK, Begin, Entered
<1>4. RequestsOK'
  BY <1>1, <1>2, <1>3 DEF SessionInv, RequestsOK, Begin, At, Runs
<1>5. /\ met[r] = {} /\ ~ Runs(r) /\ \A q \in Request : r \notin met[q]
      /\ met'[r] = {p \in Request : Runs(p)}
      /\ \A q \in Request \ {r} : met'[q] = IF Runs(q) THEN met[q] \cup {r} ELSE met[q]
  BY DEF SessionInv, RequestsOK, MetOK, Met, Begin, At, Runs
<1>6. MetOK'
  <2>1. \A q \in Request : met'[q] \subseteq Request
    BY <1>5 DEF SessionInv, MetOK
  <2>2. ASSUME NEW p \in Request, NEW q \in Request, q \in met'[p]
        PROVE  p \in met'[q]
    <3>1. CASE p = r
      BY <1>5, <2>2, <3>1
    <3>2. CASE p # r /\ q = r
      BY <1>5, <2>2, <3>2
    <3>3. CASE p # r /\ q # r
      <4>1. q \in met[p]
        BY <1>5, <2>2, <3>3
      <4>2. p \in met[q]
        BY <4>1 DEF SessionInv, MetOK, Met
      <4> QED BY <1>5, <3>3, <4>2
    <3> QED BY <3>1, <3>2, <3>3
  <2>3. ASSUME NEW p \in Request, NEW q \in Request, p # q, Runs(p)', Runs(q)'
        PROVE  q \in met'[p]
    <3>1. \A s \in Request \ {r} : Runs(s)' <=> Runs(s)
      BY <1>2 DEF Runs
    <3>2. CASE p = r
      BY <1>5, <2>3, <3>1, <3>2
    <3>3. CASE p # r
      <4>1. q # r => q \in met[p]
        BY <2>3, <3>1, <3>3 DEF SessionInv, MetOK, Met
      <4> QED BY <1>5, <2>3, <3>1, <3>3, <4>1
    <3> QED BY <3>2, <3>3
  <2> QED BY <2>1, <2>2, <2>3 DEF MetOK, Met
<1>7. ResponsesAreTraced'
  BY <1>2 DEF SessionInv, ResponsesAreTraced
<1>8. Frozen
  BY <1>2, <1>5 DEF Frozen, Begin, At
<1> QED BY <1>4, <1>6, <1>7, <1>8 DEF SessionInv

\* A running request goes on, or ends with this answer and this response.
LEMMA MoveKeeps ==
  ASSUME SessionInv, NEW r \in Request, Runs(r), NEW step, NEW read, NEW answer, NEW response,
         DOMAIN req' = Request, \A q \in Request \ {r} : req'[q] = req[q],
         DOMAIN req'[r] = {"at", "op", "read", "answer", "response"},
         req'[r].op = req[r].op, req'[r].at = step, req'[r].answer = answer,
         req'[r].response = response, met' = met,
         DOMAIN context' = Request, \A q \in Request \ {r} : context'[q] = context[q],
         \/ Fits(req[r].op.do, step) /\ answer = "none" /\ context'[r] = r
         \/ /\ step = "done" /\ answer \in Given \cup {"lost"}
            /\ answer # "lost" =>
                 /\ {"CORS", "SecurityHeaders", "RequestContext"} \subseteq response.layers
                 /\ response.id = r
  PROVE  SessionInv' /\ Frozen
<1>1. step # "new" /\ (step = "done" => answer # "none")
  BY FitsIsNoEnd DEF Given
<1>2. RequestsOK'
  BY <1>1, FitsIsNoEnd DEF SessionInv, RequestsOK, At, Runs
<1>3. MetOK'
  <2>1. \A q \in Request : Runs(q)' => Runs(q)
    BY DEF Runs
  <2> QED BY <2>1 DEF SessionInv, MetOK, Met
<1>4. ResponsesAreTraced'
  BY DEF SessionInv, ResponsesAreTraced
<1>5. Frozen
  BY <1>1 DEF Frozen, At, Runs
<1> QED BY <1>2, <1>3, <1>4, <1>5 DEF SessionInv

LEMMA ProceedKeeps ==
  ASSUME SessionInv, NEW r \in Request, Runs(r), NEW step, NEW read,
         Fits(req[r].op.do, step), Proceed(r, step, read)
  PROVE  SessionInv' /\ Frozen
<1>1. /\ req'[r].at = step /\ req'[r].op = req[r].op /\ req'[r].answer = "none"
      /\ DOMAIN req'[r] = {"at", "op", "read", "answer", "response"}
      /\ DOMAIN req' = Request /\ \A q \in Request \ {r} : req'[q] = req[q]
      /\ context' = context /\ met' = met /\ DOMAIN context = Request /\ context[r] = r
  BY DEF SessionInv, RequestsOK, Proceed
<1> QED BY <1>1, MoveKeeps

LEMMA EndedIs ==
  ASSUME RequestsOK, NEW r \in Request, NEW answer, NEW response,
         req' = Ended(r, answer, response)
  PROVE  /\ req'[r].at = "done" /\ req'[r].op = req[r].op /\ req'[r].answer = answer
         /\ req'[r].response = response
         /\ DOMAIN req'[r] = {"at", "op", "read", "answer", "response"}
         /\ DOMAIN req' = Request /\ \A q \in Request \ {r} : req'[q] = req[q]
BY DEF RequestsOK, Ended

LEMMA AnswerKeeps ==
  ASSUME SessionInv, NEW r \in Request, Runs(r), NEW answer \in Given, Answer(r, answer)
  PROVE  SessionInv' /\ Frozen
<1>1. req' = Ended(r, answer, Response(r, answer)) /\ met' = met
      /\ DOMAIN context' = Request /\ \A q \in Request \ {r} : context'[q] = context[q]
  BY DEF SessionInv, RequestsOK, Answer
<1>2. /\ {"CORS", "SecurityHeaders", "RequestContext"} \subseteq Response(r, answer).layers
      /\ Response(r, answer).id = r
  BY ResponseIs DEF SessionInv, RequestsOK
<1> QED BY <1>1, <1>2, EndedIs, MoveKeeps DEF SessionInv

LEMMA DieKeeps ==
  ASSUME SessionInv, NEW r \in Request, Die(r)
  PROVE  SessionInv' /\ Frozen
<1>1. req' = Ended(r, "lost", NoResponse) /\ met' = met /\ Runs(r)
      /\ DOMAIN context' = Request /\ \A q \in Request \ {r} : context'[q] = context[q]
  BY DEF SessionInv, RequestsOK, Die
<1> QED BY <1>1, EndedIs, MoveKeeps DEF SessionInv

LEMMA RefuseAtOnceKeeps ==
  ASSUME SessionInv, NEW r \in Request, NEW op, op.do \in Kinds, RefuseAtOnce(r, op)
  PROVE  SessionInv' /\ Frozen
<1>1. /\ req'[r].at = "done" /\ req'[r].op = op /\ req'[r].answer = "refused"
      /\ req'[r].response = Response(r, "refused")
      /\ DOMAIN req'[r] = {"at", "op", "read", "answer", "response"}
      /\ DOMAIN req' = Request /\ \A q \in Request \ {r} : req'[q] = req[q]
      /\ context' = context /\ met' = met /\ At(r, "new")
  BY DEF SessionInv, RequestsOK, RefuseAtOnce, NotMade
<1>2. RequestsOK'
  BY <1>1 DEF SessionInv, RequestsOK, At, Runs, Given
<1>3. MetOK'
  <2>1. \A q \in Request : Runs(q)' => Runs(q)
    BY <1>1 DEF Runs
  <2> QED BY <1>1, <2>1 DEF SessionInv, MetOK, Met
<1>4. ResponsesAreTraced'
  <2>1. /\ {"CORS", "SecurityHeaders", "RequestContext"} \subseteq Response(r, "refused").layers
        /\ Response(r, "refused").id = r
    BY ResponseIs
  <2> QED BY <1>1, <2>1 DEF SessionInv, ResponsesAreTraced
<1>5. Frozen
  BY <1>1 DEF Frozen, At
<1> QED BY <1>2, <1>3, <1>4, <1>5 DEF SessionInv

LEMMA SessionKeeps ==
  ASSUME SessionInv, NEW r \in Request, SessionStep(r, Kinds)
  PROVE  SessionInv' /\ Frozen
<1>1. CASE \E op, step, read : op.do \in Kinds /\ Fits(op.do, step) /\ Begin(r, op, step, read)
  BY <1>1, BeginKeeps
<1>2. CASE \E op : op.do \in Kinds /\ RefuseAtOnce(r, op)
  BY <1>2, RefuseAtOnceKeeps
<1>3. CASE Runs(r) /\ \E step, read : Fits(req[r].op.do, step) /\ Proceed(r, step, read)
  BY <1>3, ProceedKeeps
<1>4. CASE Runs(r) /\ \E answer \in Given : Answer(r, answer)
  BY <1>4, AnswerKeeps
<1> QED BY <1>1, <1>2, <1>3, <1>4 DEF SessionStep
\* Who is at a step asks for what leads there.
LEMMA KindAt ==
  ASSUME SessionInv, NEW r \in Request
  PROVE  /\ At(r, "probe") \/ At(r, "write") => Runs(r) /\ req[r].op.do \in {"create", "update"}
         /\ \A do \in {"product", "variant", "delete", "helpful", "report", "search", "signup",
                       "delete address"} : At(r, do) => Runs(r) /\ req[r].op.do = do
         /\ At(r, "save") => Runs(r) /\ req[r].op.do = "upload"
         /\ At(r, "insert") => Runs(r) /\ req[r].op.do \in {"upload", "set primary"}
         /\ \A step \in CartSteps : At(r, step) => Runs(r) /\ req[r].op.do \in CartKinds
         /\ At(r, "purchase") \/ At(r, "insert review") => Runs(r) /\ req[r].op.do = "review"
         /\ At(r, "load user") \/ At(r, "write user") => Runs(r) /\ req[r].op.do = "user"
         /\ At(r, "unset") \/ At(r, "lock") \/ At(r, "insert address")
              => Runs(r) /\ req[r].op.do = "address"
<1>1. Runs(r) => Fits(req[r].op.do, req[r].at)
  BY DEF SessionInv, RequestsOK
<1> QED BY <1>1 DEF Fits, At, Runs, CartSteps

\* A request is refused at once, or has begun.
LEMMA Starts ==
  ASSUME NEW r, NEW kinds, NEW op, NEW step, NEW read, op.do \in kinds, Fits(op.do, step),
         RefuseAtOnce(r, op) \/ Begin(r, op, step, read)
  PROVE  SessionStep(r, kinds)
BY DEF SessionStep

\* The steps of an account request are steps of its session.
LEMMA AccountSessions ==
  ASSUME SessionInv, NEW r \in Request, AccountStep(r)
  PROVE  SessionStep(r, AccountKinds)
<1>1. CASE Signup(r)
  <2> DEFINE op(typed) == [do |-> "signup", email |-> Normalized(typed)]
  <2>1. PICK typed \in NewEmail :
          RefuseAtOnce(r, op(typed)) \/ Begin(r, op(typed), "signup", <<>>)
    BY <1>1 DEF Signup
  <2>2. op(typed).do \in AccountKinds /\ Fits(op(typed).do, "signup")
    BY DEF AccountKinds, Fits
  <2> HIDE DEF op
  <2> QED BY <2>1, <2>2, Starts
<1>2. CASE ChangeUser(r)
  <2> DEFINE op(actor, target, change) == [do |-> "user", actor |-> actor, target |-> target,
                                           row |-> change]
  <2>1. PICK actor \in DOMAIN users, target \in DOMAIN users,
             change \in [active : BOOLEAN] \cup [role : Role] :
          RefuseAtOnce(r, op(actor, target, change))
           \/ Begin(r, op(actor, target, change), "load user", <<>>)
    BY <1>2 DEF ChangeUser
  <2>2. op(actor, target, change).do \in AccountKinds
        /\ Fits(op(actor, target, change).do, "load user")
    BY DEF AccountKinds, Fits
  <2> HIDE DEF op
  <2> QED BY <2>1, <2>2, Starts
<1>3. CASE CreateAddress(r)
  <2> DEFINE op(user, default) == [do |-> "address", user |-> user, default |-> default]
  <2>1. PICK user \in DOMAIN users, default \in BOOLEAN :
          RefuseAtOnce(r, op(user, default))
           \/ Begin(r, op(user, default), IF default THEN "unset" ELSE "insert address", {})
    BY <1>3 DEF CreateAddress
  <2>2. op(user, default).do \in AccountKinds
        /\ Fits(op(user, default).do, IF default THEN "unset" ELSE "insert address")
    BY DEF AccountKinds, Fits
  <2> HIDE DEF op
  <2> QED BY <2>1, <2>2, Starts
<1>4. CASE DeleteAddress(r)
  <2> DEFINE op(user, a) == [do |-> "delete address", user |-> user, id |-> a]
  <2>1. PICK user \in DOMAIN users, a \in DOMAIN addresses :
          RefuseAtOnce(r, op(user, a)) \/ Begin(r, op(user, a), "delete address", <<>>)
    BY <1>4 DEF DeleteAddress
  <2>2. op(user, a).do \in AccountKinds /\ Fits(op(user, a).do, "delete address")
    BY DEF AccountKinds, Fits
  <2> HIDE DEF op
  <2> QED BY <2>1, <2>2, Starts
<1>5. CASE InsertUser(r)
  BY <1>5, KindAt DEF SessionStep, AccountKinds, Fits, Given, InsertUser, CommitAnswer
<1>6. CASE LoadUser(r)
  BY <1>6, KindAt DEF SessionStep, AccountKinds, Fits, Given, LoadUser
<1>7. CASE WriteUser(r)
  BY <1>7, KindAt DEF SessionStep, AccountKinds, Fits, Given, WriteUser
<1>8. CASE UnsetDefaults(r)
  BY <1>8, KindAt DEF SessionStep, AccountKinds, Fits, Given, UnsetDefaults
<1>9. CASE LockDefaults(r)
  BY <1>9, KindAt DEF SessionStep, AccountKinds, Fits, Given, LockDefaults
<1>10. CASE InsertAddress(r)
  BY <1>10, KindAt DEF SessionStep, AccountKinds, Fits, Given, InsertAddress
<1>11. CASE RemoveAddress(r)
  BY <1>11, KindAt DEF SessionStep, AccountKinds, Fits, Given, RemoveAddress
<1> QED BY <1>1, <1>2, <1>3, <1>4, <1>5, <1>6, <1>7, <1>8, <1>9, <1>10, <1>11 DEF AccountStep

LEMMA ReviewSessions ==
  ASSUME SessionInv, NEW r \in Request, ReviewStep(r)
  PROVE  SessionStep(r, ReviewKinds)
<1>1. CASE CreateReview(r)
  <2>0. PICK product \in {"p0", "gone"} :
          LET op == [do |-> "review", product |-> product]
          IN  RefuseAtOnce(r, op) \/ Begin(r, op, "purchase", <<>>)
    BY <1>1 DEF CreateReview
  <2> DEFINE op == [do |-> "review", product |-> product]
  <2>1. RefuseAtOnce(r, op) \/ Begin(r, op, "purchase", <<>>)
    BY <2>0
  <2>2. op.do \in ReviewKinds /\ Fits(op.do, "purchase")
    BY DEF ReviewKinds, Fits
  <2> HIDE DEF op
  <2> QED BY <2>1, <2>2, Starts
<1>2. CASE MarkHelpful(r)
  <2> DEFINE op == [do |-> "helpful"]
  <2>1. RefuseAtOnce(r, op) \/ Begin(r, op, "helpful", [count |-> review.helpful])
    BY <1>2 DEF MarkHelpful
  <2>2. op.do \in ReviewKinds /\ Fits(op.do, "helpful")
    BY DEF ReviewKinds, Fits
  <2> HIDE DEF op
  <2> QED BY <2>1, <2>2, Starts
<1>3. CASE ReportReview(r)
  <2> DEFINE op == [do |-> "report"]
  <2>1. RefuseAtOnce(r, op) \/ Begin(r, op, "report", <<>>)
    BY <1>3 DEF ReportReview
  <2>2. op.do \in ReviewKinds /\ Fits(op.do, "report")
    BY DEF ReviewKinds, Fits
  <2> HIDE DEF op
  <2> QED BY <2>1, <2>2, Starts
<1>4. CASE LogSearch(r)
  <2> DEFINE op(q) == [do |-> "search", query |-> q]
  <2>1. PICK q \in Query :
          Begin(r, op(q), "search", [count |-> IF q \in DOMAIN searches THEN searches[q] ELSE 0])
    BY <1>4 DEF LogSearch
  <2>2. op(q).do \in ReviewKinds /\ Fits(op(q).do, "search")
    BY DEF ReviewKinds, Fits
  <2> HIDE DEF op
  <2> QED BY <2>1, <2>2, Starts
<1>5. CASE CheckPurchase(r)
  BY <1>5, KindAt DEF SessionStep, ReviewKinds, Fits, Given, CheckPurchase
<1>6. CASE InsertReview(r)
  BY <1>6, KindAt DEF SessionStep, ReviewKinds, Fits, Given, InsertReview
<1>7. CASE WriteHelpful(r)
  BY <1>7, KindAt DEF SessionStep, ReviewKinds, Fits, Given, WriteHelpful
<1>8. CASE WriteReport(r)
  BY <1>8, KindAt DEF SessionStep, ReviewKinds, Fits, Given, WriteReport
<1>9. CASE WriteSearch(r)
  BY <1>9, KindAt DEF SessionStep, ReviewKinds, Fits, Given, WriteSearch, CommitAnswer
<1> QED BY <1>1, <1>2, <1>3, <1>4, <1>5, <1>6, <1>7, <1>8, <1>9 DEF ReviewStep

LEMMA CartSessions ==
  ASSUME SessionInv, NEW r \in Request, CartStep(r)
  PROVE  SessionStep(r, CartKinds)
<1>1. CASE AddItem(r)
  <2> DEFINE op(v, n) == [do |-> "add", variant |-> v, quantity |-> n]
  <2>1. PICK v \in DOMAIN variants, n \in Quantity :
          RefuseAtOnce(r, op(v, n))
           \/ Begin(r, op(v, n), "cart", [NothingRead EXCEPT !.stock = variants[v].stock])
    BY <1>1 DEF AddItem
  <2>2. op(v, n).do \in CartKinds /\ Fits(op(v, n).do, "cart")
    BY DEF CartKinds, Fits, CartSteps
  <2> HIDE DEF op
  <2> QED BY <2>1, <2>2, Starts
<1>2. CASE ChangeLine(r)
  <2> DEFINE update(v, n) == [do |-> "update line", variant |-> v, id |-> lines[v].id,
                              quantity |-> n]
             remove(v) == [do |-> "remove", variant |-> v, id |-> lines[v].id]
  <2>1. \E v \in DOMAIN lines : \/ \E n \in Quantity : Begin(r, update(v, n), "cart", NothingRead)
                                \/ Begin(r, remove(v), "cart", NothingRead)
    BY <1>2 DEF ChangeLine
  <2>2. \A v, n : /\ update(v, n).do \in CartKinds /\ Fits(update(v, n).do, "cart")
                  /\ remove(v).do \in CartKinds /\ Fits(remove(v).do, "cart")
    BY DEF CartKinds, Fits, CartSteps
  <2> HIDE DEF update, remove
  <2> QED BY <2>1, <2>2, Starts
<1>3. CASE OtherRequest(r)
  <2> DEFINE view == [do |-> "view"]
             apply(c) == [do |-> "apply", coupon |-> c]
             clear == [do |-> "clear"]
  <2>1. \/ Begin(r, view, "cart", NothingRead)
        \/ \E c \in Coupon : Begin(r, apply(c), "cart", NothingRead)
        \/ Begin(r, clear, "cart", NothingRead)
    BY <1>3 DEF OtherRequest
  <2>2. /\ view.do \in CartKinds /\ Fits(view.do, "cart")
        /\ \A c : apply(c).do \in CartKinds /\ Fits(apply(c).do, "cart")
        /\ clear.do \in CartKinds /\ Fits(clear.do, "cart")
    BY DEF CartKinds, Fits, CartSteps
  <2> HIDE DEF view, apply, clear
  <2> QED BY <2>1, <2>2, Starts
<1>4. req[r].op.do \in CartKinds => AfterCart(r) \in CartSteps
  BY DEF AfterCart, CartKinds, CartSteps
<1>5. CASE FindCart(r)
  BY <1>4, <1>5, KindAt DEF SessionStep, CartKinds, CartSteps, Fits, Given, FindCart
<1>6. CASE CreateCart(r)
  BY <1>4, <1>6, KindAt DEF SessionStep, CartKinds, CartSteps, Fits, Given, CreateCart
<1>7. CASE FindLine(r)
  BY <1>7, KindAt DEF SessionStep, CartKinds, CartSteps, Fits, Given, FindLine, Refuse
<1>8. CASE InsertLine(r)
  BY <1>8, KindAt DEF SessionStep, CartKinds, CartSteps, Fits, Given, InsertLine
<1>9. CASE WriteLine(r)
  BY <1>9, KindAt DEF SessionStep, CartKinds, CartSteps, Fits, Given, WriteLine
<1>10. CASE RemoveLine(r)
  BY <1>10, KindAt DEF SessionStep, CartKinds, CartSteps, Fits, Given, RemoveLine
<1>11. CASE Price(r)
  BY <1>11, KindAt DEF SessionStep, CartKinds, CartSteps, Fits, Given, Price, Refuse
<1>12. CASE DropOld(r)
  BY <1>12, KindAt DEF SessionStep, CartKinds, CartSteps, Fits, Given, DropOld, Refuse
<1>13. CASE WriteCoupon(r)
  BY <1>13, KindAt DEF SessionStep, CartKinds, CartSteps, Fits, Given, WriteCoupon
<1>14. CASE Serialize(r)
  BY <1>14, KindAt DEF SessionStep, CartKinds, CartSteps, Fits, Given, Serialize
<1>15. CASE DropCoupon(r)
  BY <1>15, KindAt DEF SessionStep, CartKinds, CartSteps, Fits, Given, DropCoupon
<1> QED BY <1>1, <1>2, <1>3, <1>5, <1>6, <1>7, <1>8, <1>9, <1>10, <1>11, <1>12, <1>13, <1>14,
           <1>15 DEF CartStep

LEMMA CatalogueSessions ==
  ASSUME SessionInv, NEW r \in Request, CatalogueStep(r)
  PROVE  SessionStep(r, CatalogueKinds)
<1>1. CASE CreateRow(r)
  <2> DEFINE op(table, row) == [do |-> "create", table |-> table, id |-> r, row |-> row,
                                skus |-> {}]
  <2>1. PICK table \in {"categories", "brands"} : \E row \in Payload(table) :
          RefuseAtOnce(r, op(table, row))
           \/ Begin(r, op(table, row), "probe", [k |-> 1, loaded |-> <<>>])
    BY <1>1 DEF CreateRow
  <2>2. \A t, row : op(t, row).do \in CatalogueKinds /\ Fits(op(t, row).do, "probe")
    BY DEF CatalogueKinds, Fits
  <2> HIDE DEF op
  <2> QED BY <2>1, <2>2, Starts
<1>2. CASE UpdateRow(r)
  <2> DEFINE op(table, id, row) == [do |-> "update", table |-> table, id |-> id, row |-> row,
                                    skus |-> {}]
  <2>1. PICK table \in {"categories", "brands"} :
          \E id \in DOMAIN rows[table], row \in Payload(table) :
          Begin(r, op(table, id, row), "probe", [k |-> 1, loaded |-> rows[table][id]])
    BY <1>2 DEF UpdateRow
  <2>2. \A t, id, row : op(t, id, row).do \in CatalogueKinds /\ Fits(op(t, id, row).do, "probe")
    BY DEF CatalogueKinds, Fits
  <2> HIDE DEF op
  <2> QED BY <2>1, <2>2, Starts
<1>3. CASE CreateProduct(r)
  <2> DEFINE op(name, category, skus) == [do |-> "create", table |-> "products", id |-> r,
                                          skus |-> skus,
                       row |-> [name |-> name, status |-> "draft", category |-> category]]
  <2>1. PICK name \in Name, category \in {"root", "gone"}, skus \in SUBSET Sku \ {{}} :
          RefuseAtOnce(r, op(name, category, skus))
           \/ Begin(r, op(name, category, skus), "probe", [k |-> 1, loaded |-> <<>>])
    BY <1>3 DEF CreateProduct
  <2>2. op(name, category, skus).do \in CatalogueKinds /\ Fits(op(name, category, skus).do, "probe")
    BY DEF CatalogueKinds, Fits
  <2> HIDE DEF op
  <2> QED BY <2>1, <2>2, Starts
<1>4. CASE Probe(r)
  BY <1>4, KindAt DEF SessionStep, CatalogueKinds, Fits, Given, Probe
<1>5. CASE WriteRow(r)
  BY <1>5, KindAt DEF SessionStep, CatalogueKinds, Fits, Given, WriteRow, CommitAnswer
<1>6. CASE UpdateProduct(r)
  <2> DEFINE op(id, change) == [do |-> "product", id |-> id, row |-> change]
  <2>1. PICK id \in DOMAIN rows.products,
             change \in [status : Status \cup {Null}] \cup [name : Name]
                        \cup [category : {"root", "gone"}] :
          RefuseAtOnce(r, op(id, change)) \/ Begin(r, op(id, change), "product", rows.products[id])
    BY <1>6 DEF UpdateProduct
  <2>2. op(id, change).do \in CatalogueKinds /\ Fits(op(id, change).do, "product")
    BY DEF CatalogueKinds, Fits
  <2> HIDE DEF op
  <2> QED BY <2>1, <2>2, Starts
<1>7. CASE CreateVariant(r)
  <2> DEFINE op(sku, n) == [do |-> "variant", id |-> <<r, sku>>,
                       row |-> [product |-> "p0", sku |-> sku, stock |-> n]]
  <2>1. PICK sku \in Sku, n \in Stock :
          RefuseAtOnce(r, op(sku, n)) \/ Begin(r, op(sku, n), "variant", <<>>)
    BY <1>7 DEF CreateVariant
  <2>2. op(sku, n).do \in CatalogueKinds /\ Fits(op(sku, n).do, "variant")
    BY DEF CatalogueKinds, Fits
  <2> HIDE DEF op
  <2> QED BY <2>1, <2>2, Starts
<1>8. CASE UpdateVariant(r)
  <2> DEFINE op(v, change) == [do |-> "variant", id |-> v, row |-> change]
  <2>1. PICK v \in DOMAIN variants, change \in [sku : Sku \cup {Null}] \cup [stock : Stock] :
          RefuseAtOnce(r, op(v, change)) \/ Begin(r, op(v, change), "variant", variants[v])
    BY <1>8 DEF UpdateVariant
  <2>2. op(v, change).do \in CatalogueKinds /\ Fits(op(v, change).do, "variant")
    BY DEF CatalogueKinds, Fits
  <2> HIDE DEF op
  <2> QED BY <2>1, <2>2, Starts
<1>9. CASE WriteProduct(r)
  BY <1>9, KindAt DEF SessionStep, CatalogueKinds, Fits, Given, WriteProduct, CommitAnswer
<1>10. CASE WriteVariant(r)
  BY <1>10, KindAt DEF SessionStep, CatalogueKinds, Fits, Given, WriteVariant, CommitAnswer
<1>11. CASE Upload(r)
  <2> DEFINE op(primary) == [do |-> "upload", id |-> r, primary |-> primary]
  <2>1. PICK primary \in BOOLEAN :
          Begin(r, op(primary), "save", images)
    BY <1>11 DEF Upload
  <2>2. op(primary).do \in CatalogueKinds /\ Fits(op(primary).do, "save")
    BY DEF CatalogueKinds, Fits
  <2> HIDE DEF op
  <2> QED BY <2>1, <2>2, Starts
<1>12. CASE SaveFile(r)
  BY <1>12, KindAt DEF SessionStep, CatalogueKinds, Fits, Given, SaveFile, Refuse
<1>13. CASE SetPrimary(r)
  <2> DEFINE op(id) == [do |-> "set primary", id |-> id, primary |-> TRUE]
  <2>1. PICK id \in DOMAIN images \cup {"gone"} :
          RefuseAtOnce(r, op(id)) \/ Begin(r, op(id), "insert", images)
    BY <1>13 DEF SetPrimary
  <2>2. op(id).do \in CatalogueKinds /\ Fits(op(id).do, "insert")
    BY DEF CatalogueKinds, Fits
  <2> HIDE DEF op
  <2> QED BY <2>1, <2>2, Starts
<1>14. CASE WriteImages(r)
  BY <1>14, KindAt DEF SessionStep, CatalogueKinds, Fits, Given, WriteImages, CommitAnswer
<1>15. CASE DeleteImage(r)
  <2> DEFINE op(id) == [do |-> "delete", id |-> id]
  <2>1. PICK id \in DOMAIN images \cup {"elsewhere"} :
          RefuseAtOnce(r, op(id)) \/ Begin(r, op(id), "delete", <<>>)
    BY <1>15 DEF DeleteImage
  <2>2. op(id).do \in CatalogueKinds /\ Fits(op(id).do, "delete")
    BY DEF CatalogueKinds, Fits
  <2> HIDE DEF op
  <2> QED BY <2>1, <2>2, Starts
<1>16. CASE DeleteRow(r)
  BY <1>16, KindAt DEF SessionStep, CatalogueKinds, Fits, Given, DeleteRow
<1> QED BY <1>1, <1>2, <1>3, <1>4, <1>5, <1>6, <1>7, <1>8, <1>9, <1>10, <1>11, <1>12, <1>13, <1>14,
           <1>15, <1>16 DEF CatalogueStep, SlugStep, ProductStep, ImageStep

-----------------------------------------------------------------------------
(* What a step of one area leaves to the others.                           *)

\* No request of these kinds does anything, unless it dies.
Aside(kinds) ==
  \A q \in Request :
    req'[q].op.do \in kinds =>
      req'[q] = req[q] \/ (Runs(q) /\ req'[q].at = "done" /\ req'[q].answer = "lost")

LEMMA OthersStay ==
  ASSUME SessionInv, NEW r \in Request, NEW kinds, SessionStep(r, kinds)
  PROVE  \A q \in Request \ {r} : req'[q] = req[q]
BY DEF SessionInv, RequestsOK, SessionStep, Begin, RefuseAtOnce, Proceed, Answer, Ended

LEMMA StepIsAside ==
  ASSUME SessionInv, NEW r \in Request, NEW kinds, NEW others, kinds \cap others = {},
         SessionStep(r, others)
  PROVE  Aside(kinds)
<1>1. \A q \in Request \ {r} : req'[q] = req[q]
  BY OthersStay
<1>2. req'[r].op.do \in others
  <2>1. CASE \E op, step, read : op.do \in others /\ Begin(r, op, step, read)
    BY <2>1 DEF Begin, SessionInv, RequestsOK, NotMade
  <2>2. CASE \E op : op.do \in others /\ RefuseAtOnce(r, op)
    BY <2>2 DEF RefuseAtOnce, SessionInv, RequestsOK, NotMade
  <2>3. CASE req[r].op.do \in others /\ \E step, read : Proceed(r, step, read)
    BY <2>3 DEF Proceed, SessionInv, RequestsOK
  <2>4. CASE req[r].op.do \in others /\ \E answer : Answer(r, answer)
    BY <2>4 DEF Answer, Ended, SessionInv, RequestsOK
  <2> QED BY <2>1, <2>2, <2>3, <2>4 DEF SessionStep
<1> QED BY <1>1, <1>2 DEF Aside

LEMMA DeathIsAside ==
  ASSUME SessionInv, NEW r \in Request, NEW kinds, Die(r)
  PROVE  Aside(kinds)
<1>1. Runs(r) /\ req' = Ended(r, "lost", NoResponse)
  BY DEF Die
<1> QED BY <1>1, EndedIs DEF SessionInv, Aside

LEMMA NothingIsAside ==
  ASSUME NEW kinds, UNCHANGED sessionVars
  PROVE  Aside(kinds) /\ Frozen
BY DEF Aside, Frozen, sessionVars, At

LEMMA AccountsAside ==
  ASSUME SessionInv, [Next]_vars
  PROVE  \/ \E r \in Request : AccountStep(r)
         \/ UNCHANGED accountVars /\ Aside(AccountKinds)
<1> USE DEF Kinds, CatalogueKinds, CartKinds, ReviewKinds, AccountKinds
<1>1. ASSUME NEW r \in Request, CatalogueStep(r) \/ CartStep(r) \/ ReviewStep(r) \/ Die(r)
      PROVE  Aside(AccountKinds)
  BY <1>1, StepIsAside, DeathIsAside, CatalogueSessions, CartSessions, ReviewSessions
<1>2. UNCHANGED sessionVars => Aside(AccountKinds)
  BY NothingIsAside
<1> QED BY <1>1, <1>2 DEF Next, vars, Reprice, CheckOut

LEMMA ReviewsAside ==
  ASSUME SessionInv, [Next]_vars
  PROVE  \/ \E r \in Request : ReviewStep(r)
         \/ /\ Aside(ReviewKinds) /\ UNCHANGED <<review, searches>>
            /\ bought' = bought \/ (bought' /\ UNCHANGED sessionVars)
<1> USE DEF Kinds, CatalogueKinds, CartKinds, ReviewKinds, AccountKinds
<1>1. ASSUME NEW r \in Request, CatalogueStep(r) \/ CartStep(r) \/ AccountStep(r) \/ Die(r)
      PROVE  Aside(ReviewKinds)
  BY <1>1, StepIsAside, DeathIsAside, CatalogueSessions, CartSessions, AccountSessions
<1>2. UNCHANGED sessionVars => Aside(ReviewKinds)
  BY NothingIsAside
<1> QED BY <1>1, <1>2 DEF Next, vars, reviewVars, Buy, Reprice, CheckOut

LEMMA CatalogueAside ==
  ASSUME SessionInv, [Next]_vars
  PROVE  \/ \E r \in Request : CatalogueStep(r) /\ top' = Highest /\ UNCHANGED <<cart, lines>>
         \/ UNCHANGED catalogueVars /\ Aside(CatalogueKinds)
<1> USE DEF Kinds, CatalogueKinds, CartKinds, ReviewKinds, AccountKinds
<1>1. ASSUME NEW r \in Request, ReviewStep(r) \/ CartStep(r) \/ AccountStep(r) \/ Die(r)
      PROVE  Aside(CatalogueKinds)
  BY <1>1, StepIsAside, DeathIsAside, ReviewSessions, CartSessions, AccountSessions
<1>2. UNCHANGED sessionVars => Aside(CatalogueKinds)
  BY NothingIsAside
<1> QED BY <1>1, <1>2 DEF Next, vars, Reprice, CheckOut

LEMMA CartsAside ==
  ASSUME SessionInv, [Next]_vars
  PROVE  \/ \E r \in Request : /\ CartStep(r) /\ UNCHANGED <<terms, catalogueVars>>
                                /\ moved' = (moved /\ ~ Judges(r))
         \/ CheckOut /\ UNCHANGED <<sessionVars, catalogueVars>>
         \/ /\ UNCHANGED <<cart, lines>> /\ Aside(CartKinds)
            /\ UNCHANGED termVars \/ Reprice
            /\ UNCHANGED <<variants, rows, top>> \/ ((\E r \in Request : CatalogueStep(r)) /\ top' = Highest)
<1> USE DEF Kinds, CatalogueKinds, CartKinds, ReviewKinds, AccountKinds
<1>1. ASSUME NEW r \in Request, ReviewStep(r) \/ CatalogueStep(r) \/ AccountStep(r) \/ Die(r)
      PROVE  Aside(CartKinds)
  BY <1>1, StepIsAside, DeathIsAside, ReviewSessions, CatalogueSessions, AccountSessions
<1>2. UNCHANGED sessionVars => Aside(CartKinds)
  BY NothingIsAside
<1> QED BY <1>1, <1>2 DEF Next, vars, cartVars, catalogueVars, Reprice

-----------------------------------------------------------------------------
(* Every step is of one session, so SessionInv is inductive.               *)

LEMMA NextSessions ==
  ASSUME SessionInv, [Next]_vars
  PROVE  SessionInv' /\ Frozen
<1>1. ASSUME NEW r \in Request, NEW kinds \in SUBSET Kinds, SessionStep(r, kinds)
      PROVE  SessionStep(r, Kinds)
  BY <1>1 DEF SessionStep
<1>2. ASSUME NEW r \in Request, CatalogueStep(r) \/ CartStep(r) \/ ReviewStep(r) \/ AccountStep(r)
      PROVE  SessionStep(r, Kinds)
  BY <1>1, <1>2, CatalogueSessions, CartSessions, ReviewSessions, AccountSessions DEF Kinds
<1>3. ASSUME UNCHANGED sessionVars
      PROVE  SessionInv' /\ Frozen
  BY <1>3, NothingIsAside DEF SessionInv, RequestsOK, MetOK, ResponsesAreTraced, sessionVars, At,
                              Runs, Met
<1> QED BY <1>2, <1>3, SessionKeeps, DieKeeps DEF Next, vars, Reprice, CheckOut

\* Every request keeps to its session, and has met whoever runs at the same
\* time.
THEOREM SessionsHold == Spec => []SessionInv
<1> QED BY InitSessions, NextSessions, PTL DEF Spec

\* For any number of requests to all handlers at once, whatever dies: every
\* answer leaves with the CORS and security headers and the request id, and an
\* error quotes the id of its own request (main.py 197-224).
THEOREM AnswersAreTraced == Spec => []ResponsesAreTraced
<1> QED BY SessionsHold, PTL DEF SessionInv

-----------------------------------------------------------------------------
(* What one step of a session leaves in its own record and in the others.  *)

LEMMA BegunIs ==
  ASSUME SessionInv, NEW r \in Request, NEW op, NEW step, NEW read, Begin(r, op, step, read)
  PROVE  /\ At(r, "new") /\ req'[r].at = step /\ req'[r].op = op /\ req'[r].read = read
         /\ req'[r].answer = "none"
         /\ \A q \in Request \ {r} : req'[q] = req[q] /\ (Runs(q) => r \in met'[q] /\ q \in met'[r])
BY DEF Begin, SessionInv, RequestsOK, NotMade, At, Runs

LEMMA RefusedIs ==
  ASSUME SessionInv, NEW r \in Request, NEW op, RefuseAtOnce(r, op)
  PROVE  /\ At(r, "new") /\ req'[r].at = "done" /\ req'[r].op = op /\ req'[r].answer = "refused"
         /\ met' = met /\ \A q \in Request \ {r} : req'[q] = req[q]
BY DEF RefuseAtOnce, SessionInv, RequestsOK, NotMade

LEMMA AskedIs ==
  ASSUME SessionInv, NEW r \in Request, NEW op, NEW step, NEW read,
         RefuseAtOnce(r, op) \/ Begin(r, op, step, read)
  PROVE  /\ At(r, "new") /\ req'[r].op = op /\ \A q \in Request \ {r} : req'[q] = req[q]
         /\ \/ req'[r].at = "done" /\ req'[r].answer = "refused"
            \/ req'[r].at = step /\ req'[r].answer = "none"
BY BegunIs, RefusedIs

LEMMA ProceededIs ==
  ASSUME SessionInv, NEW r \in Request, NEW step, NEW read, Proceed(r, step, read)
  PROVE  /\ req'[r].at = step /\ req'[r].op = req[r].op /\ req'[r].read = read
         /\ req'[r].answer = req[r].answer
         /\ met' = met /\ \A q \in Request \ {r} : req'[q] = req[q]
BY DEF Proceed, SessionInv, RequestsOK

LEMMA AnsweredIs ==
  ASSUME SessionInv, NEW r \in Request, NEW answer, Answer(r, answer)
  PROVE  /\ req'[r].at = "done" /\ req'[r].op = req[r].op /\ req'[r].answer = answer
         /\ met' = met /\ \A q \in Request \ {r} : req'[q] = req[q]
BY EndedIs DEF Answer, SessionInv

-----------------------------------------------------------------------------
(* Accounts.                                                               *)

LowerEmail == {e \in DOMAIN Lower : Lower[e] = e}
Account == [email : LowerEmail, role : Role, active : BOOLEAN]
Change == [active : BOOLEAN] \cup [role : Role]

\* The accounts and the address book, and what is asked of them.
AccountsOK ==
  /\ \A u \in DOMAIN users : users[u] \in Account
  /\ \A u, w \in DOMAIN users : u # w => users[u].email # users[w].email
  /\ DOMAIN users \subseteq DOMAIN Staff \cup {r \in Request : At(r, "done")}
  /\ \A a \in DOMAIN addresses : addresses[a] \in [user : DOMAIN users, default : BOOLEAN]

AccountRequestsOK ==
  \A r \in Request : Runs(r) =>
    /\ req[r].op.do = "signup" => req[r].op.email \in LowerEmail
    /\ req[r].op.do = "user" => /\ {req[r].op.actor, req[r].op.target} \subseteq DOMAIN users
                                /\ req[r].op.actor # req[r].op.target
                                /\ req[r].op.row \in Change
    /\ req[r].op.do = "address" => /\ req[r].op.user \in DOMAIN users
                                   /\ req[r].op.default \in BOOLEAN

\* A change that is on its way is still one that its actor may make, unless it
\* met another of the actor's own account.
Spoiled(r) == \E q \in Request : /\ Met(r, q) /\ req[q].op.do = "user"
                                 /\ req[q].op.target = req[r].op.actor
MayStill ==
  \A r \in Request : Runs(r) /\ req[r].op.do = "user" =>
    Authorized(req[r].op.actor, Required(req[r].op.row)) \/ Spoiled(r)

\* Who creates a default has found all the defaults of the user, unless two
\* create one at once; so there is never more than one.
Creates(r, u) == req[r].op.do = "address" /\ req[r].op.user = u /\ req[r].op.default
TwoCreate(u) == \E r, q \in Request : Met(r, q) /\ Creates(r, u) /\ Creates(q, u)
DefaultsFound ==
  \A u \in DOMAIN users :
    \/ TwoCreate(u)
    \/ /\ \A a, b \in Defaults(u) : a = b
       /\ \A r \in Request : Creates(r, u) /\ (At(r, "lock") \/ At(r, "insert address"))
                               => Defaults(u) \subseteq req[r].read

AccountsInv == AccountsOK /\ AccountRequestsOK /\ MayStill /\ DefaultsFound /\ SomeoneCanUndo

LEMMA WithIs ==
  ASSUME NEW f, NEW x, NEW y
  PROVE  /\ DOMAIN With(f, x, y) = DOMAIN f \cup {x}
         /\ With(f, x, y)[x] = y
         /\ \A z \in DOMAIN f \ {x} : With(f, x, y)[z] = f[z]
BY DEF With

LEMMA WithoutIs ==
  ASSUME NEW f, NEW x
  PROVE  /\ DOMAIN Without(f, x) = DOMAIN f \ {x}
         /\ \A z \in DOMAIN f \ {x} : Without(f, x)[z] = f[z]
BY DEF Without

\* The accounts keep their ids, emails and number, unless one is added.
LEMMA FlushedAccount ==
  ASSUME NEW row \in Account, NEW loaded, NEW change \in Change
  PROVE  /\ Flush(row, loaded, change) \in Account
         /\ Flush(row, loaded, change).email = row.email
         /\ "role" \notin DOMAIN change => Flush(row, loaded, change).role = row.role
<1>1. DOMAIN row = {"email", "role", "active"}
  BY DEF Account
<1>2. \/ DOMAIN change = {"active"} /\ change["active"] \in BOOLEAN
      \/ DOMAIN change = {"role"} /\ change["role"] \in Role
  BY DEF Change
<1> DEFINE new == Flush(row, loaded, change)
<1>3. new = [c \in {"email", "role", "active"} |->
               IF c \in DOMAIN change /\ change[c] # loaded[c] THEN change[c] ELSE row[c]]
  BY <1>1 DEF Flush
<1>4. new["email"] = row["email"] /\ ("role" \notin DOMAIN change => new["role"] = row["role"])
  BY <1>2, <1>3
<1>5. new["role"] \in Role /\ new["active"] \in BOOLEAN /\ new["email"] \in LowerEmail
  BY <1>2, <1>3 DEF Account
<1>6. new = [email |-> new["email"], role |-> new["role"], active |-> new["active"]]
  BY <1>3
<1> HIDE DEF new
<1>7. new \in Account
  BY <1>5, <1>6 DEF Account
<1> QED BY <1>4, <1>7 DEF new

LEMMA InitAccounts == Init => AccountsOK /\ AccountRequestsOK
<1> SUFFICES ASSUME Init PROVE AccountsOK /\ AccountRequestsOK
  OBVIOUS
<1>1. /\ DOMAIN users = DOMAIN Staff
      /\ \A u \in DOMAIN users : users[u] = [email |-> u, role |-> Staff[u], active |-> TRUE]
  BY DEF Init, AccountsInit
<1>2. \A u \in DOMAIN Staff : u \in LowerEmail /\ Staff[u] \in Role
  BY AccountsAssumption, StaffAssumption DEF LowerEmail
<1>3. Owner \in DOMAIN Staff
  BY StaffAssumption DEF Owner
<1>4. DOMAIN addresses = {"home"} /\ addresses["home"] = [user |-> Owner, default |-> TRUE]
  BY DEF Init, AccountsInit
<1>5. AccountsOK
  <2>1. ASSUME NEW u \in DOMAIN users
        PROVE  users[u] \in Account
    <3>1. [email |-> u, role |-> Staff[u], active |-> TRUE] \in Account
      BY <1>1, <1>2 DEF Account
    <3> QED BY <1>1, <3>1
  <2>2. \A u, w \in DOMAIN users : u # w => users[u].email # users[w].email
    BY <1>1
  <2>3. \A a \in DOMAIN addresses : addresses[a] \in [user : DOMAIN users, default : BOOLEAN]
    <3>1. [user |-> Owner, default |-> TRUE] \in [user : DOMAIN users, default : BOOLEAN]
      BY <1>1, <1>3
    <3> QED BY <1>4, <3>1
  <2> QED BY <1>1, <2>1, <2>2, <2>3 DEF AccountsOK
<1>6. AccountRequestsOK
  BY DEF Init, SessionsInit, NotMade, AccountRequestsOK, Runs
<1> QED BY <1>5, <1>6

\* What was asked stays as sound as it was, while users and addresses only get
\* more accounts to refer to.
LEMMA AccountRequestsStay ==
  ASSUME AccountRequestsOK, Frozen, NEW S \in SUBSET Request, DOMAIN users \subseteq DOMAIN users',
         \A q \in S : Runs(q)' /\ req'[q].op.do \in AccountKinds => Runs(q)
  PROVE  \A q \in S : Runs(q)' =>
    /\ req'[q].op.do = "signup" => req'[q].op.email \in LowerEmail
    /\ req'[q].op.do = "user" => /\ {req'[q].op.actor, req'[q].op.target} \subseteq DOMAIN users'
                                 /\ req'[q].op.actor # req'[q].op.target
                                 /\ req'[q].op.row \in Change
    /\ req'[q].op.do = "address" => /\ req'[q].op.user \in DOMAIN users'
                                    /\ req'[q].op.default \in BOOLEAN
<1> SUFFICES ASSUME NEW q \in S, Runs(q)', req'[q].op.do \in AccountKinds
             PROVE  Runs(q) /\ req'[q].op = req[q].op
  BY DEF AccountRequestsOK, AccountKinds
<1> QED BY DEF Frozen, Runs, At

LEMMA NextAccounts ==
  ASSUME SessionInv, AccountsOK, AccountRequestsOK, [Next]_vars
  PROVE  AccountsOK' /\ AccountRequestsOK' /\ DOMAIN users \subseteq DOMAIN users'
<1>1. SessionInv' /\ Frozen
  BY NextSessions
<1>2. CASE UNCHANGED accountVars /\ Aside(AccountKinds)
  <2>1. AccountsOK'
    BY <1>1, <1>2 DEF AccountsOK, accountVars, Aside, Frozen, At
  <2>2. \A q \in Request : Runs(q)' /\ req'[q].op.do \in AccountKinds => Runs(q)
    BY <1>2 DEF Aside, Runs
  <2> QED BY <1>1, <1>2, <2>1, <2>2, AccountRequestsStay DEF accountVars, AccountRequestsOK, Runs
<1>3. ASSUME NEW r \in Request, AccountStep(r)
      PROVE  AccountsOK' /\ AccountRequestsOK' /\ DOMAIN users \subseteq DOMAIN users'
  <2> DEFINE RequestOK(q) ==
        Runs(q)' =>
          /\ req'[q].op.do = "signup" => req'[q].op.email \in LowerEmail
          /\ req'[q].op.do = "user" =>
               /\ {req'[q].op.actor, req'[q].op.target} \subseteq DOMAIN users'
               /\ req'[q].op.actor # req'[q].op.target
               /\ req'[q].op.row \in Change
          /\ req'[q].op.do = "address" => /\ req'[q].op.user \in DOMAIN users'
                                          /\ req'[q].op.default \in BOOLEAN
  <2>1. \A q \in Request \ {r} : req'[q] = req[q]
    BY <1>3, AccountSessions, OthersStay
  <2>2. ASSUME Runs(r), DOMAIN users \subseteq DOMAIN users'
        PROVE  AccountRequestsOK'
    <3>1. \A q \in Request : Runs(q)' /\ req'[q].op.do \in AccountKinds => Runs(q)
      BY <2>1, <2>2 DEF Runs
    <3> QED BY <1>1, <2>2, <3>1, AccountRequestsStay DEF AccountRequestsOK, Runs
  <2>3. ASSUME UNCHANGED accountVars, RequestOK(r)
        PROVE  AccountRequestsOK'
    <3>1. \A q \in Request \ {r} : Runs(q)' /\ req'[q].op.do \in AccountKinds => Runs(q)
      BY <2>1 DEF Runs
    <3>2. DOMAIN users \subseteq DOMAIN users'
      BY <2>3 DEF accountVars
    <3>3. \A q \in Request \ {r} : RequestOK(q)
      BY <1>1, <3>1, <3>2, AccountRequestsStay
    <3> QED BY <2>3, <3>3 DEF AccountRequestsOK
  <2>4. ASSUME UNCHANGED users,
               \A a \in DOMAIN addresses' : addresses'[a] \in [user : DOMAIN users, default : BOOLEAN]
        PROVE  AccountsOK'
    BY <1>1, <2>4 DEF AccountsOK, Frozen, At
  <2>5. ASSUME UNCHANGED accountVars
        PROVE  AccountsOK' /\ DOMAIN users \subseteq DOMAIN users'
    BY <2>4, <2>5 DEF accountVars, AccountsOK
  <2> HIDE DEF RequestOK
  <2>6. CASE Signup(r) /\ UNCHANGED accountVars
    <3> DEFINE op(typed) == [do |-> "signup", email |-> Normalized(typed)]
    <3>1. PICK typed \in NewEmail :
            RefuseAtOnce(r, op(typed)) \/ Begin(r, op(typed), "signup", <<>>)
      BY <2>6 DEF Signup
    <3>2. op(typed).do = "signup" /\ op(typed).email \in LowerEmail
      BY AccountsAssumption DEF Normalized, LowerEmail
    <3> HIDE DEF op
    <3>3. req'[r].op = op(typed)
      BY <3>1, AskedIs
    <3>4. RequestOK(r)
      BY <3>2, <3>3 DEF RequestOK
    <3> QED BY <2>3, <2>5, <2>6, <3>4
  <2>7. CASE ChangeUser(r) /\ UNCHANGED accountVars
    <3> DEFINE op(actor, target, change) == [do |-> "user", actor |-> actor, target |-> target,
                                             row |-> change]
    <3>1. PICK actor \in DOMAIN users, target \in DOMAIN users, change \in Change :
            \/ RefuseAtOnce(r, op(actor, target, change))
            \/ actor # target /\ Begin(r, op(actor, target, change), "load user", <<>>)
      BY <2>7 DEF ChangeUser, Change, Forbidden
    <3>2. /\ op(actor, target, change).do = "user" /\ op(actor, target, change).actor = actor
          /\ op(actor, target, change).target = target /\ op(actor, target, change).row = change
      OBVIOUS
    <3> HIDE DEF op
    <3>3. req'[r].op = op(actor, target, change)
      BY <3>1, AskedIs
    <3>4. RequestOK(r)
      <4>1. Runs(r)' => actor # target
        BY <3>1, RefusedIs DEF Runs
      <4> QED BY <2>7, <3>2, <3>3, <4>1 DEF RequestOK, accountVars
    <3> QED BY <2>3, <2>5, <2>7, <3>4
  <2>8. CASE CreateAddress(r) /\ UNCHANGED accountVars
    <3> DEFINE op(user, default) == [do |-> "address", user |-> user, default |-> default]
    <3>1. PICK user \in DOMAIN users, default \in BOOLEAN :
            \/ RefuseAtOnce(r, op(user, default))
            \/ Begin(r, op(user, default), IF default THEN "unset" ELSE "insert address", {})
      BY <2>8 DEF CreateAddress
    <3>2. /\ op(user, default).do = "address" /\ op(user, default).user = user
          /\ op(user, default).default = default
      OBVIOUS
    <3> HIDE DEF op
    <3>3. req'[r].op = op(user, default)
      BY <3>1, AskedIs
    <3>4. RequestOK(r)
      BY <2>8, <3>2, <3>3 DEF RequestOK, accountVars
    <3> QED BY <2>3, <2>5, <2>8, <3>4
  <2>9. CASE DeleteAddress(r) /\ UNCHANGED accountVars
    <3> DEFINE op(user, a) == [do |-> "delete address", user |-> user, id |-> a]
    <3>1. PICK user \in DOMAIN users, a \in DOMAIN addresses :
            RefuseAtOnce(r, op(user, a)) \/ Begin(r, op(user, a), "delete address", <<>>)
      BY <2>9 DEF DeleteAddress
    <3>2. op(user, a).do = "delete address"
      OBVIOUS
    <3> HIDE DEF op
    <3>3. req'[r].op = op(user, a)
      BY <3>1, AskedIs
    <3>4. RequestOK(r)
      BY <3>2, <3>3 DEF RequestOK
    <3> QED BY <2>3, <2>5, <2>9, <3>4
  <2>10. CASE InsertUser(r)
    <3> DEFINE email == req[r].op.email
               new == [email |-> email, role |-> "customer", active |-> TRUE]
    <3>1. Runs(r) /\ req[r].op.do = "signup" /\ req'[r].at = "done" /\ UNCHANGED addresses
      BY <2>10, KindAt, AnsweredIs DEF InsertUser
    <3>2. email \in LowerEmail
      BY <3>1 DEF AccountRequestsOK
    <3>3. CASE EmailTaken(email) /\ UNCHANGED users
      BY <2>2, <2>5, <3>1, <3>3 DEF accountVars
    <3>4. CASE ~ EmailTaken(email) /\ users' = With(users, r, new)
      <4>1. new \in Account /\ new.email = email
        BY <3>2 DEF Account, Role
      <4>2. r \notin DOMAIN users
        BY <3>1, StaffAssumption DEF AccountsOK, Runs, At
      <4> HIDE DEF new
      <4>3. /\ DOMAIN users' = DOMAIN users \cup {r} /\ users'[r] = new
            /\ \A u \in DOMAIN users : users'[u] = users[u]
        BY <3>4, <4>2 DEF With
      <4>4. \A u \in DOMAIN users' : users'[u] \in Account
        BY <4>1, <4>3 DEF AccountsOK
      <4>5. \A u, w \in DOMAIN users' : u # w => users'[u].email # users'[w].email
        BY <3>4, <4>1, <4>3 DEF AccountsOK, EmailTaken
      <4>6. DOMAIN users' \subseteq DOMAIN Staff \cup {q \in Request : At(q, "done")'}
        BY <1>1, <3>1, <4>3 DEF AccountsOK, Frozen, At
      <4>7. \A a \in DOMAIN addresses' :
              addresses'[a] \in [user : DOMAIN users', default : BOOLEAN]
        BY <3>1, <4>3 DEF AccountsOK
      <4>8. AccountsOK'
        BY <4>4, <4>5, <4>6, <4>7 DEF AccountsOK
      <4> QED BY <2>2, <3>1, <4>3, <4>8
    <3> QED BY <2>10, <3>3, <3>4 DEF InsertUser
  <2>11. CASE LoadUser(r)
    BY <2>2, <2>5, <2>11, KindAt DEF LoadUser
  <2>12. CASE WriteUser(r)
    <3> DEFINE t == req[r].op.target
               new == Flush(users[t], req[r].read, req[r].op.row)
    <3>1. Runs(r) /\ req[r].op.do = "user" /\ UNCHANGED addresses
      BY <2>12, KindAt DEF WriteUser
    <3>2. t \in DOMAIN users /\ req[r].op.row \in Change
      BY <3>1 DEF AccountRequestsOK
    <3>3. new \in Account /\ new.email = users[t].email
      BY <3>2, FlushedAccount DEF AccountsOK
    <3>4. users' = [users EXCEPT ![t] = new]
      BY <2>12 DEF WriteUser
    <3> HIDE DEF t, new
    <3>5. /\ DOMAIN users' = DOMAIN users /\ users'[t] = new
          /\ \A u \in DOMAIN users \ {t} : users'[u] = users[u]
      BY <3>2, <3>4
    <3>6. \A u \in DOMAIN users' : users'[u] \in Account /\ users'[u].email = users[u].email
      BY <3>3, <3>5 DEF AccountsOK
    <3>7. AccountsOK'
      BY <1>1, <3>1, <3>5, <3>6 DEF AccountsOK, Frozen, At
    <3> QED BY <2>2, <3>1, <3>5, <3>7
  <2>13. CASE UnsetDefaults(r)
    BY <2>2, <2>5, <2>13, KindAt DEF UnsetDefaults
  <2>14. CASE LockDefaults(r)
    BY <2>2, <2>5, <2>14, KindAt DEF LockDefaults
  <2>15. CASE InsertAddress(r)
    <3> DEFINE new == [user |-> req[r].op.user, default |-> req[r].op.default]
               unset == [a \in DOMAIN addresses |->
                           IF a \in req[r].read THEN [addresses[a] EXCEPT !.default = FALSE]
                           ELSE addresses[a]]
               Good == [user : DOMAIN users, default : BOOLEAN]
    <3>1. Runs(r) /\ req[r].op.do = "address" /\ UNCHANGED users
      BY <2>15, KindAt DEF InsertAddress
    <3>2. new \in Good
      BY <3>1 DEF AccountRequestsOK
    <3>3. \A a \in DOMAIN addresses : unset[a] \in Good
      BY DEF AccountsOK
    <3>4. addresses' = With(unset, r, new) /\ DOMAIN unset = DOMAIN addresses
      BY <2>15 DEF InsertAddress
    <3> HIDE DEF new, unset
    <3>5. \A a \in DOMAIN addresses' : addresses'[a] \in Good
      BY <3>2, <3>3, <3>4 DEF With
    <3> QED BY <2>2, <2>4, <3>1, <3>5
  <2>16. CASE RemoveAddress(r)
    <3>1. Runs(r) /\ UNCHANGED users /\ addresses' = Without(addresses, req[r].op.id)
      BY <2>16, KindAt DEF RemoveAddress
    <3>2. \A a \in DOMAIN addresses' : a \in DOMAIN addresses /\ addresses'[a] = addresses[a]
      BY <3>1 DEF Without
    <3> QED BY <2>2, <2>4, <3>1, <3>2 DEF AccountsOK
  <2> QED BY <1>3, <2>6, <2>7, <2>8, <2>9, <2>10, <2>11, <2>12, <2>13, <2>14, <2>15, <2>16
          DEF AccountStep
<1> QED BY <1>2, <1>3, AccountsAside

-----------------------------------------------------------------------------
(* Defaults.                                                               *)

Finds(r, u) == Creates(r, u) /\ (At(r, "lock") \/ At(r, "insert address"))

Found(u) ==
  /\ \A a, b \in Defaults(u) : a = b
  /\ \A r \in Request : Finds(r, u) => Defaults(u) \subseteq req[r].read

LEMMA FoundForAll ==
  ASSUME AccountsOK, AccountRequestsOK, DefaultsFound, NEW u
  PROVE  TwoCreate(u) \/ Found(u)
<1>1. CASE u \in DOMAIN users
  BY <1>1 DEF DefaultsFound, Found, Finds
<1>2. CASE u \notin DOMAIN users
  <2>1. Defaults(u) = {}
    BY <1>2 DEF AccountsOK, Defaults
  <2> QED BY <2>1 DEF Found
<1> QED BY <1>1, <1>2

LEMMA CreatesStay ==
  ASSUME SessionInv, Frozen, NEW u
  PROVE  TwoCreate(u) => TwoCreate(u)'
<1>1. \A r \in Request : Creates(r, u) => Creates(r, u)'
  BY DEF SessionInv, RequestsOK, Frozen, Creates, At
<1> QED BY <1>1 DEF TwoCreate, Met, Frozen

\* Fewer defaults, and who finds them still has them or has found them now.
LEMMA FewerDefaults ==
  ASSUME NEW u, Found(u), Defaults(u)' \subseteq Defaults(u),
         \A q \in Request : Finds(q, u)' => \/ Finds(q, u) /\ req'[q].read = req[q].read
                                            \/ Defaults(u) \subseteq req'[q].read
  PROVE  Found(u)'
BY DEF Found

LEMMA InitDefaults == Init => DefaultsFound
<1> SUFFICES ASSUME Init, NEW u PROVE Found(u)
  BY DEF DefaultsFound, Found, Finds
<1>1. Defaults(u) \subseteq {"home"}
  BY DEF Init, AccountsInit, Defaults
<1>2. \A r \in Request : ~ Finds(r, u)
  BY DEF Init, SessionsInit, NotMade, Finds, At
<1> QED BY <1>1, <1>2 DEF Found

LEMMA NextDefaults ==
  ASSUME SessionInv, AccountsOK, AccountRequestsOK, DefaultsFound, [Next]_vars
  PROVE  DefaultsFound'
<1> SUFFICES ASSUME NEW u, ~ TwoCreate(u)' PROVE Found(u)'
  BY DEF DefaultsFound, Found, Finds
<1>1. SessionInv' /\ Frozen
  BY NextSessions
<1>2. Found(u)
  BY <1>1, CreatesStay, FoundForAll
<1>3. CASE UNCHANGED accountVars /\ Aside(AccountKinds)
  <2>1. Defaults(u)' = Defaults(u)
    BY <1>3 DEF accountVars, Defaults
  <2>2. \A q \in Request : Finds(q, u)' => Finds(q, u) /\ req'[q].read = req[q].read
    BY <1>3 DEF Finds, Creates, At, Aside, AccountKinds
  <2> QED BY <1>2, <2>1, <2>2, FewerDefaults
<1>4. ASSUME NEW r \in Request, AccountStep(r)
      PROVE  Found(u)'
  <2>1. \A q \in Request \ {r} : req'[q] = req[q]
    BY <1>4, AccountSessions, OthersStay
  <2>2. \A q \in Request \ {r} : Finds(q, u)' => Finds(q, u) /\ req'[q].read = req[q].read
    BY <2>1 DEF Finds, Creates, At
  <2>3. ASSUME Defaults(u)' \subseteq Defaults(u),
               Finds(r, u)' => Defaults(u) \subseteq req'[r].read
        PROVE  Found(u)'
    BY <1>2, <2>2, <2>3, FewerDefaults
  <2>4. UNCHANGED accountVars => Defaults(u)' = Defaults(u)
    BY DEF accountVars, Defaults
  <2>5. UNCHANGED addresses => Defaults(u)' = Defaults(u)
    BY DEF Defaults
  <2>6. CASE Signup(r) /\ UNCHANGED accountVars
    <3>1. \E op : RefuseAtOnce(r, op) \/ Begin(r, op, "signup", <<>>)
      BY <2>6 DEF Signup
    <3>2. ~ Finds(r, u)'
      <4>1. req'[r].at \in {"done", "signup"}
        BY <3>1, AskedIs
      <4> QED BY <4>1 DEF Finds, At
    <3> QED BY <2>3, <2>4, <2>6, <3>2
  <2>7. CASE ChangeUser(r) /\ UNCHANGED accountVars
    <3>1. \E op : RefuseAtOnce(r, op) \/ Begin(r, op, "load user", <<>>)
      BY <2>7 DEF ChangeUser
    <3>2. ~ Finds(r, u)'
      <4>1. req'[r].at \in {"done", "load user"}
        BY <3>1, AskedIs
      <4> QED BY <4>1 DEF Finds, At
    <3> QED BY <2>3, <2>4, <2>7, <3>2
  <2>8. CASE CreateAddress(r) /\ UNCHANGED accountVars
    <3> DEFINE op(user, default) == [do |-> "address", user |-> user, default |-> default]
    <3>1. PICK user \in DOMAIN users, default \in BOOLEAN :
            \/ RefuseAtOnce(r, op(user, default))
            \/ Begin(r, op(user, default), IF default THEN "unset" ELSE "insert address", {})
      BY <2>8 DEF CreateAddress
    <3>2. op(user, default).default = default
      OBVIOUS
    <3> HIDE DEF op
    <3>3. ~ Finds(r, u)'
      <4>1. CASE default
        <5>1. req'[r].at \in {"done", "unset"}
          BY <3>1, <4>1, AskedIs
        <5> QED BY <5>1 DEF Finds, At
      <4>2. CASE ~ default
        BY <3>1, <3>2, <4>2, AskedIs DEF Finds, Creates
      <4> QED BY <4>1, <4>2
    <3> QED BY <2>3, <2>4, <2>8, <3>3
  <2>9. CASE DeleteAddress(r) /\ UNCHANGED accountVars
    <3>1. \E op : RefuseAtOnce(r, op) \/ Begin(r, op, "delete address", <<>>)
      BY <2>9 DEF DeleteAddress
    <3>2. ~ Finds(r, u)'
      <4>1. req'[r].at \in {"done", "delete address"}
        BY <3>1, AskedIs
      <4> QED BY <4>1 DEF Finds, At
    <3> QED BY <2>3, <2>4, <2>9, <3>2
  <2>10. CASE InsertUser(r) \/ WriteUser(r)
    BY <2>3, <2>5, <2>10, AnsweredIs DEF InsertUser, WriteUser, Finds, At
  <2>11. CASE LoadUser(r)
    <3>1. req'[r].at = "write user" /\ UNCHANGED accountVars
      BY <2>11, ProceededIs DEF LoadUser
    <3>2. ~ Finds(r, u)'
      BY <3>1 DEF Finds, At
    <3> QED BY <2>3, <2>4, <3>1, <3>2
  <2>12. CASE UnsetDefaults(r)
    <3>1. req'[r].read = Defaults(req[r].op.user) /\ req'[r].op = req[r].op
      BY <2>12, ProceededIs DEF UnsetDefaults
    <3>2. Finds(r, u)' => req[r].op.user = u
      BY <3>1 DEF Finds, Creates
    <3> QED BY <2>3, <2>4, <2>12, <3>1, <3>2 DEF UnsetDefaults
  <2>13. CASE LockDefaults(r)
    <3>1. /\ req'[r].read = req[r].read \cap Defaults(req[r].op.user) /\ req'[r].op = req[r].op
          /\ At(r, "lock")
      <4> DEFINE read == req[r].read \cap Defaults(req[r].op.user)
      <4>1. At(r, "lock") /\ Proceed(r, "insert address", read)
        BY <2>13 DEF LockDefaults
      <4> HIDE DEF read
      <4>2. req'[r].read = read /\ req'[r].op = req[r].op
        BY <4>1, ProceededIs
      <4> QED BY <4>1, <4>2 DEF read
    <3>2. Finds(r, u)' => req[r].op.user = u /\ Finds(r, u)
      BY <3>1 DEF Finds, Creates
    <3> QED BY <1>2, <2>3, <2>4, <2>13, <3>1, <3>2 DEF LockDefaults, Found
  <2>14. CASE InsertAddress(r)
    <3> DEFINE new == [user |-> req[r].op.user, default |-> req[r].op.default]
               unset == [a \in DOMAIN addresses |->
                           IF a \in req[r].read THEN [addresses[a] EXCEPT !.default = FALSE]
                           ELSE addresses[a]]
    <3>1. /\ Runs(r) /\ req[r].op.do = "address" /\ At(r, "insert address")
          /\ addresses' = With(unset, r, new) /\ ~ Runs(r)' /\ ~ Finds(r, u)' /\ met' = met
      BY <2>14, KindAt, AnsweredIs DEF InsertAddress, Runs, Finds, At
    <3>2. /\ DOMAIN addresses' = DOMAIN addresses \cup {r} /\ addresses'[r] = new
          /\ \A a \in DOMAIN addresses \ {r} : addresses'[a] = unset[a]
      BY <3>1 DEF With
    <3>3. \A a \in DOMAIN addresses :
            /\ unset[a].user = addresses[a].user
            /\ unset[a].default => addresses[a].default /\ a \notin req[r].read
      BY DEF AccountsOK
    <3>4. new.user = req[r].op.user /\ new.default = req[r].op.default
      OBVIOUS
    <3> HIDE DEF new, unset
    <3>5. \A a \in Defaults(u)' \ {r} : a \in Defaults(u) \ req[r].read
      BY <3>2, <3>3 DEF Defaults
    <3>6. r \in Defaults(u)' => Creates(r, u)
      BY <3>1, <3>2, <3>4 DEF Defaults, Creates
    <3>7. CASE Creates(r, u)
      <4>1. Defaults(u) \subseteq req[r].read
        BY <1>2, <3>1, <3>7 DEF Found, Finds
      <4>2. Defaults(u)' \subseteq {r}
        BY <3>5, <4>1
      <4>3. ASSUME NEW q \in Request, Finds(q, u)' PROVE FALSE
        <5>1. q # r /\ Creates(q, u) /\ Runs(q) /\ Creates(q, u)' /\ Creates(r, u)'
          BY <2>2, <3>1, <3>7, <4>3, AnsweredIs, <2>14 DEF Finds, At, Runs, Creates, InsertAddress
        <5>2. Met(r, q)
          BY <3>1, <5>1 DEF SessionInv, MetOK
        <5> QED BY <3>1, <5>1, <5>2 DEF TwoCreate, Met
      <4> QED BY <4>2, <4>3 DEF Found
    <3>8. CASE ~ Creates(r, u)
      BY <2>3, <3>1, <3>5, <3>6, <3>8
    <3> QED BY <3>7, <3>8
  <2>15. CASE RemoveAddress(r)
    <3>1. ~ Finds(r, u)' /\ addresses' = Without(addresses, req[r].op.id)
      BY <2>15, AnsweredIs DEF RemoveAddress, Finds, At
    <3>2. Defaults(u)' \subseteq Defaults(u)
      BY <3>1 DEF Defaults, Without
    <3> QED BY <2>3, <3>1, <3>2
  <2> QED BY <1>4, <2>6, <2>7, <2>8, <2>9, <2>10, <2>11, <2>12, <2>13, <2>14, <2>15
          DEF AccountStep
<1> QED BY <1>3, <1>4, AccountsAside

-----------------------------------------------------------------------------
(* Administrators.                                                         *)

\* The excuse of SomeoneCanUndo.
ActorChanged ==
  \E r, q \in Request : /\ Met(r, q) /\ Done(r, "user") /\ req[q].op.do = "user"
                        /\ req[q].op.target = req[r].op.actor

LEMMA ExcusesStay ==
  ASSUME SessionInv, Frozen
  PROVE  /\ ActorChanged => ActorChanged'
         /\ \A r \in Request : Spoiled(r) /\ ~ At(r, "new") => Spoiled(r)'
<1>1. ASSUME NEW q \in Request, req[q].op.do = "user"
      PROVE  req'[q].op = req[q].op
  BY <1>1 DEF SessionInv, RequestsOK, Frozen, At
<1>2. ASSUME NEW r \in Request, Done(r, "user")
      PROVE  req'[r] = req[r]
  BY <1>2 DEF SessionInv, RequestsOK, Frozen, At, Done, Runs
<1>3. \A r, q \in Request : Met(r, q) => Met(r, q)'
  BY DEF Frozen, Met
<1>4. ASSUME NEW r \in Request, Spoiled(r), ~ At(r, "new")
      PROVE  Spoiled(r)'
  BY <1>1, <1>3, <1>4 DEF Spoiled, Frozen
<1>5. ActorChanged => ActorChanged'
  BY <1>1, <1>2, <1>3 DEF ActorChanged, Done
<1> QED BY <1>4, <1>5

LEMMA InitUndo == Init => MayStill /\ SomeoneCanUndo
<1> SUFFICES ASSUME Init PROVE MayStill /\ SomeoneCanUndo
  OBVIOUS
<1>1. MayStill
  BY DEF Init, SessionsInit, NotMade, MayStill, Runs
<1>2. PICK u \in DOMAIN Staff : Staff[u] = "super_admin"
  BY StaffAssumption
<1>3. u \in DOMAIN users /\ users[u].role = "super_admin" /\ users[u].active
  BY <1>2 DEF Init, AccountsInit
<1> QED BY <1>1, <1>3 DEF SomeoneCanUndo, Recoverable

\* Who may make a change keeps his own account, so one who can undo it is left.
LEMMA ChangeIsRecoverable ==
  ASSUME AccountsOK, Recoverable, NEW actor \in DOMAIN users, NEW target \in DOMAIN users,
         actor # target, NEW change \in Change, Authorized(actor, Required(change)),
         NEW loaded, users' = [users EXCEPT ![target] = Flush(@, loaded, change)]
  PROVE  Recoverable'
<1> DEFINE new == Flush(users[target], loaded, change)
<1>1. new \in Account /\ ("role" \notin DOMAIN change => new.role = users[target].role)
  BY FlushedAccount DEF AccountsOK
<1>2. users' = [users EXCEPT ![target] = new]
  OBVIOUS
<1> HIDE DEF new
<1>3. /\ DOMAIN users' = DOMAIN users /\ users'[target] = new
      /\ \A u \in DOMAIN users \ {target} : users'[u] = users[u]
  BY <1>2
<1>4. users'[actor].active /\ users'[actor].role # "customer"
  BY <1>3 DEF Authorized, Required
<1>5. \E u \in DOMAIN users' : users'[u].role = "super_admin"
  <2>1. CASE "role" \in DOMAIN change
    BY <1>3, <2>1 DEF Authorized, Required
  <2>2. CASE "role" \notin DOMAIN change
    BY <1>1, <1>3, <2>2 DEF Recoverable
  <2> QED BY <2>1, <2>2
<1> QED BY <1>3, <1>4, <1>5 DEF Recoverable

LEMMA NextUndo ==
  ASSUME SessionInv, AccountsOK, AccountRequestsOK, MayStill, SomeoneCanUndo, [Next]_vars
  PROVE  MayStill' /\ SomeoneCanUndo'
<1> DEFINE May(q) == Runs(q) /\ req[q].op.do = "user" =>
                       Authorized(req[q].op.actor, Required(req[q].op.row)) \/ Spoiled(q)
<1>1. SessionInv' /\ Frozen
  BY NextSessions
<1>2. ASSUME UNCHANGED users
      PROVE  SomeoneCanUndo'
  BY <1>1, <1>2, ExcusesStay DEF SomeoneCanUndo, ActorChanged, Recoverable
<1>3. ASSUME NEW q \in Request, req'[q] = req[q],
             Runs(q) /\ req[q].op.do = "user" /\ req[q].op.actor \in DOMAIN users
               => users'[req[q].op.actor] = users[req[q].op.actor]
      PROVE  May(q)'
  <2>1. SUFFICES ASSUME Runs(q), req[q].op.do = "user"
                 PROVE  Authorized(req[q].op.actor, Required(req[q].op.row))' \/ Spoiled(q)'
    BY <1>3 DEF Runs
  <2>2. Spoiled(q) => Spoiled(q)'
    BY <1>1, <2>1, ExcusesStay DEF Runs, At
  <2>3. req[q].op.actor \in DOMAIN users
    BY <2>1 DEF AccountRequestsOK
  <2>4. Authorized(req[q].op.actor, Required(req[q].op.row)) \/ Spoiled(q)
    BY <2>1 DEF MayStill
  <2> QED BY <1>3, <2>1, <2>2, <2>3, <2>4 DEF Authorized, Required
<1>4. ASSUME \A q \in Request : May(q)'
      PROVE  MayStill'
  BY <1>4 DEF MayStill
<1> HIDE DEF May
<1>5. CASE UNCHANGED accountVars /\ Aside(AccountKinds)
  <2>1. ASSUME NEW q \in Request PROVE May(q)'
    <3>1. CASE req'[q] = req[q]
      BY <1>3, <1>5, <3>1 DEF accountVars
    <3>2. CASE req'[q] # req[q]
      BY <1>5, <3>2 DEF Aside, AccountKinds, May, Runs
    <3> QED BY <3>1, <3>2
  <2> QED BY <1>2, <1>4, <1>5, <2>1 DEF accountVars
<1>6. ASSUME NEW r \in Request, AccountStep(r)
      PROVE  MayStill' /\ SomeoneCanUndo'
  <2>1. \A q \in Request \ {r} : req'[q] = req[q]
    BY <1>6, AccountSessions, OthersStay
  <2>2. ASSUME UNCHANGED users, May(r)'
        PROVE  MayStill' /\ SomeoneCanUndo'
    BY <1>2, <1>3, <1>4, <2>1, <2>2
  <2>3. ASSUME UNCHANGED users, ~ Runs(r)' \/ req'[r].op.do # "user"
        PROVE  MayStill' /\ SomeoneCanUndo'
    BY <2>2, <2>3 DEF May
  <2>4. CASE Signup(r) /\ UNCHANGED accountVars
    <3> DEFINE op(typed) == [do |-> "signup", email |-> Normalized(typed)]
    <3>1. PICK typed \in NewEmail :
            RefuseAtOnce(r, op(typed)) \/ Begin(r, op(typed), "signup", <<>>)
      BY <2>4 DEF Signup
    <3>2. op(typed).do # "user"
      OBVIOUS
    <3> HIDE DEF op
    <3> QED BY <2>3, <2>4, <3>1, <3>2, AskedIs DEF accountVars
  <2>5. CASE ChangeUser(r) /\ UNCHANGED accountVars
    <3> DEFINE op(actor, target, change) == [do |-> "user", actor |-> actor, target |-> target,
                                             row |-> change]
    <3>1. PICK actor \in DOMAIN users, target \in DOMAIN users, change \in Change :
            \/ RefuseAtOnce(r, op(actor, target, change))
            \/ /\ Authorized(actor, Required(change))
               /\ Begin(r, op(actor, target, change), "load user", <<>>)
      BY <2>5 DEF ChangeUser, Change
    <3>2. op(actor, target, change).actor = actor /\ op(actor, target, change).row = change
      OBVIOUS
    <3> HIDE DEF op
    <3>3. CASE RefuseAtOnce(r, op(actor, target, change))
      <4>1. ~ Runs(r)'
        BY <3>3, RefusedIs DEF Runs
      <4> QED BY <2>3, <2>5, <4>1 DEF accountVars
    <3>4. CASE /\ Authorized(actor, Required(change))
               /\ Begin(r, op(actor, target, change), "load user", <<>>)
      <4>1. req'[r].op = op(actor, target, change)
        BY <3>4, AskedIs
      <4>2. Authorized(actor, Required(change))'
        BY <2>5, <3>4 DEF Authorized, Required, accountVars
      <4>3. May(r)'
        BY <3>2, <4>1, <4>2 DEF May
      <4> QED BY <2>2, <2>5, <4>3 DEF accountVars
    <3> QED BY <3>1, <3>3, <3>4
  <2>6. CASE CreateAddress(r) /\ UNCHANGED accountVars
    <3> DEFINE op(user, default) == [do |-> "address", user |-> user, default |-> default]
    <3>1. PICK user \in DOMAIN users, default \in BOOLEAN :
            \/ RefuseAtOnce(r, op(user, default))
            \/ Begin(r, op(user, default), IF default THEN "unset" ELSE "insert address", {})
      BY <2>6 DEF CreateAddress
    <3>2. op(user, default).do # "user"
      OBVIOUS
    <3> HIDE DEF op
    <3> QED BY <2>3, <2>6, <3>1, <3>2, AskedIs DEF accountVars
  <2>7. CASE DeleteAddress(r) /\ UNCHANGED accountVars
    <3> DEFINE op(user, a) == [do |-> "delete address", user |-> user, id |-> a]
    <3>1. PICK user \in DOMAIN users, a \in DOMAIN addresses :
            RefuseAtOnce(r, op(user, a)) \/ Begin(r, op(user, a), "delete address", <<>>)
      BY <2>7 DEF DeleteAddress
    <3>2. op(user, a).do # "user"
      OBVIOUS
    <3> HIDE DEF op
    <3> QED BY <2>3, <2>7, <3>1, <3>2, AskedIs DEF accountVars
  <2>8. CASE InsertUser(r)
    <3>1. ~ Runs(r)' /\ r \notin DOMAIN users
      BY <2>8, AnsweredIs, StaffAssumption DEF InsertUser, Runs, At, AccountsOK
    <3>2. CASE UNCHANGED users
      BY <2>3, <3>1, <3>2
    <3>3. CASE /\ DOMAIN users' = DOMAIN users \cup {r}
               /\ \A u \in DOMAIN users : users'[u] = users[u]
      <4>1. ASSUME NEW q \in Request PROVE May(q)'
        <5>1. CASE q = r
          BY <3>1, <5>1 DEF May
        <5>2. CASE q # r
          BY <1>3, <2>1, <3>3, <5>2
        <5> QED BY <5>1, <5>2
      <4>2. Recoverable => Recoverable'
        BY <3>3 DEF Recoverable
      <4> QED BY <1>1, <1>4, <4>1, <4>2, ExcusesStay DEF SomeoneCanUndo, ActorChanged
    <3> QED BY <2>8, <3>1, <3>2, <3>3 DEF InsertUser, With
  <2>9. CASE LoadUser(r)
    <3>1. /\ UNCHANGED users /\ req'[r].op = req[r].op /\ Runs(r) /\ At(r, "load user")
          /\ req[r].op.do = "user" /\ met' = met
      BY <2>9, ProceededIs, KindAt DEF LoadUser, accountVars
    <3>2. Authorized(req[r].op.actor, Required(req[r].op.row)) \/ Spoiled(r)
      BY <3>1 DEF MayStill
    <3>3. Spoiled(r) => Spoiled(r)'
      BY <1>1, <3>1, ExcusesStay DEF At
    <3>4. May(r)'
      BY <3>1, <3>2, <3>3 DEF May, Authorized, Required
    <3> QED BY <2>2, <3>1, <3>4
  <2>10. CASE WriteUser(r)
    <3> DEFINE t == req[r].op.target
    <3>1. /\ Runs(r) /\ req[r].op.do = "user" /\ ~ Runs(r)' /\ req'[r].op = req[r].op
          /\ req'[r].answer = "ok" /\ met' = met
          /\ users' = [users EXCEPT ![t] = Flush(@, req[r].read, req[r].op.row)]
      BY <2>10, KindAt, AnsweredIs DEF WriteUser, Runs
    <3>2. /\ t \in DOMAIN users /\ req[r].op.actor \in DOMAIN users /\ req[r].op.actor # t
          /\ req[r].op.row \in Change
      BY <3>1 DEF AccountRequestsOK
    <3>3. ASSUME NEW q \in Request PROVE May(q)'
      <4>1. CASE q = r
        BY <3>1, <4>1 DEF May
      <4>2. CASE q # r /\ ~ (Runs(q) /\ req[q].op.do = "user" /\ req[q].op.actor = t)
        BY <1>3, <2>1, <3>1, <4>2
      <4>3. CASE q # r /\ Runs(q) /\ req[q].op.do = "user" /\ req[q].op.actor = t
        <5>1. Met(q, r)
          BY <3>1, <4>3 DEF SessionInv, MetOK
        <5>2. Spoiled(q)'
          BY <2>1, <3>1, <4>3, <5>1 DEF Spoiled, Met
        <5> QED BY <5>2 DEF May
      <4> QED BY <4>1, <4>2, <4>3
    <3>4. CASE ActorChanged
      BY <1>1, <1>4, <3>3, <3>4, ExcusesStay DEF SomeoneCanUndo, ActorChanged
    <3>5. CASE Spoiled(r)
      <4>1. Spoiled(r)' /\ Done(r, "user")'
        BY <1>1, <3>1, <3>5, ExcusesStay DEF Runs, At, Done
      <4> QED BY <1>4, <3>3, <4>1 DEF SomeoneCanUndo, Spoiled
    <3>6. CASE ~ ActorChanged /\ ~ Spoiled(r)
      <4>1. Recoverable /\ Authorized(req[r].op.actor, Required(req[r].op.row))
        BY <3>1, <3>6 DEF SomeoneCanUndo, ActorChanged, MayStill
      <4>2. Recoverable'
        BY <3>1, <3>2, <4>1, ChangeIsRecoverable
      <4> QED BY <1>4, <3>3, <4>2 DEF SomeoneCanUndo
    <3> QED BY <3>4, <3>5, <3>6
  <2>11. CASE UnsetDefaults(r)
    BY <2>3, <2>11, KindAt, ProceededIs DEF UnsetDefaults, accountVars
  <2>12. CASE LockDefaults(r)
    BY <2>3, <2>12, KindAt, ProceededIs DEF LockDefaults, accountVars
  <2>13. CASE InsertAddress(r)
    BY <2>3, <2>13, AnsweredIs DEF InsertAddress, Runs
  <2>14. CASE RemoveAddress(r)
    BY <2>3, <2>14, AnsweredIs DEF RemoveAddress, Runs
  <2> QED BY <1>6, <2>4, <2>5, <2>6, <2>7, <2>8, <2>9, <2>10, <2>11, <2>12, <2>13, <2>14
          DEF AccountStep
<1> QED BY <1>5, <1>6, AccountsAside

\* What is asked of the accounts stays sound, and the excuses are the only ones.
THEOREM AccountsHold == Spec => []AccountsInv
<1>1. Init => AccountsInv
  BY InitAccounts, InitDefaults, InitUndo DEF AccountsInv
<1>2. SessionInv /\ AccountsInv /\ [Next]_vars => AccountsInv'
  BY NextAccounts, NextDefaults, NextUndo DEF AccountsInv
<1> QED BY <1>1, <1>2, SessionsHold, PTL DEF Spec

\* For any number of accounts, addresses and requests: a user has one default
\* address at most, unless two requests that ran at once each created one for
\* him (addresses.py 42-47).
THEOREM DefaultIsUnique == Spec => []OneDefaultAddress
<1>1. AccountsInv => OneDefaultAddress
  <2> SUFFICES ASSUME AccountsInv, NEW u \in DOMAIN users, ~ TwoCreate(u)
               PROVE  Cardinality({a \in DOMAIN addresses :
                                     addresses[a] = [user |-> u, default |-> TRUE]}) <= 1
    BY DEF OneDefaultAddress, TwoCreate, Creates
  <2> DEFINE D == {a \in DOMAIN addresses : addresses[a] = [user |-> u, default |-> TRUE]}
  <2>1. D \subseteq Defaults(u)
    BY DEF Defaults
  <2>2. \A a, b \in D : a = b
    BY <2>1 DEF AccountsInv, DefaultsFound
  <2> HIDE DEF D
  <2>3. D = {} => Cardinality(D) <= 1
    BY FS_EmptySet
  <2>4. ASSUME NEW a \in D PROVE Cardinality(D) <= 1
    <3>1. D = {a}
      BY <2>2
    <3>2. Cardinality({a}) = 1
      BY FS_Singleton
    <3> QED BY <3>1, <3>2
  <2>5. Cardinality(D) <= 1
    BY <2>3, <2>4
  <2> QED BY <2>5 DEF D
<1> QED BY <1>1, AccountsHold, PTL

\* For any number of administrators: an active one and a super admin are left,
\* unless a change was made by someone whose own account another request was
\* changing at the same time (admin_users.py 14-17).
THEOREM ChangesCanBeUndone == Spec => []SomeoneCanUndo
<1> QED BY AccountsHold, PTL DEF AccountsInv

-----------------------------------------------------------------------------
(* Reviews and searches.                                                   *)

Searched(q) == {r \in Answered("search") : req[r].op.query = q}
Count(q) == IF q \in DOMAIN searches THEN searches[q] ELSE 0

\* Before there is a review, it can neither be marked nor reported.
ReviewsOK ==
  /\ DOMAIN review = {"exists", "verified", "helpful", "reported"}
  /\ review.helpful \in Nat
  /\ \A q \in DOMAIN searches : searches[q] \in Nat \ {0}
  /\ ~ review.exists => /\ ~ review.reported /\ review.helpful = 0
                        /\ \A r \in Request : req[r].op.do \in {"helpful", "report"}
                                                => req[r].answer \in {"refused"}
  /\ IsFiniteSet(Answered("helpful")) /\ \A q \in Query : IsFiniteSet(Searched(q))
  /\ \A r \in Request :
       /\ At(r, "helpful") => req[r].read.count \in Nat
       /\ At(r, "search") => req[r].read.count \in Nat /\ req[r].op.query \in Query
       /\ At(r, "insert review") /\ req[r].read.verified => bought
  /\ review.verified => bought
  /\ review.reported = (Answered("report") # {})

\* Who is about to count has read the count, unless he met another.
HelpfulCounted ==
  /\ review.helpful <= Cardinality(Answered("helpful"))
  /\ \A r \in Request : At(r, "helpful") => req[r].read.count <= Cardinality(Answered("helpful"))
  /\ \/ Rivals({"helpful"})
     \/ /\ review.helpful = Cardinality(Answered("helpful"))
        /\ \A r \in Request : At(r, "helpful") => req[r].read.count = review.helpful

SearchesCounted ==
  \A q \in Query :
    /\ Count(q) <= Cardinality(Searched(q))
    /\ \A r \in Request : At(r, "search") /\ req[r].op.query = q
                            => req[r].read.count <= Cardinality(Searched(q))
    /\ \/ Rivals({"search"})
       \/ /\ Count(q) = Cardinality(Searched(q))
          /\ \A r \in Request : At(r, "search") /\ req[r].op.query = q
                                  => req[r].read.count = Count(q)

ReviewsInv == ReviewsOK /\ HelpfulCounted /\ SearchesCounted

LEMMA RivalsStay ==
  ASSUME SessionInv, Frozen, NEW kinds, "none" \notin kinds
  PROVE  Rivals(kinds) => Rivals(kinds)'
<1>1. \A q \in Request : req[q].op.do \in kinds => req'[q].op = req[q].op
  BY DEF SessionInv, RequestsOK, Frozen, At
<1> QED BY <1>1 DEF Rivals, Met, Frozen

\* Two that run at once are rivals.
LEMMA RivalsRun ==
  ASSUME SessionInv, NEW r \in Request, NEW q \in Request, r # q, Runs(r), Runs(q), NEW kinds,
         req[r].op.do \in kinds, req[q].op.do \in kinds
  PROVE  Rivals(kinds)
BY DEF SessionInv, MetOK, Rivals

\* Who was answered, after a step of r.
LEMMA AnsweredGrows ==
  ASSUME SessionInv, NEW r \in Request, ~ At(r, "done"), NEW kind,
         \A q \in Request \ {r} : req'[q] = req[q]
  PROVE  /\ r \notin Answered(kind)
         /\ Answered(kind)' = IF Done(r, kind)' THEN Answered(kind) \cup {r} ELSE Answered(kind)
<1>1. r \notin Answered(kind)
  BY DEF Answered, Done, SessionInv, RequestsOK, Runs, At
<1>2. \A q \in Request \ {r} : Done(q, kind)' <=> Done(q, kind)
  BY DEF Done
<1> QED BY <1>1, <1>2 DEF Answered

LEMMA AnsweredAside ==
  ASSUME SessionInv, Frozen, Aside(ReviewKinds), NEW kind \in ReviewKinds
  PROVE  Answered(kind)' = Answered(kind)
<1>1. ASSUME NEW q \in Request, Done(q, kind) PROVE Done(q, kind)'
  BY <1>1 DEF SessionInv, RequestsOK, Frozen, At, Done, Runs
<1>2. ASSUME NEW q \in Request, Done(q, kind)' PROVE Done(q, kind)
  BY <1>2 DEF Aside, Done
<1> QED BY <1>1, <1>2 DEF Answered

\* All but counting leaves the counts right.
LEMMA HelpfulStays ==
  ASSUME SessionInv, Frozen, HelpfulCounted, Answered("helpful")' = Answered("helpful"),
         review'.helpful = review.helpful,
         \A q \in Request : At(q, "helpful")' =>
           \/ At(q, "helpful") /\ req'[q].read.count = req[q].read.count
           \/ req'[q].read.count = review.helpful
  PROVE  HelpfulCounted'
<1> DEFINE n == Cardinality(Answered("helpful"))
<1>1. n' = n
  OBVIOUS
<1>2. review.helpful <= n /\ \A r \in Request : At(r, "helpful") => req[r].read.count <= n
  BY DEF HelpfulCounted
<1>3. Rivals({"helpful"}) => Rivals({"helpful"})'
  BY RivalsStay
<1>4. \/ Rivals({"helpful"})
      \/ /\ review.helpful = n
         /\ \A r \in Request : At(r, "helpful") => req[r].read.count = review.helpful
  BY DEF HelpfulCounted
<1> HIDE DEF n
<1>5. review'.helpful <= n' /\ \A r \in Request : At(r, "helpful")' => req'[r].read.count <= n'
  BY <1>1, <1>2
<1>6. \/ Rivals({"helpful"})'
      \/ /\ review'.helpful = n'
         /\ \A r \in Request : At(r, "helpful")' => req'[r].read.count = review'.helpful
  BY <1>1, <1>3, <1>4
<1> QED BY <1>5, <1>6 DEF HelpfulCounted, n

LEMMA SearchesStay ==
  ASSUME SessionInv, Frozen, SearchesCounted, Answered("search")' = Answered("search"),
         searches' = searches,
         \A q \in Request : At(q, "search")' =>
           \/ At(q, "search") /\ req'[q].read.count = req[q].read.count
           \/ req'[q].read.count = Count(req'[q].op.query)
  PROVE  SearchesCounted'
<1>1. \A q \in Query : Searched(q)' = Searched(q)
  BY DEF Searched, Answered, Done, Frozen, SessionInv, RequestsOK, Runs, At
<1>2. \A q \in Query : Count(q)' = Count(q)
  BY DEF Count
<1>3. Rivals({"search"}) => Rivals({"search"})'
  BY RivalsStay
<1>4. \A q \in Request : At(q, "search") => req'[q].op = req[q].op
  BY DEF Frozen, At
<1> SUFFICES ASSUME NEW q \in Query
    PROVE /\ Count(q)' <= Cardinality(Searched(q))'
          /\ \A r \in Request : At(r, "search")' /\ req'[r].op.query = q
                                  => req'[r].read.count <= Cardinality(Searched(q))'
          /\ \/ Rivals({"search"})'
             \/ /\ Count(q)' = Cardinality(Searched(q))'
                /\ \A r \in Request : At(r, "search")' /\ req'[r].op.query = q
                                        => req'[r].read.count = Count(q)'
  BY DEF SearchesCounted
<1> DEFINE n == Cardinality(Searched(q))
<1>5. n' = n
  BY <1>1
<1>6. /\ Count(q) <= n
      /\ \A r \in Request : At(r, "search") /\ req[r].op.query = q => req[r].read.count <= n
      /\ \/ Rivals({"search"})
         \/ /\ Count(q) = n
            /\ \A r \in Request : At(r, "search") /\ req[r].op.query = q
                                    => req[r].read.count = Count(q)
  BY DEF SearchesCounted
<1> HIDE DEF n
<1>7. /\ Count(q)' <= n'
      /\ \A r \in Request : At(r, "search")' /\ req'[r].op.query = q => req'[r].read.count <= n'
      /\ \/ Rivals({"search"})'
         \/ /\ Count(q)' = n'
            /\ \A r \in Request : At(r, "search")' /\ req'[r].op.query = q
                                    => req'[r].read.count = Count(q)'
  BY <1>2, <1>3, <1>4, <1>5, <1>6
<1> QED BY <1>7 DEF n

LEMMA InitReviews == Init => ReviewsInv
<1> SUFFICES ASSUME Init PROVE ReviewsInv
  OBVIOUS
<1>1. \A r \in Request : req[r].at = "new" /\ req[r].answer = "none" /\ req[r].op.do = "none"
  BY DEF Init, SessionsInit, NotMade
<1>2. Answered("helpful") = {} /\ Answered("report") = {} /\ \A q : Searched(q) = {}
  BY <1>1 DEF Answered, Done, Searched
<1>3. /\ IsFiniteSet(Answered("helpful")) /\ Cardinality(Answered("helpful")) = 0
      /\ \A q : IsFiniteSet(Searched(q)) /\ Cardinality(Searched(q)) = 0
  BY <1>2, FS_EmptySet
<1>4. /\ DOMAIN review = {"exists", "verified", "helpful", "reported"} /\ review.exists = FALSE
      /\ review.verified = FALSE /\ review.helpful = 0 /\ review.reported = FALSE
      /\ DOMAIN searches = {}
  BY DEF Init, ReviewsInit, NoReview
<1>5. \A r \in Request : ~ At(r, "helpful") /\ ~ At(r, "search") /\ ~ At(r, "insert review")
  BY <1>1 DEF At
<1>6. ReviewsOK
  <2>1. review.reported = (Answered("report") # {})
    BY <1>2, <1>4
  <2>2. \A r \in Request : req[r].op.do \notin {"helpful", "report"}
    BY <1>1
  <2>3. review.helpful \in Nat
    BY <1>4
  <2>4. \A q \in DOMAIN searches : searches[q] \in Nat \ {0}
    BY <1>4
  <2> QED BY <1>3, <1>4, <1>5, <2>1, <2>2, <2>3, <2>4 DEF ReviewsOK
<1>7. HelpfulCounted
  <2>1. review.helpful <= Cardinality(Answered("helpful"))
    BY <1>3, <1>4
  <2>2. review.helpful = Cardinality(Answered("helpful"))
    BY <1>3, <1>4
  <2> QED BY <1>5, <2>1, <2>2 DEF HelpfulCounted
<1>8. \A q : Count(q) = 0
  BY <1>4 DEF Count
<1>9. SearchesCounted
  <2>1. \A q \in Query : Count(q) = Cardinality(Searched(q))
    BY <1>3, <1>8
  <2>2. \A q \in Query : Count(q) <= Cardinality(Searched(q))
    BY <1>3, <1>8
  <2> QED BY <1>5, <2>1, <2>2 DEF SearchesCounted
<1> QED BY <1>6, <1>7, <1>9 DEF ReviewsInv

\* A step of another area, or a checkout that buys the product.
LEMMA ReviewsLeftAlone ==
  ASSUME SessionInv, SessionInv', Frozen, ReviewsInv, Aside(ReviewKinds),
         UNCHANGED <<review, searches>>, bought => bought'
  PROVE  ReviewsInv'
<1>1. Answered("helpful")' = Answered("helpful") /\ Answered("search")' = Answered("search")
      /\ Answered("report")' = Answered("report")
  BY AnsweredAside DEF ReviewKinds
<1>2. \A q \in Request : Runs(q)' /\ req'[q].op.do \in ReviewKinds => req'[q] = req[q]
  BY DEF Aside, Runs
<1>3. ASSUME NEW q \in Request,
             NEW step \in {"helpful", "search", "insert review"}, At(q, step)'
      PROVE  At(q, step) /\ req'[q] = req[q]
  <2>1. Runs(q)' /\ Fits(req'[q].op.do, step)
    BY <1>3 DEF SessionInv, RequestsOK, At, Runs
  <2>2. req'[q].op.do \in ReviewKinds
    BY <2>1 DEF Fits, ReviewKinds, CartSteps
  <2> QED BY <1>2, <1>3, <2>1, <2>2 DEF At
<1>4. \A q \in Query : Searched(q)' = Searched(q)
  BY <1>1 DEF Searched, Answered, Done, Frozen, SessionInv, RequestsOK, Runs, At
<1>5. ASSUME ~ review.exists, NEW q \in Request, req'[q].op.do \in {"helpful", "report"}
      PROVE  req'[q].answer = "refused"
  <2>1. CASE req'[q] = req[q]
    BY <1>5, <2>1 DEF ReviewsInv, ReviewsOK
  <2>2. CASE Runs(q)
    <3>1. req[q].op = req'[q].op /\ req[q].answer = "none"
      BY <2>2 DEF Frozen, Runs, At, SessionInv, RequestsOK
    <3> QED BY <1>5, <3>1 DEF ReviewsInv, ReviewsOK
  <2> QED BY <1>5, <2>1, <2>2 DEF Aside, ReviewKinds
<1>6. ReviewsOK'
  BY <1>1, <1>3, <1>4, <1>5 DEF ReviewsInv, ReviewsOK
<1>7. HelpfulCounted'
  BY <1>1, <1>3, HelpfulStays DEF ReviewsInv
<1>8. SearchesCounted'
  BY <1>1, <1>3, SearchesStay DEF ReviewsInv
<1> QED BY <1>6, <1>7, <1>8 DEF ReviewsInv
\* One who counts adds one to what he read: no more than were answered, and as
\* many if nobody counts at the same time.
LEMMA NextReviews ==
  ASSUME SessionInv, ReviewsInv, [Next]_vars
  PROVE  ReviewsInv'
<1>1. SessionInv' /\ Frozen
  BY NextSessions
<1>2. CASE /\ Aside(ReviewKinds) /\ UNCHANGED <<review, searches>>
           /\ bought' = bought \/ (bought' /\ UNCHANGED sessionVars)
  BY <1>1, <1>2, ReviewsLeftAlone
<1>3. ASSUME NEW r \in Request, ReviewStep(r)
      PROVE  ReviewsInv'
  <2>1. \A q \in Request \ {r} : req'[q] = req[q]
    BY <1>3, ReviewSessions, OthersStay
  <2>2. ~ At(r, "done")
    BY <1>3, ReviewSessions DEF SessionStep, Begin, RefuseAtOnce, Runs, At
  <2>3. \A kind : /\ r \notin Answered(kind)
                  /\ Answered(kind)' = IF Done(r, kind)' THEN Answered(kind) \cup {r}
                                       ELSE Answered(kind)
    BY <2>1, <2>2, AnsweredGrows
  <2>4. \A q \in Request \ {r} : \A step : At(q, step)' <=> At(q, step)
    BY <2>1 DEF At
  <2>5. \A q \in Query : r \notin Searched(q)
    BY <2>3 DEF Searched
  <2>6. \A q \in Query : Searched(q)' = IF Done(r, "search")' /\ req'[r].op.query = q
                                        THEN Searched(q) \cup {r} ELSE Searched(q)
    BY <2>1, <2>3, <2>5 DEF Searched, Answered
  <2>7. ASSUME UNCHANGED reviewVars, ~ Done(r, "helpful")', ~ Done(r, "report")',
               ~ Done(r, "search")',
               ~ review.exists => \/ req'[r].op.do \notin {"helpful", "report"}
                                  \/ req'[r].answer = "refused",
               At(r, "helpful")' => req'[r].read.count = review.helpful,
               At(r, "search")' => /\ req'[r].read.count = Count(req'[r].op.query)
                                   /\ req'[r].op.query \in Query,
               At(r, "insert review")' /\ req'[r].read.verified => bought
        PROVE  ReviewsInv'
    <3>1. Answered("helpful")' = Answered("helpful") /\ Answered("report")' = Answered("report")
          /\ Answered("search")' = Answered("search") /\ \A q \in Query : Searched(q)' = Searched(q)
      BY <2>3, <2>6, <2>7
    <3>2. \A q : Count(q) \in Nat
      BY DEF Count, ReviewsInv, ReviewsOK
    <3>3. /\ DOMAIN review' = {"exists", "verified", "helpful", "reported"} /\ review'.helpful \in Nat
          /\ \A q \in DOMAIN searches' : searches'[q] \in Nat \ {0}
          /\ IsFiniteSet(Answered("helpful"))' /\ \A q \in Query : IsFiniteSet(Searched(q))'
          /\ review'.verified => bought'
          /\ review'.reported = (Answered("report")' # {})
      BY <2>7, <3>1 DEF ReviewsInv, ReviewsOK, reviewVars
    <3>4. ~ review'.exists => /\ ~ review'.reported /\ review'.helpful = 0
                              /\ \A q \in Request : req'[q].op.do \in {"helpful", "report"}
                                                      => req'[q].answer \in {"refused"}
      BY <2>1, <2>7 DEF ReviewsInv, ReviewsOK, reviewVars
    <3>5. ASSUME NEW q \in Request
          PROVE  /\ At(q, "helpful")' => req'[q].read.count \in Nat
                 /\ At(q, "search")' => req'[q].read.count \in Nat /\ req'[q].op.query \in Query
                 /\ At(q, "insert review")' /\ req'[q].read.verified => bought'
      <4>1. CASE q = r
        BY <2>7, <3>2, <4>1 DEF ReviewsInv, ReviewsOK, reviewVars
      <4>2. CASE q # r
        BY <2>1, <2>4, <2>7, <4>2 DEF ReviewsInv, ReviewsOK, reviewVars
      <4> QED BY <4>1, <4>2
    <3>6. ReviewsOK'
      BY <3>3, <3>4, <3>5 DEF ReviewsOK
    <3>7. HelpfulCounted'
      BY <1>1, <2>1, <2>4, <2>7, <3>1, HelpfulStays DEF ReviewsInv, reviewVars
    <3>8. SearchesCounted'
      BY <1>1, <2>1, <2>4, <2>7, <3>1, SearchesStay DEF ReviewsInv, reviewVars
    <3> QED BY <3>6, <3>7, <3>8 DEF ReviewsInv
  <2>refused. ASSUME NEW op, UNCHANGED reviewVars, RefuseAtOnce(r, op)
         PROVE  ReviewsInv'
    <3>1. req'[r].at = "done" /\ req'[r].answer = "refused"
      BY <2>refused, RefusedIs
    <3> QED BY <2>7, <2>refused, <3>1 DEF Done, At
  <2>8. ASSUME NEW op, NEW step, NEW read, UNCHANGED reviewVars, Begin(r, op, step, read),
               step # "insert review",
               step = "helpful" => read.count = review.helpful,
               step = "search" => read.count = Count(op.query) /\ op.query \in Query,
               op.do \notin {"helpful", "report"} \/ review.exists
        PROVE  ReviewsInv'
    <3>1. /\ req'[r].at = step /\ req'[r].answer = "none" /\ req'[r].op = op
          /\ req'[r].read = read
      BY <2>8, BegunIs
    <3> QED BY <2>7, <2>8, <3>1 DEF Done, At
  <2>9. CASE CreateReview(r) /\ UNCHANGED reviewVars
    <3>0. PICK product \in {"p0", "gone"} :
            LET op == [do |-> "review", product |-> product]
            IN  RefuseAtOnce(r, op) \/ Begin(r, op, "purchase", <<>>)
      BY <2>9 DEF CreateReview
    <3> DEFINE op == [do |-> "review", product |-> product]
    <3>1. RefuseAtOnce(r, op) \/ Begin(r, op, "purchase", <<>>)
      BY <3>0
    <3>2. op.do = "review"
      OBVIOUS
    <3> HIDE DEF op
    <3>3. CASE RefuseAtOnce(r, op)
      BY <2>refused, <2>9, <3>3
    <3>4. CASE Begin(r, op, "purchase", <<>>)
      BY <2>8, <2>9, <3>2, <3>4
    <3> QED BY <3>1, <3>3, <3>4
  <2>10. CASE MarkHelpful(r) /\ UNCHANGED reviewVars
    <3> DEFINE op == [do |-> "helpful"]
               read == [count |-> review.helpful]
    <3>1. RefuseAtOnce(r, op) \/ (review.exists /\ Begin(r, op, "helpful", read))
      BY <2>10 DEF MarkHelpful
    <3>2. op.do = "helpful" /\ read.count = review.helpful
      OBVIOUS
    <3> HIDE DEF op, read
    <3>3. CASE RefuseAtOnce(r, op)
      BY <2>refused, <2>10, <3>3
    <3>4. CASE review.exists /\ Begin(r, op, "helpful", read)
      BY <2>8, <2>10, <3>2, <3>4
    <3> QED BY <3>1, <3>3, <3>4
  <2>11. CASE ReportReview(r) /\ UNCHANGED reviewVars
    <3> DEFINE op == [do |-> "report"]
    <3>1. RefuseAtOnce(r, op) \/ (review.exists /\ Begin(r, op, "report", <<>>))
      BY <2>11 DEF ReportReview
    <3>2. op.do = "report"
      OBVIOUS
    <3> HIDE DEF op
    <3>3. CASE RefuseAtOnce(r, op)
      BY <2>refused, <2>11, <3>3
    <3>4. CASE review.exists /\ Begin(r, op, "report", <<>>)
      BY <2>8, <2>11, <3>2, <3>4
    <3> QED BY <3>1, <3>3, <3>4
  <2>12. CASE LogSearch(r) /\ UNCHANGED reviewVars
    <3> DEFINE op(q) == [do |-> "search", query |-> q]
               read(q) == [count |-> Count(q)]
    <3>1. PICK q \in Query : Begin(r, op(q), "search", read(q))
      BY <2>12 DEF LogSearch, Count
    <3>2. op(q).do = "search" /\ op(q).query = q /\ read(q).count = Count(q)
      OBVIOUS
    <3> HIDE DEF op, read
    <3> QED BY <2>8, <2>12, <3>1, <3>2
  <2>13. CASE CheckPurchase(r)
    <3> DEFINE read == [verified |-> bought /\ req[r].op.product = "p0"]
    <3>1. /\ Runs(r) /\ req[r].op.do = "review" /\ Proceed(r, "insert review", read)
          /\ UNCHANGED reviewVars /\ (read.verified => bought)
      BY <2>13, KindAt DEF CheckPurchase
    <3> HIDE DEF read
    <3>2. /\ req'[r].at = "insert review" /\ req'[r].answer = "none" /\ req'[r].op = req[r].op
          /\ req'[r].read = read
      <4>1. req[r].answer = "none"
        BY <3>1 DEF SessionInv, RequestsOK
      <4>2. Proceed(r, "insert review", read)
        BY <3>1
      <4> QED BY <4>1, <4>2, ProceededIs
    <3> QED BY <2>7, <3>1, <3>2 DEF Done, At
  <2>14. ASSUME Runs(r), NEW answer, Answer(r, answer), answer # "ok", UNCHANGED reviewVars
         PROVE  ReviewsInv'
    <3>1. /\ req'[r].at = "done" /\ req'[r].answer = answer /\ req'[r].op = req[r].op
          /\ req[r].answer = "none"
      BY <2>14, AnsweredIs DEF SessionInv, RequestsOK
    <3>2. ~ review.exists => req'[r].op.do \notin {"helpful", "report"}
      BY <3>1 DEF ReviewsInv, ReviewsOK
    <3> QED BY <2>7, <2>14, <3>1, <3>2 DEF Done, At
  <2>15. CASE InsertReview(r)
    <3>1. Runs(r) /\ req[r].op.do = "review" /\ UNCHANGED <<bought, searches>>
      BY <2>15, KindAt DEF InsertReview
    <3>2. CASE req[r].op.product = "gone" \/ review.exists
      BY <2>14, <2>15, <3>1, <3>2 DEF InsertReview, reviewVars
    <3>3. CASE ~ (req[r].op.product = "gone" \/ review.exists)
      <4>1. /\ Answer(r, "ok") /\ At(r, "insert review")
            /\ review' = [NoReview EXCEPT !.exists = TRUE, !.verified = req[r].read.verified]
        BY <2>15, <3>3 DEF InsertReview
      <4>2. /\ req'[r].at = "done" /\ req'[r].answer = "ok" /\ req'[r].op = req[r].op
        BY <4>1, AnsweredIs
      <4>3. /\ DOMAIN review' = {"exists", "verified", "helpful", "reported"} /\ review'.exists
            /\ review'.verified = req[r].read.verified /\ review'.helpful = 0
            /\ review'.reported = FALSE
        BY <4>1 DEF NoReview
      <4>4. /\ Answered("helpful")' = Answered("helpful") /\ Answered("report")' = Answered("report")
            /\ Answered("search")' = Answered("search")
            /\ \A q \in Query : Searched(q)' = Searched(q)
        BY <2>3, <2>6, <3>1, <4>2 DEF Done
      <4>5. review.helpful = 0 /\ Answered("report") = {}
        BY <3>3 DEF ReviewsInv, ReviewsOK
      <4>6. \A q \in Request :
              /\ ~ At(r, "helpful")' /\ ~ At(r, "search")' /\ ~ At(r, "insert review")'
              /\ At(q, "helpful")' => At(q, "helpful") /\ req'[q] = req[q]
              /\ At(q, "search")' => At(q, "search") /\ req'[q] = req[q]
              /\ At(q, "insert review")' => At(q, "insert review") /\ req'[q] = req[q]
        BY <2>1, <2>4, <4>2 DEF At
      <4>7. review'.verified => bought'
        BY <3>1, <4>1, <4>3 DEF ReviewsInv, ReviewsOK
      <4>8. review'.helpful \in Nat /\ review'.reported = (Answered("report")' # {})
        <5>1. review'.helpful \in Nat
          BY <4>3
        <5>2. Answered("report")' = {}
          BY <4>4, <4>5
        <5>3. review'.reported = (Answered("report")' # {})
          BY <4>3, <5>2
        <5> QED BY <5>1, <5>3
      <4>9. ReviewsOK'
        BY <3>1, <4>3, <4>4, <4>6, <4>7, <4>8 DEF ReviewsInv, ReviewsOK
      <4>10. HelpfulCounted'
        BY <1>1, <4>3, <4>4, <4>5, <4>6, HelpfulStays DEF ReviewsInv
      <4>11. SearchesCounted'
        BY <1>1, <3>1, <4>4, <4>6, SearchesStay DEF ReviewsInv
      <4> QED BY <4>9, <4>10, <4>11 DEF ReviewsInv
    <3> QED BY <3>2, <3>3
  <2>16. CASE WriteHelpful(r)
    <3> DEFINE n == Cardinality(Answered("helpful"))
               count == req[r].read.count
    <3>1. /\ Runs(r) /\ req[r].op.do = "helpful" /\ UNCHANGED <<bought, searches>>
          /\ At(r, "helpful") /\ Answer(r, "ok") /\ req[r].answer = "none"
          /\ review' = [review EXCEPT !.helpful = count + 1]
      BY <2>16, KindAt DEF WriteHelpful, SessionInv, RequestsOK
    <3>2. /\ req'[r].at = "done" /\ req'[r].answer = "ok" /\ req'[r].op = req[r].op
      BY <3>1, AnsweredIs
    <3>3. review.exists
      BY <3>1 DEF ReviewsInv, ReviewsOK
    <3>4. count \in Nat /\ count <= n
      BY <3>1 DEF ReviewsInv, ReviewsOK, HelpfulCounted
    <3>5. /\ DOMAIN review' = {"exists", "verified", "helpful", "reported"}
          /\ review'.exists = review.exists /\ review'.verified = review.verified
          /\ review'.reported = review.reported /\ review'.helpful = count + 1
      BY <3>1 DEF ReviewsInv, ReviewsOK
    <3>6. /\ Answered("helpful")' = Answered("helpful") \cup {r} /\ r \notin Answered("helpful")
          /\ Answered("report")' = Answered("report") /\ Answered("search")' = Answered("search")
          /\ \A q \in Query : Searched(q)' = Searched(q)
      BY <2>3, <2>6, <3>1, <3>2 DEF Done
    <3>7. n' = n + 1 /\ n \in Nat /\ IsFiniteSet(Answered("helpful"))'
      <4>1. IsFiniteSet(Answered("helpful"))
        BY DEF ReviewsInv, ReviewsOK
      <4>2. /\ IsFiniteSet(Answered("helpful") \cup {r})
            /\ Cardinality(Answered("helpful") \cup {r}) = n + 1
        BY <3>6, <4>1, FS_AddElement
      <4>3. n \in Nat
        BY <4>1, FS_CardinalityType
      <4> QED BY <3>6, <4>2, <4>3
    <3>8. /\ ~ At(r, "helpful")'
          /\ \A q \in Request :
              /\ At(q, "helpful")' => q # r /\ At(q, "helpful") /\ req'[q] = req[q]
              /\ At(q, "search")' => At(q, "search") /\ req'[q] = req[q]
              /\ At(q, "insert review")' => At(q, "insert review") /\ req'[q] = req[q]
      BY <2>1, <2>4, <3>2 DEF At
    <3>9. review'.helpful \in Nat
      BY <3>4, <3>5
    <3>10. ReviewsOK'
      BY <3>1, <3>3, <3>5, <3>6, <3>7, <3>8, <3>9 DEF ReviewsInv, ReviewsOK
    <3>11. SearchesCounted'
      BY <1>1, <3>1, <3>6, <3>8, SearchesStay DEF ReviewsInv
    <3>12. Rivals({"helpful"})' \/ (n = count /\ \A q \in Request : ~ At(q, "helpful")')
      <4>1. ASSUME NEW q \in Request, At(q, "helpful")' PROVE Rivals({"helpful"})
        <5>1. q # r /\ Runs(q) /\ req[q].op.do = "helpful"
          BY <3>8, <4>1, KindAt
        <5> QED BY <3>1, <5>1, RivalsRun
      <4>2. Rivals({"helpful"}) \/ n = count
        BY <3>1 DEF ReviewsInv, HelpfulCounted
      <4>3. Rivals({"helpful"}) => Rivals({"helpful"})'
        BY <1>1, RivalsStay
      <4> QED BY <4>1, <4>2, <4>3
    <3>13. \A q \in Request : At(q, "helpful") => req[q].read.count \in Nat /\ req[q].read.count <= n
      BY DEF ReviewsInv, ReviewsOK, HelpfulCounted
    <3> HIDE DEF n, count
    <3>14. /\ review'.helpful <= n'
           /\ \A q \in Request : At(q, "helpful")' => req'[q].read.count <= n'
           /\ n = count => review'.helpful = n'
      <4>1. review'.helpful <= n' /\ (n = count => review'.helpful = n')
        BY <3>4, <3>5, <3>7
      <4>2. ASSUME NEW q \in Request, At(q, "helpful")' PROVE req'[q].read.count <= n'
        <5>1. req'[q].read.count \in Nat /\ req'[q].read.count <= n
          BY <3>8, <3>13, <4>2
        <5> QED BY <3>7, <5>1
      <4> QED BY <4>1, <4>2
    <3>15. HelpfulCounted'
      BY <3>12, <3>14 DEF HelpfulCounted, n
    <3> QED BY <3>10, <3>11, <3>15 DEF ReviewsInv
  <2>17. CASE WriteReport(r)
    <3>1. /\ Runs(r) /\ req[r].op.do = "report" /\ UNCHANGED <<bought, searches>>
          /\ Answer(r, "ok") /\ req[r].answer = "none"
          /\ review' = [review EXCEPT !.reported = TRUE]
      BY <2>17, KindAt DEF WriteReport, SessionInv, RequestsOK
    <3>2. /\ req'[r].at = "done" /\ req'[r].answer = "ok" /\ req'[r].op = req[r].op
      BY <3>1, AnsweredIs
    <3>3. review.exists
      BY <3>1 DEF ReviewsInv, ReviewsOK
    <3>4. /\ DOMAIN review' = {"exists", "verified", "helpful", "reported"}
          /\ review'.exists = review.exists /\ review'.verified = review.verified
          /\ review'.reported = TRUE /\ review'.helpful = review.helpful
      BY <3>1 DEF ReviewsInv, ReviewsOK
    <3>5. /\ Answered("helpful")' = Answered("helpful") /\ r \in Answered("report")'
          /\ Answered("search")' = Answered("search")
          /\ \A q \in Query : Searched(q)' = Searched(q)
      BY <2>3, <2>6, <3>1, <3>2 DEF Done
    <3>6. \A q \in Request :
            /\ At(q, "helpful")' => At(q, "helpful") /\ req'[q] = req[q]
            /\ At(q, "search")' => At(q, "search") /\ req'[q] = req[q]
            /\ At(q, "insert review")' => At(q, "insert review") /\ req'[q] = req[q]
      BY <2>1, <2>4, <3>2 DEF At
    <3>7. review'.reported = (Answered("report")' # {})
      BY <3>4, <3>5
    <3>8. ReviewsOK'
      BY <3>1, <3>3, <3>4, <3>5, <3>6, <3>7 DEF ReviewsInv, ReviewsOK
    <3>9. HelpfulCounted'
      BY <1>1, <3>4, <3>5, <3>6, HelpfulStays DEF ReviewsInv
    <3>10. SearchesCounted'
      BY <1>1, <3>1, <3>5, <3>6, SearchesStay DEF ReviewsInv
    <3> QED BY <3>8, <3>9, <3>10 DEF ReviewsInv
  <2>18. CASE WriteSearch(r)
    <3> PICK s : s = req[r].op.query
      OBVIOUS
    <3> DEFINE count == req[r].read.count
               legal == count = 0 => s \notin DOMAIN searches
    <3>1. /\ Runs(r) /\ req[r].op.do = "search" /\ UNCHANGED <<bought, review>>
          /\ At(r, "search") /\ req[r].answer = "none"
          /\ Answer(r, IF legal THEN "ok" ELSE "conflict")
          /\ searches' = IF legal THEN With(searches, s, count + 1) ELSE searches
      BY <2>18, KindAt DEF WriteSearch, SessionInv, RequestsOK, CommitAnswer
    <3>2. CASE ~ legal
      BY <2>14, <3>1, <3>2 DEF reviewVars
    <3>3. CASE legal
      <4>1. /\ req'[r].at = "done" /\ req'[r].answer = "ok" /\ req'[r].op = req[r].op
        BY <3>1, <3>3, AnsweredIs
      <4>2. s \in Query /\ count \in Nat
        BY <3>1 DEF ReviewsInv, ReviewsOK
      <4>3. /\ DOMAIN searches' = DOMAIN searches \cup {s} /\ searches'[s] = count + 1
            /\ \A q \in DOMAIN searches \ {s} : searches'[q] = searches[q]
        BY <3>1, <3>3 DEF With
      <4>4. /\ Answered("helpful")' = Answered("helpful") /\ Answered("report")' = Answered("report")
            /\ Searched(s)' = Searched(s) \cup {r} /\ r \notin Searched(s)
            /\ \A q \in Query \ {s} : Searched(q)' = Searched(q)
        BY <2>3, <2>5, <2>6, <3>1, <4>1, <4>2 DEF Done
      <4>5. /\ \A q \in Query : IsFiniteSet(Searched(q))' /\ Cardinality(Searched(q)) \in Nat
            /\ Cardinality(Searched(s)') = Cardinality(Searched(s)) + 1
        <5>1. \A q \in Query : IsFiniteSet(Searched(q))
          BY DEF ReviewsInv, ReviewsOK
        <5>2. /\ IsFiniteSet(Searched(s) \cup {r})
              /\ Cardinality(Searched(s) \cup {r}) = Cardinality(Searched(s)) + 1
          BY <4>2, <4>4, <5>1, FS_AddElement
        <5>3. \A q \in Query : Cardinality(Searched(q)) \in Nat
          BY <5>1, FS_CardinalityType
        <5>4. \A q \in Query : IsFiniteSet(Searched(q)')
          BY <4>4, <5>1, <5>2
        <5> QED BY <4>4, <5>2, <5>3, <5>4
      <4>6. \A q \in Request :
              /\ At(q, "helpful")' => At(q, "helpful") /\ req'[q] = req[q]
              /\ At(q, "search")' => q # r /\ At(q, "search") /\ req'[q] = req[q]
              /\ At(q, "insert review")' => At(q, "insert review") /\ req'[q] = req[q]
        BY <2>1, <2>4, <4>1 DEF At
      <4>7. ASSUME NEW q \in DOMAIN searches' PROVE searches'[q] \in Nat \ {0}
        <5>1. CASE q = s
          BY <4>2, <4>3, <5>1
        <5>2. CASE q # s
          BY <4>3, <5>2 DEF ReviewsInv, ReviewsOK
        <5> QED BY <5>1, <5>2
      <4>8. \A q \in Request : req'[q].op.do \in {"helpful", "report"} => req'[q] = req[q]
        BY <2>1, <3>1, <4>1
      <4>9. ReviewsOK'
        BY <3>1, <4>4, <4>5, <4>6, <4>7, <4>8 DEF ReviewsInv, ReviewsOK
      <4>10. HelpfulCounted'
        BY <1>1, <3>1, <4>4, <4>6, HelpfulStays DEF ReviewsInv
      <4>11. \A q \in Query : Count(q)' = IF q = s THEN count + 1 ELSE Count(q)
        BY <4>3 DEF Count
      <4>12. Rivals({"search"}) => Rivals({"search"})'
        BY <1>1, RivalsStay
      <4>13. ASSUME NEW q \in Request, At(q, "search")' PROVE Rivals({"search"})'
        <5>1. q # r /\ Runs(q) /\ req[q].op.do = "search"
          BY <4>6, <4>13, KindAt
        <5> QED BY <3>1, <4>12, <5>1, RivalsRun
      <4> DEFINE n(q) == Cardinality(Searched(q))
      <4>14. \A q \in Query :
               /\ Count(q) <= n(q)
               /\ \A p \in Request : At(p, "search") /\ req[p].op.query = q
                                       => req[p].read.count \in Nat /\ req[p].read.count <= n(q)
               /\ \/ Rivals({"search"})
                  \/ Count(q) = n(q) /\ (q = s => count = n(q))
        BY <3>1 DEF ReviewsInv, SearchesCounted, ReviewsOK
      <4>15. n(s)' = n(s) + 1 /\ n(s) \in Nat /\ \A q \in Query \ {s} : n(q)' = n(q)
        BY <4>2, <4>4, <4>5
      <4> HIDE DEF n
      <4>16. ASSUME NEW q \in Query
             PROVE  /\ Count(q)' <= n(q)'
                    /\ \A p \in Request : At(p, "search")' /\ req'[p].op.query = q
                                            => req'[p].read.count <= n(q)'
                    /\ Rivals({"search"})' \/ Count(q)' = n(q)'
        <5>1. CASE q = s
          <6>1. count <= n(s)
            BY <3>1, <4>2, <4>14
          <6>2. Count(q)' = count + 1 /\ n(q)' = n(q) + 1 /\ n(q) \in Nat /\ count \in Nat
            BY <4>2, <4>11, <4>15, <5>1
          <6> HIDE DEF count
          <6>3. Count(q)' <= n(q)' /\ (count = n(q) => Count(q)' = n(q)')
            BY <5>1, <6>1, <6>2
          <6>4. ASSUME NEW p \in Request, At(p, "search")', req'[p].op.query = q
                PROVE  req'[p].read.count <= n(q)'
            <7>1. req'[p].read.count \in Nat /\ req'[p].read.count <= n(q)
              BY <4>6, <4>14, <6>4
            <7> QED BY <6>2, <7>1
          <6>5. Rivals({"search"}) \/ count = n(q)
            BY <4>14, <5>1
          <6> QED BY <4>12, <6>3, <6>4, <6>5
        <5>2. CASE q # s
          BY <4>6, <4>11, <4>12, <4>14, <4>15, <5>2
        <5> QED BY <5>1, <5>2
      <4>17. SearchesCounted'
        BY <4>13, <4>16 DEF SearchesCounted, n
      <4> QED BY <4>9, <4>10, <4>17 DEF ReviewsInv
    <3> QED BY <3>2, <3>3
  <2> QED BY <1>3, <2>9, <2>10, <2>11, <2>12, <2>13, <2>15, <2>16, <2>17, <2>18 DEF ReviewStep
<1> QED BY <1>1, <1>2, <1>3, ReviewsAside
\* What is counted, and what each who counts has read, whoever runs or dies.
THEOREM ReviewsHold == Spec => []ReviewsInv
<1> QED BY InitReviews, NextReviews, SessionsHold, PTL DEF Spec

\* For any number of requests: helpful marks and searches are never counted
\* more often than they were answered, and as often unless two ran at once; a
\* report stays, and a review is verified only of a product that was bought.
THEOREM CountsHold == Spec => []CountsAddUp
<1>1. ReviewsInv => CountsAddUp
  <2> SUFFICES ASSUME ReviewsInv PROVE CountsAddUp
    OBVIOUS
  <2>1. \A q \in Query :
          {r \in Answered("search") : req[r].op.query = q} = Searched(q)
    BY DEF Searched
  <2>2. \A q \in Query : /\ Count(q) <= Cardinality(Searched(q))
                         /\ Count(q) = Cardinality(Searched(q)) \/ Rivals({"search"})
    BY DEF ReviewsInv, SearchesCounted
  <2>3. /\ review.helpful <= Cardinality(Answered("helpful"))
        /\ review.helpful = Cardinality(Answered("helpful")) \/ Rivals({"helpful"})
    BY DEF ReviewsInv, HelpfulCounted
  <2>4. review.reported = (Answered("report") # {}) /\ (review.verified => bought)
    BY DEF ReviewsInv, ReviewsOK
  <2> QED BY <2>1, <2>2, <2>3, <2>4 DEF CountsAddUp, Count
<1> QED BY <1>1, ReviewsHold, PTL

=============================================================================
