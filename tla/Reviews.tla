------------------------------- MODULE Reviews -------------------------------
(***************************************************************************)
(* Reviews of a product by one user (api/v1/reviews.py) and the log of     *)
(* searches (api/v1/search.py): rows that are looked up and then inserted, *)
(* and two counters that are read, increased in memory and written back.   *)
(***************************************************************************)
EXTENDS Sessions

CONSTANT Query  \* normalized search texts

VARIABLES
  bought,   \* whether the user has an order with the product
  review,   \* the user's review, once there is one
  searches  \* search_count by query text

reviewVars == <<bought, review, searches>>

NoReview == [exists |-> FALSE, verified |-> FALSE, helpful |-> 0, reported |-> FALSE]

ReviewsInit ==
  /\ bought = FALSE
  /\ review = NoReview
  /\ searches = <<>>

\* A checkout commits an order with the product.
Buy == ~ bought /\ bought' = TRUE /\ UNCHANGED <<review, searches>>

\* Nobody looks whether the product in the path exists.
CreateReview(r) ==
  \E product \in {"p0", "gone"} :
    LET op == [do |-> "review", product |-> product] IN
      IF product = "p0" /\ review.exists THEN RefuseAtOnce(r, op)
      ELSE Begin(r, op, "purchase", <<>>)

CheckPurchase(r) ==
  /\ At(r, "purchase")
  /\ Proceed(r, "insert review", [verified |-> bought /\ req[r].op.product = "p0"])
  /\ UNCHANGED reviewVars

InsertReview(r) ==
  /\ At(r, "insert review")
  /\ IF req[r].op.product = "gone" \/ review.exists
     THEN Answer(r, "conflict") /\ UNCHANGED review
     ELSE /\ Answer(r, "ok")
          /\ review' = [NoReview EXCEPT !.exists = TRUE, !.verified = req[r].read.verified]
  /\ UNCHANGED <<bought, searches>>

MarkHelpful(r) ==
  LET op == [do |-> "helpful"] IN
    IF ~ review.exists THEN RefuseAtOnce(r, op)
    ELSE Begin(r, op, "helpful", [count |-> review.helpful])

WriteHelpful(r) ==
  /\ At(r, "helpful")
  /\ review' = [review EXCEPT !.helpful = req[r].read.count + 1]
  /\ Answer(r, "ok")
  /\ UNCHANGED <<bought, searches>>

ReportReview(r) ==
  LET op == [do |-> "report"] IN
    IF ~ review.exists THEN RefuseAtOnce(r, op) ELSE Begin(r, op, "report", <<>>)

WriteReport(r) ==
  /\ At(r, "report")
  /\ review' = [review EXCEPT !.reported = TRUE]
  /\ Answer(r, "ok")
  /\ UNCHANGED <<bought, searches>>

LogSearch(r) ==
  \E q \in Query :
    Begin(r, [do |-> "search", query |-> q], "search",
          [count |-> IF q \in DOMAIN searches THEN searches[q] ELSE 0])

\* A new row has search_count 1.
WriteSearch(r) ==
  /\ At(r, "search")
  /\ LET q == req[r].op.query
         legal == req[r].read.count = 0 => q \notin DOMAIN searches IN
       /\ Answer(r, CommitAnswer(TRUE, legal))
       /\ searches' = IF legal THEN With(searches, q, req[r].read.count + 1) ELSE searches
  /\ UNCHANGED <<bought, review>>

ReviewStep(r) ==
  \/ (CreateReview(r) \/ MarkHelpful(r) \/ ReportReview(r) \/ LogSearch(r)) /\ UNCHANGED reviewVars
  \/ CheckPurchase(r) \/ InsertReview(r) \/ WriteHelpful(r) \/ WriteReport(r) \/ WriteSearch(r)
=============================================================================
