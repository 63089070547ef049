------------------------------ MODULE Payments ------------------------------
(***************************************************************************)
(* Paying for orders and refunding them: payments.py, next to the staff's  *)
(* status changes of Fulfilment, which write the same orders.              *)
(*                                                                         *)
(* verify and the webhook are coroutines without an await between reading  *)
(* the payment and committing it: each worker's event loop runs one of     *)
(* them, or one status change, at a time.  Creating and refunding are      *)
(* plain functions on threads and interleave with everything.  No handler  *)
(* locks a row, and the ORM writes a column only if its value is not the   *)
(* one it read.                                                            *)
(*                                                                         *)
(* Razorpay is external and modelled from how the code uses it: a customer *)
(* may be declined and try again on one Razorpay order until it is         *)
(* captured, and the events of every try reach the webhook late, in any    *)
(* order and any number of times.                                          *)
(***************************************************************************)
EXTENDS Fulfilment, Naturals

CONSTANTS Attempt,         \* creation requests, each with the row it inserts
          RefundRequest,   \* refunds asked for; each is handled once
          Total            \* bound: the amount of a payment, in units a
                           \* partial refund is a number of

ASSUME AttemptNone == None \notin Attempt
ASSUME TotalAssumption == Total \in Nat \ {0}

VARIABLES
  opening,    \* Attempt -> what the create handler holds; keeps its order
  payment,    \* Attempt -> payments.status, "none" before the row exists
  loop,       \* Worker -> what verify or the webhook holds on its event loop
  refund,     \* RefundRequest -> what the refund handler holds
  captured,   \* Razorpay: attempts whose money it took
  answered,   \* Razorpay: attempts whose captured event was answered 200
  repaid      \* Razorpay: Attempt -> amount paid back

paymentRows == <<opening, payment>>
razorpay == <<captured, answered, repaid>>
paymentVars == <<paymentRows, loop, refund, razorpay>>
vars == <<fulfilmentVars, paymentVars>>

Idle == [pc |-> "idle", event |-> None, attempt |-> None, seen |-> "none"]
Asked(pc) == [pc |-> pc, attempt |-> None, amount |-> 0, seen |-> "pending"]

Init ==
  /\ FulfilmentInit
  /\ opening = [p \in Attempt |-> [pc |-> "new", order |-> None]]
  /\ payment = [p \in Attempt |-> "none"]
  /\ loop = [w \in Worker |-> Idle]
  /\ refund = [f \in RefundRequest |-> Asked("new")]
  /\ captured = {} /\ answered = {}
  /\ repaid = [p \in Attempt |-> 0]

PaymentsOf(o) == {p \in Attempt : payment[p] # "none" /\ opening[p].order = o}

-----------------------------------------------------------------------------
(* create_razorpay_order: two reads, the call to Razorpay, one commit.     *)

\* 400 "This order is not awaiting payment" otherwise.
CheckPending(p, o) ==
  /\ opening[p].pc = "new"
  /\ status[o] = "pending"
  /\ opening' = [opening EXCEPT ![p] = [pc |-> "pending", order |-> o]]
  /\ UNCHANGED <<fulfilmentVars, payment, loop, refund, razorpay>>

AlreadyPaid(o) == \E q \in PaymentsOf(o) : payment[q] = "paid"

CheckUnpaid(p) ==
  /\ opening[p].pc = "pending"
  /\ ~AlreadyPaid(opening[p].order)
  /\ opening' = [opening EXCEPT ![p].pc = "unpaid"]
  /\ UNCHANGED <<fulfilmentVars, payment, loop, refund, razorpay>>

\* 409 "This order has already been paid".
RefusePaid(p) ==
  /\ opening[p].pc = "pending"
  /\ AlreadyPaid(opening[p].order)
  /\ opening' = [opening EXCEPT ![p].pc = "refused"]
  /\ UNCHANGED <<fulfilmentVars, payment, loop, refund, razorpay>>

\* Razorpay's order and the row that names it.
InsertPayment(p) ==
  /\ opening[p].pc = "unpaid"
  /\ opening' = [opening EXCEPT ![p].pc = "done"]
  /\ payment' = [payment EXCEPT ![p] = "created"]
  /\ UNCHANGED <<fulfilmentVars, loop, refund, razorpay>>

\* The call fails or the worker dies, perhaps after Razorpay made its order:
\* nobody was told of it and nobody can pay it.
LoseOpening(p) ==
  /\ opening[p].pc \in {"pending", "unpaid"}
  /\ opening' = [opening EXCEPT ![p].pc = "failed"]
  /\ UNCHANGED <<fulfilmentVars, payment, loop, refund, razorpay>>

-----------------------------------------------------------------------------
(* Razorpay's side of an attempt.                                          *)

Capture(p) ==
  /\ payment[p] # "none"
  /\ p \notin captured
  /\ captured' = captured \cup {p}
  /\ UNCHANGED <<fulfilmentVars, paymentRows, loop, refund, answered, repaid>>

-----------------------------------------------------------------------------
(* verify_razorpay_payment and razorpay_webhook.  "captured" is the        *)
(* webhook's payment.captured, "verified" the browser's callback with a    *)
(* valid signature, "failed" the webhook's payment.failed, from any        *)
(* declined try, and a callback whose signature is not valid.              *)

Event == {"captured", "verified", "failed"}

\* The status an event makes of the payment, whatever it was.
BugOnlyFromCreated(e, seen) ==
  IF seen # "created" THEN seen ELSE IF e = "failed" THEN "failed" ELSE "paid"
NewStatus(e, seen) == IF e = "failed" THEN "failed" ELSE "paid"

\* The row exists, and a signature is valid only if Razorpay made it.
BugUnsigned(e, p) == payment[p] # "none"
Genuine(e, p) == payment[p] # "none" /\ (e # "failed" => p \in captured)

LoopIdle(w) == LoopFree(w) /\ loop[w].pc = "idle"

LoadEvent(w, e, p) ==
  /\ LoopIdle(w)
  /\ Genuine(e, p)
  /\ loop' = [loop EXCEPT ![w] = [pc |-> "loaded", event |-> e, attempt |-> p,
                                  seen |-> payment[p]]]
  /\ UNCHANGED <<fulfilmentVars, paymentRows, refund, razorpay>>

CommitEvent(w) ==
  LET h == loop[w]
      new == NewStatus(h.event, h.seen)
  IN  /\ h.pc = "loaded"
      /\ payment' = IF new = h.seen THEN payment ELSE [payment EXCEPT ![h.attempt] = new]
      /\ answered' = IF h.event = "captured" THEN answered \cup {h.attempt} ELSE answered
      /\ loop' = [loop EXCEPT ![w] = Idle]
      /\ UNCHANGED <<fulfilmentVars, opening, refund, captured, repaid>>

\* The worker or its connection dies before the commit.
LoseEvent(w) ==
  /\ loop[w].pc = "loaded"
  /\ loop' = [loop EXCEPT ![w] = Idle]
  /\ UNCHANGED <<fulfilmentVars, paymentRows, refund, razorpay>>

-----------------------------------------------------------------------------
(* refund_payment.                                                         *)

\* refund_amount > payment.amount, negated.
BugAnyAmount(amount) == TRUE
WithinPayment(amount) == amount <= Total

\* 404 "No paid payment found" or 400 otherwise.
LoadPayment(f, p, amount) ==
  /\ refund[f].pc = "new"
  /\ payment[p] = "paid"
  /\ WithinPayment(amount)
  /\ refund' = [refund EXCEPT ![f] = [pc |-> "loaded", attempt |-> p, amount |-> amount,
                                      seen |-> "pending"]]
  /\ UNCHANGED <<fulfilmentVars, paymentRows, loop, razorpay>>

\* Razorpay pays back no more than it took; then the order is read.
RefundAtRazorpay(f) ==
  LET p == refund[f].attempt
  IN  /\ refund[f].pc = "loaded"
      /\ p \in captured
      /\ repaid[p] + refund[f].amount <= Total
      /\ repaid' = [repaid EXCEPT ![p] = @ + refund[f].amount]
      /\ refund' = [refund EXCEPT ![f].pc = "repaid", ![f].seen = status[opening[p].order]]
      /\ UNCHANGED <<fulfilmentVars, paymentRows, loop, captured, answered>>

\* Payment and order in one commit, whatever the order's status is.
RefundCommitted(f) ==
  LET p == refund[f].attempt
  IN  /\ payment' = [payment EXCEPT ![p] = "refunded"]
      /\ IF refund[f].seen = "refunded" THEN UNCHANGED <<status, reached>>
                                        ELSE WriteStatus(opening[p].order, "refunded")
      /\ refund' = [refund EXCEPT ![f] = Asked("done")]
      /\ UNCHANGED <<change, opening, loop, razorpay>>

BugCommitFirst(f) == refund[f].pc = "loaded" /\ RefundCommitted(f)
CommitRefund(f) == refund[f].pc = "repaid" /\ RefundCommitted(f)

\* Razorpay refuses, or the worker dies, perhaps after the money went back.
LoseRefund(f) ==
  /\ refund[f].pc \in {"loaded", "repaid"}
  /\ refund' = [refund EXCEPT ![f] = Asked("failed")]
  /\ UNCHANGED <<fulfilmentVars, paymentRows, loop, razorpay>>

-----------------------------------------------------------------------------
StaffStep ==
  /\ \E q \in StatusRequest :
       \/ \E w \in Worker, o \in Order, to \in Status : LoopIdle(w) /\ LoadOrder(q, w, o, to)
       \/ CommitStatus(q)
       \/ LoseRequest(q)
  /\ UNCHANGED paymentVars

OpeningStep(p) ==
  \/ \E o \in Order : CheckPending(p, o)
  \/ CheckUnpaid(p) \/ RefusePaid(p) \/ InsertPayment(p) \/ LoseOpening(p)

EventStep(w) ==
  \/ \E e \in Event, p \in Attempt : LoadEvent(w, e, p)
  \/ CommitEvent(w) \/ LoseEvent(w)

RefundStep(f) ==
  \/ \E p \in Attempt, amount \in 1 .. Total + 1 : LoadPayment(f, p, amount)
  \/ RefundAtRazorpay(f) \/ CommitRefund(f) \/ LoseRefund(f)

Next ==
  \/ StaffStep
  \/ \E p \in Attempt : OpeningStep(p) \/ Capture(p)
  \/ \E w \in Worker : EventStep(w)
  \/ \E f \in RefundRequest : RefundStep(f)

Spec == Init /\ [][Next]_vars

\* Razorpay repeats a captured event until it is answered; a busy event loop
\* gets to it, and not every repetition meets a crash.
DeliverCaptured(p) == p \notin answered /\ \E w \in Worker : LoadEvent(w, "captured", p)
AnswerCaptured(p) ==
  \E w \in Worker : loop[w].event = "captured" /\ loop[w].attempt = p /\ CommitEvent(w)

\* A coroutine that has read its row runs on, and so does a status change.
LoopsRun ==
  /\ \A w \in Worker : WF_vars(CommitEvent(w) \/ LoseEvent(w))
  /\ \A q \in StatusRequest :
       WF_vars((CommitStatus(q) \/ LoseRequest(q)) /\ UNCHANGED paymentVars)

FairSpec ==
  /\ Spec
  /\ LoopsRun
  /\ \A p \in Attempt : SF_vars(DeliverCaptured(p)) /\ SF_vars(AnswerCaptured(p))

-----------------------------------------------------------------------------
(* Properties.                                                             *)

PaymentStatus == {"none", "created", "paid", "failed", "refunded"}
Opening == [pc : {"new", "pending", "unpaid", "done", "refused", "failed"},
            order : Order \cup {None}]
Handler == [pc : {"idle", "loaded"}, event : Event \cup {None},
            attempt : Attempt \cup {None}, seen : PaymentStatus]
Refund == [pc : {"new", "loaded", "repaid", "done", "failed"},
           attempt : Attempt \cup {None}, amount : 0 .. Total, seen : Status]

\* Rows and handlers have the values their columns allow, and no payment is
\* ever paid back more than its amount.
PaymentsTypeOK ==
  /\ FulfilmentTypeOK
  /\ opening \in [Attempt -> Opening]
  /\ payment \in [Attempt -> PaymentStatus]
  /\ loop \in [Worker -> Handler]
  /\ refund \in [RefundRequest -> Refund]
  /\ captured \subseteq Attempt /\ answered \subseteq captured
  /\ repaid \in [Attempt -> 0 .. Total]
  /\ \A p \in Attempt : payment[p] # "none" => opening[p].pc = "done"
  /\ \A p \in Attempt : opening[p].pc \in {"pending", "unpaid", "done"} => opening[p].order \in Order
  /\ \A w \in Worker : loop[w].pc = "loaded" =>
       loop[w].event \in Event /\ loop[w].attempt \in Attempt
  /\ \A f \in RefundRequest : refund[f].pc \in {"loaded", "repaid"} => refund[f].attempt \in Attempt

\* A payment is PAID or REFUNDED only if Razorpay took the money
\* (payments.py 30-33): true through every race of verify, webhook and
\* refund, each of which may write a status it did not see.
PaidMeansCaptured == \A p \in Attempt : payment[p] \in {"paid", "refunded"} => p \in captured

\* Money goes back only for a payment that was captured, and a payment is
\* REFUNDED only after money went back (payments.py 247-249): a crash
\* between the two leaves it PAID, never REFUNDED and not repaid.
RefundsAreReal ==
  \A p \in Attempt :
    /\ payment[p] = "refunded" => repaid[p] > 0
    /\ repaid[p] > 0 => p \in captured

\* An order that became refunded without having been returned, which staff
\* cannot do (admin_orders.py 36), did so by a refund of one of its own
\* payments (payments.py 247-252).
EarlyRefundsPaidBack ==
  \A o \in Order : "refunded" \in reached[o] /\ "returned" \notin reached[o] =>
    \E p \in PaymentsOf(o) : repaid[p] > 0

\* Even if the browser is closed right after paying, a captured payment is
\* recorded as paid by the webhook (payments.py 35-41), however many declined
\* tries, lost deliveries and stale writes come first.
CaptureIsRecorded ==
  \A p \in Attempt : <>(p \in captured) => <>(payment[p] \in {"paid", "refunded"})

\* "Idempotent by design: webhooks can and do arrive more than once for the
\* same event" (payments.py 194-195): a captured event that was answered
\* before leaves a payment PAID or REFUNDED as it is.
WebhookIdempotent ==
  [][\A w \in Worker :
       LET p == loop[w].attempt
       IN  /\ loop[w].event = "captured" /\ loop'[w].pc = "idle"
           /\ p \in answered /\ payment[p] \in {"paid", "refunded"}
           => payment' = payment]_vars

\* The webhook "saves you from marking that order as unpaid forever"
\* (payments.py 41): at no time does a captured payment stay unrecorded for
\* good, by a late event of a declined try say.
NotUnpaidForever == \A p \in Attempt : p \in captured ~> payment[p] \in {"paid", "refunded"}
=============================================================================
