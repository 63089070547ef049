--------------------------- MODULE PaymentsProofs ---------------------------
(***************************************************************************)
(* Payments for any number of orders, attempts, workers and refunds: what  *)
(* the rows say of money is what Razorpay did with it.                     *)
(*                                                                         *)
(* No handler locks a row, so the invariant is about what the handlers     *)
(* hold: an open event is one Razorpay made and a refund past its check    *)
(* holds a captured payment.  Both are facts about Razorpay, which never   *)
(* takes a capture or a repayment back, so no interleaving makes them      *)
(* false, and a status written from a stale read is still a true one.      *)
(***************************************************************************)
EXTENDS Payments, FulfilmentProofs

\* What the handlers of payments.py hold between their statements.
HandlersKnow ==
  /\ \A p \in captured : payment[p] # "none"
  /\ \A w \in Worker : loop[w].pc = "loaded" =>
       /\ payment[loop[w].attempt] # "none"
       /\ loop[w].event # "failed" => loop[w].attempt \in captured
  /\ \A f \in RefundRequest :
       /\ refund[f].pc \in {"loaded", "repaid"} =>
            refund[f].attempt \in captured /\ refund[f].amount > 0
       /\ refund[f].pc = "repaid" => repaid[refund[f].attempt] > 0

PInv ==
  /\ PaymentsTypeOK /\ OpenChangesValid
  /\ HandlersKnow
  /\ PaidMeansCaptured /\ RefundsAreReal /\ EarlyRefundsPaidBack

LEMMA IdleType ==
  /\ Idle \in Handler /\ Idle.pc = "idle"
  /\ \A pc \in {"new", "done", "failed"} : Asked(pc) \in Refund /\ Asked(pc).pc = pc
  BY ForwardType, TotalAssumption DEF Idle, Asked, Handler, Refund, PaymentStatus

LEMMA PInit == Init => PInv
  <1> SUFFICES ASSUME Init PROVE PInv
    OBVIOUS
  <1>1. StaffInv
    BY StaffInit DEF Init
  <1>2. PaymentsTypeOK
    BY <1>1, IdleType, TotalAssumption
    DEF Init, StaffInv, PaymentsTypeOK, Opening, PaymentStatus
  <1>3. HandlersKnow /\ PaidMeansCaptured /\ RefundsAreReal /\ EarlyRefundsPaidBack
    BY IdleType DEF Init, FulfilmentInit, HandlersKnow, PaidMeansCaptured, RefundsAreReal,
                    EarlyRefundsPaidBack
  <1> QED
    BY <1>1, <1>2, <1>3 DEF PInv, StaffInv

\* Steps that leave the orders alone keep what Fulfilment knows of them.
LEMMA OrdersKept ==
  ASSUME PInv, UNCHANGED fulfilmentVars
  PROVE  FulfilmentTypeOK' /\ OpenChangesValid'
  BY DEF PInv, PaymentsTypeOK, fulfilmentVars, FulfilmentTypeOK, OpenChangesValid

LEMMA OpeningKeeps ==
  ASSUME PInv, NEW p \in Attempt, OpeningStep(p)
  PROVE  PInv'
  <1>1. FulfilmentTypeOK' /\ OpenChangesValid'
    BY OrdersKept DEF OpeningStep, CheckPending, CheckUnpaid, RefusePaid, InsertPayment, LoseOpening
  <1>2. UNCHANGED <<fulfilmentVars, loop, refund, captured, answered, repaid>>
    BY DEF OpeningStep, CheckPending, CheckUnpaid, RefusePaid, InsertPayment, LoseOpening, razorpay
  <1>3. opening[p].pc # "done" /\ payment[p] = "none"
    BY DEF PInv, PaymentsTypeOK, OpeningStep, CheckPending, CheckUnpaid, RefusePaid, InsertPayment, LoseOpening
  <1>4. /\ payment' \in [Attempt -> PaymentStatus]
        /\ \A q \in Attempt \ {p} : payment'[q] = payment[q] /\ opening'[q] = opening[q]
        /\ payment'[p] \in {"none", "created"}
    BY <1>3 DEF PInv, PaymentsTypeOK, PaymentStatus, OpeningStep, CheckPending, CheckUnpaid, RefusePaid,
                InsertPayment, LoseOpening
  <1>5. /\ opening' \in [Attempt -> Opening]
        /\ (opening'[p].pc \in {"pending", "unpaid", "done"} => opening'[p].order \in Order)
        /\ (payment'[p] # "none" => opening'[p].pc = "done")
    BY <1>3 DEF PInv, PaymentsTypeOK, Opening, OpeningStep, CheckPending, CheckUnpaid, RefusePaid,
                InsertPayment, LoseOpening
  <1>6. PaymentsTypeOK'
    BY <1>1, <1>2, <1>4, <1>5 DEF PInv, PaymentsTypeOK, PaymentStatus
  <1>7. HandlersKnow'
    BY <1>2, <1>3, <1>4 DEF PInv, PaymentsTypeOK, HandlersKnow
  <1>8. \A q \in Attempt : payment'[q] \in {"paid", "refunded"} => payment'[q] = payment[q]
    BY <1>4
  <1>9. PaidMeansCaptured' /\ RefundsAreReal'
    BY <1>2, <1>8 DEF PInv, PaidMeansCaptured, RefundsAreReal
  <1>10. EarlyRefundsPaidBack'
    BY <1>2, <1>3, <1>4 DEF PInv, EarlyRefundsPaidBack, PaymentsOf, fulfilmentVars
  <1> QED
    BY <1>1, <1>6, <1>7, <1>9, <1>10 DEF PInv

LEMMA CaptureKeeps ==
  ASSUME PInv, NEW p \in Attempt, Capture(p)
  PROVE  PInv'
  <1>1. FulfilmentTypeOK' /\ OpenChangesValid'
    BY OrdersKept DEF Capture
  <1>2. PaymentsTypeOK'
    BY <1>1 DEF Capture, paymentRows, PInv, PaymentsTypeOK
  <1>3. HandlersKnow' /\ PaidMeansCaptured' /\ RefundsAreReal'
    BY DEF Capture, paymentRows, PInv, PaymentsTypeOK, HandlersKnow, PaidMeansCaptured,
           RefundsAreReal
  <1>4. EarlyRefundsPaidBack'
    BY DEF Capture, paymentRows, fulfilmentVars, PInv, EarlyRefundsPaidBack, PaymentsOf
  <1> QED
    BY <1>1, <1>2, <1>3, <1>4 DEF PInv

LEMMA LoadEventKeeps ==
  ASSUME PInv, NEW w \in Worker, NEW e \in Event, NEW p \in Attempt, LoadEvent(w, e, p)
  PROVE  PInv'
  <1> DEFINE h == [pc |-> "loaded", event |-> e, attempt |-> p, seen |-> payment[p]]
  <1>1. FulfilmentTypeOK' /\ OpenChangesValid'
    BY OrdersKept DEF LoadEvent
  <1>2. /\ loop' = [loop EXCEPT ![w] = h] /\ h \in Handler
        /\ UNCHANGED <<fulfilmentVars, opening, payment, refund, captured, answered, repaid>>
    BY DEF LoadEvent, paymentRows, razorpay, PInv, PaymentsTypeOK, Handler
  <1>3. PaymentsTypeOK'
    BY <1>1, <1>2 DEF PInv, PaymentsTypeOK
  <1>4. HandlersKnow'
    BY <1>2 DEF LoadEvent, Genuine, PInv, PaymentsTypeOK, HandlersKnow
  <1>5. PaidMeansCaptured' /\ RefundsAreReal'
    BY <1>2 DEF PInv, PaidMeansCaptured, RefundsAreReal
  <1>6. EarlyRefundsPaidBack'
    BY <1>2 DEF fulfilmentVars, PInv, EarlyRefundsPaidBack, PaymentsOf
  <1> QED
    BY <1>1, <1>3, <1>4, <1>5, <1>6 DEF PInv

\* A status is written over whatever is there, but only for an attempt that
\* has a row, and PAID only for a captured one.
LEMMA CommitEventKeeps ==
  ASSUME PInv, NEW w \in Worker, CommitEvent(w)
  PROVE  PInv'
  <1> DEFINE p == loop[w].attempt
  <1>1. FulfilmentTypeOK' /\ OpenChangesValid'
    BY OrdersKept DEF CommitEvent
  <1>2. /\ p \in Attempt /\ payment[p] # "none"
        /\ loop[w].event # "failed" => p \in captured
    BY DEF CommitEvent, PInv, PaymentsTypeOK, HandlersKnow
  <1>3. /\ loop' = [loop EXCEPT ![w] = Idle] /\ answered' \subseteq captured
        /\ UNCHANGED <<fulfilmentVars, opening, refund, captured, repaid>>
    BY <1>2 DEF CommitEvent, PInv, PaymentsTypeOK
  <1> DEFINE new == NewStatus(loop[w].event, loop[w].seen)
  <1>4. new \in {"paid", "failed"} /\ (new = "paid" => p \in captured)
    BY <1>2 DEF NewStatus
  <1>5. payment' = payment \/ payment' = [payment EXCEPT ![p] = new]
    BY DEF CommitEvent
  <1>6. payment' \in [Attempt -> PaymentStatus]
    BY <1>4, <1>5 DEF PInv, PaymentsTypeOK, PaymentStatus
  <1>7. \A q \in Attempt : payment'[q] # payment[q] => q = p /\ payment'[q] = new
    BY <1>2, <1>5 DEF PInv, PaymentsTypeOK
  <1>8. PaymentsTypeOK'
    BY <1>1, <1>2, <1>3, <1>6, <1>7, IdleType DEF PInv, PaymentsTypeOK
  <1>9. HandlersKnow'
    BY <1>2, <1>3, <1>4, <1>7, IdleType DEF PInv, PaymentsTypeOK, HandlersKnow
  <1>10. PaidMeansCaptured' /\ RefundsAreReal'
    BY <1>3, <1>4, <1>7 DEF PInv, PaidMeansCaptured, RefundsAreReal
  <1>11. EarlyRefundsPaidBack'
    BY <1>2, <1>3, <1>4, <1>7 DEF fulfilmentVars, PInv, EarlyRefundsPaidBack, PaymentsOf
  <1> QED
    BY <1>1, <1>8, <1>9, <1>10, <1>11 DEF PInv

LEMMA LoseEventKeeps ==
  ASSUME PInv, NEW w \in Worker, LoseEvent(w)
  PROVE  PInv'
  <1>1. FulfilmentTypeOK' /\ OpenChangesValid'
    BY OrdersKept DEF LoseEvent
  <1>2. /\ loop' = [loop EXCEPT ![w] = Idle]
        /\ UNCHANGED <<fulfilmentVars, opening, payment, refund, captured, answered, repaid>>
    BY DEF LoseEvent, paymentRows, razorpay
  <1>3. PaymentsTypeOK' /\ HandlersKnow'
    BY <1>1, <1>2, IdleType DEF PInv, PaymentsTypeOK, HandlersKnow
  <1>4. PaidMeansCaptured' /\ RefundsAreReal' /\ EarlyRefundsPaidBack'
    BY <1>2 DEF fulfilmentVars, PInv, PaidMeansCaptured, RefundsAreReal, EarlyRefundsPaidBack,
                PaymentsOf
  <1> QED
    BY <1>1, <1>3, <1>4 DEF PInv

LEMMA LoadPaymentKeeps ==
  ASSUME PInv, NEW f \in RefundRequest, NEW p \in Attempt, NEW amount \in 1 .. Total + 1,
         LoadPayment(f, p, amount)
  PROVE  PInv'
  <1> DEFINE r == [pc |-> "loaded", attempt |-> p, amount |-> amount, seen |-> "pending"]
  <1>1. FulfilmentTypeOK' /\ OpenChangesValid'
    BY OrdersKept DEF LoadPayment
  <1>2. amount \in 1 .. Total /\ p \in captured /\ payment[p] # "none"
    BY TotalAssumption DEF LoadPayment, WithinPayment, PInv, PaidMeansCaptured
  <1>3. r \in Refund
    BY <1>2, ForwardType, TotalAssumption DEF Refund
  <1>4. /\ refund' = [refund EXCEPT ![f] = r]
        /\ UNCHANGED <<fulfilmentVars, opening, payment, loop, captured, answered, repaid>>
    BY DEF LoadPayment, paymentRows, razorpay
  <1>5. PaymentsTypeOK'
    BY <1>1, <1>3, <1>4 DEF PInv, PaymentsTypeOK
  <1>6. HandlersKnow'
    BY <1>2, <1>4 DEF PInv, PaymentsTypeOK, HandlersKnow
  <1>7. PaidMeansCaptured' /\ RefundsAreReal' /\ EarlyRefundsPaidBack'
    BY <1>4 DEF fulfilmentVars, PInv, PaidMeansCaptured, RefundsAreReal, EarlyRefundsPaidBack,
                PaymentsOf
  <1> QED
    BY <1>1, <1>5, <1>6, <1>7 DEF PInv

LEMMA RefundAtRazorpayKeeps ==
  ASSUME PInv, NEW f \in RefundRequest, RefundAtRazorpay(f)
  PROVE  PInv'
  <1> DEFINE p == refund[f].attempt
             s == status[opening[p].order]
             r == [refund[f] EXCEPT !.pc = "repaid", !.seen = s]
  <1>1. FulfilmentTypeOK' /\ OpenChangesValid'
    BY OrdersKept DEF RefundAtRazorpay
  <1>2. /\ p \in captured /\ p \in Attempt /\ payment[p] # "none" /\ refund[f].amount > 0
        /\ repaid[p] \in 0 .. Total /\ refund[f] \in Refund /\ s \in Status
    BY DEF RefundAtRazorpay, PInv, PaymentsTypeOK, HandlersKnow, FulfilmentTypeOK
  <1>3. repaid[p] + refund[f].amount \in 1 .. Total
    BY <1>2, TotalAssumption DEF RefundAtRazorpay, Refund
  <1>4. r \in Refund /\ r.pc = "repaid" /\ r.attempt = p /\ r.amount = refund[f].amount
    BY <1>2 DEF Refund
  <1>5. /\ refund' = [refund EXCEPT ![f] = r]
        /\ repaid' = [repaid EXCEPT ![p] = repaid[p] + refund[f].amount]
        /\ UNCHANGED <<fulfilmentVars, opening, payment, loop, captured, answered>>
    BY DEF RefundAtRazorpay, paymentRows, PInv, PaymentsTypeOK
  <1>6. /\ repaid' \in [Attempt -> 0 .. Total] /\ repaid'[p] > 0
        /\ \A q \in Attempt : repaid[q] > 0 => repaid'[q] > 0
        /\ \A q \in Attempt : repaid'[q] > 0 => repaid[q] > 0 \/ q = p
    BY <1>2, <1>3, <1>5, TotalAssumption DEF PInv, PaymentsTypeOK
  <1>7. PaymentsTypeOK'
    BY <1>1, <1>2, <1>4, <1>5, <1>6 DEF PInv, PaymentsTypeOK
  <1>8. HandlersKnow'
    BY <1>2, <1>4, <1>5, <1>6 DEF PInv, PaymentsTypeOK, HandlersKnow
  <1>9. PaidMeansCaptured' /\ RefundsAreReal'
    BY <1>2, <1>5, <1>6 DEF PInv, PaidMeansCaptured, RefundsAreReal
  <1>10. EarlyRefundsPaidBack'
    BY <1>5, <1>6 DEF fulfilmentVars, PInv, EarlyRefundsPaidBack, PaymentsOf
  <1> QED
    BY <1>1, <1>7, <1>8, <1>9, <1>10 DEF PInv

LEMMA CommitRefundKeeps ==
  ASSUME PInv, NEW f \in RefundRequest, CommitRefund(f)
  PROVE  PInv'
  <1> DEFINE p == refund[f].attempt
             o == opening[p].order
  <1>1. /\ p \in captured /\ p \in Attempt /\ payment[p] # "none" /\ repaid[p] > 0
        /\ o \in Order
    BY DEF CommitRefund, PInv, PaymentsTypeOK, HandlersKnow
  <1>2. /\ payment' = [payment EXCEPT ![p] = "refunded"]
        /\ refund' = [refund EXCEPT ![f] = Asked("done")]
        /\ UNCHANGED <<change, opening, loop, captured, answered, repaid>>
    BY DEF CommitRefund, RefundCommitted, razorpay
  <1>3. UNCHANGED <<status, reached>> \/ WriteStatus(o, "refunded")
    BY DEF CommitRefund, RefundCommitted
  <1>4. "refunded" \in Status
    BY DEF Status, Lifecycle!Status
  <1>5. FulfilmentTypeOK' /\ OpenChangesValid'
    <2>1. CASE UNCHANGED <<status, reached>>
      BY <1>2, <2>1, OrdersKept DEF fulfilmentVars
    <2>2. CASE WriteStatus(o, "refunded")
      BY <1>1, <1>2, <1>4, <2>2, WriteKeeps DEF PInv, PaymentsTypeOK, StaffInv
    <2> QED
      BY <1>3, <2>1, <2>2
  <1>6. PaymentsTypeOK'
    BY <1>1, <1>2, <1>5, IdleType DEF PInv, PaymentsTypeOK, PaymentStatus
  <1>7. HandlersKnow'
    BY <1>1, <1>2, IdleType DEF PInv, PaymentsTypeOK, HandlersKnow
  <1>8. PaidMeansCaptured' /\ RefundsAreReal'
    BY <1>1, <1>2 DEF PInv, PaymentsTypeOK, PaidMeansCaptured, RefundsAreReal
  <1>9. EarlyRefundsPaidBack'
    <2>1. \A q \in Attempt : payment[q] # "none" => payment'[q] # "none"
      BY <1>2 DEF PInv, PaymentsTypeOK
    <2>2. \A x \in Order : x = o => p \in PaymentsOf(x)'
      BY <1>1, <1>2, <2>1 DEF PaymentsOf
    <2>3. \A x \in Order : \/ reached'[x] = reached[x]
                           \/ x = o /\ reached'[x] = reached[x] \cup {"refunded"}
      BY <1>1, <1>3 DEF WriteStatus, PInv, PaymentsTypeOK, FulfilmentTypeOK
    <2> QED
      BY <1>1, <1>2, <2>1, <2>2, <2>3 DEF PInv, EarlyRefundsPaidBack, PaymentsOf
  <1> QED
    BY <1>5, <1>6, <1>7, <1>8, <1>9 DEF PInv

LEMMA LoseRefundKeeps ==
  ASSUME PInv, NEW f \in RefundRequest, LoseRefund(f)
  PROVE  PInv'
  <1>1. FulfilmentTypeOK' /\ OpenChangesValid'
    BY OrdersKept DEF LoseRefund
  <1>2. /\ refund' = [refund EXCEPT ![f] = Asked("failed")]
        /\ UNCHANGED <<fulfilmentVars, opening, payment, loop, captured, answered, repaid>>
    BY DEF LoseRefund, paymentRows, razorpay
  <1>3. PaymentsTypeOK' /\ HandlersKnow'
    BY <1>1, <1>2, IdleType DEF PInv, PaymentsTypeOK, HandlersKnow
  <1>4. PaidMeansCaptured' /\ RefundsAreReal' /\ EarlyRefundsPaidBack'
    BY <1>2 DEF fulfilmentVars, PInv, PaidMeansCaptured, RefundsAreReal, EarlyRefundsPaidBack,
                PaymentsOf
  <1> QED
    BY <1>1, <1>3, <1>4 DEF PInv

\* Staff reach "refunded" only from "returned".
LEMMA OnlyFromReturned == \A s \in Status : "refunded" \in Forward[s] => s = "returned"
  BY DEF Status, Forward, Lifecycle!Status, Lifecycle!Forward

LEMMA StaffStepKeeps ==
  ASSUME PInv, StaffStep
  PROVE  PInv'
  <1>1. FulfilmentStep /\ UNCHANGED paymentVars
    BY DEF StaffStep, FulfilmentStep
  <1>2. UNCHANGED <<opening, payment, loop, refund, captured, answered, repaid>>
    BY <1>1 DEF paymentVars, paymentRows, razorpay
  <1>3. StaffInv /\ StaffInv'
    BY <1>1, StaffKeeps DEF PInv, PaymentsTypeOK, StaffInv
  <1>4. PaymentsTypeOK' /\ HandlersKnow' /\ PaidMeansCaptured' /\ RefundsAreReal'
    BY <1>2, <1>3 DEF StaffInv, PInv, PaymentsTypeOK, HandlersKnow, PaidMeansCaptured,
                      RefundsAreReal
  <1>5. EarlyRefundsPaidBack'
    <2>1. ASSUME NEW q \in StatusRequest, CommitStatus(q) PROVE EarlyRefundsPaidBack'
      <3>1. PICK o \in Order, s \in Status :
              /\ \E p \in reached[o] : s \in Forward[p]
              /\ reached' = [reached EXCEPT ![o] = reached[o] \cup {s}]
        BY <1>3, <2>1, CommitWrites
      <3>2. s = "refunded" => "returned" \in reached[o]
        BY <1>3, <3>1, OnlyFromReturned DEF StaffInv, FulfilmentTypeOK
      <3> QED
        BY <1>2, <1>3, <3>1, <3>2
        DEF StaffInv, FulfilmentTypeOK, PInv, EarlyRefundsPaidBack, PaymentsOf
    <2>2. CASE UNCHANGED reached
      BY <1>2, <2>2 DEF PInv, EarlyRefundsPaidBack, PaymentsOf
    <2> QED
      BY <1>1, <2>1, <2>2 DEF FulfilmentStep, LoadOrder, LoseRequest
  <1> QED
    BY <1>3, <1>4, <1>5 DEF StaffInv, PInv

LEMMA PNext == PInv /\ [Next]_vars => PInv'
  <1> SUFFICES ASSUME PInv, [Next]_vars PROVE PInv'
    OBVIOUS
  <1>1. CASE UNCHANGED vars
    <2>1. FulfilmentTypeOK' /\ OpenChangesValid'
      BY <1>1, OrdersKept DEF vars
    <2> QED
      BY <1>1, <2>1 DEF vars, paymentVars, paymentRows, razorpay, fulfilmentVars, PInv,
                        PaymentsTypeOK, HandlersKnow, PaidMeansCaptured, RefundsAreReal,
                        EarlyRefundsPaidBack, PaymentsOf
  <1>2. ASSUME NEW p \in Attempt, OpeningStep(p) \/ Capture(p) PROVE PInv'
    BY <1>2, OpeningKeeps, CaptureKeeps
  <1>3. ASSUME NEW w \in Worker, EventStep(w) PROVE PInv'
    BY <1>3, LoadEventKeeps, CommitEventKeeps, LoseEventKeeps DEF EventStep
  <1>4. ASSUME NEW f \in RefundRequest, RefundStep(f) PROVE PInv'
    BY <1>4, LoadPaymentKeeps, RefundAtRazorpayKeeps, CommitRefundKeeps, LoseRefundKeeps
    DEF RefundStep
  <1> QED
    BY <1>1, <1>2, <1>3, <1>4, StaffStepKeeps DEF Next

LEMMA PaymentsInvariance == Spec => []PInv
  BY PInit, PNext, PTL DEF Spec

\* No payment is PAID or REFUNDED whose money Razorpay did not take
\* (payments.py 128-218), whatever order events and refunds commit in.
THEOREM PaidIsCaptured == Spec => []PaidMeansCaptured
  <1>1. PInv => PaidMeansCaptured
    BY DEF PInv
  <1> QED
    BY <1>1, PaymentsInvariance, PTL

\* No payment is REFUNDED before money went back, and none goes back for a
\* payment that was not captured (payments.py 231-256).
THEOREM RefundsPaidBack == Spec => []RefundsAreReal
  <1>1. PInv => RefundsAreReal
    BY DEF PInv
  <1> QED
    BY <1>1, PaymentsInvariance, PTL

\* An order refunded without a return had one of its own payments repaid,
\* although staff and refunds write its status without seeing each other.
THEOREM EarlyRefundsAreReal == Spec => []EarlyRefundsPaidBack
  <1>1. PInv => EarlyRefundsPaidBack
    BY DEF PInv
  <1> QED
    BY <1>1, PaymentsInvariance, PTL

\* The rows, the handlers and Razorpay's books keep their types.
THEOREM PaymentsTypeCorrect == Spec => []PaymentsTypeOK
  <1>1. PInv => PaymentsTypeOK
    BY DEF PInv
  <1> QED
    BY <1>1, PaymentsInvariance, PTL
=============================================================================
