\* An order with two attempts to pay it, of which one is paid and its events
\* delivered again and again to two worker processes; refunds of it and a
\* status change on the way; under the fairness of the event loops and of
\* Razorpay's repeated deliveries.
CONSTANTS
  Order = {o1}
  Worker = {w1, w2}
  StatusRequest = {s1}
  Attempt = {p1, p2}
  RefundRequest = {f1, f2}
  None = None
  Total = 2
SPECIFICATION MCSpec
CHECK_DEADLOCK FALSE
INVARIANTS PaymentsTypeOK PaidMeansCaptured RefundsAreReal EarlyRefundsPaidBack
PROPERTIES CaptureIsRecorded
