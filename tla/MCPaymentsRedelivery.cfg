\* One payment with a refund, its events delivered again and again.
CONSTANTS
  Order = {o1}
  Worker = {w1}
  StatusRequest = {}
  Attempt = {p1}
  RefundRequest = {f1}
  None = None
  Total = 1
SPECIFICATION Spec
CHECK_DEADLOCK FALSE
PROPERTIES WebhookIdempotent
