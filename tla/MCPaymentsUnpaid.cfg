\* One payment whose declined and captured tries are both reported.
CONSTANTS
  Order = {o1}
  Worker = {w1}
  StatusRequest = {}
  Attempt = {p1}
  RefundRequest = {}
  None = None
  Total = 1
SPECIFICATION FairSpec
CHECK_DEADLOCK FALSE
PROPERTIES NotUnpaidForever
