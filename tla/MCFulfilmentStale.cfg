\* Two worker processes changing the status of one order.
CONSTANTS
  Order = {o1}
  Worker = {w1, w2}
  StatusRequest = {s1, s2, s3, s4}
  None = None
SPECIFICATION FulfilmentSpec
CHECK_DEADLOCK FALSE
PROPERTIES CancelledBeforeShipping
