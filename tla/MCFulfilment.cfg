\* One worker process, two orders and six status changes: enough for one
\* order to go all the way to a refund.
CONSTANTS
  Order = {o1, o2}
  Worker = {w1}
  StatusRequest = {s1, s2, s3, s4, s5, s6}
  None = None
SPECIFICATION FulfilmentSpec
SYMMETRY Interchangeable
CHECK_DEADLOCK FALSE
INVARIANTS NoStageSkipped
PROPERTIES FollowsLifecycle
