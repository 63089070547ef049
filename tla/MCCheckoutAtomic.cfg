\* Two submissions of one cart with lines of one or two pieces, under the
\* fairness of the request threads and of the database's deadlock detector.
CONSTANTS
  User = {ann}
  Variant = {red, blue}
  Coupon = {}
  Request = {r1, r2}
  AdminRequest = {}
  None = None
  MaxQty = 2
  StockLevel = {1, 2}
  UsageLimit <- NoLimit
SPECIFICATION FairSpec
CHECK_DEADLOCK FALSE
PROPERTIES UnorderedLinesStay SellsAtomically CheckoutEnds LocksComeFree
