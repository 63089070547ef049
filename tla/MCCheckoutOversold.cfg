\* Two customers, two variants and a coupon that may be used once.
CONSTANTS
  User = {ann, bob}
  Variant = {red, blue}
  Coupon = {SALE}
  Request = {r1, r2}
  AdminRequest = {}
  None = None
  MaxQty = 1
  StockLevel = {1}
  UsageLimit <- LimitOne
SPECIFICATION Spec
SYMMETRY Interchangeable
CHECK_DEADLOCK FALSE
INVARIANTS CouponNotOversold
