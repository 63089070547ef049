\* Two customers (or one, twice) checking out the same two variants in any
\* lock order, carts and coupons changing meanwhile, a coupon for one use and
\* an administrator editing stock.
CONSTANTS
  User = {ann, bob}
  Variant = {red, blue}
  Coupon = {SALE}
  Request = {r1, r2}
  AdminRequest = {edit}
  None = None
  MaxQty = 1
  StockLevel = {1, 2}
  UsageLimit <- LimitOne
SPECIFICATION Spec
SYMMETRY Interchangeable
CHECK_DEADLOCK FALSE
INVARIANTS TypeOK LockedRowsCurrent StockConserved AllOrNothing UsesHaveOrders CounterWithinLimit
