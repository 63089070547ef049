CONSTANTS
  Request = {r1, r2, r3}
  MaxDeaths = 1
  Name <- MCName
  Slugify <- MCSlugify
  Sku = {"s0", "s1"}
  Stock = {2, 3}
  Quantity = {1}
  Coupon = {"c1", "c2"}
  MinOrder <- MCMinOrder
  Terms <- MCTerms
  Query = {"jeans"}
  Staff <- MCStaff
  NewEmail = {"New", "new"}
  Lower <- MCLower
SPECIFICATION MCSpec
SYMMETRY Symmetry
CHECK_DEADLOCK FALSE
CONSTRAINT NoneRefused
INVARIANTS StoreTypeOK ConflictsAreRaces RowsHaveFiles LinesWithinStock OnePrimaryImage SlugsFollowNames OnlyRivalsSpoil ResponsesAreTraced SomeoneCanUndo OneDefaultAddress
