SPECIFICATION ListingSpec
CONSTANTS
  Request = {q1, q2}
  Old = {p1, p2}
  Sku = {s, t, u}
  None = None
  MaxFaults = 0
  Filter <- Filters
  Limit = {3}
  DefaultLimit = 1
  MaxLimit = 2
CHECK_DEADLOCK FALSE
INVARIANT LimitIsCapped
