SPECIFICATION ListingSpec
CONSTANTS
  Request = {q1, q2, q3}
  Old = {p1}
  Sku = {s, t}
  None = None
  MaxFaults = 1
  Filter <- Filters
  Limit = {1, 3}
  DefaultLimit = 1
  MaxLimit = 2
SYMMETRY Symmetry
CHECK_DEADLOCK FALSE
INVARIANTS ArchivedUnlessOverrun UpdatedUnlessOverrun SkippedForAReason RepeatedForAReason
PROPERTY AuditKept
