SPECIFICATION Spec
CONSTANTS
  Event = {e1, e2}
  Agg = {a}
  All = All
  None = None
  Instant = {110, 115}
CHECK_DEADLOCK FALSE
INVARIANT Chronological
