SPECIFICATION Spec
CONSTANTS
  Limit = 128
  MaxBackoff = 60
  MaxAttempts = 10
CHECK_DEADLOCK FALSE
INVARIANTS DelayBounded Exact
