SPECIFICATION Spec
CONSTANTS
  Request = {q1, q2}
  Old = {}
  Email = {a}
  Time = {1}
  None = None
  MaxFaults = 0
INVARIANT DuplicateIsConflict
CHECK_DEADLOCK FALSE
