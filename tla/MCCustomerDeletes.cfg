SPECIFICATION Spec
CONSTANTS
  Request = {q1, q2}
  Old = {c1}
  Email = {a}
  Time = {1}
  None = None
  MaxFaults = 0
PROPERTY MessageMeansChange
CHECK_DEADLOCK FALSE
