SPECIFICATION CacheSpec
CHECK_DEADLOCK FALSE
CONSTANTS
  Request = {q1}
  Old = {c1}
  Email = {a}
  Time = {1}
  None = None
  Reader = {r1}
  List = List
  MaxFaults = 0
INVARIANT CorrectValueArrives
