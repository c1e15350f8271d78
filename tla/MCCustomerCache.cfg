SPECIFICATION CacheFairSpec
CHECK_DEADLOCK FALSE
CONSTANTS
  Request = {q1, q2}
  Old = {c1}
  Email = {a}
  Time = {1}
  None = None
  Reader = {r1}
  List = List
  MaxFaults = 1
INVARIANT OnlyCommittedRows
PROPERTIES StaleForAReason EventuallyFresh
