SPECIFICATION ApiSpec
CONSTANTS
  Request = {q1, q2, q3}
  Email = {a}
  Password = {x, y}
  None = None
  MaxFaults = 1
  Call = {c1, c2}
  Customer = {k}
  JWTExpiry = 1
  MaxTime = 1
SYMMETRY Symmetry
CHECK_DEADLOCK FALSE
INVARIANTS OneAccount AnswersAreTrue TokenIsEarned RefusedForAReason AdmittedForAReason OneDocument
PROPERTY AccountsStay
