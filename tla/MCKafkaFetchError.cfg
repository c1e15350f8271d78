SPECIFICATION Spec
CONSTANTS
  Member = {m1}
  Partition = {p1, p2}
  Msg = {x, y}
  None = None
  MaxLen = 2
  MaxMoves = 0
  HandlerErrors = 0
  FetchErrors = 1
CHECK_DEADLOCK FALSE
INVARIANT FetchedIsDispatched
