SPECIFICATION Spec
CONSTANTS
  Member = {m1}
  Partition = {p1}
  Msg = {x, y}
  None = None
  MaxLen = 2
  MaxMoves = 1
  HandlerErrors = 1
  FetchErrors = 0
CHECK_DEADLOCK FALSE
PROPERTY SkipsOnlyProcessed
