SPECIFICATION FairSpec
CONSTANTS
  Member = {m1, m2}
  Partition = {p1}
  Msg = {x, y}
  None = None
  MaxLen = 3
  MaxMoves = 2
  HandlerErrors = 1
  FetchErrors = 1
CHECK_DEADLOCK FALSE
INVARIANT NothingSkipped
PROPERTIES CommitsAdvance EventuallyHandled
