SPECIFICATION FairSpec
CONSTANTS
  Request = {q1, q2}
  Old = {c1, c2}
  Email = {a, b}
  Time = {1, 2}
  None = None
  MaxFaults = 1
INVARIANTS EmailUnique OutboxTellsTable EventsAreFacts AnswersAreTrue
PROPERTY EveryRequestAnswered
CHECK_DEADLOCK FALSE
