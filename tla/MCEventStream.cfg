SPECIFICATION FairSpec
CONSTANTS
  Event = {e1, e2, e3}
  Agg = {a, b}
  All = All
  None = None
  Instant = {110, 115, 200}
CHECK_DEADLOCK FALSE
INVARIANTS SentOnce MissedIfOvertaken
PROPERTY EventuallySent
