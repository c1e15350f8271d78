SPECIFICATION FairBootSpec
CONSTANTS
  Worker = {w1, w2}
  QueueSize = 2
  MaxCalls = 0
  MaxStreams = 1
  MaxJobs = 0
CHECK_DEADLOCK FALSE
PROPERTY WatchersLetGo
