SPECIFICATION BootSpec
CONSTANTS
  Worker = {w1, w2}
  QueueSize = 2
  MaxCalls = 0
  MaxStreams = 0
  MaxJobs = 1
CHECK_DEADLOCK FALSE
INVARIANT PollerExitedFirst
