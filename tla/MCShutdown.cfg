SPECIFICATION FairBootSpec
CONSTANTS
  Worker = {w1, w2}
  QueueSize = 2
  MaxCalls = 1
  MaxStreams = 1
  MaxJobs = 4
CHECK_DEADLOCK FALSE
INVARIANTS NothingLeftRunning HeldWhileUsed
PROPERTIES SignalEnds ImplementsShutdown
