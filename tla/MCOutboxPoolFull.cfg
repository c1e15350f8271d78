SPECIFICATION Spec
CONSTANTS
  Msg = {1, 2}
  Replica = {r1}
  Worker = {w1}
  QueueSize = 1
  BatchSize = 2
  MaxAttempts = 2
  ReclaimAfter = 1
  MaxBackoff = 2
  Backoff <- MCBackoff
  DrainTimer = FALSE
  KafkaEnabled = TRUE
  MaxFaults = 0
  MaxOverruns = 0
INVARIANT NextTickRetries
