SPECIFICATION Spec
CONSTANTS
  Msg = {1}
  Replica = {r1}
  Worker = {w1, w2}
  QueueSize = 1
  BatchSize = 1
  MaxAttempts = 2
  ReclaimAfter = 1
  MaxBackoff = 2
  Backoff <- MCBackoff
  DrainTimer = FALSE
  KafkaEnabled = TRUE
  MaxFaults = 0
  MaxOverruns = 1
INVARIANT StopsOnlyLoudly
