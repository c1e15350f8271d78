SPECIFICATION FairSpec
CONSTANTS
  Msg = {1}
  Replica = {r1}
  Worker = {w1}
  QueueSize = 1
  BatchSize = 1
  MaxAttempts = 1
  ReclaimAfter = 1
  MaxBackoff = 1
  Backoff <- MCBackoff
  DrainTimer = TRUE
  KafkaEnabled = TRUE
  MaxFaults = 1
  MaxOverruns = 0
PROPERTY EventuallyRetired
