SPECIFICATION FairSpec
CONSTANTS
  Msg = {1, 2}
  Replica = {r1}
  Worker = {w1}
  QueueSize = 1
  BatchSize = 2
  MaxAttempts = 2
  ReclaimAfter = 1
  MaxBackoff = 1
  Backoff <- MCBackoff
  DrainTimer = FALSE
  KafkaEnabled = TRUE
  MaxFaults = 1
  MaxOverruns = 1
INVARIANTS NoSilentLoss ExhaustionEarned OnlyOverrunsStrand
PROPERTIES OnlyLateJobsTouch EventuallyRetired
