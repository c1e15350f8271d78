SPECIFICATION Spec
CONSTANTS
  Msg = {1, 2}
  Replica = {r1, r2}
  Worker = {w1}
  QueueSize = 1
  BatchSize = 2
  MaxAttempts = 2
  ReclaimAfter = 1
  MaxBackoff = 2
  Backoff <- MCBackoff
  DrainTimer = TRUE
  KafkaEnabled = TRUE
  MaxFaults = 1
  MaxOverruns = 0
SYMMETRY Symmetry
INVARIANTS SoleOwner SnapshotIsCurrent
PROPERTY ImplementsContract
