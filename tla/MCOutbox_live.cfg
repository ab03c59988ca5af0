SPECIFICATION FairSpec
CONSTANTS
  Events = {e1, e2}
  Replicas = {r1, r2}
  MaxAttempts = 2
  BatchSize = 2
  MaxCrashes = 1
  MaxReplays = 1
INVARIANTS DeadAfterTrying
PROPERTIES EventSettles
CHECK_DEADLOCK FALSE
