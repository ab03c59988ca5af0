SPECIFICATION Spec
CONSTANTS
  Events = {e1}
  Replicas = {r1, r2}
  MaxAttempts = 2
  BatchSize = 1
  MaxCrashes = 0
  MaxReplays = 0
INVARIANT PublishedOnce
CHECK_DEADLOCK FALSE
