SPECIFICATION Spec
CONSTANTS
  Vehicles = {v1}
  Lookups = {l1}
  Consumers = {w1}
  Sweepers = {w2}
  Financiers = {f1, f2}
  Authoritative = TRUE
  Configured = TRUE
  BackfillLimit = 1
  MaxAttempts = 2
  Threshold = 2
  MaxTroubles = 1
  MaxAnswers = 1
  None = None
PROPERTY NeverDraggedBack
CHECK_DEADLOCK FALSE
