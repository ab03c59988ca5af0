SPECIFICATION FairSpec
CONSTANTS
  Vehicles = {v1}
  Lookups = {l1}
  Consumers = {w1}
  Sweepers = {w2}
  Financiers = {f1, f2}
  Authoritative = TRUE
  Configured = TRUE
  BackfillLimit = 1
  MaxAttempts = 2
  Threshold = 2
  MaxTroubles = 2
  MaxAnswers = 1
  None = None
INVARIANTS PendingHasLookup HistoryAgrees
PROPERTIES AskedInTheEnd LookupSettles
CHECK_DEADLOCK FALSE
