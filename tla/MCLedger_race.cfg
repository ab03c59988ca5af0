SPECIFICATION Spec
CONSTANTS
  Releases = {r1, r2}
  Payments = {p1, p2}
  Events = {e1, e2}
  Outcomes = {"SUCCESS", "FAILED", "DIFFERS"}
  Totals = {0, 2}
  Amounts = {1}
  Clients = {c1, c2}
  Nobody = Nobody
SYMMETRY Symmetry
INVARIANTS
  StatusSaysPaid
  VoidLeavesTrail
  NumbersGapFree
  EveryPaymentCounts
  NothingCountsTwice
PROPERTIES
  ChangedByCallback
CHECK_DEADLOCK FALSE
