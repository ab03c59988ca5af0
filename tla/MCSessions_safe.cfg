SPECIFICATION Spec
CONSTANTS
  Users = {u1}
  Tabs = {b1}
  Tokens = {t1, t2, t3}
  Calls = {c1, c2}
  MaxFailed = 1
  MaxReloads = 1
  None = None
SYMMETRY Symm
INVARIANTS NeverSpentTwice OneLiveToken EndedStaysEnded
CHECK_DEADLOCK FALSE
