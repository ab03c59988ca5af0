SPECIFICATION ChargesSpec
CONSTANTS
  HourMinutes = 2
  DayMinutes = 4
  WeekMinutes = 8
  ZoneOffset = 1
  MaxLadderUnits = 100
  None = None
  Books <- MCBooks
  ContractVersions <- MCVersions
  Rules <- MCRules
  Entries = {4, 6}
  Moments = {1, 4, 7}
  MaxRows = 2
  MaxAttach = 1
  Writers = {w1, w2}
INVARIANTS ChargedByPosition
PROPERTIES ExitBillsTheStay
CHECK_DEADLOCK FALSE
