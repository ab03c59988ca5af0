SPECIFICATION FairSpec
CONSTANTS
  Bidders = {b1, b2}
  Keys = {k1, k2}
  Amounts = {1, 2, 3}
  Reserve = 1
  Increment = 1
  Clients = {c1, c2}
  Nobody = Nobody
INVARIANTS
  Ladder
  WinnerTakesAll
  ReceiptsAddUp
PROPERTIES
  WinnerIsFinal
  IsEnglishAuction
  BidsAreSettled
CHECK_DEADLOCK FALSE
