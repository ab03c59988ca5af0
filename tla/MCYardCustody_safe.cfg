SPECIFICATION FairSpec
CONSTANTS
  Vehicles = {v1}
  Stays = {s1}
  Requests = {r1, r2}
  Auctions = {a1}
  Lots = {l1, l2}
  Staff = {u1, u2}
  Clients = {c1, c2}
  Nobody = Nobody
INVARIANTS TypeOK OnSiteIffStaying ReleaseStatusHasRequest AuctionStatusHasLot FourEyes BiddingKeepsVehicle
PROPERTIES LeavesByRelease RequestIsDecided HammerFalls
CHECK_DEADLOCK FALSE
