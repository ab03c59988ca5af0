CONSTANTS
  p1 = p1  p2 = p2 p3 = p3  yard = yard depot = depot  z1 = z1 z2 = z2 b1 = b1 b2 = b2
  s1 = s1 s2 = s2 s3 = s3 c1 = c1 c2 = c2 open = open
  Frames <- MCFrames
  Plates = {p1, p2, p3}
  Sites = {yard, depot}
  Zones = {z1, z2}
  Spaces = {b1}
  Stays = {s1, s2, s3}
  Clients = {c1, c2}
  ModeOf <- MCModeOf
  ZoneSite <- MCZoneSite
  Capacity <- MCCapacity
  Takes <- MCTakes
  SpaceZone <- MCSpaceZone
  None = None
SYMMETRY Symm
SPECIFICATION Spec
INVARIANTS BayHeldByItsStay VehicleKnowsItsStay OverfullByRaceOnly OneStayPerArrival
CHECK_DEADLOCK FALSE
