-------------------------------- MODULE MCGate --------------------------------
(* Small instances of Gate. *)
EXTENDS Gate, TLC

CONSTANTS p1, p2, p3, yard, depot, z1, z2, b1, b2, s1, s2, s3, c1, c2, open

Frame(i, v, at, w, k, ok) ==
  [id |-> i, plate |-> v, site |-> at, way |-> w, bucket |-> k, clear |-> ok]

(* Two frames of one arrival; another vehicle's arrival, read poorly, and  *)
(* its exit; a third vehicle at the other site.                            *)
MCFrames == {Frame(1, p1, yard, "ENTRY", 1, TRUE), Frame(2, p1, yard, "ENTRY", 1, TRUE),
             Frame(3, p2, yard, "EXIT", 1, TRUE), Frame(4, p2, yard, "ENTRY", 1, FALSE),
             Frame(5, p3, depot, "ENTRY", 1, TRUE)}
MCModeOf == yard :> "PUBLIC_PARKING" @@ depot :> "REPOSSESSION_YARD"
MCZoneSite == z1 :> yard @@ z2 :> depot
MCCapacity == [z \in Zones |-> 1]
MCTakes == z1 :> Plates @@ z2 :> {p3}
MCSpaceZone == [p \in {b1} |-> z1]

Symm == Permutations(Clients) \cup Permutations(Stays)
===============================================================================
