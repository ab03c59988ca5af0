------------------------- MODULE YardCustody_proofs -------------------------
(***************************************************************************)
(* Theorems about YardCustody, for every set of vehicles, rows, staff and  *)
(* clients.                                                                *)
(***************************************************************************)
EXTENDS YardCustody, TLAPS

(* Where a status of one table is used as a status of another, or compared *)
(* with Absent, the provers need the sets spelled out.                     *)
USE DEF Absent

------------------------------------------------------------------------------
(* Type correctness                                                        *)

(* Moving a vehicle to a status of the table keeps the column well typed.  *)
LEMMA MoveType ==
  ASSUME TypeOK, NEW v, NEW to \in VehicleStatus, MoveVehicle(v, to)
  PROVE  vehicle' \in [Vehicles -> VehicleStatus]
  BY DEF TypeOK, MoveVehicle

(* So does changing the status of a stay, wherever the row was found.      *)
LEMMA StayType ==
  ASSUME TypeOK, NEW s, NEW to \in SessionStatus, stay' = [stay EXCEPT ![s].status = to]
  PROVE  stay' \in [Stays -> StayRow]
  BY DEF TypeOK, StayRow

LEMMA YardTypes == ASSUME TypeOK, Yard PROVE TypeOK'
<1> USE DEF TypeOK, StayRow, SessionStatus
<1>1. ASSUME NEW v \in Vehicles, NEW s \in Stays, NEW rated \in BOOLEAN,
             Admit(v, s, rated)
      PROVE  TypeOK'
  BY <1>1 DEF Admit, VehicleStatus
<1>2. ASSUME NEW s \in Stays, AttachRate(s) PROVE TypeOK'
  BY <1>2 DEF AttachRate
<1>3. ASSUME NEW s \in Stays, PlaceHold(s) PROVE TypeOK'
  <2>1. vehicle' \in [Vehicles -> VehicleStatus]
    BY <1>3, MoveType DEF PlaceHold, VehicleStatus
  <2> QED BY <1>3, <2>1 DEF PlaceHold
<1>4. ASSUME NEW c \in Clients, NEW s \in Stays, BeginLiftHold(c, s) PROVE TypeOK'
  <2>1. [op |-> "liftHold", stay |-> s] \in Txn
    BY DEF Txn
  <2> QED BY <1>4, <2>1 DEF BeginLiftHold
<1>5. ASSUME NEW c \in Clients, CommitLiftHold(c) PROVE TypeOK'
  <2>1. vehicle' \in [Vehicles -> VehicleStatus]
    BY <1>5, MoveType DEF CommitLiftHold, VehicleStatus
  <2>2. Idle \in Txn
    BY DEF Txn
  <2> QED BY <1>5, <2>1, <2>2 DEF CommitLiftHold
<1>6. ASSUME NEW c \in Clients, Rollback(c) PROVE TypeOK'
  BY <1>6 DEF Rollback, Txn
<1> QED BY <1>1, <1>2, <1>3, <1>4, <1>5, <1>6 DEF Yard

LEMMA ReleaseTypes == ASSUME TypeOK, Release PROVE TypeOK'
<1> USE DEF TypeOK, RequestRow, ReleaseStatus
<1>1. ASSUME NEW c \in Clients, NEW s \in Stays, NEW u \in Staff,
             BeginRequestRelease(c, s, u)
      PROVE  TypeOK'
  <2>1. [op |-> "requestRelease", stay |-> s, by |-> u, eligible |-> Eligible(s)] \in Txn
    BY DEF Txn, Eligible
  <2> QED BY <1>1, <2>1 DEF BeginRequestRelease
<1>2. ASSUME NEW c \in Clients, NEW r \in Requests, CommitRequestRelease(c, r)
      PROVE  TypeOK'
  <2>1. vehicle' \in [Vehicles -> VehicleStatus]
    BY <1>2, MoveType DEF CommitRequestRelease, VehicleStatus
  <2>2. Idle \in Txn
    BY DEF Txn
  <2>3. txn[c].stay \in Stays /\ txn[c].by \in Staff
    BY <1>2 DEF CommitRequestRelease, Txn, Idle
  <2>4. request' \in [Requests -> RequestRow]
    BY <1>2, <2>3 DEF CommitRequestRelease, InsertRequest
  <2> QED BY <1>2, <2>1, <2>2, <2>4 DEF CommitRequestRelease
<1>3. ASSUME NEW r \in Requests, NEW u \in Staff, Approve(r, u) \/ Reject(r, u)
      PROVE  TypeOK'
  <2>1. vehicle' \in [Vehicles -> VehicleStatus]
    BY <1>3, MoveType DEF Approve, Reject, VehicleStatus
  <2> QED BY <1>3, <2>1 DEF Approve, Reject
<1>4. ASSUME NEW r \in Requests, CodeExpires(r) PROVE TypeOK'
  BY <1>4 DEF CodeExpires
<1>5. ASSUME NEW r \in Requests, CompleteRelease(r) PROVE TypeOK'
  <2>1. vehicle' \in [Vehicles -> VehicleStatus]
    BY <1>5 DEF CompleteRelease, VehicleStatus
  <2>2. stay' \in [Stays -> StayRow]
    BY <1>5, StayType DEF CompleteRelease, SessionStatus
  <2>3. request' \in [Requests -> RequestRow]
    <3>1. request' = [request EXCEPT ![r].status = "COMPLETED", ![r].code = "NONE"]
      BY <1>5 DEF CompleteRelease
    <3>2. request[r] \in RequestRow
      OBVIOUS
    <3>3. [request[r] EXCEPT !.status = "COMPLETED", !.code = "NONE"] \in RequestRow
      BY <3>2
    <3>4. request' = [request EXCEPT ![r] = [request[r] EXCEPT !.status = "COMPLETED",
                                                                !.code = "NONE"]]
      BY <3>1
    <3> QED BY <3>3, <3>4
  <2> QED BY <1>5, <2>1, <2>2, <2>3 DEF CompleteRelease
<1>6. ASSUME NEW r \in Requests, CancelRelease(r) PROVE TypeOK'
  <2>1. vehicle' \in [Vehicles -> VehicleStatus]
    BY <1>6, MoveType DEF CancelRelease, VehicleStatus
  <2> QED BY <1>6, <2>1 DEF CancelRelease
<1> QED BY <1>1, <1>2, <1>3, <1>4, <1>5, <1>6 DEF Release

LEMMA AuctionTypes == ASSUME TypeOK, Auction PROVE TypeOK'
<1> USE DEF TypeOK, LotRow, LotStatus, AuctionStatus
<1>1. ASSUME NEW a \in Auctions, ScheduleAuction(a) \/ PublishAuction(a) PROVE TypeOK'
  BY <1>1 DEF ScheduleAuction, PublishAuction
<1>2. ASSUME NEW a \in Auctions, OpenAuction(a) \/ CloseAuction(a) PROVE TypeOK'
  <2>1. ASSUME NEW moved, NEW to \in {"BIDDING_OPEN", "BIDDING_CLOSED"},
               LotsFollow(moved, to)
        PROVE  vehicle' \in [Vehicles -> VehicleStatus] /\ lot' \in [Lots -> LotRow]
    BY <2>1 DEF LotsFollow, VehicleStatus
  <2> QED BY <1>2, <2>1 DEF OpenAuction, CloseAuction
<1>3. ASSUME NEW c \in Clients, NEW v \in Vehicles, NEW a \in Auctions, BeginAddLot(c, v, a)
      PROVE  TypeOK'
  <2>1. [op |-> "addLot", vehicle |-> v, auction |-> a] \in Txn
    BY DEF Txn
  <2> QED BY <1>3, <2>1 DEF BeginAddLot
<1>4. ASSUME NEW c \in Clients, NEW l \in Lots, CommitAddLot(c, l) PROVE TypeOK'
  <2>1. txn[c].vehicle \in Vehicles /\ txn[c].auction \in Auctions
    BY <1>4 DEF CommitAddLot, Txn, Idle
  <2>2. Idle \in Txn
    BY DEF Txn
  <2> QED BY <1>4, <2>1, <2>2 DEF CommitAddLot, VehicleStatus
<1>5. ASSUME NEW l \in Lots, PlaceBid(l) PROVE TypeOK'
  BY <1>5 DEF PlaceBid
<1>6. ASSUME NEW l \in Lots, SelectWinner(l) \/ CreateSettlement(l) PROVE TypeOK'
  <2>1. vehicle' \in [Vehicles -> VehicleStatus]
    BY <1>6, MoveType DEF SelectWinner, CreateSettlement, VehicleStatus
  <2> QED BY <1>6, <2>1 DEF SelectWinner, CreateSettlement
<1>7. ASSUME NEW l \in Lots, ReceiveInFull(l) PROVE TypeOK'
  BY <1>7 DEF ReceiveInFull, VehicleStatus
<1> QED BY <1>1, <1>2, <1>3, <1>4, <1>5, <1>6, <1>7 DEF Auction

(* Every column holds a status of its own table, and every open            *)
(* transaction holds what its handler read, whatever the interleaving.     *)
THEOREM TypeCorrect == Spec => []TypeOK
<1>1. Init => TypeOK
  <2> SUFFICES ASSUME Init PROVE TypeOK
    OBVIOUS
  <2>1. vehicle \in [Vehicles -> VehicleStatus]
    BY DEF Init, VehicleStatus
  <2>2. stay \in [Stays -> StayRow]
    BY DEF Init, StayRow
  <2>3. request \in [Requests -> RequestRow]
    BY DEF Init, RequestRow
  <2>4. auction \in [Auctions -> AuctionStatus]
    BY DEF Init, AuctionStatus
  <2>5. lot \in [Lots -> LotRow]
    <3>1. [vehicle: {Nobody}, auction: Auctions, status: {Absent}, bid: {FALSE}]
            \subseteq LotRow
      BY DEF LotRow
    <3> QED BY <3>1 DEF Init
  <2>6. txn \in [Clients -> Txn]
    BY DEF Init, Txn
  <2> QED BY <2>1, <2>2, <2>3, <2>4, <2>5, <2>6 DEF TypeOK
<1>2. TypeOK /\ [Next]_vars => TypeOK'
  <2> SUFFICES ASSUME TypeOK, [Next]_vars PROVE TypeOK'
    OBVIOUS
  <2>1. CASE UNCHANGED vars
    BY <2>1 DEF vars, TypeOK
  <2> QED BY <2>1, YardTypes, ReleaseTypes, AuctionTypes DEF Next
<1> QED BY <1>1, <1>2, PTL DEF Spec
------------------------------------------------------------------------------
(* Foreign keys                                                            *)

LEMMA YardGrounded == ASSUME TypeOK, Grounded, Yard PROVE Grounded'
<1> USE DEF TypeOK, StayRow, Grounded
<1>1. ASSUME NEW v \in Vehicles, NEW s \in Stays, NEW rated \in BOOLEAN,
             Admit(v, s, rated)
      PROVE  Grounded'
  BY <1>1 DEF Admit
<1>2. ASSUME NEW s \in Stays, AttachRate(s) PROVE Grounded'
  BY <1>2 DEF AttachRate
<1>3. ASSUME NEW s \in Stays, PlaceHold(s) PROVE Grounded'
  BY <1>3 DEF PlaceHold, SessionMay
<1>4. ASSUME NEW c \in Clients, NEW s \in Stays, BeginLiftHold(c, s) PROVE Grounded'
  BY <1>4 DEF BeginLiftHold, SessionMay
<1>5. ASSUME NEW c \in Clients, CommitLiftHold(c) PROVE Grounded'
  BY <1>5 DEF CommitLiftHold, Txn, Idle
<1>6. ASSUME NEW c \in Clients, Rollback(c) PROVE Grounded'
  BY <1>6 DEF Rollback, Idle
<1> QED BY <1>1, <1>2, <1>3, <1>4, <1>5, <1>6 DEF Yard

LEMMA ReleaseGrounded == ASSUME TypeOK, Grounded, Release PROVE Grounded'
<1>1. ASSUME NEW c \in Clients, NEW s \in Stays, NEW u \in Staff,
             BeginRequestRelease(c, s, u)
      PROVE  Grounded'
  BY <1>1 DEF BeginRequestRelease, TypeOK, Grounded
<1>2. ASSUME NEW c \in Clients, NEW r \in Requests, CommitRequestRelease(c, r)
      PROVE  Grounded'
  <2>1. txn[c].stay \in Stays
    BY <1>2 DEF CommitRequestRelease, TypeOK, Txn, Idle
  <2>2. UNCHANGED <<stay, lot>> /\ txn' = [txn EXCEPT ![c] = Idle]
    BY <1>2 DEF CommitRequestRelease
  <2>3. PICK status : InsertRequest(r, txn[c].stay, txn[c].by, status)
    BY <1>2 DEF CommitRequestRelease
  <2>4. stay[txn[c].stay].status # Absent
    BY <1>2 DEF CommitRequestRelease, Grounded
  <2>5. \A q \in Requests : request'[q].status # Absent =>
          request'[q].stay \in Stays /\ stay[request'[q].stay].status # Absent
    BY <2>1, <2>3, <2>4 DEF InsertRequest, TypeOK, RequestRow, Grounded
  <2>6. \A d \in Clients : txn'[d].op \in {"requestRelease", "liftHold"} =>
          stay[txn'[d].stay].status # Absent
    BY <2>2 DEF TypeOK, Grounded, Idle
  <2> QED BY <2>2, <2>5, <2>6 DEF Grounded
<1>3. ASSUME NEW r \in Requests, NEW u \in Staff, Approve(r, u) \/ Reject(r, u)
      PROVE  Grounded'
  BY <1>3 DEF Approve, Reject, MayDecide, TypeOK, RequestRow, Grounded
<1>4. ASSUME NEW r \in Requests, CodeExpires(r) PROVE Grounded'
  BY <1>4 DEF CodeExpires, TypeOK, RequestRow, Grounded
<1>5. ASSUME NEW r \in Requests, CompleteRelease(r) PROVE Grounded'
  <2>1. stay' = [stay EXCEPT ![request[r].stay].status = "CLOSED"]
    BY <1>5 DEF CompleteRelease
  <2>2. request' = [request EXCEPT ![r].status = "COMPLETED", ![r].code = "NONE"]
    BY <1>5 DEF CompleteRelease
  <2>3. request[r].status = "APPROVED" /\ UNCHANGED <<lot, txn>>
    BY <1>5 DEF CompleteRelease
  <2>4. \A s \in Stays :
          /\ stay'[s].vehicle = stay[s].vehicle
          /\ \/ stay'[s].status = stay[s].status
             \/ s = request[r].stay /\ stay'[s].status = "CLOSED"
    BY <2>1 DEF TypeOK, StayRow
  <2>5. \A q \in Requests :
          /\ request'[q].stay = request[q].stay
          /\ request'[q].status # Absent => request[q].status # Absent
    BY <2>2, <2>3 DEF TypeOK, RequestRow
  <2>6. \A q \in Requests : request'[q].status # Absent =>
          request'[q].stay \in Stays /\ stay'[request'[q].stay].status # Absent
    BY <2>4, <2>5 DEF Grounded
  <2>7. \A c \in Clients : txn'[c].op \in {"requestRelease", "liftHold"} =>
          txn[c].stay \in Stays /\ stay'[txn'[c].stay].status # Absent
    BY <2>3, <2>4 DEF TypeOK, Grounded, Txn, Idle
  <2>8. \A s \in Stays :
          /\ stay'[s].status # Absent => stay'[s].vehicle \in Vehicles
          /\ stay'[s].status # "CANCELLED"
    BY <2>3, <2>4 DEF Grounded
  <2> QED BY <2>3, <2>6, <2>7, <2>8 DEF Grounded
<1>6. ASSUME NEW r \in Requests, CancelRelease(r) PROVE Grounded'
  BY <1>6 DEF CancelRelease, ReleaseMay, TypeOK, RequestRow, Grounded
<1> QED BY <1>1, <1>2, <1>3, <1>4, <1>5, <1>6 DEF Release

LEMMA AuctionGrounded == ASSUME TypeOK, Grounded, Auction PROVE Grounded'
<1> USE DEF TypeOK, LotRow, Grounded
<1>1. ASSUME NEW a \in Auctions, ScheduleAuction(a) \/ PublishAuction(a) PROVE Grounded'
  BY <1>1 DEF ScheduleAuction, PublishAuction
<1>2. ASSUME NEW a \in Auctions, OpenAuction(a) \/ CloseAuction(a) PROVE Grounded'
  BY <1>2 DEF OpenAuction, CloseAuction, LotsFollow, LotsOf
<1>3. ASSUME NEW c \in Clients, NEW v \in Vehicles, NEW a \in Auctions, BeginAddLot(c, v, a)
      PROVE  Grounded'
  BY <1>3 DEF BeginAddLot
<1>4. ASSUME NEW c \in Clients, NEW l \in Lots, CommitAddLot(c, l) PROVE Grounded'
  <2>1. txn[c].vehicle \in Vehicles
    BY <1>4 DEF CommitAddLot, Txn, Idle
  <2> QED BY <1>4, <2>1 DEF CommitAddLot, Idle
<1>5. ASSUME NEW l \in Lots, PlaceBid(l) PROVE Grounded'
  BY <1>5 DEF PlaceBid
<1>6. ASSUME NEW l \in Lots, SelectWinner(l) \/ CreateSettlement(l) PROVE Grounded'
  BY <1>6 DEF SelectWinner, CreateSettlement, LotMay
<1>7. ASSUME NEW l \in Lots, ReceiveInFull(l) PROVE Grounded'
  BY <1>7 DEF ReceiveInFull
<1> QED BY <1>1, <1>2, <1>3, <1>4, <1>5, <1>6, <1>7 DEF Auction

(* Foreign keys are intact and transactions hold live rows: what the rest  *)
(* of the proofs stand on.                                                 *)
THEOREM AlwaysGrounded == Spec => []Grounded
<1>1. Init => Grounded
  <2> SUFFICES ASSUME Init PROVE Grounded
    OBVIOUS
  <2>1. /\ \A s \in Stays : stay[s].status = Absent
        /\ \A r \in Requests : request[r].status = Absent
    BY DEF Init
  <2>2. \A l \in Lots : lot[l].status = Absent
    BY DEF Init
  <2>3. \A c \in Clients : txn[c].op = "idle"
    BY DEF Init, Idle
  <2> QED BY <2>1, <2>2, <2>3 DEF Grounded
<1>2. TypeOK /\ Grounded /\ [Next]_vars => Grounded'
  <2> SUFFICES ASSUME TypeOK, Grounded, [Next]_vars PROVE Grounded'
    OBVIOUS
  <2>1. CASE UNCHANGED vars
    BY <2>1 DEF vars, Grounded
  <2> QED BY <2>1, YardGrounded, ReleaseGrounded, AuctionGrounded DEF Next
<1> QED BY <1>1, <1>2, TypeCorrect, PTL DEF Spec

------------------------------------------------------------------------------
(* Custody: on-site statuses and active stays                              *)

(* Every move but admission and exit starts and ends on site. *)
LEMMA MovesInside ==
  ASSUME NEW v,
         NEW to \in {"PARKED", "UNDER_HOLD", "RELEASE_REQUESTED", "RELEASE_APPROVED",
                     "AUCTION_ELIGIBLE", "BIDDING_OPEN", "BIDDING_CLOSED",
                     "WINNER_SELECTED", "SETTLEMENT_PENDING", "SETTLED"},
         CanMove(v, to)
  PROVE  vehicle[v] \in OnSite /\ to \in OnSite
  BY DEF CanMove, VehicleMay, OnSite, InAuction

(* A quiet step leaves every set of active stays as it is and takes no     *)
(* vehicle across the boundary of the yard.                                *)
QuietStays == \A v \in Vehicles : ActiveStays(v)' = ActiveStays(v)
QuietVehicles == \A v \in Vehicles :
  vehicle'[v] = vehicle[v] \/ (vehicle[v] \in OnSite /\ vehicle'[v] \in OnSite)
Quiet == QuietStays /\ QuietVehicles

LEMMA MoveIsQuiet ==
  ASSUME TypeOK, NEW v,
         NEW to \in {"PARKED", "UNDER_HOLD", "RELEASE_REQUESTED", "RELEASE_APPROVED",
                     "WINNER_SELECTED", "SETTLEMENT_PENDING"},
         MoveVehicle(v, to)
  PROVE  QuietVehicles
<1>1. vehicle[v] \in OnSite /\ to \in OnSite
  BY MovesInside DEF MoveVehicle
<1> QED BY <1>1 DEF MoveVehicle, QuietVehicles, TypeOK

LEMMA SameStays == ASSUME UNCHANGED stay PROVE QuietStays
  BY DEF QuietStays, ActiveStays

(* Rewriting one stay is quiet when it is active before and after. *)
LEMMA StayKeepsActive ==
  ASSUME TypeOK, NEW s \in Stays,
         stay' \in [Stays -> StayRow],
         \A z \in Stays \ {s} : stay'[z] = stay[z],
         stay'[s].vehicle = stay[s].vehicle,
         stay[s].status \in ActiveSession <=> stay'[s].status \in ActiveSession
  PROVE  QuietStays
  BY DEF QuietStays, ActiveStays

LEMMA YardQuiet ==
  ASSUME TypeOK, Grounded, Yard
  PROVE  \/ Quiet
         \/ \E v \in Vehicles, s \in Stays, rated \in BOOLEAN : Admit(v, s, rated)
<1>1. ASSUME NEW s \in Stays, AttachRate(s) PROVE Quiet
  <2>1. QuietVehicles
    BY <1>1 DEF AttachRate, QuietVehicles
  <2>2. stay' = [stay EXCEPT ![s].rated = TRUE]
    BY <1>1 DEF AttachRate
  <2>3. QuietStays
    BY <2>2, StayKeepsActive DEF TypeOK, StayRow
  <2> QED BY <2>1, <2>3 DEF Quiet
<1>2. ASSUME NEW s \in Stays, PlaceHold(s) PROVE Quiet
  <2>1. QuietVehicles
    BY <1>2, MoveIsQuiet DEF PlaceHold
  <2>2. stay' = [stay EXCEPT ![s].status = "ON_HOLD"] /\ stay[s].status \in ActiveSession
    BY <1>2 DEF PlaceHold, SessionMay, ActiveSession
  <2>3. QuietStays
    BY <2>2, StayKeepsActive, StayType DEF TypeOK, StayRow, SessionStatus, ActiveSession
  <2> QED BY <2>1, <2>3 DEF Quiet
<1>3. ASSUME NEW c \in Clients, NEW s \in Stays, BeginLiftHold(c, s) PROVE Quiet
  BY <1>3, SameStays DEF BeginLiftHold, Quiet, QuietVehicles
<1>4. ASSUME NEW c \in Clients, CommitLiftHold(c) PROVE Quiet
  <2> DEFINE s == txn[c].stay
  <2>1. QuietVehicles
    BY <1>4, MoveIsQuiet DEF CommitLiftHold
  <2>2. s \in Stays /\ stay' = [stay EXCEPT ![s].status = "OPEN"]
    BY <1>4 DEF CommitLiftHold, TypeOK, Txn, Idle
  <2>3. stay[s].status \in ActiveSession
    <3>1. stay[s].status \notin {Absent, "CLOSED", "CANCELLED"}
      BY <1>4, <2>2 DEF CommitLiftHold, OpenHasNoExit, Grounded
    <3> QED BY <2>2, <3>1 DEF TypeOK, StayRow, SessionStatus, ActiveSession
  <2> HIDE DEF s
  <2>4. QuietStays
    BY <2>2, <2>3, StayKeepsActive, StayType
       DEF TypeOK, StayRow, SessionStatus, ActiveSession
  <2> QED BY <2>1, <2>4 DEF Quiet
<1>5. ASSUME NEW c \in Clients, Rollback(c) PROVE Quiet
  BY <1>5, SameStays DEF Rollback, Quiet, QuietVehicles
<1> QED BY <1>1, <1>2, <1>3, <1>4, <1>5 DEF Yard

LEMMA ReleaseQuiet ==
  ASSUME TypeOK, Grounded, Release
  PROVE  Quiet \/ \E r \in Requests : CompleteRelease(r)
<1>1. ASSUME NEW c \in Clients, NEW s \in Stays, NEW u \in Staff,
             BeginRequestRelease(c, s, u)
      PROVE  Quiet
  BY <1>1, SameStays DEF BeginRequestRelease, Quiet, QuietVehicles
<1>2. ASSUME NEW c \in Clients, NEW r \in Requests, CommitRequestRelease(c, r) PROVE Quiet
  <2>1. QuietVehicles
    BY <1>2, MoveIsQuiet DEF CommitRequestRelease, QuietVehicles
  <2> QED BY <1>2, <2>1, SameStays DEF CommitRequestRelease, Quiet
<1>3. ASSUME NEW r \in Requests, NEW u \in Staff, Approve(r, u) \/ Reject(r, u) PROVE Quiet
  BY <1>3, MoveIsQuiet, SameStays DEF Approve, Reject, Quiet
<1>4. ASSUME NEW r \in Requests, CodeExpires(r) PROVE Quiet
  BY <1>4, SameStays DEF CodeExpires, Quiet, QuietVehicles
<1>5. ASSUME NEW r \in Requests, CancelRelease(r) PROVE Quiet
  BY <1>5, MoveIsQuiet, SameStays DEF CancelRelease, Quiet
<1> QED BY <1>1, <1>2, <1>3, <1>4, <1>5 DEF Release

LEMMA AuctionQuiet == ASSUME TypeOK, Grounded, Auction PROVE Quiet
<1>1. QuietStays
  BY SameStays DEF Auction, ScheduleAuction, PublishAuction, OpenAuction, CloseAuction,
     BeginAddLot, CommitAddLot, PlaceBid, SelectWinner, CreateSettlement, ReceiveInFull
<1>2. ASSUME NEW a \in Auctions, OpenAuction(a) \/ CloseAuction(a) PROVE QuietVehicles
  <2>1. ASSUME NEW moved, NEW to \in {"BIDDING_OPEN", "BIDDING_CLOSED"}, LotsFollow(moved, to)
        PROVE  QuietVehicles
    BY <2>1, MovesInside DEF LotsFollow, QuietVehicles
  <2> QED BY <1>2, <2>1 DEF OpenAuction, CloseAuction
<1>3. ASSUME NEW c \in Clients, NEW l \in Lots, CommitAddLot(c, l) PROVE QuietVehicles
  <2>1. vehicle[txn[c].vehicle] \in OnSite
    BY <1>3, MovesInside DEF CommitAddLot
  <2> QED BY <1>3, <2>1 DEF CommitAddLot, QuietVehicles, TypeOK, OnSite, InAuction
<1>4. ASSUME NEW l \in Lots, SelectWinner(l) \/ CreateSettlement(l) PROVE QuietVehicles
  BY <1>4, MoveIsQuiet DEF SelectWinner, CreateSettlement
<1>5. ASSUME NEW l \in Lots, ReceiveInFull(l) PROVE QuietVehicles
  <2>1. vehicle[lot[l].vehicle] \in OnSite
    BY <1>5, MovesInside DEF ReceiveInFull
  <2> QED BY <1>5, <2>1 DEF ReceiveInFull, QuietVehicles, TypeOK, OnSite
<1>6. ASSUME UNCHANGED vehicle PROVE QuietVehicles
  BY <1>6 DEF QuietVehicles
<1> QED
  BY <1>1, <1>2, <1>3, <1>4, <1>5, <1>6
     DEF Auction, Quiet, ScheduleAuction, PublishAuction, BeginAddLot, PlaceBid

OneActiveStay == \A v \in Vehicles : \A s, z \in ActiveStays(v) : s = z

(* The two steps that cross the boundary carry both columns across. *)
LEMMA AdmitCrosses ==
  ASSUME TypeOK, Grounded, OnSiteIffStaying, OneActiveStay,
         NEW v \in Vehicles, NEW s \in Stays, NEW rated \in BOOLEAN, Admit(v, s, rated)
  PROVE  OnSiteIffStaying' /\ OneActiveStay'
<1>1. /\ stay' = [stay EXCEPT ![s] = [vehicle |-> v, status |-> "OPEN", rated |-> rated]]
      /\ vehicle' = [vehicle EXCEPT ![v] = "PARKED"]
      /\ ActiveStays(v) = {} /\ stay[s].status = Absent
  BY DEF Admit
<1>2. ActiveStays(v)' = {s}
  BY <1>1 DEF ActiveStays, ActiveSession, TypeOK
<1>3. \A w \in Vehicles \ {v} : ActiveStays(w)' = ActiveStays(w)
  BY <1>1 DEF ActiveStays, ActiveSession, TypeOK
<1>4. vehicle'[v] \in OnSite /\ \A w \in Vehicles \ {v} : vehicle'[w] = vehicle[w]
  BY <1>1 DEF TypeOK, OnSite
<1> QED BY <1>2, <1>3, <1>4 DEF OnSiteIffStaying, OneActiveStay

LEMMA CompleteCrosses ==
  ASSUME TypeOK, Grounded, OnSiteIffStaying, OneActiveStay,
         NEW r \in Requests, CompleteRelease(r)
  PROVE  OnSiteIffStaying' /\ OneActiveStay'
<1>0. PICK s \in Stays, v \in Vehicles : s = request[r].stay /\ v = stay[s].vehicle
  BY DEF CompleteRelease, Grounded
<1>1. stay[s].status \in ActiveSession
  BY <1>0 DEF CompleteRelease, SessionMay, ActiveSession
<1>2. stay' = [stay EXCEPT ![s].status = "CLOSED"]
  BY <1>0 DEF CompleteRelease
<1>3. vehicle' = [vehicle EXCEPT ![v] = "EXITED"]
  BY <1>0 DEF CompleteRelease, VehicleOf
<1>4. \A w \in Vehicles : ActiveStays(w)' = ActiveStays(w) \ {s}
  BY <1>2 DEF ActiveStays, ActiveSession, TypeOK, StayRow
<1>5. ActiveStays(v) = {s}
  BY <1>0, <1>1 DEF ActiveStays, OneActiveStay
<1>6. \A w \in Vehicles \ {v} : s \notin ActiveStays(w)
  BY <1>0 DEF ActiveStays
<1>7. ActiveStays(v)' = {} /\ \A w \in Vehicles \ {v} : ActiveStays(w)' = ActiveStays(w)
  BY <1>4, <1>5, <1>6
<1>8. vehicle'[v] \notin OnSite /\ \A w \in Vehicles \ {v} : vehicle'[w] = vehicle[w]
  BY <1>3 DEF TypeOK, OnSite, InAuction
<1>9. OnSiteIffStaying'
  BY <1>7, <1>8 DEF OnSiteIffStaying
<1>10. OneActiveStay'
  BY <1>7 DEF OneActiveStay
<1> QED BY <1>9, <1>10

(* A vehicle carries an on-site status exactly while it has an active stay,*)
(* and it never has two.                                                   *)
THEOREM Custody == Spec => [](OnSiteIffStaying /\ OneActiveStay)
<1> DEFINE Inv == OnSiteIffStaying /\ OneActiveStay
<1>1. Init => Inv
  <2> SUFFICES ASSUME Init PROVE Inv
    OBVIOUS
  <2>1. \A v \in Vehicles : ActiveStays(v) = {}
    BY DEF Init, ActiveStays, ActiveSession
  <2>2. \A v \in Vehicles : vehicle[v] \notin OnSite
    BY DEF Init, OnSite, InAuction
  <2> QED BY <2>1, <2>2 DEF OnSiteIffStaying, OneActiveStay
<1>2. TypeOK /\ Grounded /\ Inv /\ [Next]_vars => Inv'
  <2> SUFFICES ASSUME TypeOK, Grounded, Inv, [Next]_vars PROVE Inv'
    OBVIOUS
  <2>1. CASE Quiet
    BY <2>1 DEF Quiet, QuietStays, QuietVehicles, OnSiteIffStaying, OneActiveStay
  <2>2. CASE UNCHANGED vars
    BY <2>1, <2>2, SameStays DEF vars, Quiet, QuietVehicles
  <2> QED
    BY <2>1, <2>2, YardQuiet, ReleaseQuiet, AuctionQuiet, AdmitCrosses, CompleteCrosses
       DEF Next
<1> QED BY <1>1, <1>2, TypeCorrect, AlwaysGrounded, PTL DEF Spec

------------------------------------------------------------------------------
(* Release: four eyes, and no other way out                                *)

(* No release is ever approved, nor completed, on its requester's own word.*)
THEOREM AlwaysFourEyes == Spec => []FourEyes
<1>1. Init => FourEyes
  BY DEF Init, FourEyes
<1>2. TypeOK /\ FourEyes /\ [Next]_vars => FourEyes'
  <2> SUFFICES ASSUME TypeOK, FourEyes, [Next]_vars PROVE FourEyes'
    OBVIOUS
  <2>1. ASSUME UNCHANGED request PROVE FourEyes'
    BY <2>1 DEF FourEyes
  <2>2. ASSUME NEW c \in Clients, NEW r \in Requests, CommitRequestRelease(c, r)
        PROVE  FourEyes'
    <3>1. PICK status \in {"AWAITING_APPROVAL", "ELIGIBILITY_FAILED"} :
            InsertRequest(r, txn[c].stay, txn[c].by, status)
      BY <2>2 DEF CommitRequestRelease
    <3> QED BY <3>1 DEF InsertRequest, TypeOK, RequestRow, FourEyes
  <2>3. ASSUME NEW r \in Requests, NEW u \in Staff, Approve(r, u) PROVE FourEyes'
    <3>1. /\ u # request[r].by
          /\ request' = [request EXCEPT ![r].status = "APPROVED", ![r].approver = u,
                                        ![r].code = "LIVE"]
      BY <2>3 DEF Approve, MayDecide
    <3>2. request'[r].approver = u /\ request'[r].by = request[r].by
      BY <3>1 DEF TypeOK, RequestRow
    <3>3. \A q \in Requests \ {r} : request'[q] = request[q]
      BY <3>1 DEF TypeOK
    <3> QED BY <3>1, <3>2, <3>3 DEF FourEyes
  <2>4. ASSUME NEW r \in Requests, NEW u \in Staff, Reject(r, u) PROVE FourEyes'
    BY <2>4 DEF Reject, TypeOK, RequestRow, FourEyes
  <2>5. ASSUME NEW r \in Requests, CodeExpires(r) PROVE FourEyes'
    BY <2>5 DEF CodeExpires, TypeOK, RequestRow, FourEyes
  <2>6. ASSUME NEW r \in Requests, CompleteRelease(r) PROVE FourEyes'
    <3>1. /\ request[r].status = "APPROVED"
          /\ request' = [request EXCEPT ![r].status = "COMPLETED", ![r].code = "NONE"]
      BY <2>6 DEF CompleteRelease
    <3> QED BY <3>1 DEF TypeOK, RequestRow, FourEyes
  <2>7. ASSUME NEW r \in Requests, CancelRelease(r) PROVE FourEyes'
    BY <2>7 DEF CancelRelease, TypeOK, RequestRow, FourEyes
  <2>8. CASE Yard
    BY <2>1, <2>8 DEF Yard, Admit, AttachRate, PlaceHold, BeginLiftHold, CommitLiftHold,
       Rollback
  <2>9. CASE Release
    BY <2>1, <2>2, <2>3, <2>4, <2>5, <2>6, <2>7, <2>9 DEF Release, BeginRequestRelease
  <2>10. CASE Auction
    BY <2>1, <2>10 DEF Auction, ScheduleAuction, PublishAuction, OpenAuction, CloseAuction,
       BeginAddLot, CommitAddLot, PlaceBid, SelectWinner, CreateSettlement, ReceiveInFull
  <2> QED BY <2>1, <2>8, <2>9, <2>10 DEF Next, vars
<1> QED BY <1>1, <1>2, TypeCorrect, PTL DEF Spec

LEMMA OnlyCompletionLeaves ==
  ASSUME TypeOK, Grounded, FourEyes, [Next]_vars, NEW v \in Vehicles
  PROVE  LeavesThrough(v)
<1>1. CASE Quiet \/ UNCHANGED vars
  BY <1>1 DEF Quiet, QuietVehicles, vars, OnSite, InAuction, LeavesThrough
<1>2. ASSUME NEW w \in Vehicles, NEW s \in Stays, NEW rated \in BOOLEAN, Admit(w, s, rated)
      PROVE  LeavesThrough(v)
  BY <1>2 DEF Admit, TypeOK, LeavesThrough
<1>3. ASSUME NEW r \in Requests, CompleteRelease(r) PROVE LeavesThrough(v)
  <2> SUFFICES ASSUME vehicle[v] # "EXITED", vehicle'[v] = "EXITED"
               PROVE  LeavesThrough(v)
    BY DEF LeavesThrough
  <2>1. VehicleOf(r) = v
    BY <1>3 DEF CompleteRelease, TypeOK
  <2>2. /\ request[r].status = "APPROVED" /\ request[r].code = "LIVE"
        /\ request' = [request EXCEPT ![r].status = "COMPLETED", ![r].code = "NONE"]
        /\ stay[request[r].stay].status \in {"OPEN", "PENDING_EXIT"}
        /\ stay[request[r].stay].rated
        /\ stay' = [stay EXCEPT ![request[r].stay].status = "CLOSED"]
    BY <1>3 DEF CompleteRelease, CodeAccepted, SessionMay
  <2>3. request'[r].status = "COMPLETED" /\ request'[r].code = "NONE"
    BY <2>2 DEF TypeOK, RequestRow
  <2>4. request[r].stay \in Stays
    BY <2>2 DEF Grounded
  <2>5. stay'[request[r].stay].status = "CLOSED"
    BY <2>2, <2>4 DEF TypeOK, StayRow
  <2>6. request[r].approver # request[r].by
    BY <2>2 DEF FourEyes
  <2> QED BY <2>1, <2>2, <2>3, <2>5, <2>6 DEF LeavesThrough
<1> QED BY <1>1, <1>2, <1>3, YardQuiet, ReleaseQuiet, AuctionQuiet DEF Next

(* A vehicle leaves the yard only in the step that completes, with a live  *)
(* code, a release of its stay that somebody else approved.                *)
THEOREM OnlyReleaseLeaves == Spec => LeavesByRelease
<1>1. TypeOK /\ Grounded /\ FourEyes /\ [Next]_vars =>
        [\A v \in Vehicles : LeavesThrough(v)]_vars
  BY OnlyCompletionLeaves
<1>2. Spec => [][\A v \in Vehicles : LeavesThrough(v)]_vars
  BY <1>1, TypeCorrect, AlwaysGrounded, AlwaysFourEyes, PTL DEF Spec
<1> QED BY <1>2 DEF LeavesByRelease

------------------------------------------------------------------------------
(* Release statuses and the requests behind them                           *)

(* The vehicle a stay was opened for is never changed. *)
KeepsVehicles == \A s \in Stays : stay[s].status # Absent => stay'[s].vehicle = stay[s].vehicle

LEMMA SameVehicles ==
  ASSUME TypeOK, NEW s, NEW to, \/ UNCHANGED stay
                                \/ stay' = [stay EXCEPT ![s].status = to]
                                \/ stay' = [stay EXCEPT ![s].rated = to]
  PROVE  KeepsVehicles
  BY DEF KeepsVehicles, TypeOK, StayRow

LEMMA StepKeepsVehicles == ASSUME TypeOK, Next PROVE KeepsVehicles
<1>1. CASE Yard
  <2>1. ASSUME NEW v \in Vehicles, NEW s \in Stays, NEW rated \in BOOLEAN,
               Admit(v, s, rated)
        PROVE  KeepsVehicles
    BY <2>1 DEF Admit, KeepsVehicles, TypeOK
  <2> QED BY <1>1, <2>1, SameVehicles
          DEF Yard, AttachRate, PlaceHold, BeginLiftHold, CommitLiftHold, Rollback
<1>2. CASE Release
  BY <1>2, SameVehicles
     DEF Release, BeginRequestRelease, CommitRequestRelease, Approve, Reject, CodeExpires,
         CompleteRelease, CancelRelease
<1>3. CASE Auction
  BY <1>3, SameVehicles
     DEF Auction, ScheduleAuction, PublishAuction, OpenAuction, CloseAuction, BeginAddLot,
         CommitAddLot, PlaceBid, SelectWinner, CreateSettlement, ReceiveInFull
<1> QED BY <1>1, <1>2, <1>3 DEF Next

(* A step that leaves the requests alone puts no vehicle in a release status. *)
LEMMA NoReleaseStatus ==
  ASSUME TypeOK, Next, UNCHANGED request, NEW v \in Vehicles,
         vehicle'[v] \in {"RELEASE_REQUESTED", "RELEASE_APPROVED"}
  PROVE  vehicle[v] = vehicle'[v]
<1> USE DEF TypeOK
<1>1. CASE Yard
  BY <1>1 DEF Yard, Admit, AttachRate, PlaceHold, BeginLiftHold, CommitLiftHold, Rollback,
     MoveVehicle
<1>2. CASE Auction
  <2>1. ASSUME NEW a \in Auctions, OpenAuction(a) \/ CloseAuction(a)
        PROVE  vehicle[v] = vehicle'[v]
    BY <2>1 DEF OpenAuction, CloseAuction, LotsFollow
  <2> QED BY <1>2, <2>1 DEF Auction, ScheduleAuction, PublishAuction, BeginAddLot, CommitAddLot,
          PlaceBid, SelectWinner, CreateSettlement, ReceiveInFull, MoveVehicle
<1>3. ASSUME NEW c \in Clients, NEW r \in Requests, CommitRequestRelease(c, r) PROVE FALSE
  BY <1>3 DEF CommitRequestRelease, InsertRequest, RequestRow
<1>4. ASSUME NEW r \in Requests, NEW u \in Staff, Approve(r, u) \/ Reject(r, u) PROVE FALSE
  BY <1>4 DEF Approve, Reject, MayDecide, RequestRow
<1>5. ASSUME NEW r \in Requests, CompleteRelease(r) \/ CancelRelease(r) PROVE FALSE
  BY <1>5 DEF CompleteRelease, CancelRelease, ReleaseMay, RequestRow
<1>6. CASE Release
  BY <1>3, <1>4, <1>5, <1>6 DEF Release, BeginRequestRelease, CodeExpires
<1> QED BY <1>1, <1>2, <1>6 DEF Next

(* Request r becomes `to` and its vehicle w moves to `at`. *)
LEMMA RequestMoves ==
  ASSUME TypeOK, Grounded, KeepsVehicles, ReleaseStatusHasRequest,
         NEW r \in Requests, NEW w \in Vehicles, w = VehicleOf(r),
         request[r].status # Absent,
         request' \in [Requests -> RequestRow],
         request'[r].stay = request[r].stay,
         \A q \in Requests \ {r} : request'[q] = request[q],
         NEW at, vehicle' = [vehicle EXCEPT ![w] = at],
         at = "RELEASE_REQUESTED" => request'[r].status = "AWAITING_APPROVAL",
         at = "RELEASE_APPROVED" => request'[r].status = "APPROVED"
  PROVE  ReleaseStatusHasRequest'
<1>1. \A q \in Requests : request[q].status # Absent => VehicleOf(q)' = VehicleOf(q)
  BY DEF VehicleOf, KeepsVehicles, Grounded
<1>2. vehicle'[w] = at /\ \A v \in Vehicles \ {w} : vehicle'[v] = vehicle[v]
  BY DEF TypeOK
<1>3. \A v \in Vehicles \ {w}, q \in Requests : VehicleOf(q) = v => q # r
  OBVIOUS
<1>4. ASSUME NEW v \in Vehicles \ {w}, NEW st \in {"AWAITING_APPROVAL", "APPROVED"},
             \E q \in Requests : request[q].status = st /\ VehicleOf(q) = v
      PROVE  \E q \in Requests : request'[q].status = st /\ VehicleOf(q)' = v
  BY <1>1, <1>3, <1>4
<1>5. \A v \in Vehicles \ {w} :
        /\ vehicle'[v] = "RELEASE_REQUESTED" =>
             \E q \in Requests : request'[q].status = "AWAITING_APPROVAL" /\ VehicleOf(q)' = v
        /\ vehicle'[v] = "RELEASE_APPROVED" =>
             \E q \in Requests : request'[q].status = "APPROVED" /\ VehicleOf(q)' = v
  BY <1>2, <1>4 DEF ReleaseStatusHasRequest
<1> QED BY <1>1, <1>2, <1>5 DEF ReleaseStatusHasRequest

LEMMA ReleaseKeepsRequest ==
  ASSUME TypeOK, TypeOK', Grounded, ReleaseStatusHasRequest, Next, Release
  PROVE  ReleaseStatusHasRequest'
<1>0. KeepsVehicles
  BY StepKeepsVehicles
<1>1. \A r \in Requests : request[r].status # Absent =>
        request[r].stay \in Stays /\ VehicleOf(r) \in Vehicles
  BY DEF Grounded, VehicleOf
<1>2. ASSUME NEW c \in Clients, NEW r \in Requests, CommitRequestRelease(c, r)
      PROVE  ReleaseStatusHasRequest'
  <2>1. txn[c].stay \in Stays /\ stay[txn[c].stay].status # Absent
    BY <1>2 DEF CommitRequestRelease, TypeOK, Txn, Idle, Grounded
  <2> DEFINE w == stay[txn[c].stay].vehicle
  <2>2. w \in Vehicles
    BY <2>1 DEF Grounded
  <2>3. \A q \in Requests : request[q].status # Absent =>
          request'[q] = request[q] /\ VehicleOf(q)' = VehicleOf(q)
    <3>1. request[r].status = Absent /\ \A q \in Requests \ {r} : request'[q] = request[q]
      BY <1>2 DEF CommitRequestRelease, InsertRequest, TypeOK
    <3> QED BY <1>0, <3>1 DEF KeepsVehicles, VehicleOf, Grounded
  <2>4. CASE txn[c].eligible
    <3>1. vehicle' = [vehicle EXCEPT ![w] = "RELEASE_REQUESTED"]
      BY <1>2, <2>4 DEF CommitRequestRelease, MoveVehicle
    <3>2. request'[r].status = "AWAITING_APPROVAL" /\ request'[r].stay = txn[c].stay
      BY <1>2, <2>4 DEF CommitRequestRelease, InsertRequest, TypeOK
    <3>3. VehicleOf(r)' = w
      BY <1>2, <3>2 DEF VehicleOf, CommitRequestRelease
    <3> HIDE DEF w
    <3> QED BY <2>2, <2>3, <3>1, <3>2, <3>3 DEF ReleaseStatusHasRequest, TypeOK
  <2>5. CASE ~txn[c].eligible
    BY <1>2, <2>3, <2>5 DEF CommitRequestRelease, ReleaseStatusHasRequest
  <2> QED BY <2>4, <2>5
<1>3. ASSUME NEW r \in Requests, NEW u \in Staff, Approve(r, u) PROVE ReleaseStatusHasRequest'
  <2>1. /\ request[r].status = "AWAITING_APPROVAL"
        /\ vehicle' = [vehicle EXCEPT ![VehicleOf(r)] = "RELEASE_APPROVED"]
        /\ request' = [request EXCEPT ![r].status = "APPROVED", ![r].approver = u,
                                      ![r].code = "LIVE"]
    BY <1>3 DEF Approve, MayDecide, MoveVehicle
  <2>2. /\ request'[r].status = "APPROVED" /\ request'[r].stay = request[r].stay
        /\ \A q \in Requests \ {r} : request'[q] = request[q]
    BY <2>1 DEF TypeOK, RequestRow
  <2> QED BY <1>0, <1>1, <2>1, <2>2, RequestMoves DEF TypeOK
<1>4. ASSUME NEW r \in Requests, NEW u \in Staff, Reject(r, u) PROVE ReleaseStatusHasRequest'
  <2>1. /\ request[r].status # Absent
        /\ vehicle' = [vehicle EXCEPT ![VehicleOf(r)] = "PARKED"]
        /\ request' = [request EXCEPT ![r].status = "REJECTED"]
    BY <1>4 DEF Reject, MayDecide, MoveVehicle
  <2>2. /\ request'[r].stay = request[r].stay
        /\ \A q \in Requests \ {r} : request'[q] = request[q]
    BY <2>1 DEF TypeOK, RequestRow
  <2> QED BY <1>0, <1>1, <2>1, <2>2, RequestMoves DEF TypeOK
<1>5. ASSUME NEW r \in Requests, CompleteRelease(r) PROVE ReleaseStatusHasRequest'
  <2>1. /\ request[r].status # Absent
        /\ vehicle' = [vehicle EXCEPT ![VehicleOf(r)] = "EXITED"]
        /\ request' = [request EXCEPT ![r].status = "COMPLETED", ![r].code = "NONE"]
    BY <1>5 DEF CompleteRelease
  <2>2. /\ request'[r].stay = request[r].stay
        /\ \A q \in Requests \ {r} : request'[q] = request[q]
    BY <2>1 DEF TypeOK, RequestRow
  <2> QED BY <1>0, <1>1, <2>1, <2>2, RequestMoves DEF TypeOK
<1>6. ASSUME NEW r \in Requests, CancelRelease(r) PROVE ReleaseStatusHasRequest'
  <2>1. /\ request[r].status # Absent
        /\ vehicle' = [vehicle EXCEPT ![VehicleOf(r)] = "PARKED"]
        /\ request' = [request EXCEPT ![r].status = "CANCELLED"]
    BY <1>6 DEF CancelRelease, ReleaseMay, MoveVehicle
  <2>2. /\ request'[r].stay = request[r].stay
        /\ \A q \in Requests \ {r} : request'[q] = request[q]
    BY <2>1 DEF TypeOK, RequestRow
  <2> QED BY <1>0, <1>1, <2>1, <2>2, RequestMoves DEF TypeOK
<1>7. ASSUME NEW r \in Requests, CodeExpires(r) PROVE ReleaseStatusHasRequest'
  <2>1. \A q \in Requests : /\ request'[q].status = request[q].status
                            /\ request'[q].stay = request[q].stay
    BY <1>7 DEF CodeExpires, TypeOK, RequestRow
  <2> QED BY <1>7, <2>1 DEF CodeExpires, ReleaseStatusHasRequest, VehicleOf
<1>8. ASSUME NEW c \in Clients, NEW s \in Stays, NEW u \in Staff, BeginRequestRelease(c, s, u)
      PROVE  ReleaseStatusHasRequest'
  BY <1>8 DEF BeginRequestRelease, ReleaseStatusHasRequest, VehicleOf
<1> QED BY <1>2, <1>3, <1>4, <1>5, <1>6, <1>7, <1>8 DEF Release

(* A vehicle that waits for a release decision, or for its exit, has the   *)
(* request that put it there, whichever requests were cancelled and holds  *)
(* lifted in between.                                                      *)
THEOREM ReleaseStatusBacked == Spec => []ReleaseStatusHasRequest
<1>1. Init => ReleaseStatusHasRequest
  BY DEF Init, ReleaseStatusHasRequest
<1>2. TypeOK /\ TypeOK' /\ Grounded /\ ReleaseStatusHasRequest /\ [Next]_vars =>
        ReleaseStatusHasRequest'
  <2> SUFFICES ASSUME TypeOK, TypeOK', Grounded, ReleaseStatusHasRequest, [Next]_vars
               PROVE  ReleaseStatusHasRequest'
    OBVIOUS
  <2>1. CASE UNCHANGED vars
    BY <2>1 DEF vars, ReleaseStatusHasRequest, VehicleOf
  <2>2. CASE Next /\ UNCHANGED request
    <3>1. \A r \in Requests : request[r].status # Absent => VehicleOf(r)' = VehicleOf(r)
      BY <2>2, StepKeepsVehicles DEF KeepsVehicles, VehicleOf, Grounded
    <3>2. \A v \in Vehicles : vehicle'[v] \in {"RELEASE_REQUESTED", "RELEASE_APPROVED"} =>
            vehicle[v] = vehicle'[v]
      BY <2>2, NoReleaseStatus
    <3> QED BY <2>2, <3>1, <3>2 DEF ReleaseStatusHasRequest
  <2>3. CASE Yard \/ Auction
    <3>1. UNCHANGED request
      BY <2>3 DEF Yard, Admit, AttachRate, PlaceHold, BeginLiftHold, CommitLiftHold, Rollback,
         Auction, ScheduleAuction, PublishAuction, OpenAuction, CloseAuction, BeginAddLot,
         CommitAddLot, PlaceBid, SelectWinner, CreateSettlement, ReceiveInFull
    <3> QED BY <2>2, <2>3, <3>1 DEF Next
  <2> QED BY <2>1, <2>3, ReleaseKeepsRequest DEF Next
<1> QED BY <1>1, <1>2, TypeCorrect, AlwaysGrounded, PTL DEF Spec

------------------------------------------------------------------------------
(* Auction statuses and the lots behind them                               *)

OneLiveLot == \A v \in Vehicles : \A l, m \in LiveLots(v) : l = m

AuctionInv == OneLiveLot /\ AuctionStatusHasLot /\ BiddingKeepsVehicle

(* The status a vehicle has while its lot is under the hammer or beyond. *)
Shown(status) ==
  IF status = "SETTLED" THEN "SOLD" ELSE status

(* Lots in `moved`, and their vehicles, take a status of the auction. *)
MovedTogether(moved, status) ==
  /\ \A l \in Lots \ moved : lot'[l] = lot[l]
  /\ \A l \in moved : /\ lot[l].status \in LiveLot
                      /\ lot[l].vehicle \in Vehicles
                      /\ lot'[l].vehicle = lot[l].vehicle
                      /\ lot'[l].status = status
                      /\ vehicle'[lot[l].vehicle] = Shown(status)
  /\ \A v \in Vehicles : v \notin {lot[l].vehicle : l \in moved} => vehicle'[v] = vehicle[v]

LEMMA TogetherKeepsAuction ==
  ASSUME AuctionInv, NEW moved \in SUBSET Lots,
         NEW status \in {"BIDDING_OPEN", "BIDDING_CLOSED", "WINNER_SELECTED",
                         "SETTLEMENT_PENDING", "SETTLED"},
         MovedTogether(moved, status)
  PROVE  AuctionInv'
<1>1. \A v \in Vehicles : LiveLots(v)' = LiveLots(v)
  BY DEF LiveLots, MovedTogether, LiveLot
<1>2. OneLiveLot'
  BY <1>1 DEF OneLiveLot, AuctionInv
<1>3. ASSUME NEW v \in Vehicles PROVE AuctionStatusHasLot!(v)'
  <2>1. CASE v \in {lot[l].vehicle : l \in moved}
    <3>1. PICK l \in moved : v = lot[l].vehicle
      BY <2>1
    <3>2. l \in LiveLots(v)' /\ lot'[l].status = status /\ vehicle'[v] = Shown(status)
      BY <1>1, <3>1 DEF MovedTogether, LiveLots
    <3> QED BY <3>2 DEF Shown, InAuction
  <2>2. CASE v \notin {lot[l].vehicle : l \in moved}
    <3>1. vehicle'[v] = vehicle[v]
      BY <2>2 DEF MovedTogether
    <3>2. \A l \in LiveLots(v) : l \in LiveLots(v)' /\ lot'[l] = lot[l]
      BY <1>1, <2>2 DEF MovedTogether, LiveLots
    <3> QED BY <3>1, <3>2 DEF AuctionInv, AuctionStatusHasLot
  <2> QED BY <2>1, <2>2
<1>4. AuctionStatusHasLot'
  BY <1>3 DEF AuctionStatusHasLot
<1>5. BiddingKeepsVehicle'
  <2> SUFFICES ASSUME NEW v \in Vehicles, NEW l \in Lots,
                      lot'[l].vehicle = v, lot'[l].status = "BIDDING_OPEN"
               PROVE  vehicle'[v] = "BIDDING_OPEN"
    BY DEF BiddingKeepsVehicle
  <2>1. CASE l \in moved
    BY <2>1 DEF MovedTogether, Shown
  <2>2. CASE l \notin moved
    <3>1. lot[l].vehicle = v /\ lot[l].status = "BIDDING_OPEN"
      BY <2>2 DEF MovedTogether
    <3>2. l \in LiveLots(v)
      BY <3>1 DEF LiveLots, LiveLot
    <3>3. v \notin {lot[m].vehicle : m \in moved}
      <4> SUFFICES ASSUME NEW m \in moved, lot[m].vehicle = v PROVE FALSE
        OBVIOUS
      <4>1. m \in LiveLots(v)
        BY DEF LiveLots, MovedTogether
      <4> QED BY <2>2, <3>2, <4>1 DEF AuctionInv, OneLiveLot
    <3> QED BY <3>1, <3>3 DEF MovedTogether, AuctionInv, BiddingKeepsVehicle
  <2> QED BY <2>1, <2>2
<1> QED BY <1>2, <1>4, <1>5 DEF AuctionInv

(* A step that leaves the lots alone puts no vehicle under the hammer and  *)
(* takes none from it.                                                     *)
Away ==
  \A v \in Vehicles :
    \/ vehicle'[v] = vehicle[v]
    \/ /\ vehicle[v] # "BIDDING_OPEN"
       /\ vehicle'[v] \notin InAuction \cup {"SOLD"}

LEMMA AwayKeepsAuction ==
  ASSUME AuctionInv, Away,
         \A l \in Lots : lot'[l].vehicle = lot[l].vehicle /\ lot'[l].status = lot[l].status
  PROVE  AuctionInv'
<1>1. \A v \in Vehicles : LiveLots(v)' = LiveLots(v)
  BY DEF LiveLots
<1>2. OneLiveLot'
  BY <1>1 DEF OneLiveLot, AuctionInv
<1>3. AuctionStatusHasLot'
  <2> SUFFICES ASSUME NEW v \in Vehicles PROVE AuctionStatusHasLot!(v)'
    BY DEF AuctionStatusHasLot
  <2>1. \A l \in LiveLots(v) : l \in LiveLots(v)' /\ lot'[l].status = lot[l].status
    BY <1>1 DEF LiveLots
  <2> QED BY <2>1 DEF AuctionInv, AuctionStatusHasLot, InAuction, Away
<1>4. BiddingKeepsVehicle'
  BY DEF AuctionInv, BiddingKeepsVehicle, Away
<1> QED BY <1>2, <1>3, <1>4 DEF AuctionInv

(* What a vehicle may be moved to off the hammer, and from where. *)
LEMMA MovesAway ==
  ASSUME TypeOK, NEW w,
         NEW to \in {"PARKED", "UNDER_HOLD", "RELEASE_REQUESTED", "RELEASE_APPROVED"},
         MoveVehicle(w, to)
  PROVE  Away
  BY DEF TypeOK, MoveVehicle, CanMove, VehicleMay, InAuction, Away

LEMMA OffHammerKeepsAuction ==
  ASSUME TypeOK, AuctionInv, Yard \/ Release PROVE AuctionInv'
<1>1. UNCHANGED lot
  BY DEF Yard, Admit, AttachRate, PlaceHold, BeginLiftHold, CommitLiftHold, Rollback,
     Release, BeginRequestRelease, CommitRequestRelease, Approve, Reject, CodeExpires,
     CompleteRelease, CancelRelease
<1>2. ASSUME UNCHANGED vehicle PROVE Away
  BY <1>2 DEF Away
<1>3. ASSUME NEW v \in Vehicles, NEW s \in Stays, NEW rated \in BOOLEAN, Admit(v, s, rated)
      PROVE  Away
  BY <1>3 DEF Admit, Admissible, TypeOK, InAuction, Away
<1>4. ASSUME NEW s \in Stays, PlaceHold(s) PROVE Away
  BY <1>4, MovesAway DEF PlaceHold
<1>5. ASSUME NEW c \in Clients, CommitLiftHold(c) PROVE Away
  BY <1>5, MovesAway DEF CommitLiftHold
<1>6. ASSUME NEW c \in Clients, NEW r \in Requests, CommitRequestRelease(c, r) PROVE Away
  BY <1>2, <1>6, MovesAway DEF CommitRequestRelease
<1>7. ASSUME NEW r \in Requests, NEW u \in Staff, Approve(r, u) \/ Reject(r, u) PROVE Away
  BY <1>7, MovesAway DEF Approve, Reject
<1>8. ASSUME NEW r \in Requests, CompleteRelease(r) PROVE Away
  BY <1>8 DEF CompleteRelease, VehicleMay, TypeOK, InAuction, Away
<1>9. ASSUME NEW r \in Requests, CancelRelease(r) PROVE Away
  BY <1>9, MovesAway DEF CancelRelease
<1>10. Away
  <2>1. CASE Yard
    BY <1>2, <1>3, <1>4, <1>5, <2>1 DEF Yard, AttachRate, BeginLiftHold, Rollback
  <2>2. CASE Release
    BY <1>2, <1>6, <1>7, <1>8, <1>9, <2>2 DEF Release, BeginRequestRelease, CodeExpires
  <2> QED BY <2>1, <2>2
<1> QED BY <1>1, <1>10, AwayKeepsAuction

LEMMA HammerKeepsAuction ==
  ASSUME TypeOK, Grounded, AuctionInv, Auction PROVE AuctionInv'
<1> USE DEF TypeOK
<1>1. ASSUME NEW a \in Auctions, OpenAuction(a) PROVE AuctionInv'
  <2> DEFINE moved == {l \in LotsOf(a) : lot[l].status = "LISTED"}
  <2>1. LotsFollow(moved, "BIDDING_OPEN")
    BY <1>1 DEF OpenAuction
  <2>2. MovedTogether(moved, "BIDDING_OPEN")
    BY <2>1 DEF LotsFollow, LotsOf, MovedTogether, LiveLot, Grounded, LotRow, Shown
  <2>3. moved \in SUBSET Lots
    BY DEF LotsOf
  <2> HIDE DEF moved
  <2> QED BY <2>2, <2>3, TogetherKeepsAuction
<1>2. ASSUME NEW a \in Auctions, CloseAuction(a) PROVE AuctionInv'
  <2> DEFINE moved == {l \in LotsOf(a) : lot[l].status = "BIDDING_OPEN"}
  <2>1. LotsFollow(moved, "BIDDING_CLOSED")
    BY <1>2 DEF CloseAuction
  <2>2. MovedTogether(moved, "BIDDING_CLOSED")
    BY <2>1 DEF LotsFollow, LotsOf, MovedTogether, LiveLot, Grounded, LotRow, Shown
  <2>3. moved \in SUBSET Lots
    BY DEF LotsOf
  <2> HIDE DEF moved
  <2> QED BY <2>2, <2>3, TogetherKeepsAuction
<1>3. ASSUME NEW l \in Lots, SelectWinner(l) PROVE AuctionInv'
  <2>1. MovedTogether({l}, "WINNER_SELECTED")
    BY <1>3 DEF SelectWinner, LotMay, MoveVehicle, MovedTogether, LiveLot, Grounded, LotRow, Shown
  <2> QED BY <2>1, TogetherKeepsAuction
<1>4. ASSUME NEW l \in Lots, CreateSettlement(l) PROVE AuctionInv'
  <2>1. MovedTogether({l}, "SETTLEMENT_PENDING")
    BY <1>4 DEF CreateSettlement, LotMay, MoveVehicle, MovedTogether, LiveLot, Grounded,
       LotRow, Shown
  <2> QED BY <2>1, TogetherKeepsAuction
<1>5. ASSUME NEW l \in Lots, ReceiveInFull(l) PROVE AuctionInv'
  <2>1. MovedTogether({l}, "SETTLED")
    BY <1>5 DEF ReceiveInFull, MovedTogether, LiveLot, Grounded, LotRow, Shown
  <2> QED BY <2>1, TogetherKeepsAuction
<1>6. ASSUME NEW l \in Lots, PlaceBid(l) PROVE AuctionInv'
  <2>1. \A m \in Lots : lot'[m].vehicle = lot[m].vehicle /\ lot'[m].status = lot[m].status
    BY <1>6 DEF PlaceBid, LotRow
  <2> QED BY <1>6, <2>1, AwayKeepsAuction DEF PlaceBid, Away
<1>7. ASSUME UNCHANGED <<vehicle, lot>> PROVE AuctionInv'
  BY <1>7, AwayKeepsAuction DEF Away
<1>8. ASSUME NEW c \in Clients, NEW l \in Lots, CommitAddLot(c, l) PROVE AuctionInv'
  <2>1. PICK v \in Vehicles : v = txn[c].vehicle
    BY <1>8 DEF CommitAddLot, Txn, Idle
  <2>2. /\ lot[l].status = Absent /\ LiveLots(v) = {}
        /\ lot' = [lot EXCEPT ![l] = [vehicle |-> v, auction |-> txn[c].auction,
                                      status |-> "LISTED", bid |-> FALSE]]
        /\ CanMove(v, "AUCTION_ELIGIBLE")
        /\ vehicle' = [vehicle EXCEPT ![v] = "AUCTION_LISTED"]
    BY <1>8, <2>1 DEF CommitAddLot, LotIndexAllows
  <2>3. /\ LiveLots(v)' = {l} /\ lot'[l].status = "LISTED"
        /\ \A w \in Vehicles \ {v} : LiveLots(w)' = LiveLots(w)
    BY <2>2 DEF LiveLots, LiveLot
  <2>4. \A m \in Lots \ {l} : lot'[m] = lot[m]
    BY <2>2
  <2>5. \A w \in Vehicles \ {v} : \A m \in LiveLots(w) : m # l
    BY <2>2 DEF LiveLots, LiveLot
  <2>6. vehicle'[v] = "AUCTION_LISTED" /\ vehicle[v] # "BIDDING_OPEN"
    BY <2>2 DEF CanMove, VehicleMay
  <2>7. \A w \in Vehicles \ {v} : vehicle'[w] = vehicle[w]
    BY <2>2
  <2>8. OneLiveLot'
    BY <2>3 DEF OneLiveLot, AuctionInv
  <2>9. AuctionStatusHasLot'
    <3>1. ASSUME NEW w \in Vehicles \ {v} PROVE AuctionStatusHasLot!(w)'
      <4>1. /\ LiveLots(w)' = LiveLots(w) /\ vehicle'[w] = vehicle[w]
            /\ \A m \in LiveLots(w) : lot'[m] = lot[m]
        BY <2>3, <2>4, <2>5, <2>7 DEF LiveLots
      <4> QED BY <4>1 DEF AuctionInv, AuctionStatusHasLot
    <3>2. AuctionStatusHasLot!(v)'
      BY <2>3, <2>6
    <3> QED BY <3>1, <3>2 DEF AuctionStatusHasLot
  <2>10. BiddingKeepsVehicle'
    BY <2>3, <2>4, <2>6, <2>7 DEF AuctionInv, BiddingKeepsVehicle
  <2> QED BY <2>8, <2>9, <2>10 DEF AuctionInv
<1> QED
  BY <1>1, <1>2, <1>3, <1>4, <1>5, <1>6, <1>7, <1>8
     DEF Auction, ScheduleAuction, PublishAuction, BeginAddLot

LEMMA AlwaysAuctionInv == Spec => []AuctionInv
<1>1. Init => AuctionInv
  <2> SUFFICES ASSUME Init PROVE AuctionInv
    OBVIOUS
  <2>1. \A l \in Lots : lot[l].status = Absent
    BY DEF Init
  <2>2. \A v \in Vehicles : LiveLots(v) = {} /\ vehicle[v] = "CAPTURED"
    BY <2>1 DEF Init, LiveLots, LiveLot
  <2> QED BY <2>1, <2>2
          DEF AuctionInv, OneLiveLot, AuctionStatusHasLot, BiddingKeepsVehicle, InAuction
<1>2. TypeOK /\ Grounded /\ AuctionInv /\ [Next]_vars => AuctionInv'
  <2> SUFFICES ASSUME TypeOK, Grounded, AuctionInv, [Next]_vars PROVE AuctionInv'
    OBVIOUS
  <2>1. CASE UNCHANGED vars
    BY <2>1, AwayKeepsAuction DEF vars, Away
  <2> QED BY <2>1, OffHammerKeepsAuction, HammerKeepsAuction DEF Next
<1> QED BY <1>1, <1>2, TypeCorrect, AlwaysGrounded, PTL DEF Spec

(* A vehicle's auction status is the status of its live lot, and a sold    *)
(* vehicle has a settled lot, although holds, releases and a second addLot *)
(* pull at the same vehicle.                                               *)
THEOREM AuctionStatusBacked == Spec => []AuctionStatusHasLot
<1>1. AuctionInv => AuctionStatusHasLot
  BY DEF AuctionInv
<1> QED BY <1>1, AlwaysAuctionInv, PTL

(* Between the opening and the close of bidding nothing takes the vehicle  *)
(* of a lot elsewhere: it has no second live lot that could.               *)
THEOREM HammerKeepsVehicle == Spec => []BiddingKeepsVehicle
<1>1. AuctionInv => BiddingKeepsVehicle
  BY DEF AuctionInv
<1> QED BY <1>1, AlwaysAuctionInv, PTL
===============================================================================
