----------------------------- MODULE YardCustody -----------------------------
(***************************************************************************)
(* Custody of the vehicles of a repossession yard: who may move a vehicle, *)
(* and out of which state.  The rows of five tables (vehicles,             *)
(* parking_sessions, release_requests, auctions, auction_lots) and the     *)
(* handlers of the gate, hold, release and auction services that write     *)
(* their status columns.                                                   *)
(*                                                                         *)
(* Every handler runs in one READ COMMITTED transaction.  A status written *)
(* through a `transition` helper is read again at that moment and updated  *)
(* under a version check, so it behaves as if the whole handler ran at its *)
(* commit: such a handler is one action.  Three handlers also act on rows  *)
(* they read earlier and never check again (requestRelease, addLot and     *)
(* liftHold): each is a Begin action that records what was read and a      *)
(* Commit action that uses it, with anything in between.  A handler that   *)
(* throws leaves no trace; one that is in flight may always roll back.     *)
(*                                                                         *)
(* Session invoices are raised only by completeRelease, so the outstanding *)
(* balance of a live stay is always zero and AWAITING_PAYMENT, which       *)
(* requestRelease reaches only with a balance, is never entered.           *)
(***************************************************************************)
EXTENDS Lifecycles, FiniteSets

CONSTANTS
  Vehicles,   \* canonical vehicle rows
  Stays,      \* parking_sessions rows, in use or not yet created
  Requests,   \* release_requests rows, in use or not yet created
  Auctions,   \* auctions rows
  Lots,       \* auction_lots rows, in use or not yet created
  Staff,      \* users who may request and decide releases
  Clients,    \* HTTP requests that hold a database transaction open
  Nobody      \* stands for a NULL foreign key

ASSUME NobodyAssumption == Nobody \notin Vehicles \cup Stays \cup Staff

VARIABLES
  vehicle,    \* vehicles.status
  stay,       \* parking_sessions: vehicle, status, whether a rate is attached
  request,    \* release_requests: stay, status, requester, approver, gate code
  auction,    \* auctions.status
  lot,        \* auction_lots: vehicle, auction, status, whether a bid stands
  txn         \* what the open transaction of each client has read

vars == <<vehicle, stay, request, auction, lot, txn>>

Absent == "ABSENT"          \* a row that has not been inserted

StayRow == [vehicle: Vehicles \cup {Nobody}, status: SessionStatus \cup {Absent},
            rated: BOOLEAN]
RequestRow == [stay: Stays \cup {Nobody}, status: ReleaseStatus \cup {Absent},
               by: Staff \cup {Nobody}, approver: Staff \cup {Nobody},
               code: {"NONE", "LIVE", "EXPIRED"}]
LotRow == [vehicle: Vehicles \cup {Nobody}, auction: Auctions,
           status: LotStatus \cup {Absent}, bid: BOOLEAN]

Idle == [op |-> "idle"]
Txn ==
  {Idle}
    \cup [op: {"requestRelease"}, stay: Stays, by: Staff, eligible: BOOLEAN]
    \cup [op: {"addLot"}, vehicle: Vehicles, auction: Auctions]
    \cup [op: {"liftHold"}, stay: Stays]

TypeOK ==
  /\ vehicle \in [Vehicles -> VehicleStatus]
  /\ stay \in [Stays -> StayRow]
  /\ request \in [Requests -> RequestRow]
  /\ auction \in [Auctions -> AuctionStatus]
  /\ lot \in [Lots -> LotRow]
  /\ txn \in [Clients -> Txn]

Init ==
  /\ vehicle = [v \in Vehicles |-> "CAPTURED"]
  /\ stay = [s \in Stays |-> [vehicle |-> Nobody, status |-> Absent, rated |-> FALSE]]
  /\ request = [r \in Requests |-> [stay |-> Nobody, status |-> Absent, by |-> Nobody,
                                    approver |-> Nobody, code |-> "NONE"]]
  /\ auction = [a \in Auctions |-> "DRAFT"]
  /\ lot \in [Lots -> [vehicle: {Nobody}, auction: Auctions, status: {Absent},
                       bid: {FALSE}]]
  /\ txn = [c \in Clients |-> Idle]

------------------------------------------------------------------------------

(* VehicleService.transition with tolerateNoop: already there, or a pair   *)
(* of the table.                                                           *)
CanMove_Homing(v, to) ==           \* mutant: anything may be sent back to the yard
  vehicle[v] = to \/ to = "PARKED" \/ VehicleMay(vehicle[v], to)

CanMove(v, to) == vehicle[v] = to \/ VehicleMay(vehicle[v], to)

MoveVehicle(v, to) ==
  /\ CanMove(v, to)
  /\ vehicle' = [vehicle EXCEPT ![v] = to]

(* The rows that the partial unique indexes compare. *)
ActiveStays(v) == {s \in Stays : stay[s].vehicle = v /\ stay[s].status \in ActiveSession}
InFlight(s) == {r \in Requests : request[r].stay = s /\ request[r].status \in InFlightRelease}
LiveLots(v) == {l \in Lots : lot[l].vehicle = v /\ lot[l].status \in LiveLot}

------------------------------------------------------------------------------
(* The gate                                                                *)

(* entryPathTo: the statuses from which a vehicle is walked to PARKED. *)
Admissible ==
  {"CAPTURED", "IDENTIFIED", "VAHAN_PENDING", "VAHAN_VERIFIED", "VAHAN_FAILED",
   "FINANCIER_MATCHED", "YARD_ADMITTED", "EXITED", "PARKED"}

(* GateService.handleEntry.  resolveOrCreate has updated the vehicle row,  *)
(* so a second capture of the plate waits for this one and then finds the  *)
(* active stay.  A stay without an applicable rate is admitted unrated.    *)
Admit(v, s, rated) ==
  /\ ActiveStays(v) = {}
  /\ stay[s].status = Absent
  /\ vehicle[v] \in Admissible
  /\ stay' = [stay EXCEPT ![s] = [vehicle |-> v, status |-> "OPEN", rated |-> rated]]
  /\ vehicle' = [vehicle EXCEPT ![v] = "PARKED"]
  /\ UNCHANGED <<request, auction, lot, txn>>

(* ChargeService.attachRatePlan: finance prices an unrated stay.  Pricing a *)
(* rated stay again changes nothing that is kept here.                     *)
AttachRate(s) ==
  /\ stay[s].status \notin {Absent, "CLOSED"}
  /\ ~stay[s].rated
  /\ stay' = [stay EXCEPT ![s].rated = TRUE]
  /\ UNCHANGED <<vehicle, request, auction, lot, txn>>

------------------------------------------------------------------------------
(* Holds                                                                   *)

(* ParkingSessionService.placeHold: the session row under its version.     *)
PlaceHold_WrongColumn(s) ==        \* mutant: the vehicle's status in the stay
  /\ SessionMay(stay[s].status, "ON_HOLD")
  /\ stay' = [stay EXCEPT ![s].status = "UNDER_HOLD"]
  /\ MoveVehicle(stay[s].vehicle, "UNDER_HOLD")
  /\ UNCHANGED <<request, auction, lot, txn>>

PlaceHold(s) ==
  /\ SessionMay(stay[s].status, "ON_HOLD")
  /\ stay' = [stay EXCEPT ![s].status = "ON_HOLD"]
  /\ MoveVehicle(stay[s].vehicle, "UNDER_HOLD")
  /\ UNCHANGED <<request, auction, lot, txn>>

(* ParkingSessionService.liftHold reads and checks the session here ...    *)
BeginLiftHold(c, s) ==
  /\ txn[c] = Idle
  /\ SessionMay(stay[s].status, "OPEN")
  /\ txn' = [txn EXCEPT ![c] = [op |-> "liftHold", stay |-> s]]
  /\ UNCHANGED <<vehicle, stay, request, auction, lot>>

(* parking_sessions_open_has_no_exit: a closed stay has an exit time, and  *)
(* a CHECK refuses to give it an open status again.                        *)
OpenHasNoExit(s) == stay[s].status # "CLOSED"

(* ... and writes it here without its version.                             *)
CommitLiftHold(c) ==
  /\ txn[c].op = "liftHold"
  /\ LET s == txn[c].stay
     IN  /\ OpenHasNoExit(s)
         /\ stay' = [stay EXCEPT ![s].status = "OPEN"]
         /\ MoveVehicle(stay[s].vehicle, "PARKED")
  /\ txn' = [txn EXCEPT ![c] = Idle]
  /\ UNCHANGED <<request, auction, lot>>

------------------------------------------------------------------------------
(* Release                                                                 *)

(* The blocking checks of ReleaseService.buildEligibility. *)
Eligible(s) ==
  /\ stay[s].status \in {"OPEN", "PENDING_EXIT"}     \* SESSION_ACTIVE, NO_HOLD
  /\ vehicle[stay[s].vehicle] \notin InAuction        \* NOT_IN_AUCTION
  /\ stay[s].rated                                    \* RATE_RESOLVED

(* ReleaseService.requestRelease reads the stay, its vehicle and its       *)
(* requests here.                                                          *)
BeginRequestRelease(c, s, u) ==
  /\ txn[c] = Idle
  /\ stay[s].status # Absent
  /\ InFlight(s) = {}
  /\ txn' = [txn EXCEPT ![c] = [op |-> "requestRelease", stay |-> s, by |-> u,
                                eligible |-> Eligible(s)]]
  /\ UNCHANGED <<vehicle, stay, request, auction, lot>>

(* The request row is inserted under the one-in-flight index; a blocked    *)
(* one stays at ELIGIBILITY_FAILED and moves nothing.                      *)
InsertRequest_Submitted(r, s, u, status) ==   \* mutant: never routed onwards
  /\ request[r].status = Absent
  /\ InFlight(s) = {}
  /\ request' = [request EXCEPT ![r] = [stay |-> s, status |-> "SUBMITTED", by |-> u,
                                        approver |-> Nobody, code |-> "NONE"]]

InsertRequest(r, s, u, status) ==
  /\ request[r].status = Absent
  /\ InFlight(s) = {}
  /\ request' = [request EXCEPT ![r] = [stay |-> s, status |-> status, by |-> u,
                                        approver |-> Nobody, code |-> "NONE"]]

CommitRequestRelease(c, r) ==
  /\ txn[c].op = "requestRelease"
  /\ LET t == txn[c]
     IN  \/ /\ t.eligible
            /\ InsertRequest(r, t.stay, t.by, "AWAITING_APPROVAL")
            /\ MoveVehicle(stay[t.stay].vehicle, "RELEASE_REQUESTED")
         \/ /\ ~t.eligible
            /\ InsertRequest(r, t.stay, t.by, "ELIGIBILITY_FAILED")
            /\ UNCHANGED vehicle
  /\ txn' = [txn EXCEPT ![c] = Idle]
  /\ UNCHANGED <<stay, auction, lot>>

VehicleOf(r) == stay[request[r].stay].vehicle

(* ReleaseService.decide by u, who is not the requester.                   *)
MayDecide_Anyone(r, u) == request[r].status = "AWAITING_APPROVAL"   \* mutant

MayDecide(r, u) ==
  /\ request[r].status = "AWAITING_APPROVAL"
  /\ u # request[r].by

Approve(r, u) ==
  /\ MayDecide(r, u)
  /\ request' = [request EXCEPT ![r].status = "APPROVED", ![r].approver = u,
                                ![r].code = "LIVE"]
  /\ MoveVehicle(VehicleOf(r), "RELEASE_APPROVED")
  /\ UNCHANGED <<stay, auction, lot, txn>>

Reject(r, u) ==
  /\ MayDecide(r, u)
  /\ request' = [request EXCEPT ![r].status = "REJECTED"]
  /\ MoveVehicle(VehicleOf(r), "PARKED")
  /\ UNCHANGED <<stay, auction, lot, txn>>

(* authorizationExpiresAt passes.                                          *)
CodeExpires(r) ==
  /\ request[r].code = "LIVE"
  /\ request' = [request EXCEPT ![r].code = "EXPIRED"]
  /\ UNCHANGED <<vehicle, stay, auction, lot, txn>>

(* ReleaseService.completeRelease with the code, and                       *)
(* ParkingSessionService.closeSession inside it.                           *)
CodeAccepted_Ignored(r) == TRUE    \* mutant: the expiry is not looked at

CodeAccepted(r) == request[r].code = "LIVE"

CompleteRelease(r) ==
  LET s == request[r].stay
  IN  /\ request[r].status = "APPROVED"
      /\ CodeAccepted(r)
      /\ SessionMay(stay[s].status, "CLOSED")
      /\ stay[s].rated
      /\ stay' = [stay EXCEPT ![s].status = "CLOSED"]
      /\ request' = [request EXCEPT ![r].status = "COMPLETED", ![r].code = "NONE"]
      /\ VehicleMay(vehicle[VehicleOf(r)], "EXITED")
      /\ vehicle' = [vehicle EXCEPT ![VehicleOf(r)] = "EXITED"]
      /\ UNCHANGED <<auction, lot, txn>>

(* ReleaseService.cancel, whatever the request and its vehicle are doing.  *)
CancelRelease_Forgets(r) ==        \* mutant: the vehicle is not sent back
  /\ ReleaseMay(request[r].status, "CANCELLED")
  /\ request' = [request EXCEPT ![r].status = "CANCELLED"]
  /\ UNCHANGED <<vehicle, stay, auction, lot, txn>>

CancelRelease(r) ==
  /\ ReleaseMay(request[r].status, "CANCELLED")
  /\ request' = [request EXCEPT ![r].status = "CANCELLED"]
  /\ MoveVehicle(VehicleOf(r), "PARKED")
  /\ UNCHANGED <<stay, auction, lot, txn>>

------------------------------------------------------------------------------
(* Auctions                                                                *)

(* AuctionService.transitionAuction to SCHEDULED and to PUBLISHED, the two *)
(* transactions of the publish endpoint.                                   *)
ScheduleAuction(a) ==
  /\ auction[a] = "DRAFT"
  /\ auction' = [auction EXCEPT ![a] = "SCHEDULED"]
  /\ UNCHANGED <<vehicle, stay, request, lot, txn>>

LotsOf(a) == {l \in Lots : lot[l].auction = a /\ lot[l].status # Absent}

PublishAuction(a) ==
  /\ AuctionMay(auction[a], "PUBLISHED")
  /\ LotsOf(a) # {}
  /\ auction' = [auction EXCEPT ![a] = "PUBLISHED"]
  /\ UNCHANGED <<vehicle, stay, request, lot, txn>>

(* Lots follow the auction, and vehicles follow their lots: one vehicle    *)
(* that cannot move rolls the whole auction back.                          *)
LotsFollow_Alone(moved, to) ==     \* mutant: the vehicles do not follow
  /\ lot' = [l \in Lots |-> IF l \in moved THEN [lot[l] EXCEPT !.status = to]
                                           ELSE lot[l]]
  /\ UNCHANGED vehicle

LotsFollow_Lenient(moved, to) ==   \* mutant: vehicles that cannot move are skipped
  LET cars == {lot[l].vehicle : l \in moved}
  IN  /\ lot' = [l \in Lots |-> IF l \in moved THEN [lot[l] EXCEPT !.status = to]
                                               ELSE lot[l]]
      /\ vehicle' = [v \in Vehicles |-> IF v \in cars /\ CanMove(v, to) THEN to
                                        ELSE vehicle[v]]

LotsFollow(moved, to) ==
  LET cars == {lot[l].vehicle : l \in moved}
  IN  /\ \A v \in cars : CanMove(v, to)
      /\ lot' = [l \in Lots |-> IF l \in moved THEN [lot[l] EXCEPT !.status = to]
                                               ELSE lot[l]]
      /\ vehicle' = [v \in Vehicles |-> IF v \in cars THEN to ELSE vehicle[v]]

OpenAuction(a) ==
  /\ AuctionMay(auction[a], "OPEN")
  /\ auction' = [auction EXCEPT ![a] = "OPEN"]
  /\ LotsFollow({l \in LotsOf(a) : lot[l].status = "LISTED"}, "BIDDING_OPEN")
  /\ UNCHANGED <<stay, request, txn>>

CloseAuction(a) ==
  /\ AuctionMay(auction[a], "CLOSED")
  /\ auction' = [auction EXCEPT ![a] = "CLOSED"]
  /\ LotsFollow({l \in LotsOf(a) : lot[l].status = "BIDDING_OPEN"}, "BIDDING_CLOSED")
  /\ UNCHANGED <<stay, request, txn>>

(* AuctionService.addLot reads the auction, the vehicle and its stay here; *)
(* its stay filter is OPEN or ON_HOLD, and a held stay is refused.         *)
BeginAddLot(c, v, a) ==
  /\ txn[c] = Idle
  /\ auction[a] \in {"DRAFT", "SCHEDULED"}
  /\ \E s \in ActiveStays(v) : stay[s].status = "OPEN"
  /\ vehicle[v] \notin InAuction
  /\ txn' = [txn EXCEPT ![c] = [op |-> "addLot", vehicle |-> v, auction |-> a]]
  /\ UNCHANGED <<vehicle, stay, request, auction, lot>>

LotIndexAllows(v) == LiveLots(v) = {}

(* The lot is inserted under the one-live-lot index and the vehicle walks  *)
(* to AUCTION_ELIGIBLE, then to AUCTION_LISTED.                            *)
CommitAddLot(c, l) ==
  /\ txn[c].op = "addLot"
  /\ LET t == txn[c]
     IN  /\ lot[l].status = Absent
         /\ LotIndexAllows(t.vehicle)
         /\ lot' = [lot EXCEPT ![l] = [vehicle |-> t.vehicle, auction |-> t.auction,
                                       status |-> "LISTED", bid |-> FALSE]]
         /\ CanMove(t.vehicle, "AUCTION_ELIGIBLE")
         /\ vehicle' = [vehicle EXCEPT ![t.vehicle] = "AUCTION_LISTED"]
  /\ txn' = [txn EXCEPT ![c] = Idle]
  /\ UNCHANGED <<stay, request, auction>>

(* AuctionService.placeBid, as far as custody is concerned.                *)
PlaceBid(l) ==
  /\ lot[l].status = "BIDDING_OPEN"
  /\ auction[lot[l].auction] = "OPEN"
  /\ ~lot[l].bid
  /\ lot' = [lot EXCEPT ![l].bid = TRUE]
  /\ UNCHANGED <<vehicle, stay, request, auction, txn>>

(* AuctionService.selectWinner, createSettlement and the receipt that      *)
(* completes a settlement: the vehicle, moved under its version, serialises*)
(* each with everything else that touches the vehicle.                     *)
SelectWinner(l) ==
  /\ LotMay(lot[l].status, "WINNER_SELECTED")
  /\ lot[l].bid
  /\ lot' = [lot EXCEPT ![l].status = "WINNER_SELECTED"]
  /\ MoveVehicle(lot[l].vehicle, "WINNER_SELECTED")
  /\ UNCHANGED <<stay, request, auction, txn>>

CreateSettlement(l) ==
  /\ LotMay(lot[l].status, "SETTLEMENT_PENDING")
  /\ lot' = [lot EXCEPT ![l].status = "SETTLEMENT_PENDING"]
  /\ MoveVehicle(lot[l].vehicle, "SETTLEMENT_PENDING")
  /\ UNCHANGED <<stay, request, auction, txn>>

ReceiveInFull(l) ==
  /\ lot[l].status = "SETTLEMENT_PENDING"
  /\ lot' = [lot EXCEPT ![l].status = "SETTLED"]
  /\ CanMove(lot[l].vehicle, "SETTLED")
  /\ vehicle' = [vehicle EXCEPT ![lot[l].vehicle] = "SOLD"]
  /\ UNCHANGED <<stay, request, auction, txn>>

------------------------------------------------------------------------------
(* An exception, a lost connection or the transaction timeout.             *)
Rollback(c) ==
  /\ txn[c] # Idle
  /\ txn' = [txn EXCEPT ![c] = Idle]
  /\ UNCHANGED <<vehicle, stay, request, auction, lot>>

Yard ==
  \/ \E v \in Vehicles, s \in Stays, rated \in BOOLEAN : Admit(v, s, rated)
  \/ \E s \in Stays : AttachRate(s) \/ PlaceHold(s)
  \/ \E c \in Clients, s \in Stays : BeginLiftHold(c, s)
  \/ \E c \in Clients : CommitLiftHold(c) \/ Rollback(c)

Release ==
  \/ \E c \in Clients, s \in Stays, u \in Staff : BeginRequestRelease(c, s, u)
  \/ \E c \in Clients, r \in Requests : CommitRequestRelease(c, r)
  \/ \E r \in Requests, u \in Staff : Approve(r, u) \/ Reject(r, u)
  \/ \E r \in Requests : CodeExpires(r) \/ CompleteRelease(r) \/ CancelRelease(r)

Auction ==
  \/ \E a \in Auctions :
       ScheduleAuction(a) \/ PublishAuction(a) \/ OpenAuction(a) \/ CloseAuction(a)
  \/ \E c \in Clients, v \in Vehicles, a \in Auctions : BeginAddLot(c, v, a)
  \/ \E c \in Clients, l \in Lots : CommitAddLot(c, l)
  \/ \E l \in Lots : PlaceBid(l) \/ SelectWinner(l) \/ CreateSettlement(l) \/ ReceiveInFull(l)

Next == Yard \/ Release \/ Auction

Spec == Init /\ [][Next]_vars

------------------------------------------------------------------------------
(* Safety                                                                  *)

(* Foreign keys: a row that exists names rows that exist, what an open     *)
(* transaction read still exists, and no endpoint cancels a stay.          *)
Grounded ==
  /\ \A s \in Stays : /\ stay[s].status # Absent => stay[s].vehicle \in Vehicles
                      /\ stay[s].status # "CANCELLED"
  /\ \A r \in Requests : request[r].status # Absent =>
       request[r].stay \in Stays /\ stay[request[r].stay].status # Absent
  /\ \A l \in Lots : lot[l].status # Absent => lot[l].vehicle \in Vehicles
  /\ \A c \in Clients : txn[c].op \in {"requestRelease", "liftHold"} =>
       stay[txn[c].stay].status # Absent

(* A vehicle carries an on-site status exactly while it has an active stay,*)
(* although the two columns are written by different services and a stale  *)
(* liftHold may still be in flight when the stay closes.                   *)
OnSiteIffStaying ==
  \A v \in Vehicles : vehicle[v] \in OnSite <=> ActiveStays(v) # {}

(* A vehicle that waits for a release decision, or for its exit, has the   *)
(* request that put it there: the cancellation of another request, or a    *)
(* lifted hold, may pull the vehicle away but never leaves it orphaned.    *)
ReleaseStatusHasRequest ==
  \A v \in Vehicles :
    /\ vehicle[v] = "RELEASE_REQUESTED" =>
         \E r \in Requests : request[r].status = "AWAITING_APPROVAL" /\ VehicleOf(r) = v
    /\ vehicle[v] = "RELEASE_APPROVED" =>
         \E r \in Requests : request[r].status = "APPROVED" /\ VehicleOf(r) = v

(* A vehicle's auction status is the status of its one live lot, and a sold*)
(* vehicle has a settled lot.                                              *)
AuctionStatusHasLot ==
  \A v \in Vehicles :
    /\ vehicle[v] = "AUCTION_LISTED" => \E l \in LiveLots(v) : lot[l].status = "LISTED"
    /\ vehicle[v] \in InAuction \ {"AUCTION_LISTED"} =>
         \E l \in LiveLots(v) : lot[l].status = vehicle[v]
    /\ vehicle[v] = "SOLD" => \E l \in LiveLots(v) : lot[l].status = "SETTLED"

(* Four eyes (BD-04): no release was decided by the person who asked.      *)
FourEyes ==
  \A r \in Requests :
    request[r].status \in {"APPROVED", "COMPLETED"} =>
      request[r].approver \in Staff \ {request[r].by}

(* How vehicle v leaves, if this step takes it out of the yard: a release   *)
(* of its stay is completed, which a second person approved, with a code   *)
(* that still works, from a priced stay that nobody holds.                 *)
LeavesThrough(v) ==
  vehicle[v] # "EXITED" /\ vehicle'[v] = "EXITED" =>
    \E r \in Requests :
      /\ request[r].status = "APPROVED" /\ request'[r].status = "COMPLETED"
      /\ VehicleOf(r) = v
      /\ request[r].code = "LIVE" /\ request'[r].code # "LIVE"
      /\ request[r].approver # request[r].by
      /\ stay[request[r].stay].status \in {"OPEN", "PENDING_EXIT"}
      /\ stay[request[r].stay].rated
      /\ stay'[request[r].stay].status = "CLOSED"

(* Nothing but the completion of such a release takes a vehicle out.       *)
LeavesByRelease == [][\A v \in Vehicles : LeavesThrough(v)]_vars

(* A lot that is under the hammer keeps its vehicle: between the opening   *)
(* and the close of bidding nothing moves the vehicle elsewhere.           *)
BiddingKeepsVehicle ==
  \A v \in Vehicles, l \in Lots :
    lot[l].vehicle = v /\ lot[l].status = "BIDDING_OPEN" => vehicle[v] = "BIDDING_OPEN"

------------------------------------------------------------------------------
(* Liveness: staff act on what waits for them.                             *)
Decide(r) == \E u \in Staff : Approve(r, u) \/ Reject(r, u)

Diligence ==
  /\ \A r \in Requests : WF_vars(Decide(r)) /\ WF_vars(CompleteRelease(r))
  /\ \A a \in Auctions : WF_vars(CloseAuction(a))
  /\ \A l \in Lots : /\ WF_vars(SelectWinner(l))
                     /\ WF_vars(CreateSettlement(l))
                     /\ WF_vars(ReceiveInFull(l))

FairSpec == Spec /\ Diligence

(* A requested release does not wait for ever: somebody other than the     *)
(* requester can always decide it.                                         *)
RequestIsDecided ==
  \A v \in Vehicles :
    vehicle[v] = "RELEASE_REQUESTED" ~> vehicle[v] # "RELEASE_REQUESTED"

(* A lot with a bid, once under the hammer, ends with its vehicle sold, or *)
(* pulled back to the yard by the cancellation of a failed request.        *)
HammerFalls ==
  \A v \in Vehicles, l \in Lots :
    lot[l].vehicle = v /\ lot[l].status = "BIDDING_OPEN" /\ lot[l].bid
      ~> vehicle[v] \in {"SOLD", "PARKED"}

===============================================================================
