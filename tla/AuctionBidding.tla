---------------------------- MODULE AuctionBidding ----------------------------
(***************************************************************************)
(* The bidding on one lot, from its opening to the last receipt of its     *)
(* settlement (AuctionService).  A lot's bids are serialised by the row    *)
(* lock that placeBid takes (SELECT ... FOR UPDATE): what placeBid reads   *)
(* after the lock, it reads at its commit.  What a handler reads without a *)
(* lock and writes back without a version may be stale by then: the key    *)
(* lookup of placeBid, the lot in selectWinner, and the amount received in *)
(* recordSettlementReceipt.  Each of these is a Begin action that keeps    *)
(* what was read and a Commit action that uses it.                         *)
(*                                                                         *)
(* Bids are named by their idempotency key, which is unique in the table.  *)
(* Fees and tax are typed in by the operator and are left out: the amount  *)
(* payable is the winning bid.                                             *)
(***************************************************************************)
EXTENDS Lifecycles, Naturals

CONSTANTS
  Bidders,    \* bidders rows
  Keys,       \* idempotency keys, one per bid that is ever inserted
  Amounts,    \* amounts that are bid and received
  Reserve,    \* auction_lots.reservePrice
  Increment,  \* auction_lots.minIncrement
  Clients,    \* HTTP requests that hold a database transaction open
  Nobody      \* stands for a NULL foreign key

ASSUME MoneyAssumption ==
  /\ Amounts \subseteq Nat \ {0}    \* bids_amount_positive
  /\ Reserve \in Nat                \* auction_lots_reserve_non_negative
  /\ Increment \in Nat \ {0}        \* auction_lots_increment_positive

ASSUME NobodyAssumption == Nobody \notin Bidders \cup Keys

VARIABLES
  auction,    \* auctions.status
  windowPast, \* whether scheduledEndAt has passed
  approved,   \* bidders whose KYC is approved
  registered, \* bidders with an approved registration for the auction
  lot,        \* status, bidCount, highestBidAmount (0 for NULL), winningBidId
  bid,        \* bids by idempotency key
  vehicle,    \* vehicles.status of the vehicle in the lot
  settlement, \* status and amountReceived of the lot's settlement
  paid,       \* history: the money of the receipts that were acknowledged
  raced,      \* history: a receipt was recorded while another was under way
  txn         \* what the open transaction of each client has read

vars == <<auction, windowPast, approved, registered, lot, bid, vehicle, settlement,
          paid, raced, txn>>

Absent == "ABSENT"          \* a row that has not been inserted
NoBid == [bidder |-> Nobody, amount |-> 0, seq |-> 0, status |-> Absent]
Idle == [op |-> "idle"]

Txn ==
  {Idle}
    \cup [op: {"placeBid"}, key: Keys, bidder: Bidders, amount: Amounts]
    \cup [op: {"selectWinner"}, key: Keys]
    \cup [op: {"receipt"}, amount: Amounts, received: Nat]

TypeOK ==
  /\ auction \in AuctionStatus
  /\ windowPast \in BOOLEAN
  /\ approved \subseteq Bidders
  /\ registered \subseteq approved
  /\ lot \in [status: LotStatus, count: Nat, high: Nat, winner: Keys \cup {Nobody}]
  /\ bid \in [Keys -> [bidder: Bidders \cup {Nobody}, amount: Nat, seq: Nat,
                       status: BidStatus \cup {Absent}]]
  /\ vehicle \in VehicleStatus
  /\ settlement \in [status: SettlementStatus \cup {Absent}, received: Nat]
  /\ paid \in Nat
  /\ raced \in BOOLEAN
  /\ txn \in [Clients -> Txn]

Init ==
  /\ auction = "PUBLISHED"
  /\ windowPast = FALSE
  /\ approved = {} /\ registered = {}
  /\ lot = [status |-> "LISTED", count |-> 0, high |-> 0, winner |-> Nobody]
  /\ bid = [k \in Keys |-> NoBid]
  /\ vehicle = "AUCTION_LISTED"
  /\ settlement = [status |-> Absent, received |-> 0]
  /\ paid = 0
  /\ raced = FALSE
  /\ txn = [c \in Clients |-> Idle]

CanMove(to) == vehicle = to \/ VehicleMay(vehicle, to)
MoveVehicle_Lax(to) == vehicle' = to         \* mutant: the table is not consulted

MoveVehicle(to) == CanMove(to) /\ vehicle' = to

------------------------------------------------------------------------------
(* Bidders.  createBidder leaves a bidder in KYC_PENDING; no endpoint takes *)
(* an approval or a registration back.                                      *)

ApproveBidder(b) ==
  /\ approved' = approved \cup {b}
  /\ UNCHANGED <<auction, windowPast, registered, lot, bid, vehicle, settlement, paid, raced, txn>>

RegisterBidder(b) ==
  /\ b \in approved
  /\ registered' = registered \cup {b}
  /\ UNCHANGED <<auction, windowPast, approved, lot, bid, vehicle, settlement, paid, raced, txn>>

------------------------------------------------------------------------------
(* The auction                                                             *)

OpenAuction ==
  /\ AuctionMay(auction, "OPEN")
  /\ auction' = "OPEN"
  /\ lot.status = "LISTED"
  /\ lot' = [lot EXCEPT !.status = "BIDDING_OPEN"]
  /\ MoveVehicle("BIDDING_OPEN")
  /\ UNCHANGED <<windowPast, approved, registered, bid, settlement, paid, raced, txn>>

WindowPasses ==
  /\ windowPast' = TRUE
  /\ UNCHANGED <<auction, approved, registered, lot, bid, vehicle, settlement, paid, raced, txn>>

CloseAuction ==
  /\ AuctionMay(auction, "CLOSED")
  /\ auction' = "CLOSED"
  /\ lot.status = "BIDDING_OPEN"
  /\ lot' = [lot EXCEPT !.status = "BIDDING_CLOSED"]
  /\ MoveVehicle("BIDDING_CLOSED")
  /\ UNCHANGED <<windowPast, approved, registered, bid, settlement, paid, raced, txn>>

------------------------------------------------------------------------------
(* Bids                                                                    *)

(* AuctionService.placeBid looks the key up before it locks the lot; a key *)
(* it finds is answered from the table and goes no further.                *)
BeginBid(c, k, b, amount) ==
  /\ txn[c] = Idle
  /\ bid[k].status = Absent
  /\ txn' = [txn EXCEPT ![c] = [op |-> "placeBid", key |-> k, bidder |-> b,
                                amount |-> amount]]
  /\ UNCHANGED <<auction, windowPast, approved, registered, lot, bid, vehicle,
                 settlement, paid, raced>>

Biddable_Late(b) == b \in registered        \* mutant: no look at the clock or status

Biddable(b) ==
  /\ auction = "OPEN" /\ lot.status = "BIDDING_OPEN" /\ ~windowPast
  /\ b \in registered

ClearsTheBar_Equal(amount) ==      \* mutant: an offer may equal the standing one
  amount >= Reserve /\ (lot.count > 0 => amount >= lot.high)

ClearsTheBar(amount) ==
  /\ amount >= Reserve
  /\ lot.count > 0 => amount >= lot.high + Increment

Supersede(k) == IF bid[k].status = "ACCEPTED" THEN [bid[k] EXCEPT !.status = "OUTBID"]
                                              ELSE bid[k]

(* Under the lock: the checks, the insertion, and the leader superseded. *)
CommitBid(c) ==
  /\ txn[c].op = "placeBid"
  /\ LET t == txn[c]
     IN  /\ Biddable(t.bidder)
         /\ ClearsTheBar(t.amount)
         /\ bid[t.key].status = Absent        \* the key is unique
         /\ bid' = [k \in Keys |->
                      IF k = t.key
                        THEN [bidder |-> t.bidder, amount |-> t.amount,
                              seq |-> lot.count + 1, status |-> "ACCEPTED"]
                        ELSE Supersede(k)]
         /\ lot' = [lot EXCEPT !.count = @ + 1, !.high = t.amount]
  /\ txn' = [txn EXCEPT ![c] = Idle]
  /\ UNCHANGED <<auction, windowPast, approved, registered, vehicle, settlement, paid, raced>>

------------------------------------------------------------------------------
(* The winner                                                              *)

(* AuctionService.selectWinner reads the lot and an accepted bid, named by *)
(* the caller or the highest, without a lock ...                           *)
BeginSelectWinner(c, k) ==
  /\ txn[c] = Idle
  /\ lot.winner = Nobody
  /\ LotMay(lot.status, "WINNER_SELECTED")
  /\ bid[k].status = "ACCEPTED"
  /\ bid[k].amount >= Reserve
  /\ txn' = [txn EXCEPT ![c] = [op |-> "selectWinner", key |-> k]]
  /\ UNCHANGED <<auction, windowPast, approved, registered, lot, bid, vehicle,
                 settlement, paid, raced>>

Settle_OnlyWinner(k, w) == IF k = w THEN [bid[k] EXCEPT !.status = "WON"] ELSE bid[k]  \* mutant

Settle(k, w) ==
  IF k = w THEN [bid[k] EXCEPT !.status = "WON"]
  ELSE IF bid[k].status \in {"ACCEPTED", "OUTBID"} THEN [bid[k] EXCEPT !.status = "LOST"]
  ELSE bid[k]

(* ... and writes the bids and the lot without a version: only the move of *)
(* the vehicle refuses one that comes too late.                            *)
CommitSelectWinner(c) ==
  /\ txn[c].op = "selectWinner"
  /\ bid' = [k \in Keys |-> Settle(k, txn[c].key)]
  /\ lot' = [lot EXCEPT !.status = "WINNER_SELECTED", !.winner = txn[c].key]
  /\ MoveVehicle("WINNER_SELECTED")
  /\ txn' = [txn EXCEPT ![c] = Idle]
  /\ UNCHANGED <<auction, windowPast, approved, registered, settlement, paid, raced>>

------------------------------------------------------------------------------
(* The settlement                                                          *)

(* AuctionService.createSettlement, under the unique lotId. *)
CreateSettlement ==
  /\ settlement.status = Absent
  /\ lot.winner # Nobody
  /\ LotMay(lot.status, "SETTLEMENT_PENDING")
  /\ settlement' = [status |-> "PENDING", received |-> 0]
  /\ lot' = [lot EXCEPT !.status = "SETTLEMENT_PENDING"]
  /\ MoveVehicle("SETTLEMENT_PENDING")
  /\ UNCHANGED <<auction, windowPast, approved, registered, bid, paid, raced, txn>>

Payable == IF lot.winner = Nobody THEN 0 ELSE bid[lot.winner].amount

WithinPayable_Unchecked(total) == TRUE     \* mutant: neither the check nor the CHECK

WithinPayable(total) == total <= Payable

(* AuctionService.recordSettlementReceipt adds to the amount it has read ...*)
BeginReceipt(c, amount) ==
  /\ txn[c] = Idle
  /\ settlement.status # Absent
  /\ WithinPayable(settlement.received + amount)
  /\ txn' = [txn EXCEPT ![c] = [op |-> "receipt", amount |-> amount,
                                received |-> settlement.received + amount]]
  /\ UNCHANGED <<auction, windowPast, approved, registered, lot, bid, vehicle,
                 settlement, paid, raced>>

(* ... and writes the sum without a version.  A sum that reaches the       *)
(* amount payable settles the lot and sells the vehicle.                   *)
CommitReceipt(c) ==
  /\ txn[c].op = "receipt"
  /\ LET sum == txn[c].received
     IN  \/ /\ sum >= Payable
            /\ settlement' = [status |-> "RECEIVED", received |-> sum]
            /\ lot' = [lot EXCEPT !.status = "SETTLED"]
            /\ CanMove("SETTLED")
            /\ vehicle' = "SOLD"
         \/ /\ sum < Payable
            /\ settlement' = [status |-> "PARTIALLY_RECEIVED", received |-> sum]
            /\ UNCHANGED <<lot, vehicle>>
  /\ paid' = paid + txn[c].amount
  /\ raced' = (raced \/ \E d \in Clients \ {c} : txn[d].op = "receipt")
  /\ txn' = [txn EXCEPT ![c] = Idle]
  /\ UNCHANGED <<auction, windowPast, approved, registered, bid>>

------------------------------------------------------------------------------
(* The vehicle may be pulled back to the yard by the cancellation of a     *)
(* failed release request (module YardCustody).                            *)
PulledBack ==
  /\ VehicleMay(vehicle, "PARKED")
  /\ vehicle' = "PARKED"
  /\ UNCHANGED <<auction, windowPast, approved, registered, lot, bid, settlement, paid, raced, txn>>

(* An exception, a lost connection or the transaction timeout. *)
Rollback(c) ==
  /\ txn[c] # Idle
  /\ txn' = [txn EXCEPT ![c] = Idle]
  /\ UNCHANGED <<auction, windowPast, approved, registered, lot, bid, vehicle,
                 settlement, paid, raced>>

Bidding ==
  \/ \E b \in Bidders : ApproveBidder(b) \/ RegisterBidder(b)
  \/ OpenAuction \/ WindowPasses \/ CloseAuction
  \/ \E c \in Clients, k \in Keys, b \in Bidders, amount \in Amounts :
       BeginBid(c, k, b, amount)
  \/ \E c \in Clients : CommitBid(c)

Settling ==
  \/ \E c \in Clients, k \in Keys : BeginSelectWinner(c, k)
  \/ \E c \in Clients, amount \in Amounts : BeginReceipt(c, amount)
  \/ \E c \in Clients : CommitSelectWinner(c) \/ CommitReceipt(c)
  \/ CreateSettlement

Next == Bidding \/ Settling \/ PulledBack \/ \E c \in Clients : Rollback(c)

Spec == Init /\ [][Next]_vars

------------------------------------------------------------------------------
(* Safety                                                                  *)

Placed == {k \in Keys : bid[k].status # Absent}
Standing == {k \in Keys : bid[k].status \in {"ACCEPTED", "WON"}}

(* The ladder: sequence numbers run from 1 to bidCount without a gap or a  *)
(* repeat, the first bid meets the reserve, and each later one beats every *)
(* earlier one by the increment, however many bids raced.                  *)
Ladder ==
  /\ \A k \in Placed : bid[k].seq \in 1..lot.count /\ bid[k].amount >= Reserve
  /\ \A n \in 1..lot.count : \E k \in Placed : bid[k].seq = n
  /\ \A j, k \in Placed : j # k =>
       \/ bid[j].seq < bid[k].seq /\ bid[j].amount + Increment <= bid[k].amount
       \/ bid[k].seq < bid[j].seq /\ bid[k].amount + Increment <= bid[j].amount

(* A winner is the highest bid, and every other bid has lost; nothing has  *)
(* been won before.                                                        *)
WinnerTakesAll ==
  /\ lot.winner # Nobody =>
       \A k \in Placed : /\ bid[k].status = IF k = lot.winner THEN "WON" ELSE "LOST"
                         /\ bid[k].amount <= bid[lot.winner].amount
  /\ lot.winner = Nobody => \A k \in Placed : bid[k].status \in {"ACCEPTED", "OUTBID"}

(* A second selectWinner, begun before the first one committed, changes    *)
(* neither the winner nor any amount, nor does it reopen a settled lot.    *)
WinnerIsFinal ==
  [][lot.winner # Nobody =>
       /\ lot'.winner = lot.winner
       /\ bid' = bid
       /\ lot.status # "WINNER_SELECTED" => lot'.status # "WINNER_SELECTED"]_vars

(* What the settlement records is what was paid in, to the last receipt,   *)
(* unless one was recorded while another was under way: then it may miss   *)
(* one, and even then it never exceeds what was paid, nor what is payable. *)
ReceiptsAddUp ==
  /\ settlement.received <= Payable /\ settlement.received <= paid
  /\ raced \/ settlement.received = paid

(* The lot is an ascending auction of its registered bidders. *)
English == INSTANCE EnglishAuction WITH
  Offers <- Amounts,
  phase <- CASE lot.status = "LISTED" -> "waiting"
             [] lot.status = "BIDDING_OPEN" -> "open"
             [] lot.status = "BIDDING_CLOSED" -> "closed"
             [] OTHER -> "awarded",
  standing <- {bid[k].bidder : k \in Standing},
  high <- lot.high

IsEnglishAuction == English!AuctionSpec

------------------------------------------------------------------------------
(* Liveness: the window passes, staff close the auction and retry the      *)
(* selection of a winner until it commits.                                 *)
FairSpec ==
  /\ Spec
  /\ WF_vars(WindowPasses) /\ WF_vars(CloseAuction)
  /\ \A c \in Clients : /\ WF_vars(Rollback(c))
                        /\ SF_vars(\E k \in Keys : BeginSelectWinner(c, k))
                        /\ SF_vars(CommitSelectWinner(c))

(* Every bid is settled one way or the other, unless the vehicle is pulled *)
(* out of the auction: no bidder waits for ever.                           *)
BidsAreSettled ==
  \A k \in Keys :
    bid[k].status # Absent ~> bid[k].status \in {"WON", "LOST"} \/ vehicle = "PARKED"
===============================================================================
