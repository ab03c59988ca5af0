------------------------ MODULE AuctionBidding_proofs -------------------------
(***************************************************************************)
(* Theorems about AuctionBidding, for every set of bidders, keys, amounts  *)
(* and clients, every reserve and every increment.                         *)
(***************************************************************************)
EXTENDS AuctionBidding, TLAPS

LotRow == [status: LotStatus, count: Nat, high: Nat, winner: Keys \cup {Nobody}]
BidRow == [bidder: Bidders \cup {Nobody}, amount: Nat, seq: Nat, status: BidStatus \cup {Absent}]
SettlementRow == [status: SettlementStatus \cup {Absent}, received: Nat]

LEMMA Types ==
  ASSUME TypeOK
  PROVE  /\ lot \in LotRow /\ bid \in [Keys -> BidRow] /\ settlement \in SettlementRow
         /\ txn \in [Clients -> Txn] /\ paid \in Nat /\ vehicle \in VehicleStatus
         /\ registered \subseteq Bidders /\ lot.count \in Nat /\ lot.high \in Nat
         /\ \A k \in Keys : bid[k].amount \in Nat /\ bid[k].seq \in Nat
         /\ Reserve \in Nat /\ Increment \in Nat \ {0} /\ Amounts \subseteq Nat \ {0}
         /\ Nobody \notin Keys
  BY MoneyAssumption, NobodyAssumption DEF TypeOK, LotRow, BidRow, SettlementRow

(* What an open transaction has read, by its kind. *)
LEMMA Kinds ==
  ASSUME TypeOK, NEW c \in Clients
  PROVE  /\ txn[c].op = "placeBid" =>
              txn[c].key \in Keys /\ txn[c].bidder \in Bidders /\ txn[c].amount \in Amounts
         /\ txn[c].op = "selectWinner" => txn[c].key \in Keys
         /\ txn[c].op = "receipt" => txn[c].amount \in Amounts /\ txn[c].received \in Nat
<1>1. txn[c] \in Txn
  BY Types
<1> QED BY <1>1 DEF Txn, Idle

(* A client begins or ends a transaction. *)
LEMMA TxnStep ==
  ASSUME TypeOK, NEW c \in Clients, NEW t \in Txn, txn' = [txn EXCEPT ![c] = t]
  PROVE  txn' \in [Clients -> Txn] /\ txn'[c] = t /\ \A d \in Clients : d # c => txn'[d] = txn[d]
  BY Types

LEMMA IdleTxn == Idle \in Txn /\ Idle.op = "idle"
  BY DEF Idle, Txn

------------------------------------------------------------------------------
(* Types                                                                   *)

LEMMA BeginTypes ==
  ASSUME TypeOK, NEW c \in Clients,
         \/ \E k \in Keys, b \in Bidders, amount \in Amounts : BeginBid(c, k, b, amount)
         \/ \E k \in Keys : BeginSelectWinner(c, k)
         \/ \E amount \in Amounts : BeginReceipt(c, amount)
         \/ Rollback(c)
  PROVE  TypeOK'
<1>1. \E t \in Txn : txn' = [txn EXCEPT ![c] = t]
  <2>1. ASSUME NEW k \in Keys, NEW b \in Bidders, NEW amount \in Amounts, BeginBid(c, k, b, amount)
        PROVE  \E t \in Txn : txn' = [txn EXCEPT ![c] = t]
    <3>1. [op |-> "placeBid", key |-> k, bidder |-> b, amount |-> amount] \in Txn
      BY DEF Txn
    <3> QED BY <2>1, <3>1 DEF BeginBid
  <2>2. ASSUME NEW k \in Keys, BeginSelectWinner(c, k)
        PROVE  \E t \in Txn : txn' = [txn EXCEPT ![c] = t]
    <3>1. [op |-> "selectWinner", key |-> k] \in Txn
      BY DEF Txn
    <3> QED BY <2>2, <3>1 DEF BeginSelectWinner
  <2>3. ASSUME NEW amount \in Amounts, BeginReceipt(c, amount)
        PROVE  \E t \in Txn : txn' = [txn EXCEPT ![c] = t]
    <3>1. settlement.received + amount \in Nat
      BY Types DEF SettlementRow
    <3>2. [op |-> "receipt", amount |-> amount, received |-> settlement.received + amount] \in Txn
      BY <3>1 DEF Txn
    <3> QED BY <2>3, <3>2 DEF BeginReceipt
  <2> QED BY <2>1, <2>2, <2>3, IdleTxn DEF Rollback
<1>2. UNCHANGED <<auction, windowPast, approved, registered, lot, bid, vehicle, settlement, paid, raced>>
  BY DEF BeginBid, BeginSelectWinner, BeginReceipt, Rollback
<1>3. txn' \in [Clients -> Txn]
  BY <1>1, TxnStep
<1> QED BY <1>2, <1>3 DEF TypeOK

LEMMA AuctionTypes ==
  ASSUME TypeOK,
         \/ \E b \in Bidders : ApproveBidder(b) \/ RegisterBidder(b)
         \/ OpenAuction \/ WindowPasses \/ CloseAuction \/ PulledBack
  PROVE  TypeOK'
<1>1. lot' \in LotRow
  BY Types DEF ApproveBidder, RegisterBidder, OpenAuction, WindowPasses, CloseAuction, PulledBack,
     LotRow, LotStatus
<1>2. vehicle' \in VehicleStatus
  BY Types DEF ApproveBidder, RegisterBidder, OpenAuction, WindowPasses, CloseAuction, PulledBack,
     MoveVehicle, VehicleStatus
<1>3. /\ auction' \in AuctionStatus /\ windowPast' \in BOOLEAN
      /\ approved' \subseteq Bidders /\ registered' \subseteq approved'
  BY DEF ApproveBidder, RegisterBidder, OpenAuction, WindowPasses, CloseAuction, PulledBack,
     AuctionStatus, TypeOK
<1>4. UNCHANGED <<bid, settlement, paid, raced, txn>>
  BY DEF ApproveBidder, RegisterBidder, OpenAuction, WindowPasses, CloseAuction, PulledBack
<1> QED BY <1>1, <1>2, <1>3, <1>4 DEF TypeOK, LotRow

(* What CommitBid writes. *)
LEMMA CommitBidRows ==
  ASSUME TypeOK, NEW c \in Clients, CommitBid(c)
  PROVE  \E q \in Keys, b \in Bidders, amount \in Amounts :
           /\ Biddable(b) /\ ClearsTheBar(amount) /\ bid[q].status = Absent
           /\ bid' \in [Keys -> BidRow]
           /\ bid'[q].bidder = b /\ bid'[q].amount = amount
           /\ bid'[q].seq = lot.count + 1 /\ bid'[q].status = "ACCEPTED"
           /\ \A k \in Keys : k # q =>
                /\ bid'[k].bidder = bid[k].bidder /\ bid'[k].amount = bid[k].amount
                /\ bid'[k].seq = bid[k].seq
                /\ bid'[k].status = IF bid[k].status = "ACCEPTED" THEN "OUTBID" ELSE bid[k].status
           /\ lot' \in LotRow /\ lot'.status = lot.status /\ lot'.winner = lot.winner
           /\ lot'.count = lot.count + 1 /\ lot'.high = amount
           /\ txn' = [txn EXCEPT ![c] = Idle]
           /\ UNCHANGED <<auction, windowPast, approved, registered, vehicle, settlement, paid, raced>>
<1>1. PICK q \in Keys, b \in Bidders, amount \in Amounts :
        q = txn[c].key /\ b = txn[c].bidder /\ amount = txn[c].amount
  BY Kinds DEF CommitBid
<1> DEFINE new == [bidder |-> b, amount |-> amount, seq |-> lot.count + 1, status |-> "ACCEPTED"]
           put(k) == IF k = q THEN new ELSE Supersede(k)
<1>2. bid' = [k \in Keys |-> put(k)]
  BY <1>1 DEF CommitBid
<1>3. new \in BidRow
  BY Types DEF BidRow, BidStatus
<1>4. \A k \in Keys : Supersede(k) \in BidRow /\ Supersede(k).bidder = bid[k].bidder
        /\ Supersede(k).amount = bid[k].amount /\ Supersede(k).seq = bid[k].seq
        /\ Supersede(k).status = IF bid[k].status = "ACCEPTED" THEN "OUTBID" ELSE bid[k].status
  <2> SUFFICES ASSUME NEW k \in Keys
               PROVE  Supersede(k) \in BidRow /\ Supersede(k).bidder = bid[k].bidder
        /\ Supersede(k).amount = bid[k].amount /\ Supersede(k).seq = bid[k].seq
        /\ Supersede(k).status = IF bid[k].status = "ACCEPTED" THEN "OUTBID" ELSE bid[k].status
    OBVIOUS
  <2>1. bid[k] \in BidRow
    BY Types
  <2> QED BY <2>1 DEF Supersede, BidRow, BidStatus
<1>5. bid' \in [Keys -> BidRow]
  <2>1. \A k \in Keys : put(k) \in BidRow
    BY <1>3, <1>4
  <2> HIDE DEF put
  <2> QED BY <1>2, <2>1
<1>6. \A k \in Keys : bid'[k] = IF k = q THEN new ELSE Supersede(k)
  BY <1>2
<1>7. lot' \in LotRow /\ lot'.status = lot.status /\ lot'.winner = lot.winner
      /\ lot'.count = lot.count + 1 /\ lot'.high = amount
  <2>1. lot' = [lot EXCEPT !.count = @ + 1, !.high = amount]
    BY <1>1 DEF CommitBid
  <2>2. amount \in Nat /\ lot \in LotRow /\ lot.count \in Nat
    BY Types
  <2>3. lot' = [lot EXCEPT !.count = lot.count + 1, !.high = amount]
    BY <2>1, <2>2 DEF LotRow
  <2>4. PICK n \in Nat : n = lot.count + 1
    BY <2>2
  <2>5. lot' = [lot EXCEPT !.count = n, !.high = amount]
    BY <2>3, <2>4
  <2> HIDE DEF new, put
  <2>6. lot' \in LotRow /\ lot'.status = lot.status /\ lot'.winner = lot.winner
        /\ lot'.count = n /\ lot'.high = amount
    BY <2>2, <2>5 DEF LotRow
  <2> QED BY <2>4, <2>6
<1>8. /\ bid'[q].bidder = b /\ bid'[q].amount = amount
      /\ bid'[q].seq = lot.count + 1 /\ bid'[q].status = "ACCEPTED"
  BY <1>6
<1>9. \A k \in Keys : k # q =>
                /\ bid'[k].bidder = bid[k].bidder /\ bid'[k].amount = bid[k].amount
                /\ bid'[k].seq = bid[k].seq
                /\ bid'[k].status = IF bid[k].status = "ACCEPTED" THEN "OUTBID" ELSE bid[k].status
  BY <1>4, <1>6
<1>10. /\ Biddable(b) /\ ClearsTheBar(amount) /\ bid[q].status = Absent
       /\ txn' = [txn EXCEPT ![c] = Idle]
       /\ UNCHANGED <<auction, windowPast, approved, registered, vehicle, settlement, paid, raced>>
  BY <1>1 DEF CommitBid
<1> QED
  <2> HIDE DEF new, put
  <2> QED BY <1>5, <1>7, <1>8, <1>9, <1>10

(* What CommitSelectWinner writes. *)
LEMMA SelectRows ==
  ASSUME TypeOK, NEW c \in Clients, CommitSelectWinner(c)
  PROVE  \E w \in Keys :
           /\ w = txn[c].key /\ txn[c].op = "selectWinner" /\ CanMove("WINNER_SELECTED")
           /\ bid' \in [Keys -> BidRow]
           /\ \A k \in Keys :
                /\ bid'[k].bidder = bid[k].bidder /\ bid'[k].amount = bid[k].amount
                /\ bid'[k].seq = bid[k].seq
                /\ bid'[k].status = IF k = w THEN "WON"
                                    ELSE IF bid[k].status \in {"ACCEPTED", "OUTBID"} THEN "LOST"
                                    ELSE bid[k].status
                /\ bid'[k].status = bid[k].status => bid'[k] = bid[k]
           /\ lot' \in LotRow /\ lot'.status = "WINNER_SELECTED" /\ lot'.winner = w
           /\ lot'.count = lot.count /\ lot'.high = lot.high
           /\ vehicle' = "WINNER_SELECTED"
           /\ txn' = [txn EXCEPT ![c] = Idle]
           /\ UNCHANGED <<auction, windowPast, approved, registered, settlement, paid, raced>>
<1>1. PICK w \in Keys : w = txn[c].key
  BY Kinds DEF CommitSelectWinner
<1>2. bid' = [k \in Keys |-> Settle(k, w)]
  BY <1>1 DEF CommitSelectWinner
<1>3. \A k \in Keys :
        /\ Settle(k, w) \in BidRow
        /\ Settle(k, w).bidder = bid[k].bidder /\ Settle(k, w).amount = bid[k].amount
        /\ Settle(k, w).seq = bid[k].seq
        /\ Settle(k, w).status = IF k = w THEN "WON"
                                 ELSE IF bid[k].status \in {"ACCEPTED", "OUTBID"} THEN "LOST"
                                 ELSE bid[k].status
        /\ Settle(k, w).status = bid[k].status => Settle(k, w) = bid[k]
  <2>1. ASSUME NEW row \in BidRow, NEW s \in BidStatus
        PROVE  LET new == [row EXCEPT !.status = s] IN
                 /\ new \in BidRow /\ new.bidder = row.bidder /\ new.amount = row.amount
                 /\ new.seq = row.seq /\ new.status = s /\ s = row.status => new = row
    BY DEF BidRow
  <2>2. ASSUME NEW k \in Keys
        PROVE  /\ Settle(k, w) \in BidRow
               /\ Settle(k, w).bidder = bid[k].bidder /\ Settle(k, w).amount = bid[k].amount
               /\ Settle(k, w).seq = bid[k].seq
               /\ Settle(k, w).status = IF k = w THEN "WON"
                                        ELSE IF bid[k].status \in {"ACCEPTED", "OUTBID"} THEN "LOST"
                                        ELSE bid[k].status
               /\ Settle(k, w).status = bid[k].status => Settle(k, w) = bid[k]
    <3>1. bid[k] \in BidRow /\ {"WON", "LOST"} \subseteq BidStatus
      BY Types DEF BidStatus
    <3>2. CASE k = w
      BY <2>1, <3>1, <3>2 DEF Settle
    <3>3. CASE k # w /\ bid[k].status \in {"ACCEPTED", "OUTBID"}
      BY <2>1, <3>1, <3>3 DEF Settle
    <3>4. CASE k # w /\ bid[k].status \notin {"ACCEPTED", "OUTBID"}
      BY <3>1, <3>4 DEF Settle
    <3> QED BY <3>2, <3>3, <3>4
  <2> QED BY <2>2
<1>4. bid' \in [Keys -> BidRow] /\ \A k \in Keys : bid'[k] = Settle(k, w)
  BY <1>2, <1>3
<1>5. lot' \in LotRow /\ lot'.status = "WINNER_SELECTED" /\ lot'.winner = w
      /\ lot'.count = lot.count /\ lot'.high = lot.high
  <2>1. lot' = [lot EXCEPT !.status = "WINNER_SELECTED", !.winner = w]
    BY <1>1 DEF CommitSelectWinner
  <2> QED BY <2>1, Types DEF LotRow, LotStatus
<1>6. /\ txn[c].op = "selectWinner" /\ CanMove("WINNER_SELECTED") /\ vehicle' = "WINNER_SELECTED"
      /\ txn' = [txn EXCEPT ![c] = Idle]
      /\ UNCHANGED <<auction, windowPast, approved, registered, settlement, paid, raced>>
  BY DEF CommitSelectWinner, MoveVehicle
<1> QED BY <1>1, <1>3, <1>4, <1>5, <1>6

LEMMA CommitTypes ==
  ASSUME TypeOK, NEW c \in Clients, CommitBid(c) \/ CommitSelectWinner(c) \/ CommitReceipt(c)
  PROVE  TypeOK'
<1>1. txn' \in [Clients -> Txn]
  BY TxnStep, IdleTxn DEF CommitBid, CommitSelectWinner, CommitReceipt
<1>2. CASE CommitBid(c)
  BY <1>1, <1>2, CommitBidRows DEF TypeOK, LotRow, BidRow
<1>3. CASE CommitSelectWinner(c)
  BY <1>1, <1>3, SelectRows DEF TypeOK, LotRow, BidRow, VehicleStatus
<1>4. CASE CommitReceipt(c)
  <2>1. txn[c].amount \in Nat /\ txn[c].received \in Nat
    BY <1>4, Kinds, Types DEF CommitReceipt
  <2>2. settlement' \in SettlementRow
    BY <1>4, <2>1 DEF CommitReceipt, SettlementRow, SettlementStatus
  <2>3. lot' \in LotRow /\ vehicle' \in VehicleStatus
    BY <1>4, Types DEF CommitReceipt, LotRow, LotStatus, VehicleStatus
  <2>4. paid' \in Nat /\ UNCHANGED <<auction, windowPast, approved, registered, bid>>
    BY <1>4, <2>1, Types DEF CommitReceipt
  <2>5. raced' \in BOOLEAN
    BY <1>4 DEF CommitReceipt, TypeOK
  <2> QED BY <1>1, <2>2, <2>3, <2>4, <2>5 DEF TypeOK, LotRow, SettlementRow
<1> QED BY <1>2, <1>3, <1>4

LEMMA CreateSettlementTypes ==
  ASSUME TypeOK, CreateSettlement
  PROVE  TypeOK'
<1>1. settlement' \in SettlementRow /\ lot' \in LotRow /\ vehicle' \in VehicleStatus
  BY Types DEF CreateSettlement, MoveVehicle, SettlementRow, SettlementStatus, LotRow, LotStatus, VehicleStatus
<1> QED BY <1>1 DEF CreateSettlement, TypeOK, LotRow, SettlementRow

LEMMA StepTypes ==
  ASSUME TypeOK, [Next]_vars
  PROVE  TypeOK'
<1>1. CASE UNCHANGED vars
  BY <1>1 DEF vars, TypeOK
<1>2. CASE Next
  BY <1>2, BeginTypes, AuctionTypes, CommitTypes, CreateSettlementTypes DEF Next, Bidding, Settling
<1> QED BY <1>1, <1>2

(* Types are kept by every handler. *)
THEOREM TypeCorrect == Spec => []TypeOK
<1>1. Init => TypeOK
  <2> SUFFICES ASSUME Init PROVE TypeOK
    OBVIOUS
  <2>1. txn \in [Clients -> Txn]
    BY IdleTxn DEF Init
  <2>2. bid \in [Keys -> BidRow]
    <3>1. NoBid \in BidRow
      BY DEF NoBid, BidRow, Absent
    <3> QED BY <3>1 DEF Init
  <2>3. lot \in LotRow /\ settlement \in SettlementRow
    BY DEF Init, LotRow, LotStatus, SettlementRow, Absent
  <2> QED BY <2>1, <2>2, <2>3 DEF Init, TypeOK, AuctionStatus, VehicleStatus, LotRow, BidRow, SettlementRow
<1>2. TypeOK /\ [Next]_vars => TypeOK'
  BY StepTypes
<1> QED BY <1>1, <1>2, PTL DEF Spec

------------------------------------------------------------------------------
(* The ladder and the winner                                               *)

(* Ladder and WinnerTakesAll are not inductive: they say neither that the  *)
(* lot's highest amount is that of a bid, nor what an open selection has   *)
(* read, nor that a settled vehicle is past the selection of a winner.     *)
Highest ==
  /\ \A k \in Placed : bid[k].amount <= lot.high
  /\ lot.count > 0 => \E k \in Placed : bid[k].amount = lot.high

Unwon ==
  lot.winner = Nobody =>
    /\ lot.status \in {"LISTED", "BIDDING_OPEN", "BIDDING_CLOSED"} /\ settlement.status = Absent
    /\ \A k \in Placed : bid[k].status = IF bid[k].amount = lot.high THEN "ACCEPTED" ELSE "OUTBID"

Won ==
  lot.winner # Nobody =>
    /\ lot.status \in {"WINNER_SELECTED", "SETTLEMENT_PENDING", "SETTLED"}
    /\ lot.winner \in Placed /\ bid[lot.winner].amount = lot.high
    /\ \A k \in Placed : bid[k].status = IF k = lot.winner THEN "WON" ELSE "LOST"

Chosen ==
  \A c \in Clients : txn[c].op = "selectWinner" =>
    /\ lot.status \notin {"LISTED", "BIDDING_OPEN"}
    /\ txn[c].key \in Placed /\ bid[txn[c].key].amount = lot.high

Owing == \A c \in Clients : txn[c].op = "receipt" => settlement.status # Absent

Gone ==
  lot.status \in {"SETTLEMENT_PENDING", "SETTLED"} =>
    vehicle \in {"SETTLEMENT_PENDING", "SOLD", "PARKED"}

BidInv == Ladder /\ Highest /\ Unwon /\ Won /\ Chosen /\ Owing /\ Gone

(* No two bids offer the same. *)
LEMMA AmountsDiffer ==
  ASSUME TypeOK, Ladder, NEW j \in Placed, NEW k \in Placed, bid[j].amount = bid[k].amount
  PROVE  j = k
<1>1. bid[j].amount \in Nat /\ Increment \in Nat \ {0}
  BY Types DEF Placed
<1> QED BY <1>1 DEF Ladder

(* A step that leaves the bids alone. *)
LEMMA BidsStay ==
  ASSUME TypeOK, TypeOK', BidInv, UNCHANGED bid,
         lot'.count = lot.count, lot'.high = lot.high, lot'.winner = lot.winner,
         lot.winner = Nobody => /\ lot'.status \in {"LISTED", "BIDDING_OPEN", "BIDDING_CLOSED"}
                                /\ settlement'.status = Absent,
         lot.winner # Nobody => lot'.status \in {"WINNER_SELECTED", "SETTLEMENT_PENDING", "SETTLED"},
         \A c \in Clients : txn'[c].op = "selectWinner" =>
           /\ lot'.status \notin {"LISTED", "BIDDING_OPEN"}
           /\ \/ txn'[c] = txn[c]
              \/ txn'[c].key \in Placed /\ bid[txn'[c].key].amount = lot.high,
         \A c \in Clients : txn'[c].op = "receipt" => settlement'.status # Absent,
         Gone'
  PROVE  BidInv'
<1>1. Placed' = Placed
  BY DEF Placed
<1>2. Ladder'
  BY <1>1 DEF BidInv, Ladder
<1>3. Highest'
  BY <1>1 DEF BidInv, Highest
<1>4. Unwon' /\ Won'
  BY <1>1 DEF BidInv, Unwon, Won
<1>5. Chosen'
  BY <1>1 DEF BidInv, Chosen
<1>6. Owing'
  BY DEF Owing
<1> QED BY <1>2, <1>3, <1>4, <1>5, <1>6 DEF BidInv

LEMMA BeginKeepsBids ==
  ASSUME TypeOK, TypeOK', BidInv, NEW c \in Clients,
         \/ \E k \in Keys, b \in Bidders, amount \in Amounts : BeginBid(c, k, b, amount)
         \/ \E k \in Keys : BeginSelectWinner(c, k)
         \/ \E amount \in Amounts : BeginReceipt(c, amount)
         \/ Rollback(c)
  PROVE  BidInv'
<1>1. UNCHANGED <<lot, bid, vehicle, settlement>>
  BY DEF BeginBid, BeginSelectWinner, BeginReceipt, Rollback
<1>2. \A d \in Clients : d # c => txn'[d] = txn[d]
  BY Types DEF BeginBid, BeginSelectWinner, BeginReceipt, Rollback
<1>3. txn'[c].op = "selectWinner" =>
        /\ lot.status \notin {"LISTED", "BIDDING_OPEN"}
        /\ txn'[c].key \in Placed /\ bid[txn'[c].key].amount = lot.high
  <2>1. ASSUME NEW k \in Keys, BeginSelectWinner(c, k)
        PROVE  /\ lot.status \notin {"LISTED", "BIDDING_OPEN"}
               /\ txn'[c].key \in Placed /\ bid[txn'[c].key].amount = lot.high
    <3>1. txn'[c] = [op |-> "selectWinner", key |-> k]
      BY <2>1, Types DEF BeginSelectWinner
    <3>2. lot.status = "BIDDING_CLOSED" /\ lot.winner = Nobody /\ bid[k].status = "ACCEPTED"
      BY <2>1 DEF BeginSelectWinner, LotMay
    <3>3. k \in Placed
      BY <3>2 DEF Placed, Absent
    <3> QED BY <3>1, <3>2, <3>3 DEF BidInv, Unwon
  <2>2. ASSUME NEW k \in Keys, NEW b \in Bidders, NEW amount \in Amounts, BeginBid(c, k, b, amount)
        PROVE  txn'[c].op = "placeBid"
    BY <2>2, Types DEF BeginBid
  <2>3. ASSUME NEW amount \in Amounts, BeginReceipt(c, amount)
        PROVE  txn'[c].op = "receipt"
    BY <2>3, Types DEF BeginReceipt
  <2>4. Rollback(c) => txn'[c].op = "idle"
    BY Types DEF Rollback, Idle
  <2> QED BY <2>1, <2>2, <2>3, <2>4
<1>4. txn'[c].op = "receipt" => settlement.status # Absent
  <2>1. ASSUME NEW k \in Keys, NEW b \in Bidders, NEW amount \in Amounts, BeginBid(c, k, b, amount)
        PROVE  txn'[c].op = "placeBid"
    BY <2>1, Types DEF BeginBid
  <2>2. ASSUME NEW k \in Keys, BeginSelectWinner(c, k) PROVE txn'[c].op = "selectWinner"
    BY <2>2, Types DEF BeginSelectWinner
  <2>3. Rollback(c) => txn'[c].op = "idle"
    BY Types DEF Rollback, Idle
  <2>4. ASSUME NEW amount \in Amounts, BeginReceipt(c, amount)
        PROVE  settlement.status # Absent
    BY <2>4 DEF BeginReceipt
  <2> QED BY <2>1, <2>2, <2>3, <2>4
<1>5. \A d \in Clients : txn'[d].op = "selectWinner" =>
        /\ lot'.status \notin {"LISTED", "BIDDING_OPEN"}
        /\ \/ txn'[d] = txn[d]
           \/ txn'[d].key \in Placed /\ bid[txn'[d].key].amount = lot.high
  BY <1>1, <1>2, <1>3 DEF BidInv, Chosen
<1>6. \A d \in Clients : txn'[d].op = "receipt" => settlement'.status # Absent
  BY <1>1, <1>2, <1>4 DEF BidInv, Owing
<1>7. Gone'
  BY <1>1 DEF BidInv, Gone
<1> QED BY <1>1, <1>5, <1>6, <1>7, BidsStay DEF BidInv, Unwon, Won

LEMMA AuctionKeepsBids ==
  ASSUME TypeOK, TypeOK', BidInv,
         \/ \E b \in Bidders : ApproveBidder(b) \/ RegisterBidder(b)
         \/ OpenAuction \/ WindowPasses \/ CloseAuction \/ PulledBack \/ CreateSettlement
         \/ UNCHANGED vars
  PROVE  BidInv'
<1>1. UNCHANGED <<bid, txn>>
  BY DEF ApproveBidder, RegisterBidder, OpenAuction, WindowPasses, CloseAuction, PulledBack,
     CreateSettlement, vars
<1>2. lot'.count = lot.count /\ lot'.high = lot.high /\ lot'.winner = lot.winner
  BY Types DEF ApproveBidder, RegisterBidder, OpenAuction, WindowPasses, CloseAuction, PulledBack,
     CreateSettlement, vars, LotRow
<1>3. \/ UNCHANGED <<lot, settlement>> /\ vehicle' \in {vehicle, "PARKED"}
      \/ /\ lot.status = "LISTED" /\ lot'.status = "BIDDING_OPEN" /\ UNCHANGED settlement
      \/ /\ lot.status = "BIDDING_OPEN" /\ lot'.status = "BIDDING_CLOSED" /\ UNCHANGED settlement
      \/ /\ lot.status = "WINNER_SELECTED" /\ lot'.status = "SETTLEMENT_PENDING"
         /\ vehicle' = "SETTLEMENT_PENDING" /\ settlement'.status = "PENDING"
  BY Types DEF ApproveBidder, RegisterBidder, OpenAuction, WindowPasses, CloseAuction, PulledBack,
     CreateSettlement, vars, LotRow, LotMay, MoveVehicle
<1>4. Gone'
  BY <1>3 DEF BidInv, Gone
<1>5. \A c \in Clients : txn'[c].op = "selectWinner" =>
        lot'.status \notin {"LISTED", "BIDDING_OPEN"} /\ txn'[c] = txn[c]
  BY <1>1, <1>3 DEF BidInv, Chosen
<1>6. \A c \in Clients : txn'[c].op = "receipt" => settlement'.status # Absent
  BY <1>1, <1>3 DEF BidInv, Owing, Absent
<1>7. /\ lot.winner = Nobody => /\ lot'.status \in {"LISTED", "BIDDING_OPEN", "BIDDING_CLOSED"}
                                /\ settlement'.status = Absent
      /\ lot.winner # Nobody => lot'.status \in {"WINNER_SELECTED", "SETTLEMENT_PENDING", "SETTLED"}
  BY <1>3 DEF BidInv, Unwon, Won
<1> QED BY <1>1, <1>2, <1>4, <1>5, <1>6, <1>7, BidsStay

LEMMA ReceiptKeepsBids ==
  ASSUME TypeOK, TypeOK', BidInv, NEW c \in Clients, CommitReceipt(c)
  PROVE  BidInv' /\ lot.winner # Nobody
<1>1. settlement.status # Absent /\ lot.winner # Nobody
  BY DEF CommitReceipt, BidInv, Owing, Unwon
<1>2. UNCHANGED bid /\ lot'.count = lot.count /\ lot'.high = lot.high /\ lot'.winner = lot.winner
  BY Types DEF CommitReceipt, LotRow
<1>3. /\ settlement'.status # Absent /\ lot'.status \in {lot.status, "SETTLED"}
      /\ (lot' = lot /\ vehicle' = vehicle) \/ vehicle' = "SOLD"
  BY Types DEF CommitReceipt, LotRow, Absent
<1>4. txn'[c].op = "idle" /\ \A d \in Clients : d # c => txn'[d] = txn[d]
  BY Types DEF CommitReceipt, Idle
<1>5. Gone'
  BY <1>3 DEF BidInv, Gone
<1>6. lot.status \in {"WINNER_SELECTED", "SETTLEMENT_PENDING", "SETTLED"}
  BY <1>1 DEF BidInv, Won
<1>7. BidInv'
  BY <1>1, <1>2, <1>3, <1>4, <1>5, <1>6, BidsStay
<1> QED BY <1>1, <1>7

LEMMA CommitBidKeepsBids ==
  ASSUME TypeOK, TypeOK', BidInv, NEW c \in Clients, CommitBid(c)
  PROVE  BidInv'
<1>1. PICK q \in Keys, b \in Bidders, amount \in Amounts :
           /\ Biddable(b) /\ ClearsTheBar(amount) /\ bid[q].status = Absent
           /\ bid' \in [Keys -> BidRow]
           /\ bid'[q].bidder = b /\ bid'[q].amount = amount
           /\ bid'[q].seq = lot.count + 1 /\ bid'[q].status = "ACCEPTED"
           /\ \A k \in Keys : k # q =>
                /\ bid'[k].bidder = bid[k].bidder /\ bid'[k].amount = bid[k].amount
                /\ bid'[k].seq = bid[k].seq
                /\ bid'[k].status = IF bid[k].status = "ACCEPTED" THEN "OUTBID" ELSE bid[k].status
           /\ lot' \in LotRow /\ lot'.status = lot.status /\ lot'.winner = lot.winner
           /\ lot'.count = lot.count + 1 /\ lot'.high = amount
           /\ txn' = [txn EXCEPT ![c] = Idle]
           /\ UNCHANGED <<auction, windowPast, approved, registered, vehicle, settlement, paid, raced>>
  BY CommitBidRows
<1>2. /\ lot.count \in Nat /\ lot.high \in Nat /\ amount \in Nat /\ amount >= Reserve
      /\ Increment \in Nat \ {0} /\ Reserve \in Nat
      /\ lot.count > 0 => amount >= lot.high + Increment
      /\ \A k \in Keys : bid[k].amount \in Nat /\ bid[k].seq \in Nat
  BY <1>1, Types DEF ClearsTheBar
<1>3. lot.status = "BIDDING_OPEN" /\ lot.winner = Nobody /\ settlement.status = Absent
  BY <1>1 DEF Biddable, BidInv, Won, Unwon
<1>4. Placed' = Placed \cup {q} /\ q \notin Placed
  <2>1. \A k \in Keys : k # q => (bid'[k].status = Absent <=> bid[k].status = Absent)
    BY <1>1 DEF Absent
  <2> QED BY <1>1, <2>1 DEF Placed, Absent
<1>5. \A k \in Placed : /\ k \in Keys /\ k # q /\ bid[k].amount <= lot.high
                        /\ bid[k].seq \in 1..lot.count /\ lot.count > 0
  BY <1>2, <1>4 DEF BidInv, Highest, Ladder, Placed
<1>6. \A k \in Placed : bid[k].amount + Increment <= amount /\ bid[k].amount # amount
  BY <1>2, <1>5
<1>7. Ladder'
  <2>1. \A k \in Placed' : bid'[k].seq \in 1..lot'.count /\ bid'[k].amount >= Reserve
    BY <1>1, <1>2, <1>4, <1>5 DEF BidInv, Ladder
  <2>2. \A n \in 1..lot'.count : \E k \in Placed' : bid'[k].seq = n
    <3> SUFFICES ASSUME NEW n \in 1..lot'.count PROVE \E k \in Placed' : bid'[k].seq = n
      OBVIOUS
    <3>1. CASE n = lot.count + 1
      BY <1>1, <1>4, <3>1
    <3>2. CASE n \in 1..lot.count
      <4>1. PICK k \in Placed : bid[k].seq = n
        BY <3>2 DEF BidInv, Ladder
      <4> QED BY <1>1, <1>4, <1>5, <4>1
    <3> QED BY <1>1, <1>2, <3>1, <3>2
  <2>3. \A j, k \in Placed' : j # k =>
           \/ bid'[j].seq < bid'[k].seq /\ bid'[j].amount + Increment <= bid'[k].amount
           \/ bid'[k].seq < bid'[j].seq /\ bid'[k].amount + Increment <= bid'[j].amount
    <3> SUFFICES ASSUME NEW j \in Placed', NEW k \in Placed', j # k
                 PROVE  \/ bid'[j].seq < bid'[k].seq /\ bid'[j].amount + Increment <= bid'[k].amount
                        \/ bid'[k].seq < bid'[j].seq /\ bid'[k].amount + Increment <= bid'[j].amount
      OBVIOUS
    <3>1. CASE j # q /\ k # q
      BY <1>1, <1>4, <1>5, <3>1 DEF BidInv, Ladder
    <3>2. CASE j = q
      BY <1>1, <1>2, <1>4, <1>5, <1>6, <3>2
    <3>3. CASE k = q
      BY <1>1, <1>2, <1>4, <1>5, <1>6, <3>3
    <3> QED BY <3>1, <3>2, <3>3
  <2> QED BY <2>1, <2>2, <2>3 DEF Ladder
<1>8. Highest'
  BY <1>1, <1>2, <1>4, <1>5, <1>6 DEF Highest
<1>9. Unwon'
  <2>1. \A k \in Placed' : bid'[k].status = IF bid'[k].amount = lot'.high THEN "ACCEPTED" ELSE "OUTBID"
    <3>1. \A k \in Placed : bid[k].status \in {"ACCEPTED", "OUTBID"}
      BY <1>3 DEF BidInv, Unwon
    <3> QED BY <1>1, <1>4, <1>5, <1>6, <3>1
  <2> QED BY <1>1, <1>3, <2>1 DEF Unwon
<1>10. Won'
  BY <1>1, <1>3 DEF Won
<1>11. Chosen' /\ Owing'
  <2>1. \A d \in Clients : txn'[d].op \notin {"selectWinner", "receipt"}
    <3>1. \A d \in Clients : txn[d].op \notin {"selectWinner", "receipt"}
      BY <1>3 DEF BidInv, Chosen, Owing
    <3> QED BY <1>1, <3>1, Types, IdleTxn
  <2> QED BY <2>1 DEF Chosen, Owing
<1>12. Gone'
  BY <1>1, <1>3 DEF Gone
<1> QED BY <1>7, <1>8, <1>9, <1>10, <1>11, <1>12 DEF BidInv

(* The winner is the highest bid; a selection that comes after another one *)
(* names the same bid, and finds the vehicle not yet moved on.             *)
LEMMA SelectKeepsBids ==
  ASSUME TypeOK, TypeOK', BidInv, NEW c \in Clients, CommitSelectWinner(c)
  PROVE  /\ BidInv' /\ lot.status \in {"BIDDING_CLOSED", "WINNER_SELECTED"}
         /\ txn[c].key \in Placed /\ lot'.winner = txn[c].key
         /\ lot.winner # Nobody => bid' = bid /\ lot'.winner = lot.winner
<1>1. PICK w \in Keys :
           /\ w = txn[c].key /\ txn[c].op = "selectWinner" /\ CanMove("WINNER_SELECTED")
           /\ bid' \in [Keys -> BidRow]
           /\ \A k \in Keys :
                /\ bid'[k].bidder = bid[k].bidder /\ bid'[k].amount = bid[k].amount
                /\ bid'[k].seq = bid[k].seq
                /\ bid'[k].status = IF k = w THEN "WON"
                                    ELSE IF bid[k].status \in {"ACCEPTED", "OUTBID"} THEN "LOST"
                                    ELSE bid[k].status
                /\ bid'[k].status = bid[k].status => bid'[k] = bid[k]
           /\ lot' \in LotRow /\ lot'.status = "WINNER_SELECTED" /\ lot'.winner = w
           /\ lot'.count = lot.count /\ lot'.high = lot.high
           /\ vehicle' = "WINNER_SELECTED"
           /\ txn' = [txn EXCEPT ![c] = Idle]
           /\ UNCHANGED <<auction, windowPast, approved, registered, settlement, paid, raced>>
  BY SelectRows
<1>2. w \in Placed /\ bid[w].amount = lot.high /\ lot.status \notin {"LISTED", "BIDDING_OPEN"}
  BY <1>1 DEF BidInv, Chosen
<1>3. lot.status \in {"BIDDING_CLOSED", "WINNER_SELECTED"}
  <2>1. lot.status \notin {"SETTLEMENT_PENDING", "SETTLED"}
    BY <1>1 DEF BidInv, Gone, CanMove, VehicleMay
  <2> QED BY <1>2, <2>1 DEF BidInv, Won, Unwon
<1>4. \A k \in Placed : bid[k].amount = lot.high => k = w
  BY <1>2, AmountsDiffer DEF BidInv
<1>5. lot.winner # Nobody => lot.winner = w
  BY <1>4 DEF BidInv, Won
<1>6. \A k \in Placed : bid'[k].status = IF k = w THEN "WON" ELSE "LOST"
  <2>1. CASE lot.winner = Nobody
    BY <1>1, <2>1 DEF BidInv, Unwon, Placed
  <2>2. CASE lot.winner # Nobody
    BY <1>1, <1>5, <2>2 DEF BidInv, Won, Placed
  <2> QED BY <2>1, <2>2
<1>7. \A k \in Keys : k \notin Placed => bid[k].status = Absent /\ bid'[k].status = Absent
  BY <1>1, <1>2 DEF Placed, Absent
<1>8. Placed' = Placed
  BY <1>6, <1>7 DEF Placed, Absent
<1>9. Ladder'
  <2>1. \A k \in Placed : bid'[k].amount = bid[k].amount /\ bid'[k].seq = bid[k].seq
    BY <1>1 DEF Placed
  <2> QED BY <1>1, <1>8, <2>1 DEF BidInv, Ladder
<1>10. Highest'
  <2>1. \A k \in Placed : bid'[k].amount = bid[k].amount
    BY <1>1 DEF Placed
  <2> QED BY <1>1, <1>8, <2>1 DEF BidInv, Highest
<1>11. Unwon' /\ Won'
  <2>1. w # Nobody
    BY Types
  <2> QED BY <1>1, <1>2, <1>6, <1>8, <2>1 DEF Unwon, Won, Placed
<1>12. Chosen' /\ Owing' /\ Gone'
  <2>1. \A d \in Clients : txn'[d] = txn[d] \/ txn'[d].op = "idle"
    BY <1>1, Types, IdleTxn
  <2>2. \A d \in Clients : txn[d].op = "selectWinner" => txn[d].key \in Placed
          /\ bid'[txn[d].key].amount = lot.high
    BY <1>1 DEF BidInv, Chosen, Placed
  <2>3. Chosen'
    BY <1>1, <1>8, <2>1, <2>2 DEF Chosen
  <2> QED BY <1>1, <2>1, <2>3 DEF BidInv, Owing, Gone
<1>13. lot.winner # Nobody => bid' = bid
  <2> SUFFICES ASSUME lot.winner # Nobody PROVE bid' = bid
    OBVIOUS
  <2>1. \A k \in Keys : bid'[k].status = bid[k].status
    BY <1>5, <1>6, <1>7 DEF BidInv, Won
  <2> QED BY <1>1, <2>1, Types
<1> QED BY <1>1, <1>2, <1>3, <1>5, <1>9, <1>10, <1>11, <1>12, <1>13 DEF BidInv

LEMMA StepKeepsBids ==
  ASSUME TypeOK, TypeOK', BidInv, [Next]_vars
  PROVE  BidInv'
BY BeginKeepsBids, AuctionKeepsBids, ReceiptKeepsBids, CommitBidKeepsBids, SelectKeepsBids
   DEF Next, Bidding, Settling

LEMMA AlwaysBids == Spec => [](TypeOK /\ BidInv)
<1>1. Init => BidInv
  <2> SUFFICES ASSUME Init PROVE BidInv
    OBVIOUS
  <2>1. Placed = {} /\ lot.count = 0 /\ lot.winner = Nobody /\ lot.status = "LISTED"
        /\ settlement.status = Absent /\ \A c \in Clients : txn[c].op = "idle"
    BY DEF Init, Placed, NoBid, Idle
  <2> QED BY <2>1 DEF BidInv, Ladder, Highest, Unwon, Won, Chosen, Owing, Gone
<1>2. TypeOK /\ TypeOK' /\ BidInv /\ [Next]_vars => BidInv'
  BY StepKeepsBids
<1> QED BY <1>1, <1>2, TypeCorrect, PTL DEF Spec

(* Bids of one lot are numbered without a gap, and each beats all earlier  *)
(* ones by the increment (placeBid).                                       *)
THEOREM BidsClimb == Spec => []Ladder
<1>1. BidInv => Ladder
  BY DEF BidInv
<1> QED BY <1>1, AlwaysBids, PTL

(* The winner is the highest bid and every other bid has lost              *)
(* (selectWinner).                                                         *)
THEOREM HighestWins == Spec => []WinnerTakesAll
<1>1. TypeOK /\ BidInv => WinnerTakesAll
  BY DEF BidInv, Highest, Unwon, Won, WinnerTakesAll
<1> QED BY <1>1, AlwaysBids, PTL

LEMMA WonStays ==
  ASSUME TypeOK, TypeOK', BidInv, [Next]_vars, lot.winner # Nobody
  PROVE  /\ lot'.winner = lot.winner /\ bid' = bid
         /\ lot.status # "WINNER_SELECTED" => lot'.status # "WINNER_SELECTED"
<1>1. lot.status \in {"WINNER_SELECTED", "SETTLEMENT_PENDING", "SETTLED"}
  BY DEF BidInv, Won
<1>2. ASSUME NEW c \in Clients, CommitSelectWinner(c)
      PROVE  lot'.winner = lot.winner /\ bid' = bid /\ lot.status = "WINNER_SELECTED"
  BY <1>1, <1>2, SelectKeepsBids
<1>3. ASSUME NEW c \in Clients, CommitReceipt(c)
      PROVE  lot'.winner = lot.winner /\ bid' = bid /\ lot'.status \in {lot.status, "SETTLED"}
  BY <1>3, Types DEF CommitReceipt, LotRow
<1>4. ASSUME NEW c \in Clients, CommitBid(c) PROVE FALSE
  BY <1>1, <1>4 DEF CommitBid, Biddable
<1>5. CASE OpenAuction \/ CloseAuction
  BY <1>1, <1>5 DEF OpenAuction, CloseAuction
<1>6. CASE CreateSettlement
  BY <1>1, <1>6, Types DEF CreateSettlement, LotRow
<1>7. CASE UNCHANGED <<lot, bid>>
  BY <1>7
<1>8. \/ UNCHANGED <<lot, bid>> \/ CreateSettlement \/ OpenAuction \/ CloseAuction
      \/ \E c \in Clients : CommitBid(c) \/ CommitSelectWinner(c) \/ CommitReceipt(c)
  BY DEF Next, Bidding, Settling, vars, ApproveBidder, RegisterBidder, WindowPasses, PulledBack,
     BeginBid, BeginSelectWinner, BeginReceipt, Rollback
<1> QED BY <1>2, <1>3, <1>4, <1>5, <1>6, <1>7, <1>8

(* A second selectWinner changes neither the winner nor any bid, and does  *)
(* not reopen a settled lot.                                               *)
THEOREM FirstSelectionStands == Spec => WinnerIsFinal
<1>1. TypeOK /\ TypeOK' /\ BidInv /\ [Next]_vars =>
        [lot.winner # Nobody =>
           /\ lot'.winner = lot.winner
           /\ bid' = bid
           /\ lot.status # "WINNER_SELECTED" => lot'.status # "WINNER_SELECTED"]_vars
  BY WonStays
<1> QED BY <1>1, AlwaysBids, TypeCorrect, PTL DEF Spec, WinnerIsFinal

------------------------------------------------------------------------------
(* The money                                                               *)

(* What an open receipt will write was within the payable when it was      *)
(* read, and covers no more than what it pays on top of what was paid.     *)
Receipts ==
  \A c \in Clients : txn[c].op = "receipt" =>
    txn[c].received <= Payable /\ txn[c].received <= paid + txn[c].amount

Bounded == settlement.received <= Payable /\ settlement.received <= paid

MoneyInv == Receipts /\ Bounded

LEMMA PayableIsMoney ==
  ASSUME TypeOK
  PROVE  Payable \in Nat /\ settlement.received \in Nat /\ paid \in Nat
<1>1. lot.winner \in Keys \cup {Nobody} /\ \A k \in Keys : bid[k].amount \in Nat
  BY Types DEF LotRow
<1> QED BY <1>1, Types DEF Payable, SettlementRow

LEMMA StepKeepsMoney ==
  ASSUME TypeOK, TypeOK', BidInv, MoneyInv, [Next]_vars
  PROVE  MoneyInv'
<1>1. Payable \in Nat /\ Payable' \in Nat /\ settlement.received \in Nat /\ paid \in Nat /\ paid' \in Nat
  <2>1. TypeOK => Payable \in Nat /\ settlement.received \in Nat /\ paid \in Nat
    BY PayableIsMoney
  <2>2. lot' \in LotRow /\ bid' \in [Keys -> BidRow] /\ paid' \in Nat
    BY DEF TypeOK, LotRow, BidRow
  <2>3. lot'.winner \in Keys \cup {Nobody} /\ \A k \in Keys : bid'[k].amount \in Nat
    BY <2>2 DEF LotRow, BidRow
  <2>4. Payable' \in Nat
    BY <2>3 DEF Payable
  <2> QED BY <2>1, <2>2, <2>4
<1>2. Payable <= Payable'
  <2>1. CASE lot.winner = Nobody
    BY <1>1, <2>1 DEF Payable
  <2>2. CASE lot.winner # Nobody
    BY <1>1, <2>2, WonStays DEF Payable
  <2> QED BY <2>1, <2>2
<1>3. ASSUME NEW c \in Clients, CommitReceipt(c)
      PROVE  MoneyInv'
  <2>1. PICK r \in Nat, a \in Nat : r = txn[c].received /\ a = txn[c].amount
    BY <1>3, Kinds, Types DEF CommitReceipt
  <2>2. r <= Payable /\ r <= paid + a /\ txn[c].op = "receipt"
    BY <1>3, <2>1 DEF CommitReceipt, MoneyInv, Receipts
  <2>3. settlement'.received = r /\ paid' = paid + a
    BY <1>3, <2>1 DEF CommitReceipt
  <2>4. Bounded'
    BY <1>1, <1>2, <2>1, <2>2, <2>3 DEF Bounded
  <2>5. txn' = [txn EXCEPT ![c] = Idle]
    BY <1>3 DEF CommitReceipt
  <2>6. Receipts'
    <3> SUFFICES ASSUME NEW d \in Clients, txn'[d].op = "receipt"
                 PROVE  txn'[d].received <= Payable' /\ txn'[d].received <= paid' + txn'[d].amount
      BY DEF Receipts
    <3>1. d # c /\ txn'[d] = txn[d]
      BY <2>5, Types, IdleTxn
    <3>2. txn[d].received \in Nat /\ txn[d].amount \in Nat
      BY <3>1, Kinds, Types
    <3>3. txn[d].received <= Payable /\ txn[d].received <= paid + txn[d].amount
      BY <3>1 DEF MoneyInv, Receipts
    <3> QED BY <1>1, <1>2, <2>1, <2>3, <3>1, <3>2, <3>3
  <2> QED BY <2>4, <2>6 DEF MoneyInv
<1>4. ASSUME UNCHANGED paid, settlement'.received \in {settlement.received, 0},
             \A c \in Clients : txn'[c].op = "receipt" =>
               \/ txn'[c] = txn[c]
               \/ txn'[c].received <= Payable /\ txn'[c].received <= paid + txn'[c].amount
      PROVE  MoneyInv'
  <2>1. Bounded'
    BY <1>1, <1>2, <1>4 DEF MoneyInv, Bounded
  <2>2. Receipts'
    <3> SUFFICES ASSUME NEW d \in Clients, txn'[d].op = "receipt"
                 PROVE  txn'[d].received <= Payable' /\ txn'[d].received <= paid' + txn'[d].amount
      BY DEF Receipts
    <3>1. txn'[d].received <= Payable /\ txn'[d].received <= paid + txn'[d].amount
      BY <1>4 DEF MoneyInv, Receipts
    <3>2. txn'[d].received \in Nat /\ txn'[d].amount \in Nat
      <4>1. PICK t \in Txn : t = txn'[d]
        BY DEF TypeOK
      <4>2. t.op = "receipt" => t.received \in Nat /\ t.amount \in Amounts
        BY <4>1 DEF Txn, Idle
      <4> QED BY <4>1, <4>2, Types
    <3> QED BY <1>1, <1>2, <1>4, <3>1, <3>2
  <2> QED BY <2>1, <2>2 DEF MoneyInv
<1>5. ASSUME NEW c \in Clients, NEW amount \in Amounts, BeginReceipt(c, amount)
      PROVE  MoneyInv'
  <2>1. UNCHANGED <<paid, settlement>>
    BY <1>5 DEF BeginReceipt
  <2>2. PICK r : r = settlement.received + amount
    OBVIOUS
  <2>3. txn'[c].received = r /\ txn'[c].amount = amount /\ \A d \in Clients : d # c => txn'[d] = txn[d]
    BY <1>5, <2>2, Types DEF BeginReceipt
  <2>4. r <= Payable /\ r <= paid + amount
    BY <1>1, <1>5, <2>2, Types DEF BeginReceipt, WithinPayable, MoneyInv, Bounded
  <2> QED BY <1>4, <2>1, <2>3, <2>4
<1>6. ASSUME \/ UNCHANGED vars \/ CreateSettlement \/ PulledBack \/ OpenAuction \/ CloseAuction
             \/ WindowPasses \/ \E b \in Bidders : ApproveBidder(b) \/ RegisterBidder(b)
      PROVE  MoneyInv'
  <2>1. UNCHANGED <<paid, raced, txn>> /\ settlement'.received \in {settlement.received, 0}
    BY <1>6 DEF vars, CreateSettlement, PulledBack, OpenAuction, CloseAuction, WindowPasses,
       ApproveBidder, RegisterBidder
  <2> QED BY <1>4, <2>1
<1>7. ASSUME NEW c \in Clients, CommitBid(c) \/ CommitSelectWinner(c) \/ Rollback(c)
      PROVE  MoneyInv'
  <2>1. UNCHANGED <<paid, settlement>> /\ txn' = [txn EXCEPT ![c] = Idle]
    BY <1>7 DEF CommitBid, CommitSelectWinner, Rollback
  <2> QED BY <1>4, <2>1, Types, IdleTxn
<1>8. ASSUME NEW c \in Clients, NEW k \in Keys,
             BeginSelectWinner(c, k) \/ \E b \in Bidders, amount \in Amounts : BeginBid(c, k, b, amount)
      PROVE  MoneyInv'
  <2>1. UNCHANGED <<paid, settlement>> /\ \A d \in Clients : d # c => txn'[d] = txn[d]
    BY <1>8, Types DEF BeginSelectWinner, BeginBid
  <2>2. txn'[c].op # "receipt"
    BY <1>8, Types DEF BeginSelectWinner, BeginBid
  <2> QED BY <1>4, <2>1, <2>2
<1> QED BY <1>3, <1>5, <1>6, <1>7, <1>8 DEF Next, Bidding, Settling

(* As long as no receipt was recorded under another, an open one has read  *)
(* the amount that is recorded, which is what was paid.                    *)
Counted ==
  /\ settlement.status = Absent => settlement.received = 0 /\ paid = 0
  /\ raced = FALSE => settlement.received = paid
  /\ raced = FALSE => \A c \in Clients :
       txn[c].op = "receipt" => txn[c].received = settlement.received + txn[c].amount

LEMMA StepKeepsCount ==
  ASSUME TypeOK, Counted, [Next]_vars
  PROVE  Counted'
<1>1. ASSUME NEW c \in Clients, CommitReceipt(c)
      PROVE  Counted'
  <2>1. /\ txn[c].op = "receipt" /\ settlement'.received = txn[c].received
        /\ settlement'.status # Absent /\ paid' = paid + txn[c].amount
    BY <1>1 DEF CommitReceipt, Absent
  <2>2. txn' = [txn EXCEPT ![c] = Idle]
    BY <1>1 DEF CommitReceipt
  <2>3. raced' = FALSE => raced = FALSE /\ \A d \in Clients \ {c} : txn[d].op # "receipt"
    BY <1>1 DEF CommitReceipt, TypeOK
  <2>4. raced' = FALSE => settlement'.received = paid'
    BY <2>1, <2>3 DEF Counted
  <2>5. raced' = FALSE => \A d \in Clients : txn'[d].op # "receipt"
    BY <2>2, <2>3, Types, IdleTxn
  <2> QED BY <2>1, <2>4, <2>5 DEF Counted
<1>2. ASSUME UNCHANGED <<paid, raced>>,
             UNCHANGED settlement \/ CreateSettlement,
             \A c \in Clients : txn'[c].op = "receipt" =>
               \/ txn'[c] = txn[c]
               \/ txn'[c].received = settlement.received + txn'[c].amount
      PROVE  Counted'
  <2>1. settlement'.received = settlement.received
    BY <1>2 DEF CreateSettlement, Counted
  <2>2. settlement'.status = Absent => settlement.status = Absent
    BY <1>2 DEF CreateSettlement
  <2> QED BY <1>2, <2>1, <2>2 DEF Counted
<1>3. ASSUME NEW c \in Clients, NEW amount \in Amounts, BeginReceipt(c, amount)
      PROVE  Counted'
  <2>1. UNCHANGED <<paid, raced, settlement>>
    BY <1>3 DEF BeginReceipt
  <2>2. PICK r : r = settlement.received + amount
    OBVIOUS
  <2>3. txn'[c].received = r /\ txn'[c].amount = amount /\ \A d \in Clients : d # c => txn'[d] = txn[d]
    BY <1>3, <2>2, Types DEF BeginReceipt
  <2> QED BY <1>2, <2>1, <2>2, <2>3
<1>4. ASSUME \/ UNCHANGED vars \/ CreateSettlement \/ PulledBack \/ OpenAuction \/ CloseAuction
             \/ WindowPasses \/ \E b \in Bidders : ApproveBidder(b) \/ RegisterBidder(b)
      PROVE  Counted'
  <2>1. UNCHANGED <<paid, raced, txn>> /\ (UNCHANGED settlement \/ CreateSettlement)
    BY <1>4 DEF vars, CreateSettlement, PulledBack, OpenAuction, CloseAuction, WindowPasses,
       ApproveBidder, RegisterBidder
  <2> QED BY <1>2, <2>1
<1>5. ASSUME NEW c \in Clients, CommitBid(c) \/ CommitSelectWinner(c) \/ Rollback(c)
      PROVE  Counted'
  <2>1. UNCHANGED <<paid, raced, settlement>> /\ txn' = [txn EXCEPT ![c] = Idle]
    BY <1>5 DEF CommitBid, CommitSelectWinner, Rollback
  <2> QED BY <1>2, <2>1, Types, IdleTxn
<1>6. ASSUME NEW c \in Clients, NEW k \in Keys,
             BeginSelectWinner(c, k) \/ \E b \in Bidders, amount \in Amounts : BeginBid(c, k, b, amount)
      PROVE  Counted'
  <2>1. UNCHANGED <<paid, raced, settlement>> /\ \A d \in Clients : d # c => txn'[d] = txn[d]
    BY <1>6, Types DEF BeginSelectWinner, BeginBid
  <2>2. txn'[c].op # "receipt"
    BY <1>6, Types DEF BeginSelectWinner, BeginBid
  <2> QED BY <1>2, <2>1, <2>2
<1> QED BY <1>1, <1>3, <1>4, <1>5, <1>6 DEF Next, Bidding, Settling

(* Every receipt is recorded, unless one was recorded while another was    *)
(* under way, and never more than was paid in or was payable               *)
(* (recordSettlementReceipt).                                              *)
THEOREM ReceiptsAreCounted == Spec => []ReceiptsAddUp
<1>1. Init => MoneyInv /\ Counted
  BY DEF Init, Idle, MoneyInv, Receipts, Bounded, Counted, Payable
<1>2. TypeOK /\ TypeOK' /\ BidInv /\ MoneyInv /\ Counted /\ [Next]_vars => MoneyInv' /\ Counted'
  BY StepKeepsMoney, StepKeepsCount
<1>3. TypeOK /\ MoneyInv /\ Counted => ReceiptsAddUp
  BY DEF TypeOK, MoneyInv, Bounded, Counted, ReceiptsAddUp
<1> QED BY <1>1, <1>2, <1>3, AlwaysBids, TypeCorrect, PTL DEF Spec

------------------------------------------------------------------------------
(* The refinement: the lot is an ascending auction                         *)

Phase ==
  CASE lot.status = "LISTED" -> "waiting"
    [] lot.status = "BIDDING_OPEN" -> "open"
    [] lot.status = "BIDDING_CLOSED" -> "closed"
    [] OTHER -> "awarded"

StandingBidders == {bid[k].bidder : k \in Standing}

LEMMA Phases ==
  ASSUME BidInv
  PROVE  /\ lot.winner = Nobody => Phase \in {"waiting", "open", "closed"}
         /\ lot.winner # Nobody => Phase = "awarded"
         /\ Phase = "waiting" <=> lot.status = "LISTED"
         /\ Phase = "open" <=> lot.status = "BIDDING_OPEN"
         /\ Phase = "closed" <=> lot.status = "BIDDING_CLOSED"
  BY DEF BidInv, Unwon, Won, Phase

(* The bid that stands is the highest one. *)
LEMMA OneStands ==
  ASSUME TypeOK, BidInv
  PROVE  /\ lot.count = 0 => Standing = {}
         /\ \A k \in Keys : k \in Standing <=> k \in Placed /\ bid[k].amount = lot.high
         /\ lot.count > 0 => \E k \in Placed : Standing = {k} /\ bid[k].amount = lot.high
<1>1. \A k \in Keys : k \in Standing <=> k \in Placed /\ bid[k].amount = lot.high
  <2> SUFFICES ASSUME NEW k \in Keys
               PROVE  k \in Standing <=> k \in Placed /\ bid[k].amount = lot.high
    OBVIOUS
  <2>1. k \in Standing => k \in Placed
    BY DEF Standing, Placed, Absent
  <2>2. CASE lot.winner = Nobody
    BY <2>1, <2>2 DEF BidInv, Unwon, Standing
  <2>3. CASE lot.winner # Nobody
    <3>1. k \in Placed /\ bid[k].amount = lot.high => k = lot.winner
      BY <2>3, AmountsDiffer DEF BidInv, Won
    <3> QED BY <2>1, <2>3, <3>1 DEF BidInv, Won, Standing
  <2> QED BY <2>2, <2>3
<1>2. lot.count = 0 => Placed = {}
  BY DEF BidInv, Ladder
<1>3. lot.count > 0 => \E k \in Placed : Standing = {k} /\ bid[k].amount = lot.high
  <2> SUFFICES ASSUME lot.count > 0
               PROVE  \E k \in Placed : Standing = {k} /\ bid[k].amount = lot.high
    OBVIOUS
  <2>1. PICK k \in Placed : bid[k].amount = lot.high
    BY DEF BidInv, Highest
  <2>2. \A j \in Standing : j = k
    BY <1>1, <2>1, AmountsDiffer DEF BidInv, Standing
  <2>3. k \in Standing
    BY <1>1, <2>1 DEF Placed
  <2> QED BY <2>1, <2>2, <2>3
<1>4. Standing \subseteq Keys
  BY DEF Standing
<1> QED BY <1>1, <1>2, <1>3, <1>4 DEF Standing, Placed

LEMMA StandsHighest ==
  TypeOK /\ BidInv => \A k \in Keys : k \in Standing <=> k \in Placed /\ bid[k].amount = lot.high
  BY OneStands

(* ... before a step and after it. *)
LEMMA StandsHighestNext ==
  (TypeOK /\ BidInv)' => (\A k \in Keys : k \in Standing <=> k \in Placed /\ bid[k].amount = lot.high)'
  BY StandsHighest, PTL

LEMMA StepIsAuctionStep ==
  ASSUME TypeOK, TypeOK', BidInv, BidInv', [Next]_vars
  PROVE  [English!AuctionNext]_<<Phase, StandingBidders, lot.high>>
<1>1. ASSUME NEW c \in Clients, CommitBid(c)
      PROVE  English!AuctionNext
  <2>1. PICK q \in Keys, b \in Bidders, amount \in Amounts :
           /\ Biddable(b) /\ ClearsTheBar(amount) /\ bid[q].status = Absent
           /\ bid' \in [Keys -> BidRow]
           /\ bid'[q].bidder = b /\ bid'[q].amount = amount
           /\ bid'[q].seq = lot.count + 1 /\ bid'[q].status = "ACCEPTED"
           /\ \A k \in Keys : k # q =>
                /\ bid'[k].bidder = bid[k].bidder /\ bid'[k].amount = bid[k].amount
                /\ bid'[k].seq = bid[k].seq
                /\ bid'[k].status = IF bid[k].status = "ACCEPTED" THEN "OUTBID" ELSE bid[k].status
           /\ lot' \in LotRow /\ lot'.status = lot.status /\ lot'.winner = lot.winner
           /\ lot'.count = lot.count + 1 /\ lot'.high = amount
           /\ txn' = [txn EXCEPT ![c] = Idle]
           /\ UNCHANGED <<auction, windowPast, approved, registered, vehicle, settlement, paid, raced>>
    BY <1>1, CommitBidRows
  <2>2. lot.status = "BIDDING_OPEN" /\ lot.winner = Nobody
    BY <2>1 DEF Biddable, BidInv, Won
  <2>3. Phase = "open" /\ Phase' = "open"
    BY <2>1, <2>2 DEF Phase
  <2>4. Standing' = {q}
    <3>1. \A k \in Keys : bid[k].status # "WON"
      BY <2>2 DEF BidInv, Unwon, Placed, Absent
    <3> QED BY <2>1, <3>1 DEF Standing
  <2>5. StandingBidders' = {b}
    BY <2>1, <2>4 DEF StandingBidders
  <2>6. IF StandingBidders = {} THEN amount >= Reserve ELSE amount >= lot.high + Increment
    <3>1. StandingBidders # {} => lot.count > 0
      BY OneStands, Types DEF StandingBidders
    <3> QED BY <2>1, <3>1 DEF ClearsTheBar
  <2>7. English!Raise(b, amount)
    BY <2>1, <2>3, <2>5, <2>6 DEF English!Raise, Phase, StandingBidders
  <2> QED BY <2>7 DEF English!AuctionNext
<1>2. ASSUME NEW c \in Clients, CommitSelectWinner(c)
      PROVE  English!AuctionNext \/ UNCHANGED <<Phase, StandingBidders, lot.high>>
  <2>1. PICK w \in Keys : w = txn[c].key
    BY <1>2, Kinds DEF CommitSelectWinner
  <2>2. lot.status \in {"BIDDING_CLOSED", "WINNER_SELECTED"} /\ w \in Placed
        /\ (lot.winner # Nobody => bid' = bid /\ lot'.winner = lot.winner)
    BY <1>2, <2>1, SelectKeepsBids
  <2>3. /\ lot'.high = lot.high /\ lot'.status = "WINNER_SELECTED"
        /\ \A k \in Keys : /\ bid'[k].bidder = bid[k].bidder /\ bid'[k].amount = bid[k].amount
                           /\ bid'[k].status = IF k = w THEN "WON"
                                               ELSE IF bid[k].status \in {"ACCEPTED", "OUTBID"} THEN "LOST"
                                               ELSE bid[k].status
    BY <1>2, <2>1, SelectRows
  <2>4. Placed' = Placed
    BY <2>2, <2>3 DEF Placed, Absent
  <2>5. Standing' = Standing
    <3>1. \A k \in Keys : k \in Standing' <=> k \in Standing
      BY <2>3, <2>4, StandsHighest, StandsHighestNext
    <3> QED BY <3>1 DEF Standing
  <2>6. StandingBidders' = StandingBidders
    BY <2>3, <2>5 DEF StandingBidders, Standing
  <2>7. Phase' = "awarded"
    BY <2>3 DEF Phase
  <2>8. CASE lot.status = "WINNER_SELECTED"
    BY <2>3, <2>6, <2>7, <2>8 DEF Phase
  <2>9. CASE lot.status = "BIDDING_CLOSED"
    <3>1. Phase = "closed"
      BY <2>9 DEF Phase
    <3>2. w \in Standing
      BY <1>2, <2>1, OneStands DEF BidInv, Chosen, CommitSelectWinner
    <3>3. StandingBidders # {}
      BY <3>2 DEF StandingBidders
    <3>4. English!Award
      BY <2>3, <2>6, <2>7, <3>1, <3>3 DEF English!Award, Phase, StandingBidders
    <3> QED BY <3>4 DEF English!AuctionNext
  <2> QED BY <2>2, <2>8, <2>9
<1>3. ASSUME UNCHANGED <<lot, bid>>
      PROVE  UNCHANGED <<Phase, StandingBidders, lot.high>>
  BY <1>3 DEF Phase, StandingBidders, Standing
<1>4. ASSUME UNCHANGED bid, lot'.high = lot.high,
             lot.winner # Nobody, lot'.winner = lot.winner
      PROVE  UNCHANGED <<Phase, StandingBidders, lot.high>>
  <2>1. Phase = "awarded" /\ Phase' = "awarded"
    BY <1>4 DEF BidInv, Won, Phase
  <2> QED BY <1>4, <2>1 DEF StandingBidders, Standing
<1>5. ASSUME NEW c \in Clients, CommitReceipt(c)
      PROVE  UNCHANGED <<Phase, StandingBidders, lot.high>>
  <2>1. UNCHANGED bid /\ lot'.high = lot.high /\ lot'.winner = lot.winner
    BY <1>5, Types DEF CommitReceipt, LotRow
  <2> QED BY <1>4, <1>5, <2>1, ReceiptKeepsBids
<1>6. ASSUME CreateSettlement
      PROVE  UNCHANGED <<Phase, StandingBidders, lot.high>>
  <2>1. UNCHANGED bid /\ lot'.high = lot.high /\ lot'.winner = lot.winner /\ lot.winner # Nobody
    BY <1>6, Types DEF CreateSettlement, LotRow
  <2> QED BY <1>4, <2>1
<1>7. ASSUME OpenAuction
      PROVE  English!AuctionNext
  <2>1. UNCHANGED bid /\ lot'.high = lot.high /\ lot.status = "LISTED" /\ lot'.status = "BIDDING_OPEN"
    BY <1>7, Types DEF OpenAuction, LotRow
  <2>2. English!Open
    BY <2>1 DEF English!Open, Standing
  <2> QED BY <2>2 DEF English!AuctionNext
<1>8. ASSUME CloseAuction
      PROVE  English!AuctionNext
  <2>1. UNCHANGED bid /\ lot'.high = lot.high /\ lot.status = "BIDDING_OPEN" /\ lot'.status = "BIDDING_CLOSED"
    BY <1>8, Types DEF CloseAuction, LotRow
  <2>2. English!Close
    BY <2>1 DEF English!Close, Standing
  <2> QED BY <2>2 DEF English!AuctionNext
<1>9. \/ UNCHANGED <<lot, bid>> \/ CreateSettlement \/ OpenAuction \/ CloseAuction
      \/ \E c \in Clients : CommitBid(c) \/ CommitSelectWinner(c) \/ CommitReceipt(c)
  BY DEF Next, Bidding, Settling, vars, ApproveBidder, RegisterBidder, WindowPasses, PulledBack,
     BeginBid, BeginSelectWinner, BeginReceipt, Rollback
<1> QED BY <1>1, <1>2, <1>3, <1>5, <1>6, <1>7, <1>8, <1>9

(* Refinement: whatever races, the lot is an ascending auction of its      *)
(* registered bidders, module EnglishAuction.                              *)
THEOREM LotIsEnglishAuction == Spec => IsEnglishAuction
<1>1. Init => English!AuctionInit
  <2> SUFFICES ASSUME Init PROVE English!AuctionInit
    OBVIOUS
  <2>1. Standing = {} /\ lot.status = "LISTED" /\ lot.high = 0
    BY DEF Init, Standing, NoBid, Absent
  <2> QED BY <2>1 DEF English!AuctionInit
<1>2. TypeOK /\ TypeOK' /\ BidInv /\ BidInv' /\ [Next]_vars => [English!AuctionNext]_(English!auctionVars)
  BY StepIsAuctionStep DEF English!auctionVars, Phase, StandingBidders
<1> QED BY <1>1, <1>2, AlwaysBids, PTL DEF Spec, IsEnglishAuction, English!AuctionSpec
===============================================================================
