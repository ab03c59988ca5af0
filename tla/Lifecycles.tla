------------------------------ MODULE Lifecycles ------------------------------
(***************************************************************************)
(* The lifecycle tables every service consults before it writes a status   *)
(* column (packages/contracts/src/state-machines.ts), each as a relation   *)
(* on the status before and the status after.  A service calls             *)
(* StateMachine.assert(from, to), which throws unless the pair is in the   *)
(* table; a pair <<s, s>> is in none of them.                              *)
(***************************************************************************)

VehicleStatus ==
  {"CAPTURED", "IDENTIFIED", "VAHAN_PENDING", "VAHAN_VERIFIED", "VAHAN_FAILED",
   "FINANCIER_MATCHED", "YARD_ADMITTED", "PARKED", "UNDER_HOLD",
   "RELEASE_REQUESTED", "RELEASE_APPROVED", "AUCTION_ELIGIBLE",
   "AUCTION_LISTED", "BIDDING_OPEN", "BIDDING_CLOSED", "WINNER_SELECTED",
   "SETTLEMENT_PENDING", "SETTLED", "SOLD", "EXITED"}

SessionStatus == {"OPEN", "ON_HOLD", "PENDING_EXIT", "CLOSED", "CANCELLED"}

ReleaseStatus ==
  {"DRAFT", "SUBMITTED", "ELIGIBILITY_FAILED", "AWAITING_PAYMENT",
   "AWAITING_APPROVAL", "APPROVED", "REJECTED", "COMPLETED", "CANCELLED"}

AuctionStatus ==
  {"DRAFT", "SCHEDULED", "PUBLISHED", "OPEN", "CLOSED", "WINNER_SELECTED",
   "SETTLEMENT_PENDING", "SETTLED", "COMPLETED", "CANCELLED"}

LotStatus ==
  {"DRAFT", "LISTED", "BIDDING_OPEN", "BIDDING_CLOSED", "WINNER_SELECTED",
   "SETTLEMENT_PENDING", "SETTLED", "UNSOLD", "WITHDRAWN"}

BidStatus == {"ACCEPTED", "OUTBID", "WINNING", "WON", "LOST", "RETRACTED"}

SettlementStatus ==
  {"PENDING", "PARTIALLY_RECEIVED", "RECEIVED", "DEFAULTED", "CANCELLED"}

InvoiceStatus ==
  {"DRAFT", "GENERATED", "VALIDATED", "ISSUED", "SENT", "PARTIALLY_PAID",
   "PAID", "CANCELLED", "VOID"}

PaymentStatus ==
  {"INITIATED", "PENDING", "SUCCESS", "FAILED", "CANCELLED", "REFUNDED"}

(* VEHICLE_TRANSITIONS *)
VehicleMay(from, to) ==
  \/ from = "CAPTURED" /\ to \in {"IDENTIFIED", "EXITED"}
  \/ from = "IDENTIFIED" /\ to \in {"VAHAN_PENDING", "VAHAN_VERIFIED",
                                    "FINANCIER_MATCHED", "YARD_ADMITTED", "EXITED"}
  \/ from = "VAHAN_PENDING" /\ to \in {"VAHAN_VERIFIED", "VAHAN_FAILED",
                                       "YARD_ADMITTED", "EXITED"}
  \/ from = "VAHAN_VERIFIED" /\ to \in {"FINANCIER_MATCHED", "YARD_ADMITTED", "EXITED"}
  \/ from = "VAHAN_FAILED" /\ to \in {"VAHAN_PENDING", "VAHAN_VERIFIED",
                                      "FINANCIER_MATCHED", "YARD_ADMITTED", "EXITED"}
  \/ from = "FINANCIER_MATCHED" /\ to \in {"YARD_ADMITTED", "VAHAN_PENDING", "EXITED"}
  \/ from = "YARD_ADMITTED" /\ to \in {"PARKED", "EXITED"}
  \/ from = "PARKED" /\ to \in {"UNDER_HOLD", "RELEASE_REQUESTED",
                                "AUCTION_ELIGIBLE", "EXITED"}
  \/ from = "UNDER_HOLD" /\ to \in {"PARKED", "AUCTION_ELIGIBLE"}
  \/ from = "RELEASE_REQUESTED" /\ to \in {"RELEASE_APPROVED", "PARKED"}
  \/ from = "RELEASE_APPROVED" /\ to \in {"EXITED", "PARKED"}
  \/ from = "AUCTION_ELIGIBLE" /\ to \in {"AUCTION_LISTED", "PARKED"}
  \/ from = "AUCTION_LISTED" /\ to \in {"BIDDING_OPEN", "PARKED"}
  \/ from = "BIDDING_OPEN" /\ to = "BIDDING_CLOSED"
  \/ from = "BIDDING_CLOSED" /\ to \in {"WINNER_SELECTED", "PARKED"}
  \/ from = "WINNER_SELECTED" /\ to = "SETTLEMENT_PENDING"
  \/ from = "SETTLEMENT_PENDING" /\ to \in {"SETTLED", "PARKED"}
  \/ from = "SETTLED" /\ to = "SOLD"
  \/ from = "SOLD" /\ to = "EXITED"
  \/ from = "EXITED" /\ to = "CAPTURED"

(* PARKING_SESSION_TRANSITIONS *)
SessionMay(from, to) ==
  \/ from = "OPEN" /\ to \in {"ON_HOLD", "PENDING_EXIT", "CLOSED", "CANCELLED"}
  \/ from = "ON_HOLD" /\ to \in {"OPEN", "PENDING_EXIT"}
  \/ from = "PENDING_EXIT" /\ to \in {"CLOSED", "OPEN"}

(* RELEASE_TRANSITIONS *)
ReleaseMay(from, to) ==
  \/ from = "DRAFT" /\ to \in {"SUBMITTED", "CANCELLED"}
  \/ from = "SUBMITTED" /\ to \in {"ELIGIBILITY_FAILED", "AWAITING_PAYMENT",
                                   "AWAITING_APPROVAL", "CANCELLED"}
  \/ from = "ELIGIBILITY_FAILED" /\ to \in {"SUBMITTED", "CANCELLED"}
  \/ from = "AWAITING_PAYMENT" /\ to \in {"AWAITING_APPROVAL", "CANCELLED"}
  \/ from = "AWAITING_APPROVAL" /\ to \in {"APPROVED", "REJECTED", "CANCELLED"}
  \/ from = "APPROVED" /\ to \in {"COMPLETED", "CANCELLED"}

(* AUCTION_TRANSITIONS *)
AuctionMay(from, to) ==
  \/ from = "DRAFT" /\ to \in {"SCHEDULED", "CANCELLED"}
  \/ from = "SCHEDULED" /\ to \in {"PUBLISHED", "DRAFT", "CANCELLED"}
  \/ from = "PUBLISHED" /\ to \in {"OPEN", "CANCELLED"}
  \/ from = "OPEN" /\ to = "CLOSED"
  \/ from = "CLOSED" /\ to \in {"WINNER_SELECTED", "CANCELLED"}
  \/ from = "WINNER_SELECTED" /\ to = "SETTLEMENT_PENDING"
  \/ from = "SETTLEMENT_PENDING" /\ to = "SETTLED"
  \/ from = "SETTLED" /\ to = "COMPLETED"

(* AUCTION_LOT_TRANSITIONS *)
LotMay(from, to) ==
  \/ from = "DRAFT" /\ to \in {"LISTED", "WITHDRAWN"}
  \/ from = "LISTED" /\ to \in {"BIDDING_OPEN", "WITHDRAWN"}
  \/ from = "BIDDING_OPEN" /\ to = "BIDDING_CLOSED"
  \/ from = "BIDDING_CLOSED" /\ to \in {"WINNER_SELECTED", "UNSOLD"}
  \/ from = "WINNER_SELECTED" /\ to = "SETTLEMENT_PENDING"
  \/ from = "SETTLEMENT_PENDING" /\ to \in {"SETTLED", "UNSOLD"}
  \/ from = "UNSOLD" /\ to = "LISTED"

(* INVOICE_TRANSITIONS *)
InvoiceMay(from, to) ==
  \/ from = "DRAFT" /\ to \in {"GENERATED", "CANCELLED"}
  \/ from = "GENERATED" /\ to \in {"VALIDATED", "CANCELLED"}
  \/ from = "VALIDATED" /\ to \in {"ISSUED", "CANCELLED"}
  \/ from = "ISSUED" /\ to \in {"SENT", "PARTIALLY_PAID", "PAID", "VOID"}
  \/ from = "SENT" /\ to \in {"PARTIALLY_PAID", "PAID", "VOID"}
  \/ from = "PARTIALLY_PAID" /\ to \in {"PAID", "VOID"}
  \/ from = "PAID" /\ to = "VOID"

(* PAYABLE_INVOICE_STATUSES *)
PayableInvoice == {"ISSUED", "SENT", "PARTIALLY_PAID"}

(* PAYMENT_TRANSITIONS *)
PaymentMay(from, to) ==
  \/ from = "INITIATED" /\ to \in {"PENDING", "SUCCESS", "FAILED", "CANCELLED"}
  \/ from = "PENDING" /\ to \in {"SUCCESS", "FAILED", "CANCELLED"}
  \/ from = "SUCCESS" /\ to = "REFUNDED"

(* IN_AUCTION_VEHICLE_STATUSES *)
InAuction ==
  {"AUCTION_LISTED", "BIDDING_OPEN", "BIDDING_CLOSED", "WINNER_SELECTED",
   "SETTLEMENT_PENDING", "SETTLED"}

(* ON_SITE_VEHICLE_STATUSES *)
OnSite ==
  {"YARD_ADMITTED", "PARKED", "UNDER_HOLD", "RELEASE_REQUESTED",
   "RELEASE_APPROVED", "AUCTION_ELIGIBLE", "SOLD"} \cup InAuction

(***************************************************************************)
(* The conditions of the partial unique indexes (migration 01): which rows *)
(* count as live.                                                          *)
(***************************************************************************)
ActiveSession == {"OPEN", "ON_HOLD", "PENDING_EXIT"}

InFlightRelease ==
  {"DRAFT", "SUBMITTED", "ELIGIBILITY_FAILED", "AWAITING_PAYMENT",
   "AWAITING_APPROVAL", "APPROVED"}

LiveLot ==
  {"DRAFT", "LISTED", "BIDDING_OPEN", "BIDDING_CLOSED", "WINNER_SELECTED",
   "SETTLEMENT_PENDING", "SETTLED"}
===============================================================================
