---------------------------- MODULE EnglishAuction ----------------------------
(***************************************************************************)
(* What the bidding on one lot promises, whatever the number of bids in    *)
(* flight, retries and races with the close: an ascending auction in which *)
(* the standing offer only ever rises, nothing counts after the hammer,    *)
(* and the lot goes to whoever stood highest when it fell.                 *)
(***************************************************************************)
EXTENDS Naturals

CONSTANTS
  Bidders,    \* those who may take part
  Offers,     \* the amounts they may offer
  Reserve,    \* the least first offer
  Increment   \* the least raise

VARIABLES
  phase,      \* "waiting", "open", "closed" or "awarded"
  standing,   \* the bidder who stands highest: a set of at most one
  high        \* the highest offer so far, 0 before the first

auctionVars == <<phase, standing, high>>

AuctionInit == phase = "waiting" /\ standing = {} /\ high = 0

Open ==
  /\ phase = "waiting"
  /\ phase' = "open"
  /\ UNCHANGED <<standing, high>>

Raise(b, offer) ==
  /\ phase = "open"
  /\ IF standing = {} THEN offer >= Reserve ELSE offer >= high + Increment
  /\ standing' = {b}
  /\ high' = offer
  /\ UNCHANGED phase

Close ==
  /\ phase = "open"
  /\ phase' = "closed"
  /\ UNCHANGED <<standing, high>>

Award ==
  /\ phase = "closed"
  /\ standing # {}
  /\ phase' = "awarded"
  /\ UNCHANGED <<standing, high>>

AuctionNext ==
  \/ Open \/ Close \/ Award
  \/ \E b \in Bidders, offer \in Offers : Raise(b, offer)

AuctionSpec == AuctionInit /\ [][AuctionNext]_auctionVars
===============================================================================
