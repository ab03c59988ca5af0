--------------------------- MODULE MCAuctionBidding ---------------------------
(* Small instances of AuctionBidding; the constants are given in the .cfg  *)
(* file.  Liveness is checked too, so no symmetry is declared.             *)
EXTENDS AuctionBidding
===============================================================================
