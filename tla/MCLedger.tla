------------------------------- MODULE MCLedger -------------------------------
(* Ledger on small instances.  Releases, payments, callbacks and clients are *)
(* interchangeable.                                                          *)
EXTENDS Ledger, TLC

Symmetry ==
  Permutations(Releases) \cup Permutations(Payments) \cup Permutations(Events)
    \cup Permutations(Clients)
===============================================================================
