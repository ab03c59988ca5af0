------------------------------- MODULE MCConsole -------------------------------
(* Console for two people, one of them of a financier, and one site to     *)
(* choose; the constants are given in the .cfg files.                      *)
EXTENDS Console
===============================================================================
