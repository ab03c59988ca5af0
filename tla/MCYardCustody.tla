---------------------------- MODULE MCYardCustody ----------------------------
(* Small instances of YardCustody; the constants are given in the .cfg     *)
(* file.  Liveness is checked too, so no symmetry is declared.             *)
EXTENDS YardCustody
===============================================================================
