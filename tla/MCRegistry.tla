------------------------------ MODULE MCRegistry ------------------------------
(* Small instances of Registry; the constants are given in the .cfg files. *)
EXTENDS Registry
===============================================================================
