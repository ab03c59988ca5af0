------------------------------- MODULE MCAccess -------------------------------
(* Small instances of Access; the constants are given in the .cfg files. *)
EXTENDS Access
===============================================================================
