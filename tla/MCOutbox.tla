------------------------------- MODULE MCOutbox -------------------------------
(* Small instances of Outbox; the constants are given in the .cfg files. *)
EXTENDS Outbox
===============================================================================
