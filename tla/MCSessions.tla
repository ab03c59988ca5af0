------------------------------ MODULE MCSessions ------------------------------
(* Small instances of Sessions; the constants are given in the .cfg files. *)
EXTENDS Sessions, TLC

(* Token rows, calls and tabs are interchangeable; the properties are      *)
(* invariants.                                                             *)
Symm == Permutations(Tokens) \cup Permutations(Calls) \cup Permutations(Users)
===============================================================================
