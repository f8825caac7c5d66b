---------------------------- MODULE MCInventory ----------------------------
(***************************************************************************)
(* Small instances of Inventory.                                           *)
(***************************************************************************)
EXTENDS Inventory, TLC

(* Names other than the registered domain are interchangeable, and so are  *)
(* the workers.                                                            *)
Symmetry == Permutations(Names \ {Apex}) \cup Permutations(Workers)
=============================================================================
