----------------------------- MODULE MCTenancy -----------------------------
(***************************************************************************)
(* Small instances of Tenancy.                                             *)
(***************************************************************************)
EXTENDS Tenancy, TLC

(* Requests and users are interchangeable.                                 *)
Symmetry == Permutations(Requests) \cup Permutations(Uids)
=============================================================================
