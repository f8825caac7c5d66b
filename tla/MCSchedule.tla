---------------------------- MODULE MCSchedule ----------------------------
(***************************************************************************)
(* Small instances of Schedule.                                            *)
(***************************************************************************)
EXTENDS Schedule, TLC

(* Domains are interchangeable.                                            *)
Symmetry == Permutations(Domains)
=============================================================================
