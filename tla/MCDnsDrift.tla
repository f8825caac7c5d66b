---------------------------- MODULE MCDnsDrift ----------------------------
(***************************************************************************)
(* Small instances of DnsDrift.                                            *)
(***************************************************************************)
EXTENDS DnsDrift, TLC

(* Domains and record types are interchangeable, and so are the record     *)
(* sets other than the empty one.                                          *)
Symmetry ==
  Permutations(Domains) \cup Permutations(RecordTypes) \cup Permutations(RRsets \ {Empty})
===========================================================================
