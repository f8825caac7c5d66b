---------------------------- MODULE MCScanQueue ----------------------------
(***************************************************************************)
(* Small instances of ScanQueue.                                           *)
(***************************************************************************)
EXTENDS ScanQueue, TLC

(* Domains, scan identifiers and handler threads are interchangeable.      *)
Symmetry == Permutations(Domains) \cup Permutations(Scans) \cup Permutations(Requests)
=============================================================================
