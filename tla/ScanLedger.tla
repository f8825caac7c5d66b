----------------------------- MODULE ScanLedger -----------------------------
(***************************************************************************)
(* What the scan queue promises to the callers of the API, with no worker, *)
(* session or transaction in sight: a scan is submitted once, is settled   *)
(* once, and nothing about it is visible in between.  ScanQueue implements *)
(* this ledger.                                                            *)
(***************************************************************************)
EXTENDS Naturals

CONSTANT Scans          \* the identifiers that scan rows may take

VARIABLES job,          \* what an API client sees of each scan
          receipts      \* how often the outcome of each scan was published

ledgerVars == <<job, receipts>>

LedgerInit ==
  /\ job = [s \in Scans |-> "absent"]
  /\ receipts = [s \in Scans |-> 0]

(* One transaction makes a set of new scans visible, all of them queued.   *)
Submit(S) ==
  /\ S # {}
  /\ \A s \in S : job[s] = "absent"
  /\ job' = [s \in Scans |-> IF s \in S THEN "queued" ELSE job[s]]
  /\ UNCHANGED receipts

(* One transaction publishes the outcomes of a set of queued scans.        *)
Settle(S) ==
  /\ S # {}
  /\ \A s \in S : job[s] = "queued"
  /\ job' = [s \in Scans |-> IF s \in S THEN "settled" ELSE job[s]]
  /\ receipts' = [s \in Scans |-> IF s \in S THEN receipts[s] + 1 ELSE receipts[s]]

LedgerNext == \E S \in SUBSET Scans : Submit(S) \/ Settle(S)

LedgerSpec == LedgerInit /\ [][LedgerNext]_ledgerVars
=============================================================================
