------------------------------ MODULE DnsDrift ------------------------------
(***************************************************************************)
(* Drift detection: the DNS pass of a scan fingerprints the answers for    *)
(* every record type, compares each with the latest snapshot its session   *)
(* can see, reports a difference as a finding and adds a new snapshot.     *)
(* The session of a drain serves all its scans, does not flush before a    *)
(* query, and gives all its snapshots one created_at.  The domains belong  *)
(* to one organization.  The queue itself is in ScanQueue.                 *)
(***************************************************************************)
EXTENDS Naturals, FiniteSets

CONSTANTS
  Domains,             \* verified domains of the organization
  RecordTypes,         \* SUPPORTED_RECORD_TYPES
  RRsets,              \* normalized record sets that a resolver may answer
  Empty,               \* the empty one, which also stands for an error
  DnsScansPerDrain,    \* scans of one domain with a DNS pass in one drain
  MaxDrains,           \* bound: drains that begin
  MaxSnapshots,        \* bound: snapshots taken
  NoDomain             \* no DNS pass runs

ASSUME DriftAssumption ==
  /\ Empty \in RRsets
  /\ NoDomain \notin Domains
  /\ DnsScansPerDrain \in Nat /\ MaxDrains \in Nat /\ MaxSnapshots \in Nat

VARIABLES
  snapshots,     \* committed rows of dns_snapshots
  findings,      \* committed change findings, each with the snapshot it came with
  assets,        \* record types with a committed asset dns:<type>
  drain,         \* drains begun; the created_at of a drain's snapshots
  open,          \* a drain's session is open
  flushed,       \* its snapshots that are in the database
  pending,       \* its snapshots that are not flushed yet
  newFindings,   \* its findings
  newAssets,     \* its assets, flushed when created
  passes,        \* DNS passes it has begun, per domain
  cur,           \* the domain whose DNS pass runs
  collected,     \* the answers that pass collected
  left,          \* record types it still has to compare
  taken          \* snapshots taken so far, which orders them

session == <<open, flushed, pending, newFindings, newAssets, passes, cur, collected, left>>
tables == <<snapshots, findings, assets>>
vars == <<tables, drain, session, taken>>

Nothing == [t \in RecordTypes |-> Empty]

CloseSession ==
  /\ open' = FALSE
  /\ flushed' = {} /\ pending' = {} /\ newFindings' = {} /\ newAssets' = {}
  /\ passes' = [d \in Domains |-> 0]
  /\ cur' = NoDomain /\ collected' = Nothing /\ left' = {}

Init ==
  /\ snapshots = {} /\ findings = {} /\ assets = {}
  /\ drain = 0 /\ open = FALSE
  /\ flushed = {} /\ pending = {} /\ newFindings = {} /\ newAssets = {}
  /\ passes = [d \in Domains |-> 0]
  /\ cur = NoDomain /\ collected = Nothing /\ left = {}
  /\ taken = 0

(* The first statement of the drain's transaction fixes its now().         *)
BeginDrain ==
  /\ ~open /\ drain < MaxDrains
  /\ open' = TRUE /\ drain' = drain + 1
  /\ UNCHANGED <<tables, flushed, pending, newFindings, newAssets, passes, cur,
                 collected, left, taken>>

(* A scan of d begins its DNS pass: all the queries, then the comparisons. *)
(* The zone may hold anything by now, and a failed query answers Empty.    *)
BeginDnsPass(d) ==
  /\ open /\ left = {} /\ passes[d] < DnsScansPerDrain
  /\ taken + Cardinality(RecordTypes) <= MaxSnapshots
  /\ cur' = d /\ left' = RecordTypes
  /\ collected' \in [RecordTypes -> RRsets]
  /\ passes' = [passes EXCEPT ![d] = @ + 1]
  /\ UNCHANGED <<tables, drain, open, flushed, pending, newFindings, newAssets, taken>>

(* The snapshots of cur and t a query of the session returns: committed or *)
(* flushed.  ORDER BY created_at DESC LIMIT 1 takes any of the latest.     *)
Visible(t) == {x \in snapshots \cup flushed : x.domain = cur /\ x.type = t}
Latest(S) == {x \in S : \A y \in S : y.drain <= x.drain}

New(t) == [domain |-> cur, type |-> t, hash |-> collected[t], drain |-> drain, seq |-> taken]

(* The finding and, the first time for this record type, its asset, which  *)
(* get_or_create_asset flushes with everything pending.                    *)
ReportChange(t, prev) ==
  /\ newFindings' = newFindings \cup
       {[domain |-> cur, type |-> t, before |-> prev.hash, after |-> collected[t],
         seq |-> taken]}
  /\ IF t \in assets \cup newAssets
     THEN pending' = pending \cup {New(t)} /\ UNCHANGED <<flushed, newAssets>>
     ELSE /\ newAssets' = newAssets \cup {t}
          /\ flushed' = flushed \cup pending
          /\ pending' = {New(t)}

AddSnapshot(t) ==
  pending' = pending \cup {New(t)} /\ UNCHANGED <<flushed, newFindings, newAssets>>

\* Mutant of AdvancePass: the pass forgets its domain after the first record type.
AdvancePassOnce(t) ==
  /\ t \in left
  /\ left' = left \ {t} /\ taken' = taken + 1
  /\ cur' = NoDomain
  /\ collected' = IF left' = {} THEN Nothing ELSE collected
  /\ UNCHANGED <<tables, drain, open, passes>>

(* The loop of _run_dns_pass goes on to the next record type.              *)
AdvancePass(t) ==
  /\ t \in left
  /\ left' = left \ {t} /\ taken' = taken + 1
  /\ cur' = IF left' = {} THEN NoDomain ELSE cur
  /\ collected' = IF left' = {} THEN Nothing ELSE collected
  /\ UNCHANGED <<tables, drain, open, passes>>

\* Mutant of CompareRecords: the prior snapshot is the oldest.
CompareRecordsWithOldest(t) ==
  /\ AdvancePass(t)
  /\ IF Visible(t) = {} THEN AddSnapshot(t)
     ELSE \E prev \in {x \in Visible(t) : \A y \in Visible(t) : x.drain <= y.drain} :
            IF prev.hash # collected[t] THEN ReportChange(t, prev) ELSE AddSnapshot(t)

\* Mutant of CompareRecords: a second pass of the drain compares nothing.
CompareRecordsOnce(t) ==
  /\ AdvancePass(t)
  /\ IF Visible(t) = {} \/ Visible(t) \cap flushed # {} THEN AddSnapshot(t)
     ELSE \E prev \in Latest(Visible(t)) :
            IF prev.hash # collected[t] THEN ReportChange(t, prev) ELSE AddSnapshot(t)

(* One iteration of the loop of _run_dns_pass.                             *)
CompareRecords(t) ==
  /\ AdvancePass(t)
  /\ IF Visible(t) = {} THEN AddSnapshot(t)
     ELSE \E prev \in Latest(Visible(t)) :
            IF prev.hash # collected[t] THEN ReportChange(t, prev) ELSE AddSnapshot(t)

(* Another pass creates an asset and flushes the session.                  *)
FlushSession ==
  /\ open /\ left = {} /\ pending # {}
  /\ flushed' = flushed \cup pending /\ pending' = {}
  /\ UNCHANGED <<tables, drain, open, newFindings, newAssets, passes, cur, collected,
                 left, taken>>

\* Mutant of CommitDrain: the snapshots that were never flushed are lost.
CommitFlushedOnly ==
  /\ open /\ left = {}
  /\ snapshots' = snapshots \cup flushed
  /\ findings' = findings \cup newFindings
  /\ assets' = assets \cup newAssets
  /\ CloseSession
  /\ UNCHANGED <<drain, taken>>

(* The drain commits all its rows.                                         *)
CommitDrain ==
  /\ open /\ left = {}
  /\ snapshots' = snapshots \cup flushed \cup pending
  /\ findings' = findings \cup newFindings
  /\ assets' = assets \cup newAssets
  /\ CloseSession
  /\ UNCHANGED <<drain, taken>>

(* The drain fails, or the process dies: nothing of it remains.            *)
RollbackDrain ==
  /\ open
  /\ CloseSession
  /\ UNCHANGED <<tables, drain, taken>>

(* Bound: no drain begins any more.                                        *)
Stop == ~open /\ drain = MaxDrains /\ UNCHANGED vars

Next ==
  \/ BeginDrain
  \/ \E d \in Domains : BeginDnsPass(d)
  \/ \E t \in RecordTypes : CompareRecords(t)
  \/ FlushSession
  \/ CommitDrain
  \/ RollbackDrain
  \/ Stop

Spec == Init /\ [][Next]_vars

-----------------------------------------------------------------------------
(* Properties.                                                             *)

Snapshot == [domain : Domains, type : RecordTypes, hash : RRsets, drain : 1..MaxDrains,
             seq : Nat]
Finding == [domain : Domains, type : RecordTypes, before : RRsets, after : RRsets, seq : Nat]

(* The type of every variable.                                             *)
TypeOK ==
  /\ snapshots \subseteq Snapshot /\ flushed \subseteq Snapshot /\ pending \subseteq Snapshot
  /\ findings \subseteq Finding /\ newFindings \subseteq Finding
  /\ assets \subseteq RecordTypes /\ newAssets \subseteq RecordTypes
  /\ drain \in 0..MaxDrains /\ open \in BOOLEAN
  /\ passes \in [Domains -> 0..DnsScansPerDrain]
  /\ cur \in Domains \cup {NoDomain}
  /\ collected \in [RecordTypes -> RRsets] /\ left \subseteq RecordTypes
  /\ taken \in Nat

(* Refinement: the committed tables are the log of DriftLog.               *)
Log == INSTANCE DriftLog
SameSeries(x, y) == Log!SameSeries(x, y)

(* The committed snapshot of its series taken right before x.              *)
Follows(y, x) ==
  /\ SameSeries(x, y) /\ x.seq < y.seq
  /\ \A z \in snapshots : SameSeries(x, z) => z.seq <= x.seq \/ z.seq >= y.seq

(* What the description of a change finding says: the fingerprint changed  *)
(* versus the prior snapshot.                                              *)
ChangedVersusPrior ==
  \A f \in findings : \E x, y \in snapshots :
    /\ SameSeries(y, f) /\ y.seq = f.seq /\ y.hash = f.after
    /\ Follows(y, x) /\ x.hash = f.before

(* With any number of DNS passes in a drain: a finding never tells of      *)
(* snapshots that a rollback has undone.                                   *)
FindingsHaveSnapshots ==
  \A f \in findings : \E x, y \in snapshots :
    /\ SameSeries(x, f) /\ SameSeries(y, f) /\ x.seq < y.seq
    /\ y.seq = f.seq /\ x.hash = f.before /\ y.hash = f.after

(* With any number of DNS passes in a drain: what the first snapshot of a  *)
(* drain has as findings is exactly its difference from one of the         *)
(* snapshots of the last drain that committed any, whatever drains failed  *)
(* in between.  With one snapshot in that drain it is the prior snapshot.  *)
ChangesBetweenDrains ==
  \A x, y \in snapshots :
    Follows(y, x) /\ x.drain < y.drain =>
      \E z \in snapshots :
        /\ SameSeries(x, z) /\ z.drain = x.drain
        /\ {f \in findings : f.seq = y.seq} = Log!Difference(z, y)

(* The assets of DNS findings are shared by the domains of an organization *)
(* and exist for exactly the record types that ever changed.               *)
AssetPerChangedType == assets = {f.type : f \in findings}

(* Whatever flushes, repeated passes, failed drains and crashes happen, a  *)
(* reader of the tables sees whole drains only: snapshots come with their  *)
(* findings, each of them, also of a second pass in the drain, is about a  *)
(* change from a snapshot of the same drain or of the last one published.  *)
DriftLogSpec == Log!LogSpec
=============================================================================
