--------------------------- MODULE DnsDrift_proofs ---------------------------
(***************************************************************************)
(* Proofs about DnsDrift, for any domains, record types, record sets and   *)
(* number of drains and of DNS passes in a drain.  DriftInv is inductive,  *)
(* and so is ExactInv, which adds the order of the snapshots in a series.  *)
(***************************************************************************)
EXTENDS DnsDrift, TLAPS

(* What the database will hold if the drain that is open commits.          *)
All == snapshots \cup flushed \cup pending
Raised == findings \cup newFindings

(* The session of a drain: none is left behind, and a pass has a domain.   *)
DrainInv ==
  /\ open => drain \in 1..MaxDrains
  /\ ~open => flushed = {} /\ pending = {} /\ newFindings = {} /\ newAssets = {} /\ left = {}
  /\ left # {} => cur \in Domains

Backed(F, S) ==
  \A f \in F : \E x, y \in S :
    /\ SameSeries(x, f) /\ SameSeries(y, f) /\ x.seq < y.seq
    /\ y.seq = f.seq /\ x.hash = f.before /\ y.hash = f.after

Types(F) == {f.type : f \in F}

DriftInv ==
  /\ TypeOK /\ DrainInv
  /\ \A x \in All : x.seq < taken
  /\ \A f \in Raised : f.seq < taken
  /\ Backed(findings, snapshots) /\ Backed(newFindings, All)
  /\ assets = Types(findings) /\ assets \cup newAssets = Types(Raised)

-----------------------------------------------------------------------------
(* Steps.                                                                  *)

NewFinding(t, prev) ==
  [domain |-> cur, type |-> t, before |-> prev.hash, after |-> collected[t], seq |-> taken]

(* One iteration of _run_dns_pass adds a snapshot, and a finding iff the   *)
(* prior snapshot it finds has another fingerprint.                        *)
LEMMA CompareEffect ==
  ASSUME TypeOK, DrainInv, NEW t \in RecordTypes, CompareRecords(t)
  PROVE  /\ t \in left /\ open /\ cur \in Domains
         /\ New(t) \in Snapshot
         /\ flushed' \cup pending' = flushed \cup pending \cup {New(t)}
         /\ left' = left \ {t} /\ taken' = taken + 1
         /\ cur' \in {cur, NoDomain} /\ (left' # {} => cur' = cur)
         /\ collected' \in [RecordTypes -> RRsets]
         /\ UNCHANGED <<tables, drain, open, passes>>
         /\ \/ /\ \/ Visible(t) = {}
                  \/ \E prev \in Latest(Visible(t)) : prev.hash = collected[t]
               /\ newFindings' = newFindings /\ newAssets' = newAssets
            \/ \E prev \in Latest(Visible(t)) :
                 /\ prev.hash # collected[t]
                 /\ newFindings' = newFindings \cup {NewFinding(t, prev)}
                 /\ assets \cup newAssets' = assets \cup newAssets \cup {t}
                 /\ newAssets' \subseteq newAssets \cup {t}
<1> USE DriftAssumption
<1>1. t \in left /\ open /\ cur \in Domains
  BY DEF CompareRecords, AdvancePass, DrainInv
<1>2. New(t) \in Snapshot
  BY <1>1 DEF New, Snapshot, TypeOK, DrainInv
<1>3. /\ left' = left \ {t} /\ taken' = taken + 1
      /\ cur' \in {cur, NoDomain} /\ (left' # {} => cur' = cur)
      /\ collected' \in [RecordTypes -> RRsets]
      /\ UNCHANGED <<tables, drain, open, passes>>
  BY DEF CompareRecords, AdvancePass, Nothing, TypeOK
<1>4. CASE Visible(t) = {}
  BY <1>1, <1>2, <1>3, <1>4 DEF CompareRecords, AddSnapshot
<1>5. CASE Visible(t) # {}
  <2>1. PICK prev \in Latest(Visible(t)) :
          IF prev.hash # collected[t] THEN ReportChange(t, prev) ELSE AddSnapshot(t)
    BY <1>5 DEF CompareRecords
  <2>2. CASE prev.hash = collected[t]
    BY <1>1, <1>2, <1>3, <2>1, <2>2 DEF AddSnapshot
  <2>3. CASE prev.hash # collected[t]
    <3>1. ReportChange(t, prev)
      BY <2>1, <2>3
    <3>2. /\ flushed' \cup pending' = flushed \cup pending \cup {New(t)}
          /\ newFindings' = newFindings \cup {NewFinding(t, prev)}
          /\ assets \cup newAssets' = assets \cup newAssets \cup {t}
          /\ newAssets' \subseteq newAssets \cup {t}
      BY <3>1 DEF ReportChange, NewFinding
    <3> QED BY <1>1, <1>2, <1>3, <2>3, <3>2
  <2> QED BY <2>2, <2>3
<1> QED BY <1>4, <1>5

(* What a query returns is in its series, and committed or in the session. *)
LEMMA VisibleFinds ==
  ASSUME NEW t, NEW x \in Visible(t)
  PROVE  x \in snapshots \cup flushed /\ x \in All /\ x.domain = cur /\ x.type = t
  BY DEF Visible, All

(* Every step other than a comparison, by what it does to the tables and   *)
(* to the session.                                                         *)
QuietDrain ==
  /\ UNCHANGED <<tables, newFindings, newAssets, taken>>
  /\ flushed' \cup pending' = flushed \cup pending

Committed ==
  /\ snapshots' = All /\ findings' = Raised /\ assets' = assets \cup newAssets
  /\ CloseSession /\ UNCHANGED <<drain, taken>>

RolledBack == CloseSession /\ UNCHANGED <<tables, drain, taken>>

(* A closed session is well-typed and empty.                               *)
LEMMA CloseTypes ==
  ASSUME CloseSession
  PROVE  /\ open' = FALSE /\ flushed' = {} /\ pending' = {}
         /\ newFindings' = {} /\ newAssets' = {}
         /\ passes' \in [Domains -> 0..DnsScansPerDrain]
         /\ cur' = NoDomain /\ collected' \in [RecordTypes -> RRsets] /\ left' = {}
  BY DriftAssumption DEF CloseSession, Nothing

(* Types and the shape of the session are kept by every step.              *)
LEMMA TypeStep ==
  ASSUME DriftInv, [Next]_vars
  PROVE  TypeOK' /\ DrainInv'
<1> USE DriftAssumption DEF DriftInv
<1>1. CASE BeginDrain
  BY <1>1 DEF BeginDrain, TypeOK, DrainInv, tables, Snapshot
<1>2. ASSUME NEW d \in Domains, BeginDnsPass(d) PROVE TypeOK' /\ DrainInv'
  <2>1. passes' \in [Domains -> 0..DnsScansPerDrain]
    BY <1>2 DEF BeginDnsPass, TypeOK
  <2> QED BY <1>2, <2>1 DEF BeginDnsPass, TypeOK, DrainInv, tables
<1>3. ASSUME NEW t \in RecordTypes, CompareRecords(t) PROVE TypeOK' /\ DrainInv'
  <2>1. /\ t \in left /\ open /\ cur \in Domains
        /\ New(t) \in Snapshot
        /\ flushed' \cup pending' = flushed \cup pending \cup {New(t)}
        /\ left' = left \ {t} /\ taken' = taken + 1
        /\ cur' \in {cur, NoDomain} /\ (left' # {} => cur' = cur)
        /\ collected' \in [RecordTypes -> RRsets]
        /\ UNCHANGED <<tables, drain, open, passes>>
    BY <1>3, CompareEffect
  <2>2. newFindings' \subseteq Finding /\ newAssets' \subseteq RecordTypes
    <3>1. CASE newFindings' = newFindings /\ newAssets' = newAssets
      BY <3>1 DEF TypeOK
    <3>2. ASSUME NEW prev \in Latest(Visible(t)),
                 newFindings' = newFindings \cup {NewFinding(t, prev)},
                 newAssets' \subseteq newAssets \cup {t}
          PROVE  newFindings' \subseteq Finding /\ newAssets' \subseteq RecordTypes
      <4>1. prev \in Snapshot
        BY <3>2, VisibleFinds DEF Latest, TypeOK
      <4>2. NewFinding(t, prev) \in Finding
        BY <2>1, <4>1 DEF NewFinding, Finding, Snapshot, TypeOK
      <4> QED BY <3>2, <4>2 DEF TypeOK
    <3> QED BY <1>3, <3>1, <3>2, CompareEffect
  <2>3. flushed' \subseteq Snapshot /\ pending' \subseteq Snapshot
    BY <2>1 DEF TypeOK
  <2>4. TypeOK'
    BY <2>1, <2>2, <2>3 DEF TypeOK, tables
  <2> QED BY <2>1, <2>4 DEF DrainInv
<1>4. CASE FlushSession
  BY <1>4 DEF FlushSession, TypeOK, DrainInv, tables
<1>5. CASE CommitDrain \/ RollbackDrain
  <2>1. CloseSession /\ UNCHANGED <<drain, taken>>
    BY <1>5 DEF CommitDrain, RollbackDrain
  <2>2. snapshots' \subseteq Snapshot /\ findings' \subseteq Finding /\ assets' \subseteq RecordTypes
    BY <1>5 DEF CommitDrain, RollbackDrain, TypeOK, tables
  <2> QED BY <2>1, <2>2, CloseTypes DEF TypeOK, DrainInv
<1>6. CASE UNCHANGED vars
  BY <1>6 DEF vars, tables, session, TypeOK, DrainInv
<1> QED BY <1>1, <1>2, <1>3, <1>4, <1>5, <1>6 DEF Next, Stop

(* The steps of a drain, sorted by what they do.                           *)
LEMMA Steps ==
  ASSUME DriftInv, [Next]_vars
  PROVE  QuietDrain \/ (\E t \in RecordTypes : CompareRecords(t)) \/ Committed \/ RolledBack
<1>1. CASE CommitDrain
  BY <1>1 DEF CommitDrain, Committed, All, Raised
<1> QED
  BY <1>1 DEF Next, Stop, vars, session, tables, BeginDrain, BeginDnsPass, FlushSession,
              RollbackDrain, QuietDrain, RolledBack

-----------------------------------------------------------------------------
(* Any number of DNS passes in a drain.                                    *)

(* Snapshots that are added take nothing away from what backs a finding.   *)
LEMMA BackedGrows ==
  ASSUME NEW F, NEW S, NEW T, S \subseteq T, Backed(F, S)
  PROVE  Backed(F, T)
  BY DEF Backed

(* Two sets of findings that are backed are backed together.               *)
LEMMA BackedUnion ==
  ASSUME NEW F, NEW G, NEW S, Backed(F, S), Backed(G, S)
  PROVE  Backed(F \cup G, S)
  BY DEF Backed

(* One more finding adds its record type.                                  *)
LEMMA TypesGrow == \A F, f : Types(F \cup {f}) = Types(F) \cup {f.type}
  BY DEF Types

(* A comparison keeps the invariant.                                       *)
LEMMA CompareKeepsDrift ==
  ASSUME DriftInv, NEW t \in RecordTypes, CompareRecords(t)
  PROVE  DriftInv'
<1> USE DEF DriftInv
<1>1. TypeOK' /\ DrainInv'
  BY TypeStep DEF Next
<1>2. /\ New(t) \in Snapshot
      /\ flushed' \cup pending' = flushed \cup pending \cup {New(t)}
      /\ taken' = taken + 1 /\ UNCHANGED tables
  BY CompareEffect
<1>3. All' = All \cup {New(t)} /\ taken \in Nat
  BY <1>2 DEF All, tables, TypeOK
<1>4. \A x \in All : x.seq \in Nat /\ x.seq < taken
  BY DEF All, TypeOK, Snapshot
<1>5. \A x \in All' : x.seq < taken'
  BY <1>2, <1>3, <1>4 DEF New
<1>6. \A f \in Raised : f.seq \in Nat /\ f.seq < taken
  BY DEF Raised, TypeOK, Finding
<1>7. Backed(findings, snapshots)'
  BY <1>2 DEF Backed, SameSeries, Log!SameSeries, tables
<1>8. CASE newFindings' = newFindings /\ newAssets' = newAssets
  <2>1. Backed(newFindings, All')
    BY <1>3, BackedGrows
  <2>2. Backed(newFindings, All)'
    BY <1>8, <2>1 DEF Backed, SameSeries, Log!SameSeries
  <2>3. Raised' = Raised
    BY <1>2, <1>8 DEF Raised, tables
  <2>4. \A f \in Raised' : f.seq < taken'
    BY <1>2, <1>3, <1>6, <2>3
  <2>5. assets' = Types(findings)' /\ (assets \cup newAssets)' = Types(Raised)'
    BY <1>2, <1>8, <2>3 DEF Types, tables
  <2> QED BY <1>1, <1>5, <1>7, <2>2, <2>4, <2>5
<1>9. ASSUME NEW prev \in Latest(Visible(t)),
             newFindings' = newFindings \cup {NewFinding(t, prev)},
             assets \cup newAssets' = assets \cup newAssets \cup {t}
      PROVE  DriftInv'
  <2>1. prev \in All /\ prev.domain = cur /\ prev.type = t
    BY VisibleFinds DEF Latest
  <2>2. Backed({NewFinding(t, prev)}, All')
    <3>1. prev \in All' /\ New(t) \in All' /\ prev.seq < New(t).seq
      BY <1>3, <1>4, <2>1 DEF New
    <3>2. SameSeries(prev, NewFinding(t, prev)) /\ SameSeries(New(t), NewFinding(t, prev))
      BY <2>1 DEF New, NewFinding, SameSeries, Log!SameSeries
    <3>3. /\ New(t).seq = NewFinding(t, prev).seq /\ prev.hash = NewFinding(t, prev).before
          /\ New(t).hash = NewFinding(t, prev).after
      BY DEF New, NewFinding
    <3> QED BY <3>1, <3>2, <3>3 DEF Backed
  <2>3. Backed(newFindings, All')
    BY <1>3, BackedGrows
  <2>4. Backed(newFindings', All')
    BY <1>9, <2>2, <2>3, BackedUnion
  <2>5. Backed(newFindings, All)'
    BY <2>4 DEF Backed, SameSeries, Log!SameSeries
  <2>6. Raised' = Raised \cup {NewFinding(t, prev)}
    BY <1>2, <1>9 DEF Raised, tables
  <2>7. \A f \in Raised' : f.seq < taken'
    BY <1>2, <1>3, <1>6, <2>6 DEF NewFinding
  <2>8. Types(Raised') = Types(Raised) \cup {t}
    <3>1. NewFinding(t, prev).type = t
      BY DEF NewFinding
    <3> QED BY <2>6, <3>1, TypesGrow
  <2>9. assets' = Types(findings)' /\ (assets \cup newAssets)' = Types(Raised)'
    BY <1>2, <1>9, <2>8 DEF Types, tables
  <2> QED BY <1>1, <1>5, <1>7, <2>5, <2>7, <2>9
<1> QED BY <1>8, <1>9, CompareEffect

(* DriftInv holds of every reachable state.                                *)
THEOREM DriftInvariant == Spec => []DriftInv
<1>1. Init => DriftInv
  <2> SUFFICES ASSUME Init PROVE DriftInv
    OBVIOUS
  <2>1. TypeOK /\ DrainInv
    <3>1. /\ passes \in [Domains -> 0..DnsScansPerDrain]
          /\ collected \in [RecordTypes -> RRsets]
          /\ drain \in 0..MaxDrains /\ taken \in Nat
      BY DriftAssumption DEF Init, Nothing
    <3>2. /\ open = FALSE /\ cur \in Domains \cup {NoDomain} /\ left = {}
          /\ snapshots = {} /\ flushed = {} /\ pending = {} /\ findings = {}
          /\ newFindings = {} /\ assets = {} /\ newAssets = {}
      BY DEF Init
    <3> QED BY <3>1, <3>2 DEF TypeOK, DrainInv
  <2>2. All = {} /\ Raised = {} /\ findings = {} /\ newFindings = {} /\ assets = {}
        /\ newAssets = {}
    BY DEF Init, All, Raised
  <2> QED BY <2>1, <2>2 DEF DriftInv, Backed, Types
<1>2. DriftInv /\ [Next]_vars => DriftInv'
  <2> SUFFICES ASSUME DriftInv, [Next]_vars PROVE DriftInv'
    OBVIOUS
  <2>1. TypeOK' /\ DrainInv'
    BY TypeStep
  <2>2. CASE QuietDrain
    BY <2>1, <2>2 DEF DriftInv, QuietDrain, tables, All, Raised, Backed, Types,
              SameSeries, Log!SameSeries
  <2>3. ASSUME NEW t \in RecordTypes, CompareRecords(t) PROVE DriftInv'
    BY <2>3, CompareKeepsDrift
  <2>4. CASE Committed
    <3>1. /\ snapshots' = All /\ findings' = Raised /\ assets' = assets \cup newAssets
          /\ taken' = taken
          /\ flushed' = {} /\ pending' = {} /\ newFindings' = {} /\ newAssets' = {}
      BY <2>4, CloseTypes DEF Committed
    <3>2. All' = All /\ Raised' = Raised
      BY <3>1 DEF All, Raised
    <3>3. Backed(Raised, All)
      <4>1. Backed(findings, All)
        BY BackedGrows DEF DriftInv, All
      <4> QED BY <4>1, BackedUnion DEF DriftInv, Raised
    <3>4. Backed(findings, snapshots)' /\ Backed(newFindings, All)'
      BY <3>1, <3>3 DEF Backed, SameSeries, Log!SameSeries
    <3>5. Types(findings)' = Types(Raised) /\ Types(Raised)' = Types(Raised)
      BY <3>1, <3>2 DEF Types
    <3> QED BY <2>1, <3>1, <3>2, <3>4, <3>5 DEF DriftInv
  <2>5. CASE RolledBack
    <3>1. /\ UNCHANGED tables /\ taken' = taken
          /\ flushed' = {} /\ pending' = {} /\ newFindings' = {} /\ newAssets' = {}
      BY <2>5, CloseTypes DEF RolledBack
    <3>2. All' = snapshots /\ Raised' = findings
      BY <3>1 DEF All, Raised, tables
    <3>3. \A x \in snapshots : x.seq < taken
      BY DEF DriftInv, All
    <3>4. \A f \in findings : f.seq < taken
      BY DEF DriftInv, Raised
    <3>5. Backed(findings, snapshots)' /\ Backed(newFindings, All)'
      BY <3>1 DEF DriftInv, Backed, SameSeries, Log!SameSeries, tables
    <3>6. Types(findings)' = Types(findings) /\ Types(Raised)' = Types(findings)
      BY <3>1, <3>2 DEF Types, tables
    <3> QED BY <2>1, <3>1, <3>2, <3>3, <3>4, <3>5, <3>6 DEF DriftInv, tables
  <2> QED BY <2>2, <2>3, <2>4, <2>5, Steps
<1> QED BY <1>1, <1>2, PTL DEF Spec

(* Every variable has its type.                                            *)
THEOREM TypeCorrect == Spec => []TypeOK
<1>1. DriftInv => TypeOK
  BY DEF DriftInv
<1> QED BY <1>1, DriftInvariant, PTL

(* However many DNS passes a drain has: a change finding tells of two      *)
(* snapshots that are committed, in the order they were taken.             *)
THEOREM FindingsAreBacked == Spec => []FindingsHaveSnapshots
<1>1. DriftInv => FindingsHaveSnapshots
  BY DEF DriftInv, Backed, FindingsHaveSnapshots
<1> QED BY <1>1, DriftInvariant, PTL

(* The shared assets dns:<type> are those of the committed findings.       *)
THEOREM AssetsMatchFindings == Spec => []AssetPerChangedType
<1>1. DriftInv => AssetPerChangedType
  BY DEF DriftInv, Types, AssetPerChangedType
<1> QED BY <1>1, DriftInvariant, PTL

-----------------------------------------------------------------------------
(* Changes from one drain to the next.                                     *)

(* Within a series snapshots of later drains are taken later, and those of *)
(* the open session belong to a drain later than all that is committed.    *)
SeriesInv ==
  /\ \A x \in snapshots : x.drain <= drain /\ (open => x.drain < drain)
  /\ \A x \in flushed \cup pending : x.drain = drain
  /\ \A x, y \in All : SameSeries(x, y) /\ x.drain < y.drain => x.seq < y.seq

FollowsIn(y, x, S) ==
  /\ SameSeries(x, y) /\ x.seq < y.seq
  /\ \A z \in S : SameSeries(x, z) => z.seq <= x.seq \/ z.seq >= y.seq

(* The findings of F about y are its difference from a snapshot of S of    *)
(* the same series and drain as x.                                         *)
Explained(x, y, S, F) ==
  \E z \in S :
    /\ SameSeries(x, z) /\ z.drain = x.drain
    /\ {f \in F : f.seq = y.seq} = Log!Difference(z, y)

ExactIn(S, F) ==
  \A x, y \in S : FollowsIn(y, x, S) /\ x.drain < y.drain => Explained(x, y, S, F)

(* ChangesBetweenDrains, of what is committed and of what will be if the   *)
(* open drain commits.                                                     *)
ReportInv == ExactIn(snapshots, findings) /\ ExactIn(All, Raised)

ExactInv == DriftInv /\ SeriesInv /\ ReportInv

(* Snapshots are numbered.                                                 *)
LEMMA SnapshotNumbers ==
  ASSUME TypeOK, NEW x \in All
  PROVE  /\ x \in Snapshot /\ x.seq \in Nat /\ x.drain \in Nat
         /\ x.domain \in Domains /\ x.type \in RecordTypes
  BY DriftAssumption DEF TypeOK, All, Snapshot

(* If the last snapshot of the series is of an earlier drain, the query of *)
(* the pass returns something, and only snapshots of that drain.           *)
LEMMA PassFinds ==
  ASSUME ExactInv, NEW t \in left, NEW x \in All, SameSeries(x, New(t)), x.drain < drain,
         \A z \in All : SameSeries(x, z) => z.seq <= x.seq
  PROVE  /\ x \in Visible(t)
         /\ \A prev \in Latest(Visible(t)) :
              prev \in All /\ SameSeries(x, prev) /\ prev.drain = x.drain
<1>1. x.domain = cur /\ x.type = t /\ x.drain \in Nat /\ x.seq \in Nat
  BY SnapshotNumbers DEF SameSeries, Log!SameSeries, New, ExactInv, DriftInv
<1>2. drain \in Nat
  BY DriftAssumption DEF ExactInv, DriftInv, TypeOK
<1>3. x \in snapshots
  BY <1>1, <1>2 DEF ExactInv, SeriesInv, All
<1>4. x \in Visible(t)
  BY <1>1, <1>3 DEF Visible
<1>5. ASSUME NEW prev \in Latest(Visible(t))
      PROVE  prev \in All /\ SameSeries(x, prev) /\ prev.drain = x.drain
  <2>1. prev \in All /\ SameSeries(x, prev) /\ x.drain <= prev.drain
    BY <1>1, <1>4, VisibleFinds DEF Latest, SameSeries, Log!SameSeries
  <2>2. prev.drain \in Nat /\ prev.seq \in Nat
    BY <2>1, SnapshotNumbers DEF ExactInv, DriftInv
  <2>3. x.drain < prev.drain => x.seq < prev.seq
    BY <2>1 DEF ExactInv, SeriesInv
  <2>4. prev.seq <= x.seq
    BY <2>1
  <2> QED BY <1>1, <2>1, <2>2, <2>3, <2>4
<1> QED BY <1>4, <1>5

(* A comparison keeps the series in order.                                 *)
LEMMA CompareKeepsSeries ==
  ASSUME ExactInv, NEW t \in RecordTypes, CompareRecords(t)
  PROVE  SeriesInv'
<1> USE DEF ExactInv
<1>1. /\ open
      /\ flushed' \cup pending' = flushed \cup pending \cup {New(t)}
      /\ UNCHANGED <<tables, drain, open>>
  BY CompareEffect DEF DriftInv
<1>2. All' = All \cup {New(t)}
  BY <1>1 DEF All, tables
<1>3. New(t).drain = drain /\ New(t).seq = taken /\ taken \in Nat /\ drain \in Nat
  BY DriftAssumption DEF New, DriftInv, TypeOK
<1>4. \A x \in snapshots' : x.drain <= drain' /\ (open' => x.drain < drain')
  BY <1>1 DEF SeriesInv, tables
<1>5. \A x \in flushed' \cup pending' : x.drain = drain'
  BY <1>1, <1>3 DEF SeriesInv
<1>6. ASSUME NEW x \in All
      PROVE  x.seq \in Nat /\ x.seq < taken /\ x.drain \in Nat /\ x.drain <= drain
  BY <1>1, <1>3, <1>6, SnapshotNumbers DEF SeriesInv, DriftInv, All
<1>7. \A x, y \in All' : SameSeries(x, y) /\ x.drain < y.drain => x.seq < y.seq
  <2> SUFFICES ASSUME NEW x \in All', NEW y \in All', SameSeries(x, y), x.drain < y.drain
               PROVE  x.seq < y.seq
    OBVIOUS
  <2>1. CASE x \in All /\ y \in All
    BY <2>1 DEF SeriesInv
  <2>2. CASE x \in All /\ y = New(t)
    BY <2>2, <1>3, <1>6
  <2>3. CASE x = New(t)
    BY <2>3, <1>2, <1>3, <1>6
  <2> QED BY <1>2, <2>1, <2>2, <2>3
<1> QED BY <1>4, <1>5, <1>7 DEF SeriesInv, SameSeries, Log!SameSeries

(* ReportInv in the state after a step, conjunct by conjunct.              *)
LEMMA ReportNext ==
  ASSUME ExactIn(snapshots', findings'), ExactIn(All', Raised')
  PROVE  ReportInv'
  BY DEF ReportInv, ExactIn, Explained, Log!Difference, FollowsIn, SameSeries, Log!SameSeries

(* A comparison reports the difference from what it finds.                 *)
LEMMA CompareKeepsReport ==
  ASSUME ExactInv, NEW t \in RecordTypes, CompareRecords(t)
  PROVE  ReportInv'
<1> USE DEF ExactInv
<1>1. /\ t \in left
      /\ flushed' \cup pending' = flushed \cup pending \cup {New(t)}
      /\ UNCHANGED <<tables, drain, open, passes>>
  BY CompareEffect DEF DriftInv
<1>2. All' = All \cup {New(t)} /\ snapshots' = snapshots /\ findings' = findings
  BY <1>1 DEF All, tables
<1>3. New(t).seq = taken /\ New(t).hash = collected[t] /\ New(t).drain = drain /\ taken \in Nat
  BY DEF New, DriftInv, TypeOK
<1>4. \A x \in All : x.seq \in Nat /\ x.seq < taken
  BY SnapshotNumbers DEF DriftInv
<1>5. \A f \in Raised : f.seq # taken
  BY <1>3 DEF DriftInv, TypeOK, Raised, Finding
<1>6. Raised \subseteq Raised' /\ \A f \in Raised' : f.seq = taken \/ f \in Raised
  <2>1. CASE newFindings' = newFindings
    BY <2>1, <1>2 DEF Raised
  <2>2. ASSUME NEW prev, newFindings' = newFindings \cup {NewFinding(t, prev)}
        PROVE  Raised \subseteq Raised' /\ \A f \in Raised' : f.seq = taken \/ f \in Raised
    <3>1. NewFinding(t, prev).seq = taken
      BY DEF NewFinding
    <3> QED BY <2>2, <3>1, <1>2 DEF Raised
  <2> QED BY <2>1, <2>2, CompareEffect DEF DriftInv
<1>7. ASSUME NEW x \in All', NEW y \in All', FollowsIn(y, x, All'), x.drain < y.drain
      PROVE  Explained(x, y, All', Raised')
  <2>1. x \in All
    <3>1. x.seq < y.seq
      BY <1>7 DEF FollowsIn
    <3> QED BY <3>1, <1>2, <1>3, <1>4
  <2>2. CASE y # New(t)
    <3>1. y \in All /\ y.seq # taken /\ FollowsIn(y, x, All)
      BY <2>2, <1>2, <1>3, <1>4, <1>7 DEF FollowsIn
    <3>2. {f \in Raised' : f.seq = y.seq} = {f \in Raised : f.seq = y.seq}
      BY <1>6, <3>1
    <3> QED BY <2>1, <3>1, <3>2, <1>2, <1>7 DEF ReportInv, ExactIn, Explained
  <2>3. CASE y = New(t)
    <3>1. SameSeries(x, New(t)) /\ x.drain < drain
      BY <2>3, <1>3, <1>7 DEF FollowsIn
    <3>2. \A z \in All : SameSeries(x, z) => z.seq <= x.seq
      BY <2>1, <2>3, <1>2, <1>3, <1>4, <1>7 DEF FollowsIn
    <3>3. /\ Visible(t) # {}
          /\ \A prev \in Latest(Visible(t)) :
               prev \in All' /\ SameSeries(x, prev) /\ prev.drain = x.drain
      BY <2>1, <3>1, <3>2, <1>1, <1>2, PassFinds
    <3>4. \E prev \in Latest(Visible(t)) :
            {f \in Raised' : f.seq = taken} = Log!Difference(prev, New(t))
      <4>1. ASSUME NEW prev \in Latest(Visible(t)), prev.hash = collected[t],
                   newFindings' = newFindings
            PROVE  {f \in Raised' : f.seq = taken} = Log!Difference(prev, New(t))
        <5>1. Raised' = Raised
          BY <4>1, <1>2 DEF Raised
        <5> QED BY <5>1, <4>1, <1>3, <1>5 DEF Log!Difference
      <4>2. ASSUME NEW prev \in Latest(Visible(t)), prev.hash # collected[t],
                   newFindings' = newFindings \cup {NewFinding(t, prev)}
            PROVE  {f \in Raised' : f.seq = taken} = Log!Difference(prev, New(t))
        <5>1. Raised' = Raised \cup {NewFinding(t, prev)}
          BY <4>2, <1>2 DEF Raised
        <5>2. NewFinding(t, prev).seq = taken
          BY DEF NewFinding
        <5>3. Log!Difference(prev, New(t)) = {NewFinding(t, prev)}
          BY <4>2 DEF Log!Difference, New, NewFinding
        <5> QED BY <5>1, <5>2, <5>3, <1>5
      <4> QED BY <3>3, <4>1, <4>2, CompareEffect DEF DriftInv
    <3> QED BY <2>3, <3>3, <3>4, <1>3 DEF Explained
  <2> QED BY <2>2, <2>3
<1>8. ExactIn(snapshots', findings')
  BY <1>2 DEF ReportInv
<1>9. ExactIn(All', Raised')
  BY <1>7 DEF ExactIn
<1> QED BY <1>8, <1>9, ReportNext

(* Steps that take no snapshot and commit nothing keep the reports.        *)
LEMMA QuietReport ==
  ASSUME ExactInv, QuietDrain
  PROVE  ReportInv'
<1>1. All' = All /\ Raised' = Raised /\ UNCHANGED tables
  BY DEF QuietDrain, All, Raised, tables
<1>2. ExactIn(snapshots', findings') /\ ExactIn(All', Raised')
  BY <1>1 DEF ExactInv, ReportInv, tables
<1> QED BY <1>2, ReportNext

(* The end of a drain keeps everything.                                    *)
LEMMA EndKeepsExact ==
  ASSUME ExactInv, Committed \/ RolledBack
  PROVE  SeriesInv' /\ ReportInv'
<1> USE DEF ExactInv
<1>1. /\ open' = FALSE /\ flushed' = {} /\ pending' = {} /\ newFindings' = {}
      /\ drain' = drain
  BY CloseTypes DEF Committed, RolledBack
<1>2. All' = snapshots' /\ Raised' = findings' /\ snapshots' \subseteq All
  BY <1>1 DEF All, Raised, Committed, RolledBack, tables
<1>3. \A x \in All : x.drain <= drain
  BY SnapshotNumbers DEF SeriesInv, All, DriftInv
<1>4. SeriesInv'
  BY <1>1, <1>2, <1>3 DEF SeriesInv, SameSeries, Log!SameSeries
<1>5. ExactIn(snapshots', findings')
  BY DEF Committed, RolledBack, tables, ReportInv
<1> QED BY <1>2, <1>4, <1>5, ReportNext

(* The other steps keep the series.                                        *)
LEMMA QuietSeries ==
  ASSUME ExactInv,
         \/ BeginDrain \/ FlushSession \/ UNCHANGED vars
         \/ \E d \in Domains : BeginDnsPass(d)
  PROVE  SeriesInv' /\ QuietDrain
<1> USE DEF ExactInv
<1>1. CASE BeginDrain
  <2>1. flushed = {} /\ pending = {} /\ drain \in Nat
    BY <1>1 DEF BeginDrain, DriftInv, DrainInv, TypeOK
  <2>2. \A x \in snapshots : x.drain \in Nat /\ x.drain <= drain
    BY SnapshotNumbers DEF DriftInv, SeriesInv, All
  <2> QED BY <1>1, <2>1, <2>2
         DEF BeginDrain, SeriesInv, QuietDrain, All, SameSeries, Log!SameSeries, tables
<1>2. CASE FlushSession \/ UNCHANGED vars \/ \E d \in Domains : BeginDnsPass(d)
  <2>1. /\ flushed' \cup pending' = flushed \cup pending
        /\ UNCHANGED <<tables, drain, open, newFindings, newAssets, taken>>
    BY <1>2 DEF FlushSession, BeginDnsPass, vars, session
  <2>2. All' = All
    BY <2>1 DEF All, tables
  <2> QED BY <2>1, <2>2 DEF SeriesInv, QuietDrain, SameSeries, Log!SameSeries, tables
<1> QED BY <1>1, <1>2

(* ExactInv is invariant, for any number of DNS passes in a drain.         *)
THEOREM ExactInvariant == Spec => []ExactInv
<1>1. Init /\ DriftInv => ExactInv
  BY DEF Init, ExactInv, SeriesInv, ReportInv, All, Raised, ExactIn
<1>2. ExactInv /\ DriftInv' /\ [Next]_vars => ExactInv'
  <2> SUFFICES ASSUME ExactInv, [Next]_vars PROVE SeriesInv' /\ ReportInv'
    BY DEF ExactInv
  <2>1. ASSUME NEW t \in RecordTypes, CompareRecords(t) PROVE SeriesInv' /\ ReportInv'
    BY <2>1, CompareKeepsSeries, CompareKeepsReport
  <2>2. CASE CommitDrain \/ RollbackDrain
    <3>1. Committed \/ RolledBack
      BY <2>2 DEF CommitDrain, RollbackDrain, Committed, RolledBack, All, Raised
    <3> QED BY <3>1, EndKeepsExact
  <2>3. CASE \/ BeginDrain \/ FlushSession \/ UNCHANGED vars
             \/ \E d \in Domains : BeginDnsPass(d)
    BY <2>3, QuietSeries, QuietReport
  <2> QED BY <2>1, <2>2, <2>3 DEF Next, Stop
<1> QED BY <1>1, <1>2, DriftInvariant, PTL DEF Spec

(* Whatever drains failed in between, the findings of a drain's first      *)
(* snapshot are exactly its difference from a snapshot of the last drain   *)
(* that committed one.                                                     *)
THEOREM ChangesAreReported == Spec => []ChangesBetweenDrains
<1>1. ExactInv => ChangesBetweenDrains
  BY DEF ExactInv, ReportInv, ExactIn, Explained, FollowsIn, ChangesBetweenDrains, Follows
<1> QED BY <1>1, ExactInvariant, PTL

-----------------------------------------------------------------------------
(* The tables are the log of DriftLog.                                     *)

Session == flushed \cup pending

(* What the open drain will publish is fit to be published at any moment.  *)
LogInv == ExactInv /\ Log!Complete(Session, newFindings)

(* A finding about y is in every larger set of findings about y as well.   *)
LEMMA AboutOthers ==
  ASSUME NEW F, NEW G, NEW y, F \subseteq G, \A f \in G : f \in F \/ f.seq # y.seq
  PROVE  Log!About(y, G) = Log!About(y, F)
  BY DEF Log!About

(* A comparison leaves the drain fit to be published.                      *)
LEMMA CompareKeepsComplete ==
  ASSUME LogInv, NEW t \in RecordTypes, CompareRecords(t)
  PROVE  Log!Complete(Session, newFindings)'
<1> USE DEF LogInv, ExactInv
<1> DEFINE y0 == New(t)
           S == Session
           T == Session \cup {y0}
<1>1. /\ open /\ cur \in Domains /\ y0 \in Snapshot
      /\ flushed' \cup pending' = flushed \cup pending \cup {y0}
      /\ UNCHANGED tables
  BY CompareEffect DEF DriftInv
<1>2. Session' = T /\ snapshots' = snapshots
  BY <1>1 DEF Session, tables
<1>3. y0.seq = taken /\ y0.hash = collected[t] /\ y0.drain = drain /\ taken \in Nat
      /\ y0.domain = cur /\ y0.type = t
  BY DEF New, DriftInv, TypeOK
<1>4. \A x \in snapshots \cup S : x.seq \in Nat /\ x.seq < taken
  BY SnapshotNumbers DEF DriftInv, All, Session
<1>5. \A x \in snapshots : x.drain < drain
  BY <1>1 DEF SeriesInv
<1>6. \A y \in S : y.drain = drain
  BY DEF SeriesInv, Session
<1>7. \A f \in newFindings : f.seq \in Nat /\ f.seq < taken
  BY DEF DriftInv, TypeOK, Raised, Finding
<1>8. newFindings \subseteq newFindings' /\ \A f \in newFindings' : f.seq = taken \/ f \in newFindings
  <2>1. \A prev : NewFinding(t, prev).seq = taken
    BY DEF NewFinding
  <2> QED BY <2>1, CompareEffect DEF DriftInv
<1>9. \A x \in snapshots, y \in T : x.drain < y.drain /\ x.seq < y.seq
  BY <1>3, <1>4, <1>5 DEF Log!Complete
<1>10. \A y, z \in T : y.drain = z.drain /\ (y.seq = z.seq => y = z)
  BY <1>3, <1>4, <1>6 DEF Log!Complete
<1>11. \A f \in newFindings' : \E y \in T : f.seq = y.seq
  BY <1>3, <1>8 DEF Log!Complete
<1>12. ASSUME NEW y \in S
       PROVE  \/ \E x \in Log!Priors(y, T) : Log!About(y, newFindings') = Log!Difference(x, y)
              \/ Log!LastPublished(y) = {} /\ Log!About(y, newFindings') = {}
  <2>1. Log!About(y, newFindings') = Log!About(y, newFindings)
    BY <1>3, <1>4, <1>8, AboutOthers
  <2>2. Log!Priors(y, S) \subseteq Log!Priors(y, T)
    BY DEF Log!Priors
  <2> QED BY <2>1, <2>2 DEF Log!Complete
<1>13. \/ \E x \in Log!Priors(y0, T) : Log!About(y0, newFindings') = Log!Difference(x, y0)
       \/ Log!LastPublished(y0) = {} /\ Log!About(y0, newFindings') = {}
  <2>1. Log!About(y0, newFindings) = {}
    BY <1>3, <1>7 DEF Log!About
  <2>2. ASSUME NEW prev \in Latest(Visible(t)) PROVE prev \in Log!Priors(y0, T)
    <3>1. /\ prev \in snapshots \cup flushed /\ Log!SameSeries(prev, y0)
          /\ \A y \in Visible(t) : y.drain <= prev.drain
      BY <1>3, VisibleFinds DEF Latest, Log!SameSeries
    <3>2. CASE prev \in flushed
      BY <1>3, <1>4, <3>1, <3>2 DEF Log!Priors, Session
    <3>3. CASE prev \in snapshots
      <4>1. \A x \in snapshots : Log!SameSeries(x, y0) => x \in Visible(t)
        BY <1>3 DEF Visible, Log!SameSeries
      <4>2. prev \in Log!LastPublished(y0)
        BY <3>1, <3>3, <4>1 DEF Log!LastPublished, Log!Newest
      <4> QED BY <4>2 DEF Log!Priors
    <3> QED BY <3>1, <3>2, <3>3
  <2>3. CASE Visible(t) = {} /\ newFindings' = newFindings
    <3>1. Log!LastPublished(y0) = {}
      BY <1>3, <2>3 DEF Log!LastPublished, Log!Newest, Log!SameSeries, Visible
    <3> QED BY <2>1, <2>3, <3>1
  <2>4. ASSUME NEW prev \in Latest(Visible(t)), prev.hash = collected[t],
               newFindings' = newFindings
        PROVE  \E x \in Log!Priors(y0, T) : Log!About(y0, newFindings') = Log!Difference(x, y0)
    <3>1. Log!Difference(prev, y0) = {}
      BY <1>3, <2>4 DEF Log!Difference
    <3> QED BY <2>1, <2>2, <2>4, <3>1
  <2>5. ASSUME NEW prev \in Latest(Visible(t)), prev.hash # collected[t],
               newFindings' = newFindings \cup {NewFinding(t, prev)}
        PROVE  \E x \in Log!Priors(y0, T) : Log!About(y0, newFindings') = Log!Difference(x, y0)
    <3>1. Log!Difference(prev, y0) = {NewFinding(t, prev)}
      BY <2>5 DEF Log!Difference, New, NewFinding
    <3>2. NewFinding(t, prev).seq = y0.seq
      BY <1>3 DEF NewFinding
    <3>3. Log!About(y0, newFindings') = {NewFinding(t, prev)}
      BY <2>1, <2>5, <3>2 DEF Log!About
    <3> QED BY <2>2, <2>5, <3>1, <3>3
  <2> QED BY <2>3, <2>4, <2>5, CompareEffect DEF DriftInv
<1>14. \A y \in T : \/ \E x \in Log!Priors(y, T) : Log!About(y, newFindings') = Log!Difference(x, y)
                    \/ Log!LastPublished(y) = {} /\ Log!About(y, newFindings') = {}
  BY <1>12, <1>13
<1> HIDE DEF T
<1> QED BY <1>2, <1>9, <1>10, <1>11, <1>14
       DEF Log!Complete, Log!Priors, Log!LastPublished, Log!SameSeries, Log!Newest,
           Log!About, Log!Difference

(* Every reachable state could be published.                               *)
THEOREM LogInvariant == Spec => []LogInv
<1>1. Init /\ ExactInv => LogInv
  BY DEF Init, LogInv, Session, Log!Complete
<1>2. LogInv /\ ExactInv' /\ [Next]_vars => LogInv'
  <2> SUFFICES ASSUME LogInv, [Next]_vars PROVE Log!Complete(Session, newFindings)'
    BY DEF LogInv
  <2>1. CASE QuietDrain
    <3>1. Session' = Session /\ newFindings' = newFindings /\ snapshots' = snapshots
      BY <2>1 DEF QuietDrain, Session, tables
    <3> QED BY <3>1 DEF LogInv, Log!Complete, Log!Priors, Log!LastPublished, Log!SameSeries,
                        Log!Newest, Log!About, Log!Difference
  <2>2. ASSUME NEW t \in RecordTypes, CompareRecords(t)
        PROVE  Log!Complete(Session, newFindings)'
    BY <2>2, CompareKeepsComplete
  <2>3. CASE Committed \/ RolledBack
    <3>1. Session' = {} /\ newFindings' = {}
      BY <2>3, CloseTypes DEF Committed, RolledBack, Session
    <3> QED BY <3>1 DEF Log!Complete
  <2> QED BY <2>1, <2>2, <2>3, Steps DEF LogInv, ExactInv
<1> QED BY <1>1, <1>2, ExactInvariant, PTL DEF Spec

(* A drain that commits publishes what it found, in one step.              *)
LEMMA CommitPublishes ==
  ASSUME LogInv, Committed
  PROVE  Log!LogNext
<1> USE DEF LogInv, ExactInv
<1>1. /\ snapshots' = snapshots \cup Session /\ findings' = findings \cup newFindings
      /\ assets' = assets \cup newAssets
  BY DEF Committed, All, Raised, Session
<1>2. \A x \in snapshots : x.seq \in Nat
  BY SnapshotNumbers DEF DriftInv, All
<1>3. snapshots' \ snapshots = Session
  BY <1>1, <1>2 DEF Log!Complete
<1>4. ASSUME NEW f \in newFindings PROVE f \notin findings
  <2>1. PICK y \in Session : f.seq = y.seq
    BY <1>4 DEF Log!Complete
  <2>2. \A x \in snapshots : x.seq < y.seq
    BY <2>1 DEF Log!Complete
  <2> QED BY <1>2, <2>1, <2>2 DEF DriftInv, Backed
<1>5. findings' \ findings = newFindings
  BY <1>1, <1>4
<1>6. assets' = assets \cup {f.type : f \in newFindings}
  BY <1>1 DEF DriftInv, Types, Raised
<1> QED BY <1>1, <1>3, <1>5, <1>6 DEF Log!LogNext, Log!Publish

(* However drains flush, repeat passes, fail and die: readers of the       *)
(* committed tables see a behaviour of DriftLog.                           *)
THEOREM DriftImplementsLog == Spec => DriftLogSpec
<1>1. Init => Log!LogInit
  BY DEF Init, Log!LogInit
<1>2. LogInv /\ [Next]_vars => [Log!LogNext]_(Log!logVars)
  <2> SUFFICES ASSUME LogInv, [Next]_vars PROVE Log!LogNext \/ UNCHANGED Log!logVars
    OBVIOUS
  <2>1. CASE Committed
    BY <2>1, CommitPublishes
  <2>2. ASSUME NEW t \in RecordTypes, CompareRecords(t) PROVE UNCHANGED Log!logVars
    BY <2>2, CompareEffect DEF LogInv, ExactInv, DriftInv, Log!logVars, tables
  <2>3. CASE QuietDrain \/ RolledBack
    BY <2>3 DEF QuietDrain, RolledBack, Log!logVars, tables
  <2> QED BY <2>1, <2>2, <2>3, Steps DEF LogInv, ExactInv
<1> QED BY <1>1, <1>2, LogInvariant, PTL DEF Spec, DriftLogSpec, Log!LogSpec
-----------------------------------------------------------------------------
(* One DNS pass of a domain in each drain.                                 *)

(* A series has one snapshot of each drain: the session has snapshots only *)
(* of domains whose pass has begun, and only of types it has done.         *)
OnePassInv ==
  /\ \A x, y \in All : SameSeries(x, y) /\ x.drain = y.drain => x = y
  /\ \A x \in Session : passes[x.domain] = 1
  /\ left # {} => \A x \in Session : x.domain = cur => x.type \notin left
  /\ left # {} => passes[cur] = 1

(* With at most one pass in a drain OnePassInv is invariant.               *)
LEMMA OnePassStep ==
  ASSUME DnsScansPerDrain = 1, ExactInv, OnePassInv, [Next]_vars
  PROVE  OnePassInv'
<1> USE DEF ExactInv
<1>1. ASSUME NEW t \in RecordTypes, CompareRecords(t) PROVE OnePassInv'
  <2>1. /\ t \in left /\ open /\ cur \in Domains
        /\ flushed' \cup pending' = flushed \cup pending \cup {New(t)}
        /\ left' = left \ {t} /\ (left' # {} => cur' = cur)
        /\ UNCHANGED <<tables, drain, open, passes>>
    BY <1>1, CompareEffect DEF DriftInv
  <2>2. New(t).domain = cur /\ New(t).type = t /\ New(t).drain = drain
    BY DEF New
  <2>3. All' = All \cup {New(t)} /\ Session' = Session \cup {New(t)}
    BY <2>1 DEF All, Session, tables
  <2>4. ASSUME NEW x \in All, SameSeries(x, New(t)) PROVE x.drain # drain
    <3>1. x.domain = cur /\ x.type = t
      BY <2>2, <2>4 DEF SameSeries, Log!SameSeries
    <3>2. CASE x \in Session
      BY <2>1, <3>1, <3>2 DEF OnePassInv
    <3>3. CASE x \in snapshots
      <4>1. x.drain < drain /\ x.drain \in Nat
        BY <2>1, <3>3, SnapshotNumbers DEF SeriesInv, DriftInv
      <4>2. drain \in Nat
        BY DriftAssumption DEF DriftInv, TypeOK
      <4> QED BY <4>1, <4>2
    <3> QED BY <3>2, <3>3 DEF All, Session
  <2>5. \A x, y \in All' : SameSeries(x, y) /\ x.drain = y.drain => x = y
    BY <2>2, <2>3, <2>4 DEF OnePassInv, SameSeries, Log!SameSeries
  <2>6. \A x \in Session' : passes'[x.domain] = 1
    BY <2>1, <2>2, <2>3 DEF OnePassInv
  <2>7. left' # {} => passes'[cur'] = 1 /\ \A x \in Session' : x.domain = cur' => x.type \notin left'
    BY <2>1, <2>2, <2>3 DEF OnePassInv
  <2> QED BY <2>5, <2>6, <2>7 DEF OnePassInv, SameSeries, Log!SameSeries
<1>2. ASSUME NEW d \in Domains, BeginDnsPass(d) PROVE OnePassInv'
  <2>1. /\ passes[d] = 0 /\ passes' = [passes EXCEPT ![d] = passes[d] + 1]
        /\ cur' = d /\ UNCHANGED <<tables, drain, flushed, pending>>
    BY <1>2 DEF BeginDnsPass, DriftInv, TypeOK
  <2>2. passes'[d] = 1 /\ \A e \in Domains \ {d} : passes'[e] = passes[e]
    BY <2>1 DEF DriftInv, TypeOK
  <2>3. \A x \in Session : x.domain \in Domains \ {d}
    BY <2>1, SnapshotNumbers DEF DriftInv, OnePassInv, All, Session
  <2>4. All' = All /\ Session' = Session
    BY <2>1 DEF All, Session, tables
  <2> QED BY <2>1, <2>2, <2>3, <2>4 DEF OnePassInv, SameSeries, Log!SameSeries
<1>3. CASE BeginDrain \/ FlushSession \/ UNCHANGED vars
  <2>1. /\ flushed' \cup pending' = flushed \cup pending
        /\ UNCHANGED <<tables, passes, cur, left>>
    BY <1>3 DEF BeginDrain, FlushSession, vars, session
  <2>2. All' = All /\ Session' = Session
    BY <2>1 DEF All, Session, tables
  <2> QED BY <2>1, <2>2 DEF OnePassInv, SameSeries, Log!SameSeries
<1>4. CASE CommitDrain \/ RollbackDrain
  <2>1. flushed' = {} /\ pending' = {} /\ left' = {} /\ snapshots' \subseteq All
    BY <1>4, CloseTypes DEF CommitDrain, RollbackDrain, All, tables
  <2>2. Session' = {} /\ All' \subseteq All
    BY <2>1 DEF All, Session
  <2> QED BY <2>1, <2>2 DEF OnePassInv, SameSeries, Log!SameSeries
<1> QED BY <1>1, <1>2, <1>3, <1>4 DEF Next, Stop

(* Then what a drain publishes tells of changes versus the prior snapshot. *)
LEMMA PublishKeepsPrior ==
  ASSUME LogInv, OnePassInv, ChangedVersusPrior, Committed
  PROVE  ChangedVersusPrior'
<1> USE DEF LogInv, ExactInv
<1>1. snapshots' = snapshots \cup Session /\ findings' = findings \cup newFindings
  BY DEF Committed, All, Raised, Session
<1>2. \A x \in snapshots \cup Session : x.seq \in Nat /\ x.drain \in Nat
  BY SnapshotNumbers DEF DriftInv, All, Session
<1>3. \A x \in snapshots, y \in Session : x.drain < y.drain /\ x.seq < y.seq
  BY DEF Log!Complete
<1>4. ASSUME NEW f \in findings
      PROVE  \E x, y \in snapshots' :
               /\ SameSeries(y, f) /\ y.seq = f.seq /\ y.hash = f.after
               /\ FollowsIn(y, x, snapshots') /\ x.hash = f.before
  <2>1. PICK x \in snapshots, y \in snapshots :
          /\ SameSeries(y, f) /\ y.seq = f.seq /\ y.hash = f.after
          /\ Follows(y, x) /\ x.hash = f.before
    BY DEF ChangedVersusPrior
  <2>2. \A z \in snapshots' : SameSeries(x, z) => z.seq <= x.seq \/ z.seq >= y.seq
    <3>1. \A z \in Session : z.seq >= y.seq
      BY <1>2, <1>3
    <3> QED BY <1>1, <2>1, <3>1 DEF Follows
  <2> QED BY <1>1, <2>1, <2>2 DEF Follows, FollowsIn
<1>5. ASSUME NEW f \in newFindings
      PROVE  \E x, y \in snapshots' :
               /\ SameSeries(y, f) /\ y.seq = f.seq /\ y.hash = f.after
               /\ FollowsIn(y, x, snapshots') /\ x.hash = f.before
  <2>1. PICK y \in Session : f \in Log!About(y, newFindings)
    BY DEF Log!Complete, Log!About
  <2>2. PICK x \in Log!Priors(y, Session) : Log!About(y, newFindings) = Log!Difference(x, y)
    BY <2>1 DEF Log!Complete
  <2>3. /\ SameSeries(y, f) /\ y.seq = f.seq /\ y.hash = f.after /\ x.hash = f.before
    BY <2>1, <2>2 DEF Log!Difference, SameSeries, Log!SameSeries
  (* x is no snapshot of the session, which has one of the series only.    *)
  <2>4. x \in Log!LastPublished(y)
    <3>1. SUFFICES ASSUME x \in Session, SameSeries(x, y), x.seq < y.seq PROVE FALSE
      BY <2>2 DEF Log!Priors, SameSeries
    <3>2. x.drain = y.drain
      BY <3>1 DEF Log!Complete
    <3>3. x = y
      BY <3>1, <3>2 DEF OnePassInv, All, Session
    <3> QED BY <1>2, <3>1, <3>3
  <2>5. x \in snapshots /\ SameSeries(x, y)
        /\ \A z \in snapshots : SameSeries(z, y) => z.drain <= x.drain
    BY <2>4 DEF Log!LastPublished, Log!Newest, SameSeries
  <2>6. ASSUME NEW z \in snapshots, SameSeries(x, z) PROVE z.seq <= x.seq
    <3>1. z.drain <= x.drain
      BY <2>5, <2>6 DEF SameSeries, Log!SameSeries
    <3>2. CASE z.drain = x.drain
      <4>1. z = x
        BY <2>5, <2>6, <3>2 DEF OnePassInv, All
      <4> QED BY <1>2, <4>1
    <3>3. CASE z.drain < x.drain
      <4>1. SameSeries(z, x)
        BY <2>6 DEF SameSeries, Log!SameSeries
      <4>2. z.seq < x.seq
        BY <2>5, <3>3, <4>1 DEF SeriesInv, All
      <4> QED BY <1>2, <2>5, <4>2
    <3> QED BY <1>2, <2>5, <3>1, <3>2, <3>3
  <2>7. ASSUME NEW z \in Session, SameSeries(x, z) PROVE z.seq >= y.seq
    <3>1. SameSeries(z, y) /\ z.drain = y.drain
      BY <2>5, <2>7 DEF SameSeries, Log!SameSeries, Log!Complete
    <3>2. z = y
      BY <3>1 DEF OnePassInv, All, Session
    <3> QED BY <1>2, <3>2
  <2>8. FollowsIn(y, x, snapshots')
    BY <1>1, <1>3, <2>5, <2>6, <2>7 DEF FollowsIn
  <2> QED BY <1>1, <2>3, <2>5, <2>8
<1>6. \A f \in findings' : \E x, y \in snapshots' :
        /\ SameSeries(y, f) /\ y.seq = f.seq /\ y.hash = f.after
        /\ FollowsIn(y, x, snapshots') /\ x.hash = f.before
  BY <1>1, <1>4, <1>5
<1> QED BY <1>6 DEF ChangedVersusPrior, Follows, FollowsIn, SameSeries, Log!SameSeries

(* What the description of a finding says is true if no domain has a       *)
(* second DNS pass in a drain, whatever fails or is flushed: the second    *)
(* pass is all that run prior_snapshot's counterexample rests on.          *)
THEOREM ChangesAreVersusPrior ==
  ASSUME DnsScansPerDrain = 1
  PROVE  Spec => []ChangedVersusPrior
<1>1. Init => OnePassInv /\ ChangedVersusPrior
  BY DEF Init, OnePassInv, ChangedVersusPrior, All, Session
<1>2. LogInv /\ OnePassInv /\ ChangedVersusPrior /\ [Next]_vars
        => OnePassInv' /\ ChangedVersusPrior'
  <2> SUFFICES ASSUME LogInv, OnePassInv, ChangedVersusPrior, [Next]_vars
               PROVE  OnePassInv' /\ ChangedVersusPrior'
    OBVIOUS
  <2>1. OnePassInv'
    BY OnePassStep DEF LogInv
  <2>2. CASE UNCHANGED <<snapshots, findings>>
    BY <2>1, <2>2 DEF ChangedVersusPrior, Follows, SameSeries, Log!SameSeries
  <2>3. CASE Committed
    BY <2>1, <2>3, PublishKeepsPrior
  <2>4. ASSUME NEW t \in RecordTypes, CompareRecords(t) PROVE UNCHANGED <<snapshots, findings>>
    BY <2>4, CompareEffect DEF LogInv, ExactInv, DriftInv, tables
  <2> QED BY <2>1, <2>2, <2>3, <2>4, Steps
          DEF LogInv, ExactInv, QuietDrain, RolledBack, tables
<1> QED BY <1>1, <1>2, LogInvariant, PTL DEF Spec
=============================================================================
