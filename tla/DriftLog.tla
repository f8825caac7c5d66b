------------------------------ MODULE DriftLog ------------------------------
(***************************************************************************)
(* What drift detection promises to whoever reads its tables, with no      *)
(* session, flush or rollback in sight: the snapshots and the findings of  *)
(* a drain appear together and for good, and the findings of a snapshot    *)
(* are its difference from one that may pass for the snapshot before it.   *)
(* DnsDrift implements this log.                                           *)
(***************************************************************************)
EXTENDS Naturals

VARIABLES
  snapshots,     \* rows of dns_snapshots
  findings,      \* change findings
  assets         \* record types with an asset dns:<type>

logVars == <<snapshots, findings, assets>>

SameSeries(x, y) == x.domain = y.domain /\ x.type = y.type
Newest(S) == {x \in S : \A y \in S : y.drain <= x.drain}

(* The last drain that published any snapshot of the series of y, as the   *)
(* snapshots it published of that series.                                  *)
LastPublished(y) == Newest({x \in snapshots : SameSeries(x, y)})

(* What y, one of the snapshots S of a drain, may be compared with.        *)
Priors(y, S) == {x \in S : SameSeries(x, y) /\ x.seq < y.seq} \cup LastPublished(y)

(* The findings that the difference of snapshots x and y deserves.         *)
Difference(x, y) ==
  IF x.hash = y.hash THEN {}
  ELSE {[domain |-> y.domain, type |-> y.type, before |-> x.hash, after |-> y.hash,
         seq |-> y.seq]}

(* The findings F that tell of the snapshot y.                             *)
About(y, F) == {f \in F : f.seq = y.seq}

(* The snapshots S of one drain, later than all that are published, with   *)
(* their findings F: none without its snapshot, and of a snapshot exactly  *)
(* what differs, or nothing if none of its series is published.            *)
Complete(S, F) ==
  /\ \A x \in snapshots, y \in S : x.drain < y.drain /\ x.seq < y.seq
  /\ \A y, z \in S : y.drain = z.drain /\ (y.seq = z.seq => y = z)
  /\ \A f \in F : \E y \in S : f.seq = y.seq
  /\ \A y \in S : \/ \E x \in Priors(y, S) : About(y, F) = Difference(x, y)
                  \/ LastPublished(y) = {} /\ About(y, F) = {}

LogInit == snapshots = {} /\ findings = {} /\ assets = {}

Publish(S, F) ==
  /\ Complete(S, F)
  /\ snapshots' = snapshots \cup S
  /\ findings' = findings \cup F
  /\ assets' = assets \cup {f.type : f \in F}

LogNext == Publish(snapshots' \ snapshots, findings' \ findings)

LogSpec == LogInit /\ [][LogNext]_logVars
=============================================================================
