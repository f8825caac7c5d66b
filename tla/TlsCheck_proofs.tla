--------------------------- MODULE TlsCheck_proofs ---------------------------
(***************************************************************************)
(* Proofs about TlsCheck, for all names, limits and thresholds and every   *)
(* horizon: a reported risk is that of one moment, severities never drop,  *)
(* and a host that is known is passed over only for the limits.            *)
(***************************************************************************)
EXTENDS TlsCheck, FiniteSetTheorems, WellFoundedInduction, TLAPS

(* Time only moves on: the readings of the clock are in its past, and a    *)
(* report is not of a later moment than the last of them.                  *)
Readings ==
  /\ reading <= clock
  /\ report # None => report.at <= reading

(* What the check knows when it asks for the severity is what its last     *)
(* reading tells of the certificate it holds.                              *)
Answers ==
  /\ step = "days_until_expiry" => ~expired
  /\ step = "severity" =>
       IF expired
       THEN LeftAt(cert, reading) < 0 /\ days_left = None
       ELSE days_left = LeftAt(cert, reading)

CheckInv == TypeOK /\ Readings /\ Answers /\ RiskOfOneMoment /\ PassedOverForLimits

(* The severity of the answers of one reading is the risk at that moment.  *)
LEMMA SeverityIsRisk ==
  ASSUME NEW c \in Certificate, NEW t \in 0..MaxTime, NEW days, NEW is_expired \in BOOLEAN,
         IF is_expired THEN LeftAt(c, t) < 0 /\ days = None ELSE days = LeftAt(c, t)
  PROVE  LET r == SeverityForExpiryAndTrust(days, is_expired, c.self_signed)
         IN r \in Risks /\ IsRiskAt(r, c, t)
<1> DEFINE r == SeverityForExpiryAndTrust(days, is_expired, c.self_signed)
<1> DEFINE left == LeftAt(c, t)
<1>1. left \in Int /\ c.self_signed \in BOOLEAN /\ None \notin Int
  BY TlsAssumption DEF Certificate, LeftAt
<1>2. HighDays \in Nat /\ MediumDays \in Nat /\ HighDays < MediumDays /\ 0 < HighDays
  BY TlsAssumption
<1>3. \A s \in {"critical", "high", "medium"} : s # None
  BY TlsAssumption
<1>4. "self_signed" # None /\ "expires_within_30_days" # None
  BY TlsAssumption
<1>5. is_expired \/ Within(days, 0) <=> left <= 0
  BY <1>1 DEF Within
<1>6. left > 0 => /\ Within(days, HighDays) <=> left <= HighDays
                  /\ Within(days, MediumDays) <=> left <= MediumDays
  BY <1>1, <1>2 DEF Within
<1> HIDE DEF left
<1>7. CASE left <= 0
  <2>1. r = Risk("critical", "expired")
    BY <1>5, <1>7 DEF SeverityForExpiryAndTrust
  <2> QED BY <2>1, <1>1, <1>2, <1>7 DEF Risk, Risks, IsRiskAt, left
<1>8. CASE left \in 1..HighDays
  <2>1. r = Risk("high", "expires_within_7_days")
    BY <1>1, <1>2, <1>5, <1>6, <1>8 DEF SeverityForExpiryAndTrust
  <2> QED BY <2>1, <1>1, <1>2, <1>8 DEF Risk, Risks, IsRiskAt, left
<1>9. CASE left \in (HighDays + 1)..MediumDays
  <2>1. r = Risk("medium", "expires_within_30_days")
    BY <1>1, <1>2, <1>5, <1>6, <1>9 DEF SeverityForExpiryAndTrust
  <2> QED BY <2>1, <1>1, <1>2, <1>9 DEF Risk, Risks, IsRiskAt, left
<1>10. CASE left > MediumDays
  <2>1. r = IF c.self_signed THEN Risk("medium", "self_signed") ELSE Sound
    BY <1>1, <1>2, <1>5, <1>6, <1>10 DEF SeverityForExpiryAndTrust
  <2> QED BY <2>1, <1>1, <1>2, <1>3, <1>4, <1>10 DEF Risk, Sound, Risks, IsRiskAt, left
<1> QED BY <1>1, <1>2, <1>7, <1>8, <1>9, <1>10

(* A certificate is worth no more, and ranks no lower, at a later moment.  *)
LEMMA RiskGrows ==
  ASSUME NEW c \in Certificate, NEW t \in 0..MaxTime, NEW u \in 0..MaxTime, t <= u,
         NEW r \in Risks, NEW q \in Risks, IsRiskAt(r, c, t), IsRiskAt(q, c, u)
  PROVE  Rank(q) >= Rank(r)
<1>1. LeftAt(c, t) \in Int /\ LeftAt(c, u) \in Int /\ LeftAt(c, u) <= LeftAt(c, t)
  BY DEF Certificate, LeftAt
<1>2. HighDays \in Nat /\ MediumDays \in Nat /\ HighDays < MediumDays
  BY TlsAssumption
<1>3. \A s \in {"critical", "high", "medium"} : s # None
  BY TlsAssumption
<1>4. "self_signed" # None /\ "expires_within_30_days" # None
  BY TlsAssumption
<1>5. \A p \in Risks : Rank(p) \in 0..3
  BY <1>3 DEF Risks, Risk, Sound, Rank
<1>6. CASE q.severity = "critical"
  BY <1>5, <1>6 DEF Rank
<1>7. CASE q.severity = "high"
  <2>1. r.severity # "critical"
    BY <1>1, <1>2, <1>7 DEF IsRiskAt
  <2> QED BY <2>1, <1>3, <1>7 DEF Risks, Risk, Sound, Rank
<1>8. CASE q.severity = "medium"
  <2>1. r.severity # "critical" /\ r.severity # "high"
    BY <1>1, <1>2, <1>4, <1>8 DEF IsRiskAt, Risks, Risk, Sound
  <2> QED BY <2>1, <1>3, <1>8 DEF Risks, Risk, Sound, Rank
<1>9. CASE q = Sound
  <2>1. LeftAt(c, u) > MediumDays /\ ~c.self_signed
    BY <1>1, <1>2, <1>3, <1>4, <1>9 DEF IsRiskAt, Sound, Risk
  <2>2. r = Sound
    BY <2>1, <1>1, <1>2 DEF IsRiskAt, Risks, Risk
  <2> QED BY <2>2, <1>5, <1>9
<1> QED BY <1>6, <1>7, <1>8, <1>9 DEF Risks, Risk

(* Sets of names are finite, and their sizes are numbers.                  *)
LEMMA NamesAreFinite ==
  ASSUME NEW names \in SUBSET Names
  PROVE  IsFiniteSet(names) /\ Cardinality(names) \in Nat
BY HostsAssumption, FS_Subset, FS_CardinalityType

(* If the hosts of a scan, before they are cut, leave the endpoint out or  *)
(* have it cut off, then one of the limits is the reason; without names    *)
(* that are discovered there is nothing to cut off.                        *)
LEMMA LimitsAreReasons ==
  ASSUME NEW discovered \in SUBSET Names, NEW assets \in SUBSET Names,
         NEW rows \in Rows(assets), NEW support,
         support = Apex \cup discovered \cup rows, Endpoint \notin Cut(support)
  PROVE  /\ support \subseteq Names
         /\ Endpoint \notin support =>
              /\ Endpoint \notin Apex
              /\ Endpoint \in assets => Cardinality(assets) > MaxRows
         /\ Endpoint \in support => Cardinality(Before(Endpoint, support)) >= MaxHosts
         /\ discovered = {} => Endpoint \notin support
<1>1. rows \subseteq assets /\ Cardinality(rows) <= MaxRows
      /\ (rows = assets \/ Cardinality(rows) = MaxRows)
  BY DEF Rows
<1>2. support \subseteq Names
  BY <1>1, HostsAssumption DEF Apex
<1>3. MaxRows \in Nat /\ MaxHosts \in Nat /\ MaxRows + 2 <= MaxHosts
  BY HostsAssumption
<1>4. ASSUME Endpoint \notin support
      PROVE  /\ Endpoint \notin Apex
             /\ Endpoint \in assets => Cardinality(assets) > MaxRows
  <2> SUFFICES ASSUME Endpoint \in assets PROVE Cardinality(assets) > MaxRows
    BY <1>4
  <2>1. rows # assets
    BY <1>4
  <2>2. Cardinality(rows) = MaxRows
    BY <1>1, <2>1
  <2>3. Cardinality(rows) < Cardinality(assets)
    BY <1>1, <2>1, NamesAreFinite, FS_Subset
  <2> QED BY <2>2, <2>3, <1>3, NamesAreFinite
<1>5. ASSUME Endpoint \in support
      PROVE  Cardinality(Before(Endpoint, support)) >= MaxHosts
  <2>1. ~(Cardinality(Before(Endpoint, support)) < MaxHosts)
    BY <1>5 DEF Cut
  <2>2. Before(Endpoint, support) \in SUBSET Names
    BY <1>2 DEF Before
  <2> QED BY <2>1, <2>2, <1>3, NamesAreFinite
<1>6. ASSUME discovered = {}, Endpoint \in support
      PROVE  FALSE
  <2> DEFINE before == Before(Endpoint, support)
  <2>1. before \subseteq support /\ Endpoint \notin before
    <3>1. Endpoint \in Int
      BY HostsAssumption
    <3> QED BY <3>1 DEF Before
  <2>2. support = Apex \cup rows
    BY <1>6
  <2>3. IsFiniteSet(Apex) /\ Cardinality(Apex) = 2
    <3>1. IsFiniteSet({Domain}) /\ Cardinality({Domain}) = 1
      BY FS_Singleton
    <3>2. Apex = {Domain} \cup {Www} /\ Www \notin {Domain}
      BY HostsAssumption DEF Apex
    <3>3. IsFiniteSet({Domain} \cup {Www})
          /\ Cardinality({Domain} \cup {Www}) = Cardinality({Domain}) + 1
      BY <3>1, <3>2, FS_AddElement
    <3> QED BY <3>1, <3>2, <3>3
  <2>4. IsFiniteSet(rows) /\ Cardinality(rows) \in Nat
    BY <1>1, NamesAreFinite
  <2>5. Cardinality(support) <= 2 + Cardinality(rows)
    <3>1. Cardinality(Apex \cap rows) \in Nat
      BY <2>4, FS_Intersection, FS_CardinalityType
    <3>2. Cardinality(Apex \cup rows)
            = Cardinality(Apex) + Cardinality(rows) - Cardinality(Apex \cap rows)
      BY <2>3, <2>4, FS_Union
    <3>3. Cardinality(support) = 2 + Cardinality(rows) - Cardinality(Apex \cap rows)
      BY <2>2, <2>3, <3>2
    <3> DEFINE both == Cardinality(Apex \cap rows)
               size == Cardinality(rows)
    <3>4. both \in Nat /\ size \in Nat /\ Cardinality(support) = 2 + size - both
      BY <2>4, <3>1, <3>3
    <3> HIDE DEF both, size
    <3>5. Cardinality(support) <= 2 + size
      BY <3>4
    <3> QED BY <3>5 DEF size
  <2>6. Cardinality(before) < Cardinality(support)
    BY <1>2, <1>6, <2>1, NamesAreFinite, FS_Subset
  <2>7. Cardinality(before) \in Nat /\ Cardinality(support) \in Nat
    BY <1>2, <2>1, NamesAreFinite
  <2>8. Cardinality(before) >= MaxHosts
    BY <1>5, <1>6
  <2> HIDE DEF before
  <2> QED BY <1>1, <1>3, <2>4, <2>5, <2>6, <2>7, <2>8
<1> QED BY <1>2, <1>4, <1>5, <1>6

(* The choice of the hosts of a scan leaves the endpoint out only for the  *)
(* limits.                                                                 *)
LEMMA HostsOfScan ==
  ASSUME TypeOK, NEW discovered \in SUBSET Names, NEW type \in {"tls", "full"},
         type = "tls" => discovered = {},
         inventory' \in SUBSET Names, SupportHostnames(discovered, inventory', type)
  PROVE  /\ hosts' \subseteq Names /\ scan_type' \in {"none", "tls", "full"}
         /\ step' \in {"resolve", "passed over"}
         /\ PassedOverForLimits'
<1>1. PICK rows \in Rows(inventory') :
        LET support == Apex \cup discovered \cup rows
        IN \/ /\ Endpoint \in Cut(support)
              /\ step' = "resolve" /\ UNCHANGED <<hosts, scan_type>>
           \/ /\ Endpoint \notin Cut(support)
              /\ step' = "passed over" /\ hosts' = support /\ scan_type' = type
  BY DEF SupportHostnames
<1> DEFINE support == Apex \cup discovered \cup rows
<1>2. CASE Endpoint \in Cut(support)
  <2>1. step' = "resolve" /\ UNCHANGED <<hosts, scan_type>>
    BY <1>1, <1>2
  <2> QED BY <2>1 DEF TypeOK, PassedOverForLimits
<1>3. CASE Endpoint \notin Cut(support)
  <2>1. step' = "passed over" /\ hosts' = support /\ scan_type' = type
    BY <1>1, <1>3
  <2>2. /\ support \subseteq Names
        /\ Endpoint \notin support =>
             /\ Endpoint \notin Apex
             /\ Endpoint \in inventory' => Cardinality(inventory') > MaxRows
        /\ Endpoint \in support => Cardinality(Before(Endpoint, support)) >= MaxHosts
        /\ discovered = {} => Endpoint \notin support
    BY <1>3, LimitsAreReasons
  <2> HIDE DEF support
  <2>3. PassedOverForLimits'
    BY <2>1, <2>2 DEF PassedOverForLimits
  <2> QED BY <2>1, <2>2, <2>3
<1> QED BY <1>2, <1>3

(* The check of a scan that has not begun has nothing to answer for.       *)
LEMMA CheckInit == Init => CheckInv
<1> SUFFICES ASSUME Init PROVE CheckInv
  OBVIOUS
<1>1. TypeOK
  <2>1. 0 \in 0..MaxTime
    BY TlsAssumption
  <2> QED BY <2>1 DEF Init, TypeOK
<1>2. Readings /\ Answers /\ RiskOfOneMoment /\ PassedOverForLimits
  BY DEF Init, Readings, Answers, RiskOfOneMoment, PassedOverForLimits
<1> QED BY <1>1, <1>2 DEF CheckInv

(* A report is of a moment of the clock.                                   *)
LEMMA Moment == TypeOK /\ report # None => report.at \in 0..MaxTime
BY DEF TypeOK, Report

(* Every step of the check and of the world keeps the invariant.           *)
LEMMA CheckStep == CheckInv /\ [Next]_vars => CheckInv'
<1> SUFFICES ASSUME CheckInv, [Next]_vars PROVE CheckInv'
  OBVIOUS
<1>0. /\ TypeOK /\ Readings /\ Answers /\ RiskOfOneMoment /\ PassedOverForLimits
      /\ clock \in 0..MaxTime /\ reading \in 0..MaxTime /\ reading <= clock
      /\ cert \in Certificate /\ cert.not_after \in 0..MaxTime
  BY DEF CheckInv, TypeOK, Readings, Certificate
<1>1. CASE Tick
  <2>1. clock' \in 0..MaxTime /\ reading <= clock'
    BY <1>0, <1>1, TlsAssumption DEF Tick
  <2>2. UNCHANGED <<served, selection, step, cert, expired, days_left, reading, report>>
    BY <1>1 DEF Tick
  <2>3. TypeOK' /\ Readings'
    BY <1>0, <2>1, <2>2 DEF TypeOK, Readings, selection
  <2>4. Answers' /\ RiskOfOneMoment' /\ PassedOverForLimits'
    BY <1>0, <2>2 DEF Answers, RiskOfOneMoment, PassedOverForLimits, selection
  <2> QED BY <2>3, <2>4 DEF CheckInv
<1>2. CASE Renew
  <2>1. TypeOK' /\ Readings' /\ Answers'
    BY <1>0, <1>2 DEF Renew, TypeOK, Readings, Answers, selection
  <2>2. RiskOfOneMoment' /\ PassedOverForLimits'
    BY <1>0, <1>2 DEF Renew, RiskOfOneMoment, PassedOverForLimits, selection
  <2> QED BY <2>1, <2>2 DEF CheckInv
<1>3. CASE BeginTlsScan \/ SubdomainPass
  <2>1. /\ hosts' \subseteq Names /\ scan_type' \in {"none", "tls", "full"}
        /\ step' \in {"resolve", "passed over"}
        /\ PassedOverForLimits' /\ inventory' \subseteq Names
    <3>1. CASE BeginTlsScan
      <4>1. inventory' \in SUBSET Names /\ inventory' = inventory
        BY <1>0, <3>1 DEF BeginTlsScan, TypeOK
      <4>2. SupportHostnames({}, inventory', "tls")
        BY <3>1, <4>1 DEF BeginTlsScan
      <4> QED BY <1>0, <4>1, <4>2, HostsOfScan
    <3>2. CASE SubdomainPass
      <4>1. PICK discovered \in SUBSET Names :
              /\ inventory' = inventory \cup (discovered \ ({Domain} \cup Elsewhere))
              /\ SupportHostnames(discovered, inventory', "full")
        BY <3>2 DEF SubdomainPass
      <4>2. inventory' \in SUBSET Names
        BY <1>0, <4>1 DEF TypeOK
      <4> QED BY <1>0, <4>1, <4>2, HostsOfScan
    <3> QED BY <1>3, <3>1, <3>2
  <2>2. UNCHANGED <<clock, served, cert, expired, days_left, reading, report>>
    BY <1>3 DEF BeginTlsScan, SubdomainPass
  <2>3. TypeOK' /\ Readings'
    BY <1>0, <2>1, <2>2 DEF TypeOK, Readings
  <2>4. Answers' /\ RiskOfOneMoment'
    BY <1>0, <2>1, <2>2 DEF Answers, RiskOfOneMoment
  <2> QED BY <2>1, <2>3, <2>4 DEF CheckInv
<1>4. CASE BeginFullScan \/ SubdomainPassRaises \/ PassOver \/ ResolveAddresses
  <2>1. /\ step' \in {"idle", "crt.sh", "verified handshake"} /\ inventory' = inventory
        /\ hosts' \subseteq Names /\ scan_type' \in {"none", "tls", "full"}
        /\ UNCHANGED <<clock, served, cert, expired, days_left, reading, report>>
    BY <1>0, <1>4 DEF BeginFullScan, SubdomainPassRaises, PassOver, ResolveAddresses,
       TypeOK, selection
  <2>2. TypeOK' /\ Readings'
    BY <1>0, <2>1 DEF TypeOK, Readings
  <2>3. Answers' /\ RiskOfOneMoment' /\ PassedOverForLimits'
    BY <1>0, <2>1 DEF Answers, RiskOfOneMoment, PassedOverForLimits
  <2> QED BY <2>2, <2>3 DEF CheckInv
<1>5. CASE VerifiedHandshake \/ FallbackHandshake
  <2>1. /\ step' \in {"idle", "fallback handshake", "is_expired"}
        /\ cert' \in Certificate
        /\ UNCHANGED <<clock, served, selection, expired, days_left, reading, report>>
    BY <1>0, <1>5 DEF VerifiedHandshake, FallbackHandshake, TypeOK
  <2>2. TypeOK' /\ Readings'
    BY <1>0, <2>1 DEF TypeOK, Readings, selection
  <2>3. Answers' /\ RiskOfOneMoment' /\ PassedOverForLimits'
    BY <1>0, <2>1 DEF Answers, RiskOfOneMoment, PassedOverForLimits
  <2> QED BY <2>2, <2>3 DEF CheckInv
<1>6. CASE IsExpired
  <2>1. expired' = (cert.not_after < clock) /\ reading' = clock /\ days_left' = None
    BY <1>6 DEF IsExpired
  <2>2. expired' \in BOOLEAN /\ (expired' => cert.not_after < clock)
    <3>1. CASE cert.not_after < clock
      BY <2>1, <3>1
    <3>2. CASE ~(cert.not_after < clock)
      <4>1. (cert.not_after < clock) = FALSE
        BY <3>2
      <4> QED BY <4>1, <2>1
    <3> QED BY <3>1, <3>2
  <2>3. expired' => LeftAt(cert, clock) < 0
    BY <1>0, <2>2 DEF LeftAt
  <2>4. UNCHANGED <<clock, served, selection, cert, report>>
    BY <1>6 DEF IsExpired
  <2>5. step' = IF expired' THEN "severity" ELSE "days_until_expiry"
    BY <1>6 DEF IsExpired
  <2>6. TypeOK'
    BY <1>0, <2>1, <2>2, <2>4, <2>5 DEF TypeOK, selection
  <2>7. Readings' /\ RiskOfOneMoment'
    BY <1>0, <2>1, <2>4, Moment DEF Readings, RiskOfOneMoment
  <2>8. Answers'
    BY <2>1, <2>3, <2>4, <2>5 DEF Answers
  <2>9. PassedOverForLimits'
    BY <2>5 DEF PassedOverForLimits
  <2> QED BY <2>6, <2>7, <2>8, <2>9 DEF CheckInv
<1>7. CASE DaysUntilExpiry
  <2>1. /\ days_left' = LeftAt(cert, clock) /\ reading' = clock /\ step' = "severity"
        /\ UNCHANGED <<clock, served, selection, cert, expired, report>> /\ ~expired
    BY <1>0, <1>7 DEF DaysUntilExpiry, LeftAt, Answers
  <2>2. days_left' \in -MaxTime..MaxTime
    BY <1>0, <2>1, TlsAssumption DEF LeftAt
  <2>3. TypeOK'
    BY <1>0, <2>1, <2>2 DEF TypeOK, selection
  <2>4. Readings' /\ RiskOfOneMoment'
    BY <1>0, <2>1, Moment DEF Readings, RiskOfOneMoment
  <2>5. Answers' /\ PassedOverForLimits'
    BY <2>1 DEF Answers, PassedOverForLimits
  <2> QED BY <2>3, <2>4, <2>5 DEF CheckInv
<1>8. CASE Severity
  <2> DEFINE r == SeverityForExpiryAndTrust(days_left, expired, cert.self_signed)
  <2>1. r \in Risks /\ IsRiskAt(r, cert, reading)
    BY <1>0, <1>8, SeverityIsRisk DEF Severity, TypeOK, Answers
  <2> HIDE DEF r
  <2>2. report' = [cert |-> cert, at |-> reading, risk |-> r]
    BY <1>8 DEF Severity, r
  <2>3. report' \in Report
    BY <1>0, <2>1, <2>2 DEF Report
  <2>4. /\ step' = "idle" /\ expired' = FALSE /\ days_left' = None
        /\ UNCHANGED <<clock, served, selection, cert, reading>>
    BY <1>8 DEF Severity
  <2>5. RiskOfOneMoment'
    BY <2>1, <2>2 DEF RiskOfOneMoment, IsRiskAt, LeftAt
  <2>6. TypeOK'
    BY <1>0, <2>3, <2>4 DEF TypeOK, selection
  <2>7. Readings'
    BY <1>0, <2>2, <2>4 DEF Readings
  <2>8. Answers' /\ PassedOverForLimits'
    BY <2>4 DEF Answers, PassedOverForLimits
  <2> QED BY <2>5, <2>6, <2>7, <2>8 DEF CheckInv
<1>9. CASE UNCHANGED vars
  <2>1. TypeOK' /\ Readings' /\ Answers'
    BY <1>0, <1>9 DEF vars, selection, TypeOK, Readings, Answers
  <2>2. RiskOfOneMoment' /\ PassedOverForLimits'
    BY <1>0, <1>9 DEF vars, selection, RiskOfOneMoment, PassedOverForLimits
  <2> QED BY <2>1, <2>2 DEF CheckInv
<1> QED BY <1>1, <1>2, <1>3, <1>4, <1>5, <1>6, <1>7, <1>8, <1>9 DEF Next

(* The inductive invariant of the check.                                   *)
THEOREM CheckInvariant == Spec => []CheckInv
BY CheckInit, CheckStep, PTL DEF Spec

(* Every variable has its type; a finding has both a severity and a        *)
(* reason.                                                                 *)
THEOREM TypeCorrect == Spec => []TypeOK
<1>1. CheckInv => TypeOK
  BY DEF CheckInv
<1> QED BY <1>1, CheckInvariant, PTL

(* Although the clock is read twice and the certificate may expire or be   *)
(* renewed meanwhile, the reported risk is that of the last reading.       *)
THEOREM RisksAreOfOneMoment == Spec => []RiskOfOneMoment
<1>1. CheckInv => RiskOfOneMoment
  BY DEF CheckInv
<1> QED BY <1>1, CheckInvariant, PTL

(* A scan passes a host over that it knows only because of the limits on   *)
(* rows and hosts; a TLS scan never passes over the domain.                *)
THEOREM LimitsOnly == Spec => []PassedOverForLimits
<1>1. CheckInv => PassedOverForLimits
  BY DEF CheckInv
<1> QED BY <1>1, CheckInvariant, PTL

(* The severity of a certificate that stays in place never drops.          *)
THEOREM SeveritiesNeverDrop == Spec => SeverityNeverDrops
<1>1. CheckInv /\ CheckInv' /\ [Next]_vars =>
        [report # None /\ report'.cert = report.cert
           => Rank(report'.risk) >= Rank(report.risk)]_report
  <2> SUFFICES ASSUME CheckInv, CheckInv', [Next]_vars, report' # report,
                      report # None, report'.cert = report.cert
               PROVE  Rank(report'.risk) >= Rank(report.risk)
    OBVIOUS
  <2>1. Severity
    BY DEF Next, vars, Tick, Renew, BeginTlsScan, BeginFullScan, SubdomainPass,
           SubdomainPassRaises, PassOver, ResolveAddresses, VerifiedHandshake,
           FallbackHandshake, IsExpired, DaysUntilExpiry
  <2> DEFINE r == SeverityForExpiryAndTrust(days_left, expired, cert.self_signed)
  <2>2. r \in Risks /\ IsRiskAt(r, cert, reading)
    BY <2>1, SeverityIsRisk DEF Severity, CheckInv, TypeOK, Answers
  <2> HIDE DEF r
  <2>3. report' = [cert |-> cert, at |-> reading, risk |-> r]
    BY <2>1 DEF Severity, r
  <2>4. report \in Report /\ IsRiskAt(report.risk, report.cert, report.at)
    BY DEF CheckInv, TypeOK, RiskOfOneMoment
  <2>5. report.cert = cert /\ report.at <= reading /\ reading \in 0..MaxTime
    BY <2>3 DEF CheckInv, Readings, TypeOK
  <2>6. /\ cert \in Certificate /\ report.at \in 0..MaxTime
        /\ report.risk \in Risks
    BY <2>4, <2>5 DEF Report
  <2>7. Rank(r) >= Rank(report.risk)
    BY <2>2, <2>4, <2>5, <2>6, RiskGrows
  <2> QED BY <2>3, <2>7
<1> QED BY <1>1, CheckInvariant, PTL DEF Spec, SeverityNeverDrops
-----------------------------------------------------------------------------
(* A host in reach.                                                        *)

(* What a scan looks at are names of the domain, assets of the domain by   *)
(* now, or assets of another one.                                          *)
HostsInv == step = "passed over" => hosts \subseteq Apex \cup inventory \cup Elsewhere

(* The hosts of a scan come from these sources, as all that it discovers   *)
(* is an asset afterwards.                                                 *)
LEMMA HostsAreKnown ==
  ASSUME NEW discovered \in SUBSET Names, NEW type,
         discovered \ ({Domain} \cup Elsewhere) \subseteq inventory',
         SupportHostnames(discovered, inventory', type)
  PROVE  HostsInv'
<1>1. PICK rows \in Rows(inventory') :
        step' = "passed over" => hosts' = Apex \cup discovered \cup rows
  BY DEF SupportHostnames
<1>2. rows \subseteq inventory'
  BY DEF Rows
<1> QED BY <1>1, <1>2 DEF HostsInv, Apex

(* Every step keeps to these sources.                                      *)
LEMMA HostsStep == CheckInv /\ HostsInv /\ [Next]_vars => HostsInv'
<1> SUFFICES ASSUME CheckInv, HostsInv, [Next]_vars PROVE HostsInv'
  OBVIOUS
<1>1. CASE BeginTlsScan
  <2>1. inventory' = inventory
    BY <1>1 DEF BeginTlsScan
  <2>2. SupportHostnames({}, inventory', "tls")
    BY <1>1, <2>1 DEF BeginTlsScan
  <2> QED BY <2>2, HostsAreKnown
<1>2. CASE SubdomainPass
  <2>1. PICK discovered \in SUBSET Names :
          /\ inventory' = inventory \cup (discovered \ ({Domain} \cup Elsewhere))
          /\ SupportHostnames(discovered, inventory', "full")
    BY <1>2 DEF SubdomainPass
  <2> QED BY <2>1, HostsAreKnown
<1>3. CASE Tick \/ Renew \/ UNCHANGED vars
  BY <1>3 DEF Tick, Renew, vars, selection, HostsInv
<1>4. CASE \/ BeginFullScan \/ SubdomainPassRaises
           \/ PassOver \/ ResolveAddresses \/ VerifiedHandshake \/ FallbackHandshake
           \/ IsExpired \/ DaysUntilExpiry \/ Severity
  <2>1. step' # "passed over"
    BY <1>4 DEF BeginFullScan, SubdomainPassRaises, PassOver, ResolveAddresses,
                VerifiedHandshake, FallbackHandshake, IsExpired, DaysUntilExpiry, Severity
  <2> QED BY <2>1 DEF HostsInv
<1> QED BY <1>1, <1>2, <1>3, <1>4 DEF Next

(* Neither of the limits can be what leaves out a host in reach.           *)
LEMMA NoLimitIsReached ==
  ASSUME TypeOK, InReach, hosts \subseteq Apex \cup inventory \cup Elsewhere
  PROVE  IF Endpoint \in hosts
         THEN ~(Cardinality(Before(Endpoint, hosts)) >= MaxHosts)
         ELSE Endpoint \in Apex \/ (Endpoint \in inventory /\ ~(Cardinality(inventory) > MaxRows))
<1>1. CASE Endpoint \notin hosts
  <2>1. inventory \in SUBSET Names /\ MaxRows \in Nat
    BY HostsAssumption DEF TypeOK
  <2> DEFINE rows == Cardinality(inventory)
  <2>2. rows \in Nat
    BY <2>1, NamesAreFinite
  <2>3. Endpoint \in Apex \/ (Endpoint \in inventory /\ rows <= MaxRows)
    BY DEF InReach
  <2> HIDE DEF rows
  <2>4. Endpoint \in Apex \/ (Endpoint \in inventory /\ ~(rows > MaxRows))
    BY <2>1, <2>2, <2>3
  <2> QED BY <1>1, <2>4 DEF rows
<1>2. CASE Endpoint \in hosts
  <2> DEFINE all == Apex \cup inventory \cup Elsewhere
             known == Before(Endpoint, all)
             before == Before(Endpoint, hosts)
             m == Cardinality(before)
             n == Cardinality(known)
  <2>1. before \subseteq known /\ known \subseteq all
    BY DEF Before
  <2>2. IsFiniteSet(all)
    <3>1. Apex \cup inventory \in SUBSET Names
      BY HostsAssumption DEF Apex, TypeOK
    <3> QED BY <3>1, NamesAreFinite, HostsAssumption, FS_Union
  <2>3. n < MaxHosts
    BY DEF InReach
  <2> HIDE DEF before, known, all
  <2>4. IsFiniteSet(known)
    BY <2>1, <2>2, FS_Subset
  <2>5. m \in Nat /\ n \in Nat /\ m <= n /\ MaxHosts \in Nat
    BY <2>1, <2>4, FS_Subset, FS_CardinalityType, HostsAssumption
  <2> HIDE DEF m, n
  <2>6. ~(m >= MaxHosts)
    BY <2>3, <2>5
  <2> QED BY <1>2, <2>6 DEF m, before
<1> QED BY <1>1, <1>2

(* A host in reach is looked at by every scan, whatever rows the inventory *)
(* answers and whatever names crt.sh returns: what ExpiryReported builds   *)
(* on.                                                                     *)
THEOREM ReachIsLookedAt == Spec => [](InReach => step # "passed over")
<1>1. Init => HostsInv
  BY DEF Init, HostsInv
<1>2. CheckInv /\ HostsInv => (InReach => step # "passed over")
  BY NoLimitIsReached DEF CheckInv, HostsInv, PassedOverForLimits
<1> QED BY <1>1, <1>2, HostsStep, CheckInvariant, PTL DEF Spec
-----------------------------------------------------------------------------
(* The cut.                                                                *)

(* There is a least number in a set of numbers.                            *)
LEMMA HasLeast ==
  ASSUME NEW T \in SUBSET Nat, T # {}
  PROVE  \E n \in T : \A m \in T : n <= m
<1> DEFINE Less == {p \in Nat \X Nat : p[1] < p[2]}
<1>1. IsWellFoundedOn(Less, Nat)
  BY NatLessThanWellFounded, Zenon DEF OpToRel
<1>2. \A m, n \in Nat : m < n => <<m, n>> \in Less
  OBVIOUS
<1> HIDE DEF Less
<1>3. PICK n \in T : \A m \in T : ~(<<m, n>> \in Less)
  BY <1>1, WFMin
<1>4. ASSUME NEW m \in T PROVE n <= m
  <2>1. ~(m < n)
    BY <1>2, <1>3, Zenon
  <2> QED BY <2>1
<1> QED BY <1>4

(* Cut is what sorting the names and taking the first MaxHosts of them     *)
(* gives: at most so many names, all of them or exactly so many, and none  *)
(* that comes after one that is left out.                                  *)
THEOREM CutTakesTheFirst ==
  ASSUME NEW names \in SUBSET Names
  PROVE  /\ Cardinality(Cut(names)) <= MaxHosts
         /\ Cut(names) = names \/ Cardinality(Cut(names)) = MaxHosts
         /\ \A n \in Cut(names), m \in names \ Cut(names) : n < m
<1> DEFINE rank(n) == Cardinality(Before(n, names))
<1>0. /\ names \subseteq Int /\ MaxHosts \in Nat
      /\ Cut(names) \subseteq names
      /\ \A n \in names : n \in Cut(names) <=> rank(n) < MaxHosts
  BY HostsAssumption DEF Cut
<1>1. ASSUME NEW n \in names
      PROVE  Before(n, names) \in SUBSET Names /\ rank(n) \in Nat /\ n \notin Before(n, names)
  <2>1. Before(n, names) \in SUBSET Names
    BY DEF Before
  <2>2. n \notin Before(n, names)
    <3>1. n \in Int
      BY <1>0
    <3>2. ~(n < n)
      BY <3>1
    <3> QED BY <3>2 DEF Before
  <2> QED BY <2>1, <2>2, NamesAreFinite
<1>2. ASSUME NEW n \in names, NEW m \in names, n < m
      PROVE  rank(n) < rank(m)
  <2>1. n \in Before(m, names)
    BY <1>2 DEF Before
  <2>2. ASSUME NEW x \in Before(n, names) PROVE x \in Before(m, names)
    <3>1. x \in names /\ x < n
      BY DEF Before
    <3>2. x \in Int /\ n \in Int /\ m \in Int
      BY <1>0, <3>1
    <3>3. x < m
      BY <1>2, <3>1, <3>2
    <3> QED BY <3>1, <3>3 DEF Before
  <2>3. /\ IsFiniteSet(Before(m, names)) /\ Before(n, names) \in SUBSET Before(m, names)
        /\ Before(n, names) # Before(m, names)
    BY <1>1, <2>1, <2>2, NamesAreFinite
  <2>4. rank(n) <= rank(m) /\ rank(n) # rank(m)
    BY <2>3, FS_Subset
  <2>5. rank(n) \in Nat /\ rank(m) \in Nat
    BY <1>1
  <2> HIDE DEF rank
  <2> QED BY <2>4, <2>5
<1>3. \A n \in Cut(names), m \in names \ Cut(names) : n < m
  <2> SUFFICES ASSUME NEW n \in Cut(names), NEW m \in names \ Cut(names), ~(n < m)
               PROVE  FALSE
    OBVIOUS
  <2>1. m < n
    <3>1. m \in Int /\ n \in Int /\ m # n
      BY <1>0
    <3> QED BY <3>1
  <2>2. rank(m) < rank(n) /\ rank(n) < MaxHosts /\ ~(rank(m) < MaxHosts)
    BY <1>0, <1>2, <2>1
  <2>3. rank(m) \in Nat /\ rank(n) \in Nat
    BY <1>0, <1>1
  <2> HIDE DEF rank
  <2> QED BY <1>0, <2>2, <2>3
<1>4. Cut(names) \in SUBSET Names /\ Cardinality(Cut(names)) \in Nat
  BY <1>0, NamesAreFinite
<1>5. Cardinality(Cut(names)) <= MaxHosts
  <2>1. CASE Cut(names) = {}
    BY <1>0, <2>1, FS_EmptySet
  <2>2. CASE Cut(names) # {}
    <3> DEFINE T == {MaxHosts - rank(n) : n \in Cut(names)}
    <3>1. T \in SUBSET Nat /\ T # {}
      <4>1. ASSUME NEW n \in Cut(names) PROVE MaxHosts - rank(n) \in Nat
        <5>1. rank(n) \in Nat /\ rank(n) < MaxHosts
          BY <1>0, <1>1
        <5> HIDE DEF rank
        <5> QED BY <1>0, <5>1
      <4> QED BY <2>2, <4>1
    <3>2. PICK n \in Cut(names) : \A m \in Cut(names) : MaxHosts - rank(n) <= MaxHosts - rank(m)
      <4>1. PICK g \in T : \A h \in T : g <= h
        BY <3>1, HasLeast
      <4> QED BY <4>1
    <3>3. ASSUME NEW m \in Cut(names), m # n PROVE m \in Before(n, names)
      <4>1. MaxHosts - rank(n) <= MaxHosts - rank(m) /\ rank(n) \in Nat /\ rank(m) \in Nat
        BY <1>0, <1>1, <3>2
      <4>2. n < m => rank(n) < rank(m)
        BY <1>0, <1>2
      <4> HIDE DEF rank
      <4>3. ~(n < m)
        BY <1>0, <4>1, <4>2
      <4>4. m \in names /\ m \in Int /\ n \in Int
        BY <1>0
      <4>5. m < n
        BY <3>3, <4>3, <4>4
      <4> QED BY <4>4, <4>5 DEF Before
    <3>4. Cut(names) \subseteq Before(n, names) \cup {n}
      BY <3>3
    <3>5. Cardinality(Before(n, names) \cup {n}) = rank(n) + 1
          /\ IsFiniteSet(Before(n, names) \cup {n})
      BY <1>0, <1>1, NamesAreFinite, FS_AddElement
    <3>6. Cardinality(Cut(names)) <= rank(n) + 1
      BY <3>4, <3>5, FS_Subset
    <3>7. rank(n) \in Nat /\ rank(n) < MaxHosts
      BY <1>0, <1>1
    <3> HIDE DEF rank
    <3> QED BY <1>0, <1>4, <3>6, <3>7
  <2> QED BY <2>1, <2>2
<1>6. ASSUME Cut(names) # names PROVE Cardinality(Cut(names)) >= MaxHosts
  <2> DEFINE T == {rank(m) : m \in names \ Cut(names)}
  <2>1. T \in SUBSET Nat /\ T # {}
    BY <1>0, <1>1, <1>6
  <2>2. PICK m \in names \ Cut(names) : \A x \in names \ Cut(names) : rank(m) <= rank(x)
    <3>1. PICK g \in T : \A h \in T : g <= h
      BY <2>1, HasLeast
    <3> QED BY <3>1
  <2>3. Before(m, names) \subseteq Cut(names)
    <3>1. SUFFICES ASSUME NEW x \in names, x < m, x \notin Cut(names) PROVE FALSE
      BY DEF Before
    <3>2. rank(x) < rank(m) /\ rank(m) <= rank(x) /\ rank(x) \in Nat /\ rank(m) \in Nat
      BY <1>1, <1>2, <2>2, <3>1
    <3> HIDE DEF rank
    <3> QED BY <3>2
  <2>4. rank(m) <= Cardinality(Cut(names))
    BY <1>4, <2>3, NamesAreFinite, FS_Subset
  <2>5. ~(rank(m) < MaxHosts) /\ rank(m) \in Nat
    BY <1>0, <1>1
  <2> HIDE DEF rank
  <2> QED BY <1>0, <1>4, <2>4, <2>5
<1> DEFINE size == Cardinality(Cut(names))
<1>7. size <= MaxHosts /\ (Cut(names) # names => size >= MaxHosts) /\ size \in Nat
  BY <1>4, <1>5, <1>6
<1> HIDE DEF size
<1>8. size <= MaxHosts /\ (Cut(names) = names \/ size = MaxHosts)
  BY <1>0, <1>7
<1> QED BY <1>3, <1>8 DEF size
=============================================================================
