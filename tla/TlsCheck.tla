------------------------------ MODULE TlsCheck ------------------------------
(***************************************************************************)
(* The check of one TLS endpoint, scan after scan: the choice of the hosts *)
(* that a scan looks at, a verifying handshake, one that verifies nothing  *)
(* if that fails, two readings of the clock, and the risk of the           *)
(* certificate.  The endpoint may change its certificate, and time passes, *)
(* between any two of these steps.  The scans are those of one domain; a   *)
(* host name is its place in the sort order.                               *)
(***************************************************************************)
EXTENDS Integers, FiniteSets

CONSTANTS
  Names,         \* the domain and names below it
  Domain,        \* the name of the domain
  Www,           \* the same with www. before it
  Elsewhere,     \* names that are assets of another domain of the organization
  Endpoint,      \* the name whose endpoint is followed
  MaxRows,       \* 40 in _support_hostnames
  MaxHosts,      \* 90 there
  HighDays,      \* 7 in severity_for_expiry_and_trust
  MediumDays,    \* 30 there
  MaxTime,       \* bound: the last moment of the clock and of validities
  MaxSerial,     \* bound: certificates the endpoint has had
  None           \* no days_left, no severity, no reason, no report

ASSUME HostsAssumption ==
  /\ Names \subseteq Int /\ IsFiniteSet(Names) /\ IsFiniteSet(Elsewhere)
  /\ {Domain, Www, Endpoint} \subseteq Names /\ Domain # Www
  /\ MaxRows \in Nat /\ MaxHosts \in Nat /\ MaxRows + 2 <= MaxHosts

ASSUME TlsAssumption ==
  /\ HighDays \in Nat \ {0} /\ MediumDays \in Nat /\ HighDays < MediumDays
  /\ MaxTime \in Nat /\ MaxSerial \in Nat
  /\ None \notin Int
  /\ None \notin {"critical", "high", "medium", "expires_within_30_days", "self_signed"}

VARIABLES
  clock,         \* the time, in the unit of HighDays and MediumDays
  served,        \* the certificate of the endpoint
  inventory,     \* the subdomain assets of the domain
  hosts,         \* history: the hosts of a scan that passes the endpoint over,
  scan_type,     \* before they are cut, and its type
  step,          \* what the scan does next about the endpoint
  cert,          \* the certificate it holds (info)
  expired,       \* what is_expired said
  days_left,     \* what days_until_expiry said, or None
  reading,       \* history: when the check last read the clock
  report         \* history: the certificate of the last check that did not
                 \* skip the endpoint, its severity and reason, and its reading

selection == <<inventory, hosts, scan_type>>
vars == <<clock, served, selection, step, cert, expired, days_left, reading, report>>

Certificate == [serial : 0..MaxSerial, not_after : 0..MaxTime, self_signed : BOOLEAN]

Init ==
  /\ clock = 0
  /\ served \in {c \in Certificate : c.serial = 0}
  /\ inventory = {} /\ hosts = {} /\ scan_type = "none"
  /\ step = "idle" /\ cert = served
  /\ expired = FALSE /\ days_left = None
  /\ reading = 0 /\ report = None

-----------------------------------------------------------------------------
(* The world.                                                              *)

Tick ==
  /\ clock < MaxTime /\ clock' = clock + 1
  /\ UNCHANGED <<served, selection, step, cert, expired, days_left, reading, report>>

(* The endpoint gets another certificate.                                  *)
Renew ==
  /\ served' \in {c \in Certificate : c.serial = served.serial + 1}
  /\ UNCHANGED <<clock, selection, step, cert, expired, days_left, reading, report>>

-----------------------------------------------------------------------------
(* The hosts of a scan.                                                    *)

Apex == {Domain, Www}

\* What the query of the inventory may answer: MaxRows of the assets, or all of
\* them if there are fewer.  It asks for no order, so any of them.
Rows(assets) ==
  {rows \in SUBSET assets :
     /\ Cardinality(rows) <= MaxRows
     /\ rows = assets \/ Cardinality(rows) = MaxRows}

Before(n, names) == {m \in names : m < n}

\* Mutant of Cut: one name less.
CutShorter(names) == {n \in names : Cardinality(Before(n, names)) < MaxHosts - 1}

\* The first MaxHosts of the names.
Cut(names) == {n \in names : Cardinality(Before(n, names)) < MaxHosts}

(* What a scan looks at: the domain, the names it has discovered, and rows *)
(* of the inventory, until they are cut.  The pass goes over all of them;  *)
(* what it does about the other endpoints is no part of this module.       *)
SupportHostnames(discovered, assets, type) ==
  \E rows \in Rows(assets) :
    LET support == Apex \cup discovered \cup rows
    IN \/ /\ Endpoint \in Cut(support)
          /\ step' = "resolve" /\ UNCHANGED <<hosts, scan_type>>
       \/ /\ Endpoint \notin Cut(support)
          /\ step' = "passed over" /\ hosts' = support /\ scan_type' = type

BeginTlsScan ==
  /\ step = "idle"
  /\ SupportHostnames({}, inventory, "tls")
  /\ UNCHANGED <<clock, served, inventory, cert, expired, days_left, reading, report>>

(* A full scan asks crt.sh first.                                          *)
BeginFullScan ==
  /\ step = "idle" /\ step' = "crt.sh"
  /\ UNCHANGED <<clock, served, selection, cert, expired, days_left, reading, report>>

(* What it discovers, which is nothing if crt.sh does not answer, becomes  *)
(* an asset of the domain unless it is one of another domain.              *)
SubdomainPass ==
  /\ step = "crt.sh"
  /\ \E discovered \in SUBSET Names :
       /\ inventory' = inventory \cup (discovered \ ({Domain} \cup Elsewhere))
       /\ SupportHostnames(discovered, inventory', "full")
  /\ UNCHANGED <<clock, served, cert, expired, days_left, reading, report>>

(* An answer that is not JSON, which is no HTTPError: the whole scan fails *)
(* and looks at no host.                                                   *)
SubdomainPassRaises ==
  /\ step = "crt.sh" /\ step' = "idle"
  /\ UNCHANGED <<clock, served, selection, cert, expired, days_left, reading, report>>

PassOver ==
  /\ step = "passed over" /\ step' = "idle"
  /\ hosts' = {} /\ scan_type' = "none"
  /\ UNCHANGED <<clock, served, inventory, cert, expired, days_left, reading, report>>

-----------------------------------------------------------------------------
(* The check.                                                              *)

(* A host is skipped if a query for its addresses fails, or one of them is *)
(* unsafe; one without an address is not.                                  *)
ResolveAddresses ==
  /\ step = "resolve"
  /\ \E answer \in [{"A", "AAAA"} -> {"none", "safe", "unsafe", "error"}] :
       step' = IF \A rtype \in {"A", "AAAA"} : answer[rtype] \in {"none", "safe"}
               THEN "verified handshake" ELSE "idle"
  /\ UNCHANGED <<clock, served, selection, cert, expired, days_left, reading, report>>

(* The handshake that verifies fails for an expired certificate, and may   *)
(* fail for many other reasons, such as an issuer that is not trusted.  An *)
(* error of another class than those of SSL and sockets skips the host.    *)
VerifiedHandshake ==
  /\ step = "verified handshake"
  /\ \/ /\ clock <= served.not_after
        /\ cert' = served /\ step' = "is_expired"
     \/ cert' = cert /\ step' \in {"fallback handshake", "idle"}
  /\ UNCHANGED <<clock, served, selection, expired, days_left, reading, report>>

\* Mutant of FallbackHandshake: it refuses an expired certificate as well.
FallbackHandshakeVerified ==
  /\ step = "fallback handshake"
  /\ \/ cert' = served /\ clock <= served.not_after /\ step' = "is_expired"
     \/ cert' = cert /\ step' = "idle"
  /\ UNCHANGED <<clock, served, selection, expired, days_left, reading, report>>

(* The handshake that does not verify; if it fails too, the host is        *)
(* skipped.                                                                *)
FallbackHandshake ==
  /\ step = "fallback handshake"
  /\ \/ cert' = served /\ step' = "is_expired"
     \/ cert' = cert /\ step' = "idle"
  /\ UNCHANGED <<clock, served, selection, expired, days_left, reading, report>>

IsExpired ==
  /\ step = "is_expired"
  /\ expired' = (cert.not_after < clock) /\ reading' = clock
  /\ days_left' = None
  /\ step' = IF expired' THEN "severity" ELSE "days_until_expiry"
  /\ UNCHANGED <<clock, served, selection, cert, report>>

DaysUntilExpiry ==
  /\ step = "days_until_expiry"
  /\ days_left' = cert.not_after - clock /\ reading' = clock
  /\ step' = "severity"
  /\ UNCHANGED <<clock, served, selection, cert, expired, report>>

Risk(severity, reason) == [severity |-> severity, reason |-> reason]
Sound == Risk(None, None)

\* days_left is not None, and at most a limit.
Within(days, limit) == days # None /\ days <= limit

\* Mutants of SeverityForExpiryAndTrust: the days are not checked for expiry
\* again, the answer of is_expired is not used, a reason without a severity.
SeverityOfOneReading(days, is_expired, self_signed) ==
  IF is_expired THEN Risk("critical", "expired")
  ELSE IF Within(days, HighDays) THEN Risk("high", "expires_within_7_days")
  ELSE IF Within(days, MediumDays) THEN Risk("medium", "expires_within_30_days")
  ELSE IF self_signed THEN Risk("medium", "self_signed")
  ELSE Sound
SeverityOfDays(days, is_expired, self_signed) ==
  IF Within(days, 0) THEN Risk("critical", "expired")
  ELSE IF Within(days, HighDays) THEN Risk("high", "expires_within_7_days")
  ELSE IF Within(days, MediumDays) THEN Risk("medium", "expires_within_30_days")
  ELSE IF self_signed THEN Risk("medium", "self_signed")
  ELSE Sound
SeverityOfExpiry(days, is_expired, self_signed) ==
  IF is_expired \/ Within(days, 0) THEN Risk("critical", "expired")
  ELSE IF Within(days, HighDays) THEN Risk("high", "expires_within_7_days")
  ELSE IF Within(days, MediumDays) THEN Risk("medium", "expires_within_30_days")
  ELSE IF self_signed THEN Risk(None, "self_signed")
  ELSE Sound

SeverityForExpiryAndTrust(days, is_expired, self_signed) ==
  IF is_expired \/ Within(days, 0) THEN Risk("critical", "expired")
  ELSE IF Within(days, HighDays) THEN Risk("high", "expires_within_7_days")
  ELSE IF Within(days, MediumDays) THEN Risk("medium", "expires_within_30_days")
  ELSE IF self_signed THEN Risk("medium", "self_signed")
  ELSE Sound

(* The end of the check; a finding is created unless the severity is None. *)
Severity ==
  /\ step = "severity" /\ step' = "idle"
  /\ report' = [cert |-> cert, at |-> reading,
                risk |-> SeverityForExpiryAndTrust(days_left, expired, cert.self_signed)]
  /\ expired' = FALSE /\ days_left' = None
  /\ UNCHANGED <<clock, served, selection, cert, reading>>

Next ==
  \/ Tick \/ Renew
  \/ BeginTlsScan \/ BeginFullScan \/ SubdomainPass \/ SubdomainPassRaises
  \/ PassOver \/ ResolveAddresses
  \/ VerifiedHandshake \/ FallbackHandshake
  \/ IsExpired \/ DaysUntilExpiry \/ Severity

Spec == Init /\ [][Next]_vars

(* What the code gives: a scan goes on, since its requests, queries and    *)
(* connections have timeouts.                                              *)
Fairness ==
  WF_vars(\/ SubdomainPass \/ SubdomainPassRaises
          \/ PassOver \/ ResolveAddresses \/ VerifiedHandshake \/ FallbackHandshake
          \/ IsExpired \/ DaysUntilExpiry \/ Severity)

(* What the scheduler gives as long as the domain is not crowded out of    *)
(* its rounds, and an operator who asks for scans otherwise: a full scan   *)
(* begins again and again, whether or not it gets to its hosts.            *)
Scheduling == SF_vars(BeginFullScan)

(* What is assumed of the world.  Asked again and again, crt.sh answers    *)
(* with JSON, or not at all, again and again; an endpoint that is tried    *)
(* again and again can be reached: its addresses are found, and it serves  *)
(* its certificate.                                                        *)
Network ==
  /\ SF_vars(SubdomainPass)
  /\ SF_vars(ResolveAddresses /\ step' = "verified handshake")
  /\ SF_vars(VerifiedHandshake /\ step' # "idle")
  /\ SF_vars(FallbackHandshake /\ step' = "is_expired")

FairSpec == Spec /\ Fairness /\ Scheduling /\ Network

-----------------------------------------------------------------------------
(* Properties.                                                             *)

Risks ==
  {Sound, Risk("critical", "expired"), Risk("high", "expires_within_7_days"),
   Risk("medium", "expires_within_30_days"), Risk("medium", "self_signed")}

Report == [cert : Certificate, at : 0..MaxTime, risk : Risks]

(* The type of every variable.                                             *)
TypeOK ==
  /\ clock \in 0..MaxTime /\ served \in Certificate /\ cert \in Certificate
  /\ inventory \subseteq Names /\ hosts \subseteq Names
  /\ scan_type \in {"none", "tls", "full"}
  /\ step \in {"idle", "crt.sh", "passed over", "resolve", "verified handshake",
               "fallback handshake", "is_expired", "days_until_expiry", "severity"}
  /\ expired \in BOOLEAN /\ reading \in 0..MaxTime
  /\ days_left = None \/ days_left \in -MaxTime..MaxTime
  /\ report = None \/ report \in Report

(* The reference: r is what certificate c is worth at the one moment t.    *)
LeftAt(c, t) == c.not_after - t

IsRiskAt(r, c, t) ==
  /\ r.severity = "critical" <=> LeftAt(c, t) <= 0
  /\ r.severity = "high" <=> LeftAt(c, t) \in 1..HighDays
  /\ r.reason = "expires_within_30_days" <=> LeftAt(c, t) \in (HighDays + 1)..MediumDays
  /\ r.reason = "self_signed" <=> c.self_signed /\ LeftAt(c, t) > MediumDays

(* The check reads the clock twice, and the certificate may expire in      *)
(* between; what it reports is nevertheless what holds at one moment, that *)
(* of its last reading.                                                    *)
RiskOfOneMoment == report # None => IsRiskAt(report.risk, report.cert, report.at)

Rank(r) ==
  CASE r.severity = "critical" -> 3
    [] r.severity = "high" -> 2
    [] r.severity = "medium" -> 1
    [] OTHER -> 0

(* As long as the endpoint keeps its certificate, the severity of its      *)
(* findings never drops from one scan to the next, and a certificate that  *)
(* gave a finding never passes as sound.                                   *)
SeverityNeverDrops ==
  [][report # None /\ report'.cert = report.cert
       => Rank(report'.risk) >= Rank(report.risk)]_report
(* The limits on the rows and on the hosts of a scan are the only reasons  *)
(* for which it passes over a host that is known: the domain itself is     *)
(* looked at by every TLS scan, a subdomain unless the inventory has more  *)
(* than MaxRows of them, and only a full scan has hosts to cut off.        *)
PassedOverForLimits ==
  step = "passed over" =>
    /\ Endpoint \notin hosts =>
         /\ Endpoint \notin Apex
         /\ Endpoint \in inventory => Cardinality(inventory) > MaxRows
    /\ Endpoint \in hosts =>
         /\ scan_type = "full"
         /\ Cardinality(Before(Endpoint, hosts)) >= MaxHosts

(* No limit can keep a scan from the endpoint.                             *)
InReach ==
  /\ Endpoint \in Apex \/ (Endpoint \in inventory /\ Cardinality(inventory) <= MaxRows)
  /\ Cardinality(Before(Endpoint, Apex \cup inventory \cup Elsewhere)) < MaxHosts

IsOver == served.not_after <= clock

(* The certificate of a host in reach that has expired is reported as      *)
(* critical in the end, unless it is renewed or more names turn up: scans  *)
(* that fail at crt.sh, or skip the host, and the verifying handshake that *)
(* fails for it do not hide it, if the scheduler and the network do their  *)
(* part.                                                                   *)
ExpiryReported ==
  InReach /\ IsOver
    ~> \/ ~InReach \/ ~IsOver
       \/ report # None /\ report.cert = served /\ report.risk.severity = "critical"
=============================================================================
