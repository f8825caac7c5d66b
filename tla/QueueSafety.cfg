CONSTANTS
  d1 = d1
  d2 = d2
  s1 = s1
  s2 = s2
  s3 = s3
  r1 = r1
  Domains = {d1, d2}
  Scans = {s1, s2, s3}
  ScanTypes = {"full"}
  Requests = {r1}
  Scheduler = scheduler
  ScheduledScanEnabled = TRUE
  DrainLimit = 2
  ScheduleLimit = 1
  MaxFaults = 1
  MaxOutages = 1
  NoDomain = NoDomain
  NoScan = NoScan
SPECIFICATION Spec
SYMMETRY Symmetry
INVARIANTS
  TypeOK
  NeverStuckRunning
  SettledOnce
  DuplicatesBounded
  SessionInv
  EnqueueInv
  DomainlessFailures
  TurnedAwayAfterOutage
  BatchInv
  BoundedWait
PROPERTIES
  OutcomeIsFinal
  LedgerSpec
