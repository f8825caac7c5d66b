CONSTANTS
  d1 = d1
  s1 = s1
  s2 = s2
  s3 = s3
  r1 = r1
  Domains = {d1}
  Scans = {s1, s2, s3}
  ScanTypes = {"full", "dns"}
  Requests = {r1}
  Scheduler = scheduler
  ScheduledScanEnabled = FALSE
  DrainLimit = 2
  ScheduleLimit = 1
  MaxFaults = 1
  MaxOutages = 1
  NoDomain = NoDomain
  NoScan = NoScan
SPECIFICATION FairSpec
INVARIANTS
  OneActiveScan
PROPERTIES
  QueuedIsSettled
