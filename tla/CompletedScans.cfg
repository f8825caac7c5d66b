CONSTANTS
  d1 = d1
  s1 = s1
  s2 = s2
  r1 = r1
  Domains = {d1}
  Scans = {s1, s2}
  ScanTypes = {"full"}
  Requests = {r1}
  Scheduler = scheduler
  ScheduledScanEnabled = FALSE
  DrainLimit = 2
  ScheduleLimit = 1
  MaxFaults = 0
  MaxOutages = 0
  NoDomain = NoDomain
  NoScan = NoScan
SPECIFICATION Spec
INVARIANTS
  FailuresHaveACause
