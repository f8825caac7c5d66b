CONSTANTS
  Names = {1, 2, 3, 4, 5}
  Elsewhere = {1}
  Domain = 3
  Www = 4
  Endpoint = 5
  MaxRows = 2
  MaxHosts = 4
  HighDays = 1
  MediumDays = 2
  MaxTime = 4
  MaxSerial = 1
  None = None
SPECIFICATION FairSpec
INVARIANTS
  TypeOK
  RiskOfOneMoment
  PassedOverForLimits
PROPERTIES
  SeverityNeverDrops
  ExpiryReported
