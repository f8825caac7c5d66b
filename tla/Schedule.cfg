CONSTANTS
  d1 = d1
  d2 = d2
  d3 = d3
  Domains = {d1, d2, d3}
  Interval = 2
  Limit = 2
  MaxMisses = 2
SPECIFICATION FairSpec
INVARIANTS
  TypeOK
  BoundedGap
PROPERTIES
  EveryDomainScanned
