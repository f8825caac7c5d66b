CONSTANTS
  d1 = d1
  txt = txt
  p = p
  empty = empty
  Domains = {d1}
  RecordTypes = {txt}
  RRsets = {p, empty}
  Empty = empty
  DnsScansPerDrain = 2
  MaxDrains = 2
  MaxSnapshots = 4
  NoDomain = NoDomain
SPECIFICATION Spec
INVARIANTS
  ChangedVersusPrior
