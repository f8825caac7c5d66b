CONSTANTS
  d1 = d1
  txt = txt
  mx = mx
  p = p
  empty = empty
  Domains = {d1}
  RecordTypes = {txt, mx}
  RRsets = {p, empty}
  Empty = empty
  DnsScansPerDrain = 2
  MaxDrains = 3
  MaxSnapshots = 8
  NoDomain = NoDomain
SPECIFICATION Spec
SYMMETRY Symmetry
INVARIANTS
  TypeOK
  FindingsHaveSnapshots
  ChangesBetweenDrains
PROPERTIES
  DriftLogSpec
