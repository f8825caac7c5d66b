CONSTANTS
  w1 = w1
  w2 = w2
  apex = apex
  n1 = n1
  Workers = {w1, w2}
  Names = {apex, n1}
  Apex = apex
  MaxSerial = 6
SPECIFICATION Spec
SYMMETRY Symmetry
INVARIANTS
  TypeOK
  CopiesBounded
  ListingsRecorded
  SubdomainsAnnounced
  FindingsHaveAssets
PROPERTIES
  RegisterSpec
