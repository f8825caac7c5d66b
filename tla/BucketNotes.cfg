CONSTANTS
  w1 = w1
  apex = apex
  n1 = n1
  Workers = {w1}
  Names = {apex, n1}
  Apex = apex
  MaxSerial = 4
SPECIFICATION Spec
INVARIANTS
  NoteIsCurrent
