CONSTANTS
  r1 = r1
  r2 = r2
  u1 = u1
  u2 = u2
  acme = acme
  x = x
  d1 = d1
  Requests = {r1, r2}
  Uids = {u1, u2}
  Bases = {acme}
  TightBases = {}
  LongBases = {}
  Suffixes = {x}
  NoSuffix = NoSuffix
  SlugTries = 2
  Domains = {d1}
  NoOne = NoOne
  Nothing = Nothing
SPECIFICATION Spec
INVARIANTS
  RegistrationsAnswered
