CONSTANTS
  r1 = r1
  r2 = r2
  r3 = r3
  u1 = u1
  u2 = u2
  acme = acme
  long = long
  x = x
  d1 = d1
  Requests = {r1, r2, r3}
  Uids = {u1, u2}
  Bases = {acme, long}
  TightBases = {long}
  LongBases = {}
  Suffixes = {x}
  NoSuffix = NoSuffix
  SlugTries = 2
  Domains = {d1}
  NoOne = NoOne
  Nothing = Nothing
SPECIFICATION FairSpec
INVARIANTS
  TypeOK
  AnswersAreCommitted
  FailuresHaveCauses
  ScopedToMembers
  VerifiedByMember
  NoCircularWait
PROPERTIES
  AccountsSpec
  RequestsAnswered
