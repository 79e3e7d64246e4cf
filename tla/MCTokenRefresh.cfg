CONSTANTS
  r1 = r1
  r2 = r2
  Req = {r1, r2}
  Background = background
  PersistRetries = 1
  MaxGrants = 3
SPECIFICATION FairSpec
INVARIANTS
  TypeOK
  StoredIsLive
  NeverSpendsSpent
  LockKept
PROPERTIES
  EveryRefreshEnds
