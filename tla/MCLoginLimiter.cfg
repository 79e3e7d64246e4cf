CONSTANTS
  l1 = l1
  l2 = l2
  l3 = l3
  b1 = b1
  b2 = b2
  Login = {l1, l2, l3}
  Bearer = {b1, b2}
  FailureThreshold = 2
  BaseLockout = 1
  MaxLockout = 3
  StaleAfter = 4
  MaxFailures = 8
SPECIFICATION FairSpec
INVARIANTS
  TypeOK
  BurstBounded
  InFlightExact
PROPERTIES
  LockoutKept
  LockoutEnds
  QuietBucketForgotten
