CONSTANTS
  BaseCooldown = 1
  MaxCooldown = 2
  MaxBackoffLevel = 1
  FlatCooldown = 1
  MisconfiguredRetryAfter = 2
  IdleRetention = 1
  LevelMax = 2
  MaxWindow = 2
  HeaderWaits = {0}
  QuotaWaits = {2}
  BackgroundPeriod = 4
  r1 = r1
  r2 = r2
  k1 = k1
  k2 = k2
  p1 = p1
  p2 = p2
  Req = {r1, r2}
  Key = {k1}
  Provider = {p1}
  ProviderOf <- MCOneProviderOf
  Kind <- MCCodex
  Selections <- MCOneSelection
SPECIFICATION FairSpec
CHECK_DEADLOCK FALSE
INVARIANTS
  TypeOK
  OnlyFaultsCool
PROPERTIES
  EscalationKept
  AlwaysReprobed
  QuietMapEmpties
