CONSTANTS
  BaseCooldown = 1
  MaxCooldown = 2
  MaxBackoffLevel = 1
  FlatCooldown = 1
  MisconfiguredRetryAfter = 2
  IdleRetention = 1
  LevelMax = 1
  MaxWindow = 2
  HeaderWaits = {0}
  QuotaWaits = {2}
  BackgroundPeriod = 0
  r1 = r1
  r2 = r2
  k1 = k1
  k2 = k2
  p1 = p1
  p2 = p2
  Req = {r1, r2}
  Key = {k1}
  Provider = {p1}
  ProviderOf <- MCOneProviderOf
  Kind <- MCCommandCode
  Selections <- MCOneSelection
SPECIFICATION Spec
CHECK_DEADLOCK FALSE
PROPERTIES
  FallbackFirst
