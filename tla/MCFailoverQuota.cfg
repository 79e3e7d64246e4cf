CONSTANTS
  BaseCooldown = 1
  MaxCooldown = 2
  MaxBackoffLevel = 1
  FlatCooldown = 1
  MisconfiguredRetryAfter = 2
  IdleRetention = 1
  LevelMax = 3
  MaxWindow = 3
  HeaderWaits = {0}
  QuotaWaits = {3}
  BackgroundPeriod = 4
  r1 = r1
  r2 = r2
  k1 = k1
  k2 = k2
  p1 = p1
  p2 = p2
  Req = {r1, r2}
  Key = {k1}
  Provider = {p1}
  ProviderOf <- MCOneProviderOf
  Kind <- MCCodex
  Selections <- MCOneSelection
SPECIFICATION Spec
CHECK_DEADLOCK FALSE
PROPERTIES
  QuotaHonoured
