\* The parts around the proxy, each on its own.
CONSTANTS
  Parts = {"setup", "rotation", "settings", "sessions", "users", "logins", "images"}
  p1 = p1
  p2 = p2
  q1 = q1
  m1 = m1
  m2 = m2
  m3 = m3
  Admin = {"a1", "a2"}
  Provider = {p1, p2}
  Pool = {p1, p2, q1}
  Shapes <- MCShapes
  Dumps <- MCDumps
  Starts <- MCStarts
  MaxEdits = 2
  Member = {m1, m2, m3}
  StickyLimit = {0, 2, 3}
  Secret = {"s1", "s2"}
  Environments <- MCEnvironments
  Browser = {"b1", "b2"}
  Token = {1, 2}
  Password = {"x", "y"}
  Ttl = 2
  Lifetime = 3
  Until = 3
  User = {"u1", "u2"}
  Foreign = {"u1"}
  Key = {1, 2, 3, 4}
  Clerk = {"c1", "c2"}
  CodexAccount = {"codex"}
  KeyAccount = {"commandcode"}
  Attempt = {"l1", "l2", "l3"}
  Polls = 1
  Drawer = {"d1", "d2"}
  Drawing = {"r1", "r2"}
  Selected <- MCSelected
  Limits = {0, 2}
  Hosts = 2
SPECIFICATION DeskSpec
\* The bounds on edits, logins, tokens and keys stop some parts.
CHECK_DEADLOCK FALSE
INVARIANTS
  TypeOK
  AnsweredIsServed
  RowsFit
  AnnouncedIsReady
  RoundRobinFair
  SessionsEnd
  RetiredStaysOut
  ShownIsTrue
  DrawnOnce
PROPERTIES
  ModeIsKept
