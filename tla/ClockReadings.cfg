SPECIFICATION PartsSpec
CONSTANTS
  Attempt = {r1, r2, r3}
  ThrottleWindow = 2
  Visit = {r1, r2, r3}
  Query = {q1, q2}
  QueryLimit = 2
  Minute = 2
  KeyLife = 3
  Request = {q1, q2}
  Code = {c1, c2}
  Pair = {p1, p2, p3}
  None = None
  CodeLife = 1
  AccessLife = 1
  RefreshLife = 2
  Grace = 1
  MaxClock = 4
  MaxLinked = 2
  Idle = 2
  Absolute = 3
SYMMETRY Interchangeable
INVARIANTS
  AllowanceFair GrantsSpentOnce
PROPERTIES
  BlocksHold SessionsEnd NothingRevives
CHECK_DEADLOCK FALSE
