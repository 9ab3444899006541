SPECIFICATION Spec
CONSTANTS
  Code = {c1, c2}
  Pair = {p1, p2, p3}
  Request = {r1, r2}
  CodeLife = 1
  AccessLife = 1
  RefreshLife = 3
  Grace = 1
  MaxClock = 2
  MaxLinked = 2
  None = None
SYMMETRY Interchangeable
INVARIANTS ReauthorizationEnds
CHECK_DEADLOCK FALSE
