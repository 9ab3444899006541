SPECIFICATION CountSpec
CONSTANTS
  None = None
  p1 = p1
  p2 = p2
  Session = {n1}
  Pair = {p1, p2}
  Txn = {t1, t2}
  Scope <- MCScope
  Stocked <- MCStocked
  MaxQuantity = 1
  MaxRevision = 1
  MaxMoves = 2
SYMMETRY Symmetry
PROPERTIES
  LaterMovementInvalidates
CHECK_DEADLOCK FALSE
