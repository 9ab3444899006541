SPECIFICATION PartsSpec
CONSTANTS
  None = None
  main = main
  store = store
  product = product
  p1 = p1
  p2 = p2
  n1 = n1
  Product = {product}
  Warehouse = {main, store}
  Key = {k1, k2}
  Author = {ann}
  Cost = {0, 1}
  Price = {1}
  MaxQuantity = 2
  MaxVersion = 3
  Opening <- MCOpening
  Session = {n1, n2}
  Pair = {p1, p2}
  Txn = {t1, t2}
  Scope <- MCScope
  Stocked <- MCStocked
  MaxRevision = 3
  MaxMoves = 3
  Blank = blank
  Actor <- People
  File <- Files
  Columns = 2
  Sheet <- Workbook
  MaxStarts <- Attempts
SYMMETRY Interchangeable
INVARIANTS
  AdjustmentsMatchLines CorrectionsNotLost ImportedAsCounted
PROPERTIES
  CommandsFollowLedger CountsFollowLedger ValuesKeptNeverInvented ApprovalLandsOnCount
CHECK_DEADLOCK FALSE
