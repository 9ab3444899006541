SPECIFICATION PartsSpec
CONSTANTS
  twin = twin
  van = van
  late = late
  p1 = p1
  p2 = p2
  d1 = d1
  d2 = d2
  None = None
  Sale = {s1, s2, s3}
  Key = {k1, k2}
  Request = {twin, van, late}
  Pair = {p1, p2}
  Day = {d1, d2}
  Sellable = {p1, p2}
  Demand <- MCDemand
  Total <- MCTotal
  DayOf <- MCDayOf
  InitialStatus <- MCInitialStatus
  Opening <- MCOpening
  PricedSale = {x1, x2}
  Place = {"p", "q"}
  Line <- SaleLine
  MaxLines = 2
  Shipping = {0, 3}
  Row <- Opened
  Method <- Methods
  QuantityFactor = 2
  MaxMoney = 7
  Tolerance = 1
  Posting = {x1, x2}
  EntryKey = {"k1", "k2"}
  SoldSale = {"sale"}
  SaleFacts <- Facts
  Payload <- Entries
  Catalog <- Types
  Query <- Queries
  Instant = {1}
  PageSize = 1
  Rank <- Ranks
  Seller = {ana}
SYMMETRY Symmetry
INVARIANTS
  StockAccounted
  DocumentsAgree
  PaymentHeldOnce
  KeyBacksOneEffect
  ClosingNeverOverstates
  BookKept
  SalesAddUp
PROPERTIES
  ClosedDayFrozen
CHECK_DEADLOCK FALSE
