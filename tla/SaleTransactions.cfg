SPECIFICATION Spec
CONSTANTS
  twin = twin
  van = van
  p1 = p1
  p2 = p2
  d1 = d1
  None = None
  Txn = {t1, t2}
  Sale = {s1, s2}
  Key = {k1, k2}
  Request = {twin, van}
  Pair = {p1, p2}
  Day = {d1}
  Sellable = {p1, p2}
  Demand <- MCDemand
  Total <- MCTotal
  DayOf <- MCDayOf
  InitialStatus <- MCInitialStatus
  Opening <- MCOpening
SYMMETRY Symmetry
INVARIANTS
  ChecksSurvive
PROPERTIES
  Serial
