SPECIFICATION Spec
CONSTANTS
  None = None
  Row <- MCRow
  Plan <- MCPlan
  Absent <- MCAbsent
  Product = {1, 2}
  Warehouse = {1, 2}
  Txn = {t1, t2}
  third = t2
  Ordered = {saleOne}
  Counting = {approve}
  saleBoth = saleBoth
  saleOne = saleOne
  cancelOne = cancelOne
  voidOne = voidOne
  transferIn = transferIn
  transferOut = transferOut
  receipt = receipt
  edit = edit
  adjust = adjust
  valuation = valuation
  approve = approve
  approveOther = approveOther
  Job = {saleOne, approve}
SYMMETRY Symmetry
INVARIANTS
  NoDeadlock
