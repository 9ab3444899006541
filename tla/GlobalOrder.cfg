SPECIFICATION KindSpec
CONSTANTS
  None = None
  Row <- MCRow
  Plan <- MCPlan
  Absent <- MCAbsent
  Product = {1, 2}
  Warehouse = {1, 2}
  Txn = {t1, t2, t3}
  third = t3
  saleBoth = saleBoth
  saleOne = saleOne
  cancelOne = cancelOne
  voidOne = voidOne
  transferIn = transferIn
  transferOut = transferOut
  receipt = receipt
  edit = edit
  adjust = adjust
  valuation = valuation
  approve = approve
  approveOther = approveOther
  Job = {saleBoth, saleOne, cancelOne, voidOne, transferIn, transferOut, receipt, edit, adjust, valuation, approve, approveOther}
  Ordered = {saleBoth, saleOne, cancelOne, voidOne, transferIn, transferOut, receipt, edit}
  Counting = {adjust, valuation, approve, approveOther}
INVARIANT
  NoDeadlock
PROPERTIES
  EveryJobEnds
