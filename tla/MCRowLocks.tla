------------------------------ MODULE MCRowLocks ------------------------------
(* The stock commands of the API contending for two products in two          *)
(* warehouses; product 2 has no balance in warehouse 2.                       *)
EXTENDS StockLocks

CONSTANTS
  saleBoth, saleOne, cancelOne, voidOne, transferIn, transferOut, receipt,
  edit, adjust, valuation, approve, approveOther

Plans ==
  saleBoth :> SalePlan({<<1, 2>>, <<2, 1>>}) @@
  saleOne :> SalePlan({<<1, 1>>}) @@
  cancelOne :> CancelPlan(1, {<<1, 1>>}) @@
  voidOne :> VoidPlan(2, 1, 1, {<<1, 2>>}) @@
  transferIn :> TransferPlan(2, 1, 2) @@
  transferOut :> TransferPlan(1, 2, 1) @@
  receipt :> ReceiptPlan(2, 2) @@
  edit :> EditPlan(1, 1) @@
  adjust :> AdjustPlan(1, 1) @@
  valuation :> ValuationPlan(1, 1) @@
  approve :> ApprovePlan(1, {<<1, 1>>, <<2, 2>>}) @@
  approveOther :> ApprovePlan(2, {<<1, 2>>, <<2, 2>>})

MCPlan == [j \in Job |-> Plans[j]]

MCRow ==
  {ProductRow(p) : p \in Product} \cup {WarehouseRow(w) : w \in Warehouse}
    \cup {BalanceRow(p, w) : p \in Product, w \in Warehouse}
    \cup {SaleRow(s) : s \in 1 .. 2} \cup {SessionRow(n) : n \in 1 .. 2}
    \cup {DayLock(1), CodeLock(1)}

MCAbsent == {BalanceRow(2, 2)}

\* Sales, business day, products, codes, warehouses; a balance is guarded by
\* its product.
MCRank ==
  [r \in MCRow |->
     CASE r[1] = "sales" -> r[2]
       [] r[1] = "business-day" -> 10
       [] r[1] = "products" -> 20 + r[2]
       [] r[1] = "product.code" -> 30
       [] r[1] = "warehouses" -> 40 + r[2]
       [] OTHER -> 50]

MCGuard ==
  [r \in MCRow |->
     IF r[1] = "inventory_balances" THEN ProductRow(r[2]) ELSE r]

CONSTANTS
  Ordered,   \* jobs that respect the order of MCRank
  Counting,  \* jobs that hold balances before they need other rows
  third      \* a transaction that only serves the second kind

\* The jobs under way at any time are all of one kind: a deadlock between the
\* two kinds is what CountAgainstSale.cfg shows.
OneKind ==
  \/ job \in [Txn -> Ordered \cup {None}] /\ job[third] = None
  \/ job \in [Txn -> Counting \cup {None}]

KindSpec == Init /\ [][Next /\ OneKind']_vars /\ Fairness

\* What the theorem OrderedPlansNeverDeadlock asks of plans, PlansOrdered, is
\* true of these: every row a command locks comes after, or is guarded by,
\* those it has locked.
ASSUME GlobalOrder ==
  /\ \A r \in Row : MCGuard[r] \notin Absent
  /\ \A j \in Ordered : \A k \in DOMAIN Plan[j] :
       RequestOrdered(j, k, MCRank, MCGuard)

Symmetry == Permutations(Txn)
=============================================================================
