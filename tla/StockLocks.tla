------------------------------ MODULE StockLocks ------------------------------
(***************************************************************************)
(* The rows each stock-writing command of the API locks, in the order of   *)
(* its statements: SELECT ... FOR UPDATE, INSERT ... ON CONFLICT, and the  *)
(* FOR KEY SHARE locks that PostgreSQL takes on the rows a foreign key     *)
(* refers to when a movement, an item or a valuation is inserted.          *)
(*                                                                         *)
(* Products and warehouses are numbered in the order of their ids.  Rows   *)
(* of users, sale_items, transfers and receipts are left out: no two of    *)
(* these commands contend for them.  Operators named after a plan with a    *)
(* suffix are the plausible mistakes the runs must notice.                 *)
(***************************************************************************)
EXTENDS RowLocks, SequencesExt

CONSTANTS Product, Warehouse

ASSUME StockLocksAssumption == Product \subseteq Nat /\ Warehouse \subseteq Nat

ProductRow(p) == <<"products", p>>
WarehouseRow(w) == <<"warehouses", w>>
BalanceRow(p, w) == <<"inventory_balances", p, w>>
SaleRow(s) == <<"sales", s>>
DayLock(d) == <<"business-day", d>>
SessionRow(n) == <<"inventory_count_sessions", n>>
CodeLock(c) == <<"product.code", c>>

Lock(row, mode) == [row |-> row, mode |-> mode, by |-> None]

InOrder(S) == SetToSortSeq(S, <)

\* ORDER BY product_id, warehouse_id
PairsInOrder(P) ==
  SetToSortSeq(P, LAMBDA a, b : a[1] < b[1] \/ (a[1] = b[1] /\ a[2] < b[2]))

ForEach(seq, F(_)) == FlattenSeq([i \in DOMAIN seq |-> F(seq[i])])

Products(P) == ForEach(InOrder(P), LAMBDA p : <<Lock(ProductRow(p), "UPDATE")>>)

Warehouses(W) ==
  ForEach(InOrder(W), LAMBDA w : <<Lock(WarehouseRow(w), "UPDATE")>>)

Balances(P) ==
  ForEach(PairsInOrder(P),
          LAMBDA a : <<Lock(BalanceRow(a[1], a[2]), "UPDATE")>>)

\* A row is inserted that refers to the product and the warehouse.
References(p, w) ==
  <<Lock(ProductRow(p), "KEY SHARE"), Lock(WarehouseRow(w), "KEY SHARE")>>

\* INSERT ... ON CONFLICT DO NOTHING of a balance at zero.
Materialize(p, w) ==
  <<Lock(BalanceRow(p, w), "INSERT")>>
    \o [i \in 1 .. 2 |->
          [References(p, w)[i] EXCEPT !.by = BalanceRow(p, w)]]

ProductsOf(P) == {a[1] : a \in P}
WarehousesOf(P) == {a[2] : a \in P}

\* The statement locks every balance of those products in those warehouses,
\* also of pairs the command does not move.
BalancesAround(P) == Balances(ProductsOf(P) \X WarehousesOf(P))

\* createInTransaction: the lines sell the pairs P.
SalePlan(P) ==
  Products(ProductsOf(P)) \o Warehouses(WarehousesOf(P)) \o BalancesAround(P)
    \o ForEach(PairsInOrder(P), LAMBDA a : References(a[1], a[2]))

\* cancelInTransaction, of sale s.
CancelPlan(s, P) == <<Lock(SaleRow(s), "UPDATE")>> \o SalePlan(P)

\* VoidDuplicateSaleService, of sale s for replacement t on day d.
VoidPlan(s, t, d, P) ==
  ForEach(InOrder({s, t}), LAMBDA x : <<Lock(SaleRow(x), "UPDATE")>>)
    \o <<Lock(DayLock(d), "UPDATE")>> \o SalePlan(P)

\* transferInTransaction: every balance of the product is locked.
TransferPlan(p, from, to) ==
  Products({p}) \o Warehouses({from, to}) \o Materialize(p, to)
    \o Balances({p} \X Warehouse) \o References(p, from) \o References(p, to)

\* receive: the warehouse is only shared.
ReceiptPlan(p, w) ==
  Products({p}) \o <<Lock(WarehouseRow(w), "SHARE")>> \o Materialize(p, w)
    \o Balances({<<p, w>>}) \o References(p, w)

\* ProductWriteService.edit, giving product p the code c.
EditPlan(p, c) == Products({p}) \o <<Lock(CodeLock(c), "UPDATE")>>

AdjustPlanProductFirst(p, w) ==
  Products({p}) \o Warehouses({w}) \o Balances({<<p, w>>})

\* adjustInTransaction: product and warehouse are read without a lock, and
\* the movement refers to them once the balance is locked.
AdjustPlan(p, w) == Balances({<<p, w>>}) \o References(p, w)

\* InventoryValuationService.update: the evidence row refers to them.
ValuationPlan(p, w) == Balances({<<p, w>>}) \o References(p, w)

\* approveInTransaction, of session n whose lines over P have a difference.
ApprovePlan(n, P) ==
  <<Lock(SessionRow(n), "UPDATE")>>
    \o ForEach(PairsInOrder(P), LAMBDA a : Materialize(a[1], a[2]))
    \o BalancesAround(P)
    \o ForEach(PairsInOrder(P), LAMBDA a : AdjustPlan(a[1], a[2]))
=============================================================================
