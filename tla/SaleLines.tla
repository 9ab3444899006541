------------------------------ MODULE SaleLines ------------------------------
(***************************************************************************)
(* The arithmetic of a sale: its lines, their prices and shares of the     *)
(* shipping, the movements that chain through the stock when several lines *)
(* name one pair, the receipts that pay it, and the figures of the day     *)
(* that are read back from them: the closing and its preview, the income   *)
(* of the finance lines, the analytics.                                    *)
(*                                                                         *)
(* Every command is one action: their interleaving inside a transaction is *)
(* the subject of SaleTransactions.  All sales are of one business day and *)
(* operational.  Amounts are in cents, quantities in units of              *)
(* 1/QuantityFactor.                                                       *)
(***************************************************************************)
EXTENDS Integers, Sequences, FiniteSets, Functions

CONSTANTS
  PricedSale,      \* identities of sales
  Place,           \* (product, warehouse) pairs with a balance
  Line,            \* lines of requests: [pair, quantity, price or NoPrice]
  MaxLines,        \* bound on the lines of a sale
  Shipping,        \* shipping amounts asked for
  Row,             \* Row[p]: [quantity, price, cost] of the balance row
  Seller,          \* who may be named as the seller
  Method,          \* Method[m]: the bucket of payment method m
  QuantityFactor,  \* 10_000 in the code
  MaxMoney,        \* maximumMoneyCents
  Tolerance        \* closing tolerance, in cents

VARIABLES
  onHand,     \* inventory_balances.quantity
  movements,  \* inventory_movements, oldest first
  priced,     \* sales with their items, Null while there is no row
  receipts,   \* sale_payments with their parts
  movedTo,    \* movedTo[s]: the sale that received the receipt of s
  preview,    \* the system sales last shown, -1 before
  report      \* the closing of the day, Null before

lineVars == <<onHand, movements, priced, receipts, movedTo, preview, report>>

Null == [row |-> "none"]
NoPrice == -1

ASSUME LinesAssumption ==
  /\ IsFiniteSet(PricedSale) /\ Null \notin PricedSale
  /\ IsFiniteSet(Place) /\ IsFiniteSet(Seller)
  /\ Line \subseteq [pair : Place, quantity : Nat, price : Nat \cup {NoPrice}]
  /\ Row \in [Place -> [quantity : Nat, price : Nat \cup {NoPrice},
                        cost : Nat \cup {NoPrice}]]
  /\ IsFiniteSet(DOMAIN Method)
  /\ Method \in [DOMAIN Method -> {"cash", "digital", "unspecified"}]
  /\ Shipping \subseteq Nat /\ QuantityFactor \in Nat \ {0}

-----------------------------------------------------------------------------
(* Money of the lines.                                                      *)

(* Quantity times price, rounded half up to cents once.                     *)
Subtotal(quantity, price) ==
  (quantity * price + QuantityFactor \div 2) \div QuantityFactor

(* The price the line asks for, or the reference; zero is a price.          *)
PriceOf(line) ==
  IF line.price # NoPrice THEN line.price ELSE Row[line.pair].price

Priced(lines) ==
  \A i \in 1..Len(lines) :
    PriceOf(lines[i]) # NoPrice /\ Row[lines[i].pair].cost # NoPrice

(* Every line receives the floor, the first ones a cent of the residue.     *)
Share(shipping, n, i) ==
  shipping \div n + (IF i <= shipping % n THEN 1 ELSE 0)

Items(lines, shipping) ==
  [i \in 1..Len(lines) |->
     [pair |-> lines[i].pair,
      quantity |-> lines[i].quantity,
      subtotal |-> Subtotal(lines[i].quantity, PriceOf(lines[i])),
      share |-> Share(shipping, Len(lines), i),
      cost |-> Row[lines[i].pair].cost]]

Subtotals(items) == [i \in 1..Len(items) |-> items[i].subtotal]
SubtotalOf(items) == SumFunction(Subtotals(items))

-----------------------------------------------------------------------------
(* Stock of the lines.                                                      *)

LinesOf(items, p) == {i \in 1..Len(items) : items[i].pair = p}

Quantities(items) == [i \in 1..Len(items) |-> items[i].quantity]

Wanted(items, p) == SumFunctionOnSet(Quantities(items), LinesOf(items, p))

(* What the lines before line i have already moved of its pair.             *)
MovedBefore(items, i) ==
  SumFunctionOnSet(Quantities(items), {j \in LinesOf(items, items[i].pair) : j < i})

(* One movement per line: each starts where the previous one of the pair    *)
(* ended, and the balance row is written once.                              *)
ItemMovementFromLocked(s, items, sign, i) ==
  LET before == onHand[items[i].pair]
  IN  [sale |-> s, pair |-> items[i].pair, before |-> before,
       after |-> before + sign * items[i].quantity]
ItemMovement(s, items, sign, i) ==
  LET before == onHand[items[i].pair] + sign * MovedBefore(items, i)
  IN  [sale |-> s, pair |-> items[i].pair, before |-> before,
       after |-> before + sign * items[i].quantity]

PostItems(s, items, sign) ==
  /\ movements' = movements \o [i \in 1..Len(items) |-> ItemMovement(s, items, sign, i)]
  /\ onHand' = [p \in Place |-> onHand[p] + sign * Wanted(items, p)]

-----------------------------------------------------------------------------
(* Commands.                                                                *)

Is(s, status, paid) ==
  priced[s] # Null /\ priced[s].status = status /\ priced[s].paid = paid

CreateSale(s, lines, shipping, status, seller) ==
  LET items == Items(lines, shipping)
      total == SubtotalOf(items) + shipping
  IN  /\ priced[s] = Null
      /\ Priced(lines)
      /\ \A p \in Place : Wanted(items, p) <= onHand[p]
      /\ total <= MaxMoney
      /\ priced' = [priced EXCEPT ![s] =
           [items |-> items, subtotal |-> SubtotalOf(items),
            shipping |-> shipping, total |-> total, status |-> status,
            paid |-> "PENDING", seller |-> seller]]
      /\ PostItems(s, items, -1)
      /\ UNCHANGED <<receipts, movedTo, preview, report>>

ConfirmSale(s) ==
  /\ Is(s, "IN_TRANSIT", "PENDING")
  /\ priced' = [priced EXCEPT ![s].status = "COMPLETED"]
  /\ UNCHANGED <<onHand, movements, receipts, movedTo, preview, report>>

CancelSale(s) ==
  /\ Is(s, "IN_TRANSIT", "PENDING")
  /\ priced' = [priced EXCEPT ![s].status = "CANCELLED"]
  /\ PostItems(s, priced[s].items, 1)
  /\ UNCHANGED <<receipts, movedTo, preview, report>>

(* The parts of a receipt are positive and cover the total to the cent; one *)
(* method takes the whole total, be it zero.                                *)
Split(total) ==
  {f \in [DOMAIN Method -> 0..total] :
     /\ SumFunction(f) = total
     /\ \E m \in DOMAIN Method : f[m] > 0}

Single(total, method) ==
  [m \in DOMAIN Method |-> IF m = method THEN total ELSE 0]

PaySale(s, parts) ==
  /\ Is(s, "COMPLETED", "PENDING")
  /\ receipts' = [receipts EXCEPT ![s] = parts]
  /\ priced' = [priced EXCEPT ![s].paid = "PAID"]
  /\ UNCHANGED <<onHand, movements, movedTo, preview, report>>

(* The duplicate must be worth the same, and its day not yet closed.        *)
SameSale(s, t) == s # t /\ priced[s].total = priced[t].total

MoveReceipt(s, t) ==
  /\ Is(s, "COMPLETED", "PAID")
  /\ receipts[s] # Null
  /\ Is(t, "COMPLETED", "PENDING")
  /\ SameSale(s, t)
  /\ report = Null
  /\ movedTo' = [movedTo EXCEPT ![s] = t]
  /\ priced' = [priced EXCEPT ![s].status = "CANCELLED", ![t].paid = "PAID"]
  /\ PostItems(s, priced[s].items, 1)
  /\ UNCHANGED <<receipts, preview, report>>

-----------------------------------------------------------------------------
(* What is read back.                                                       *)

CompletedSales == {s \in PricedSale : priced[s] # Null /\ priced[s].status = "COMPLETED"}

SystemSales == SumFunction([s \in CompletedSales |-> priced[s].total])

(* The receipt that pays s: its own, or the one a correction moved to it.   *)
Receipt(s) ==
  LET from == {x \in PricedSale : movedTo[x] = s}
  IN  IF receipts[s] = Null /\ from # {}
      THEN receipts[CHOOSE x \in from : TRUE] ELSE receipts[s]

(* Without a receipt the whole total falls in the bucket of the method      *)
(* written on the sale, here "unspecified".                                 *)
InBucket(s, bucket) ==
  IF Receipt(s) = Null
  THEN IF bucket = "unspecified" THEN priced[s].total ELSE 0
  ELSE SumFunctionOnSet(Receipt(s), {m \in DOMAIN Method : Method[m] = bucket})

BySeller(seller, bucket) ==
  SumFunctionOnSet([s \in CompletedSales |-> InBucket(s, bucket)],
                   {s \in CompletedSales : priced[s].seller = seller})

(* The dialog of a day already closed says so and keeps no figure.          *)
Preview ==
  /\ report = Null
  /\ preview' = SystemSales
  /\ UNCHANGED <<onHand, movements, priced, receipts, movedTo, report>>

Magnitude(n) == IF n < 0 THEN -n ELSE n

(* The day is closed against what its sales amount to then.                  *)
CloseDay(real) ==
  /\ report = Null
  /\ SystemSales <= MaxMoney
  /\ report' = [real |-> real, systemSales |-> SystemSales,
                 balanced |-> Magnitude(real - SystemSales) < Tolerance]
  /\ UNCHANGED <<onHand, movements, priced, receipts, movedTo, preview>>

(* analytics-read: the revenue of a product, without its shipping.          *)
Revenue(p) ==
  SumFunction([s \in CompletedSales |->
    SumFunctionOnSet(Subtotals(priced[s].items), LinesOf(priced[s].items, p))])

-----------------------------------------------------------------------------
LinesInit ==
  /\ onHand = [p \in Place |-> Row[p].quantity]
  /\ movements = <<>>
  /\ priced = [s \in PricedSale |-> Null]
  /\ receipts = [s \in PricedSale |-> Null]
  /\ movedTo = [s \in PricedSale |-> Null]
  /\ preview = -1
  /\ report = Null

Requests == UNION {[1..n -> Line] : n \in 1..MaxLines}

LinesNext ==
  \/ \E s \in PricedSale, lines \in Requests, shipping \in Shipping,
        status \in {"IN_TRANSIT", "COMPLETED"}, seller \in Seller :
       CreateSale(s, lines, shipping, status, seller)
  \/ \E s \in PricedSale : ConfirmSale(s)
  \/ \E s \in PricedSale : CancelSale(s)
  \/ \E s \in PricedSale, m \in DOMAIN Method :
       priced[s] # Null /\ PaySale(s, Single(priced[s].total, m))
  \/ \E s \in PricedSale :
       priced[s] # Null /\ \E parts \in Split(priced[s].total) : PaySale(s, parts)
  \/ \E s, t \in PricedSale : MoveReceipt(s, t)
  \/ Preview
  \/ preview >= 0 /\ CloseDay(preview)

LinesSpec == LinesInit /\ [][LinesNext]_lineVars

-----------------------------------------------------------------------------
(* Nothing is lost or invented among the lines: their amounts and shares of *)
(* the shipping add up to the total, no line pays over a cent more than     *)
(* another (sale-shipping-allocation.ts, "their sum is exactly"), and the   *)
(* revenue the analytics give each product, with the shipping, is what the  *)
(* day was charged.                                                         *)
LinesAddUp ==
  /\ \A s \in PricedSale : priced[s] # Null =>
       LET items == priced[s].items
           amounts == [i \in 1..Len(items) |-> items[i].subtotal + items[i].share]
       IN  /\ SumFunction(amounts) = priced[s].total
           /\ \A i, j \in 1..Len(items) :
                items[i].share - items[j].share \in -1..1
  /\ SumFunction([p \in Place |-> Revenue(p)])
       + SumFunction([s \in CompletedSales |-> priced[s].shipping]) = SystemSales

(* What the first n movements left of p.                                    *)
BalanceAfter(p, n) ==
  LET own == {m \in 1..n : movements[m].pair = p}
  IN  IF own = {} THEN Row[p].quantity
      ELSE movements[CHOOSE m \in own : \A k \in own : k <= m].after

(* The movements of a pair form one chain from its opening balance to the   *)
(* current one, through sales that name the pair on several lines and the   *)
(* cancellations that give it all back; no link is negative                 *)
(* (create-sale.service.ts, restore-sale-inventory.ts).                     *)
MovementsChain ==
  /\ \A n \in 1..Len(movements) :
       /\ movements[n].before = BalanceAfter(movements[n].pair, n - 1)
       /\ movements[n].after >= 0
  /\ \A p \in Place : onHand[p] = BalanceAfter(p, Len(movements))

(* What the preview of a closing spreads over the sellers, by how each sale *)
(* was paid, is the system sales of the day to the cent: split receipts and *)
(* receipts moved by a correction included (closing-preview.service.ts).    *)
SellersAddUp ==
  SumFunction([x \in Seller |->
    BySeller(x, "cash") + BySeller(x, "digital") + BySeller(x, "unspecified")])
    = SystemSales

(* The money and the units of the sales add up line by line, movement by    *)
(* movement and seller by seller.                                           *)
SalesAddUp == LinesAddUp /\ MovementsChain /\ SellersAddUp

=============================================================================
