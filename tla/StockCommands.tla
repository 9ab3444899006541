---------------------------- MODULE StockCommands ----------------------------
(***************************************************************************)
(* The stock commands other than sales and counts: manual adjustment,      *)
(* transfer between warehouses, receipt, and valuation of a balance.  Each *)
(* runs alone, behind the row locks of StockLocks; what interleaves is the *)
(* people: a valuation is sent with the version of the balance that its    *)
(* author saw on a screen some time before.                                *)
(*                                                                         *)
(* Abstractions: a Key is an (actor, Idempotency-Key) pair and a command   *)
(* that replays one changes nothing; quantities and money are integers in  *)
(* their smallest unit; products and warehouses are all active.            *)
(*                                                                         *)
(* Operators with the name of another and a suffix are the plausible       *)
(* mistakes the runs must notice.                                          *)
(***************************************************************************)
EXTENDS Balances

CONSTANTS
  Product, Warehouse,
  Key,          \* (actor, Idempotency-Key) pairs
  Author,       \* people who may be composing a valuation
  Cost, Price,  \* amounts somebody may supply
  Opening,      \* Opening[p][w]: the balance row at the start, or None
  MaxVersion    \* bound: versions of one balance

\* A row of inventory_balances.
BalanceRow ==
  [quantity : Quantity, cost : NullOr(Cost), price : NullOr(Price),
   costReview : BOOLEAN, priceReview : BOOLEAN, version : Nat]

ASSUME StockCommandsAssumption ==
  /\ MaxVersion \in Nat
  /\ Cost \subseteq Nat /\ Price \subseteq Nat \ {0} /\ None \notin Nat
  /\ None \notin BalanceRow
  /\ Opening \in [Product -> [Warehouse -> NullOr(BalanceRow)]]
  /\ \A p \in Product, w \in Warehouse :
       Opening[p][w] # None /\ Opening[p][w].cost = 0 => Opening[p][w].costReview

VARIABLES
  balance,  \* balance[p][w]: the inventory_balances row, or None
  ledger,   \* ledger[p][w]: inventory_movements, oldest first
  used,     \* (operation, key) pairs that took effect
  evidence, \* evidence[p][w]: product_warehouse_valuations, oldest first
  draft     \* draft[a]: the balance author a is looking at, or None

vars == <<balance, ledger, used, evidence, draft>>

\* A balance that a transfer or a receipt creates.
Empty ==
  [quantity |-> 0, cost |-> None, price |-> None,
   costReview |-> FALSE, priceReview |-> FALSE, version |-> 1]

Row(p, w) == IF balance[p][w] = None THEN Empty ELSE balance[p][w]

\* An omitted field keeps what there is.
Or(supplied, current) == IF supplied = None THEN current ELSE supplied

Movement(kind, k, before, after) ==
  [kind |-> kind, key |-> k, before |-> before, after |-> after]

Valuation(cost, price, saw, replaced) ==
  [cost |-> cost, price |-> price, saw |-> saw, replaced |-> replaced]

Init ==
  /\ balance = Opening
  /\ ledger = [p \in Product |-> [w \in Warehouse |-> <<>>]]
  /\ used = {}
  /\ evidence = [p \in Product |-> [w \in Warehouse |-> <<>>]]
  /\ draft = [a \in Author |-> None]

-----------------------------------------------------------------------------

Claim(operation, k) ==
  /\ <<operation, k>> \notin used
  /\ used' = used \cup {<<operation, k>>}

MovedSilently(row, quantity) == [row EXCEPT !.quantity = quantity]

\* Every write of a quantity makes a new version of the row.
Moved(row, quantity) ==
  [row EXCEPT !.quantity = quantity, !.version = @ + 1]

Adjust(k, p, w, delta) ==
  /\ Claim("ADJUSTMENT", k)
  /\ balance[p][w] # None
  /\ balance[p][w].version < MaxVersion
  /\ delta # 0
  /\ LET before == balance[p][w].quantity
         after == before + delta
     IN  /\ after \in Quantity
         /\ balance' = [balance EXCEPT ![p][w] = Moved(@, after)]
         /\ ledger' = [ledger EXCEPT ![p][w] =
                         Append(@, Movement("ADJUSTMENT", k, before, after))]
  /\ UNCHANGED <<evidence, draft>>

\* A destination without a cost, or without a price, takes that of the origin
\* together with its review flag; what it has is never replaced.
Inherit(source, destination) ==
  LET takesCost == destination.cost = None /\ source.cost # None
      takesPrice == destination.price = None /\ source.price # None
  IN  [destination EXCEPT
         !.cost = IF takesCost THEN source.cost ELSE @,
         !.costReview = IF takesCost THEN source.costReview ELSE @,
         !.price = IF takesPrice THEN source.price ELSE @,
         !.priceReview = IF takesPrice THEN source.priceReview ELSE @]

TransferOneSided(k, p, from, to, quantity) ==
  /\ Claim("TRANSFER", k)
  /\ from # to /\ quantity > 0
  /\ balance[p][from] # None
  /\ balance[p][from].quantity >= quantity
  /\ Row(p, to).quantity + quantity \in Quantity
  /\ balance[p][from].version < MaxVersion /\ Row(p, to).version < MaxVersion
  /\ LET source == balance[p][from]
         destination == Row(p, to)
         out == source.quantity - quantity
         in == destination.quantity + quantity
     IN  /\ balance' =
              [balance EXCEPT
                 ![p][from] = Moved(source, out),
                 ![p][to] = Moved(Inherit(source, destination), in)]
         /\ ledger' =
              [ledger EXCEPT
                 ![p][from] = Append(@, Movement("TRANSFER_OUT", k, source.quantity, out))]
  /\ UNCHANGED <<evidence, draft>>

Transfer(k, p, from, to, quantity) ==
  /\ Claim("TRANSFER", k)
  /\ from # to /\ quantity > 0
  /\ balance[p][from] # None
  /\ balance[p][from].quantity >= quantity
  /\ Row(p, to).quantity + quantity \in Quantity
  /\ balance[p][from].version < MaxVersion /\ Row(p, to).version < MaxVersion
  /\ LET source == balance[p][from]
         destination == Row(p, to)
         out == source.quantity - quantity
         in == destination.quantity + quantity
     IN  /\ balance' =
              [balance EXCEPT
                 ![p][from] = Moved(source, out),
                 ![p][to] = Moved(Inherit(source, destination), in)]
         /\ ledger' =
              [ledger EXCEPT
                 ![p][from] = Append(@, Movement("TRANSFER_OUT", k, source.quantity, out)),
                 ![p][to] = Append(@, Movement("TRANSFER_IN", k, destination.quantity, in))]
  /\ UNCHANGED <<evidence, draft>>

\* cost and price are what the receipt supplies, or None when it does not.
Receive(k, p, w, quantity, cost, price) ==
  /\ Claim("RECEIPT", k)
  /\ quantity > 0
  /\ Row(p, w).quantity + quantity \in Quantity
  /\ Row(p, w).version < MaxVersion
  /\ LET row == Row(p, w)
         after == row.quantity + quantity
         unitCost == Or(cost, row.cost)
         unitPrice == Or(price, row.price)
     IN  /\ balance' =
              [balance EXCEPT ![p][w] =
                 [Moved(row, after) EXCEPT
                    !.cost = unitCost,
                    !.price = unitPrice,
                    !.costReview = IF cost # None THEN cost = 0
                                   ELSE @ \/ unitCost = None,
                    !.priceReview = IF price # None THEN FALSE
                                    ELSE @ \/ unitPrice = None]]
         /\ ledger' = [ledger EXCEPT ![p][w] =
                         Append(@, Movement("RECEIPT", k, row.quantity, after))]
         /\ evidence' = IF cost = None /\ price = None THEN evidence
                        ELSE [evidence EXCEPT ![p][w] =
                                Append(@, Valuation(unitCost, unitPrice, row, row))]
  /\ UNCHANGED draft

\* An author opens the valuation form of a balance.
ReadBalance(a, p, w) ==
  /\ draft[a] = None
  /\ balance[p][w] # None
  /\ draft' = [draft EXCEPT ![a] =
                 [product |-> p, warehouse |-> w, row |-> balance[p][w]]]
  /\ UNCHANGED <<balance, ledger, used, evidence>>

\* Only the version the author saw is valued; a cost or a price is supplied.
Revalue(k, a, cost, price) ==
  /\ Claim("VALUATION", k)
  /\ draft[a] # None
  /\ cost # None \/ price # None
  /\ LET p == draft[a].product
         w == draft[a].warehouse
         row == balance[p][w]
         unitCost == Or(cost, row.cost)
         unitPrice == Or(price, row.price)
     IN  /\ row.version = draft[a].row.version
         /\ row.version < MaxVersion
         /\ balance' =
              [balance EXCEPT ![p][w] =
                 [row EXCEPT
                    !.cost = unitCost,
                    !.price = unitPrice,
                    !.costReview = IF cost = None THEN @ ELSE cost = 0,
                    !.priceReview = IF price = None THEN @ ELSE FALSE,
                    !.version = @ + 1]]
         /\ evidence' = [evidence EXCEPT ![p][w] =
                           Append(@, Valuation(unitCost, unitPrice,
                                               draft[a].row, row))]
  /\ draft' = [draft EXCEPT ![a] = None]
  /\ UNCHANGED ledger

\* The author gives up, or is refused.
Discard(a) ==
  /\ draft[a] # None
  /\ draft' = [draft EXCEPT ![a] = None]
  /\ UNCHANGED <<balance, ledger, used, evidence>>

Next ==
  \/ \E k \in Key, p \in Product, w \in Warehouse, q \in Quantity :
       \/ Adjust(k, p, w, q) \/ Adjust(k, p, w, -q)
       \/ \E to \in Warehouse : Transfer(k, p, w, to, q)
       \/ \E c \in NullOr(Cost), x \in NullOr(Price) : Receive(k, p, w, q, c, x)
  \/ \E a \in Author :
       \/ \E p \in Product, w \in Warehouse : ReadBalance(a, p, w)
       \/ \E k \in Key, c \in NullOr(Cost), x \in NullOr(Price) : Revalue(k, a, c, x)
       \/ Discard(a)

Spec == Init /\ [][Next]_vars

-----------------------------------------------------------------------------
(* The abstract ledger: a place is a product in a warehouse, and units go  *)
(* from one warehouse to another.                                          *)

Places == Product \X Warehouse

Ledger == INSTANCE StockLedger
  WITH Place <- Places, Together <- {},
       Exchange <- {e \in Places \X Places : e[1] # e[2] /\ e[1][1] = e[2][1]},
       Opening <- [x \in Places |->
                     IF Opening[x[1]][x[2]] = None THEN 0
                     ELSE Opening[x[1]][x[2]].quantity],
       quantity <- [x \in Places |-> Row(x[1], x[2]).quantity],
       moves <- [x \in Places |-> Steps(ledger[x[1]][x[2]])]

\* Whatever moves the stock, no quantity changes without a movement from what
\* it was to what it is, none becomes negative or too large, and a transfer
\* takes out of one warehouse what it puts into another.
CommandsFollowLedger == Ledger!Spec

-----------------------------------------------------------------------------
(* Properties.                                                             *)

\* A valuation replaces the very row its author saw: quantity, values and flags.
ValuationsSeeWhatTheyReplace ==
  \A p \in Product, w \in Warehouse : \A i \in DOMAIN evidence[p][w] :
    evidence[p][w][i].saw = evidence[p][w][i].replaced

\* What somebody supplied for the product, in some warehouse.
SuppliedCosts(p) ==
  {c \in Cost : \E w \in Warehouse :
     \/ \E i \in DOMAIN evidence[p][w] : evidence[p][w][i].cost = c
     \/ Opening[p][w] # None /\ Opening[p][w].cost = c}

SuppliedPrices(p) ==
  {x \in Price : \E w \in Warehouse :
     \/ \E i \in DOMAIN evidence[p][w] : evidence[p][w][i].price = x
     \/ Opening[p][w] # None /\ Opening[p][w].price = x}

Kept ==
  \A p \in Product, w \in Warehouse :
    LET row == Row(p, w)
        next == Row(p, w)'
    IN  evidence'[p][w] = evidence[p][w] =>
          /\ row.cost # None => next.cost = row.cost
          /\ row.price # None => next.price = row.price
          /\ next.cost # row.cost => next.cost \in SuppliedCosts(p)
          /\ next.price # row.price => next.price \in SuppliedPrices(p)

\* Without a valuation of its own a balance keeps the cost and the price it
\* has, and fills a gap only with a value somebody supplied for the product
\* in some warehouse (ADR-019: never overwritten, never invented); and a
\* valuation overwrites only what its author saw, which depends on every other
\* command making a new version.
ValuesKeptNeverInvented == [][Kept /\ ValuationsSeeWhatTheyReplace']_vars
=============================================================================
