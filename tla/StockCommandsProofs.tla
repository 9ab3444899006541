------------------------- MODULE StockCommandsProofs -------------------------
(***************************************************************************)
(* For any products, warehouses, people and amounts: the stock commands    *)
(* implement the abstract ledger, a valuation replaces what its author     *)
(* saw, and costs and prices are neither overwritten nor invented.  And    *)
(* for any people and workbooks, a counted workbook is imported as it      *)
(* counts.                                                                 *)
(*                                                                         *)
(* The argument: every command writes the rows it changes with one more    *)
(* version, so that a draft of the present version shows the present row;  *)
(* and the values of a balance were supplied for its product.              *)
(***************************************************************************)
EXTENDS StockCommands, CountedImport, SequenceTheorems, TLAPS

Operations == {"ADJUSTMENT", "TRANSFER", "RECEIPT", "VALUATION"}
Kinds == {"ADJUSTMENT", "TRANSFER_OUT", "TRANSFER_IN", "RECEIPT"}

MovementRow == [kind : Kinds, key : Key, before : Quantity, after : Quantity]

ValuationRow ==
  [cost : NullOr(Cost), price : NullOr(Price), saw : BalanceRow, replaced : BalanceRow]

Draft == [product : Product, warehouse : Warehouse, row : BalanceRow]

TypeOK ==
  /\ balance \in [Product -> [Warehouse -> NullOr(BalanceRow)]]
  /\ ledger \in [Product -> [Warehouse -> Seq(MovementRow)]]
  /\ used \subseteq Operations \X Key
  /\ evidence \in [Product -> [Warehouse -> Seq(ValuationRow)]]
  /\ draft \in [Author -> NullOr(Draft)]

\* A draft shows an earlier version of its balance, or the present row.
DraftsLag ==
  \A a \in Author : draft[a] # None =>
    LET d == draft[a]
        row == balance[d.product][d.warehouse]
    IN  /\ row # None
        /\ d.row.version <= row.version
        /\ d.row.version = row.version => d.row = row

\* What a balance has was supplied for its product, in some warehouse.
ValuesSupplied ==
  \A p \in Product, w \in Warehouse :
    /\ Row(p, w).cost # None => Row(p, w).cost \in SuppliedCosts(p)
    /\ Row(p, w).price # None => Row(p, w).price \in SuppliedPrices(p)

\* A cost of zero is always under review.
ZeroCostsReviewed ==
  \A p \in Product, w \in Warehouse : Row(p, w).cost = 0 => Row(p, w).costReview

IInv ==
  /\ TypeOK /\ DraftsLag /\ ValuationsSeeWhatTheyReplace
  /\ ValuesSupplied /\ ZeroCostsReviewed

-----------------------------------------------------------------------------
(* Rows.                                                                   *)

LEMMA EmptyTyped == Empty \in BalanceRow
  BY BalancesAssumption DEF Empty, BalanceRow, Quantity, NullOr

LEMMA RowTyped ==
  ASSUME TypeOK, NEW p \in Product, NEW w \in Warehouse
  PROVE  Row(p, w) \in BalanceRow
  BY EmptyTyped DEF TypeOK, Row, NullOr

LEMMA MovedTyped ==
  ASSUME NEW row \in BalanceRow, NEW q \in Quantity
  PROVE  /\ Moved(row, q) \in BalanceRow
         /\ Moved(row, q).version = row.version + 1
         /\ Moved(row, q).quantity = q
         /\ Moved(row, q).cost = row.cost /\ Moved(row, q).price = row.price
         /\ Moved(row, q).costReview = row.costReview
  <1>1. row.version + 1 \in Nat
    BY DEF BalanceRow
  <1>. QED BY <1>1 DEF Moved, BalanceRow

\* A destination keeps what it has and takes what it lacks.
LEMMA InheritTyped ==
  ASSUME NEW source \in BalanceRow, NEW row \in BalanceRow
  PROVE  /\ Inherit(source, row) \in BalanceRow
         /\ Inherit(source, row).version = row.version
         /\ Inherit(source, row).quantity = row.quantity
         /\ Inherit(source, row).cost =
              IF row.cost = None THEN source.cost ELSE row.cost
         /\ Inherit(source, row).price =
              IF row.price = None THEN source.price ELSE row.price
         /\ Inherit(source, row).costReview =
              IF row.cost = None /\ source.cost # None
              THEN source.costReview ELSE row.costReview
  BY DEF Inherit, BalanceRow, NullOr

-----------------------------------------------------------------------------
(* What the commands write.                                                *)

\* Only the balances of S are written, and the new balances are rows.
OnlyWrites(S) ==
  /\ balance' \in [Product -> [Warehouse -> NullOr(BalanceRow)]]
  /\ \A p \in Product, w \in Warehouse :
       IF <<p, w>> \in S
       THEN /\ balance'[p][w] \in BalanceRow
            /\ balance'[p][w].version = Row(p, w).version + 1
       ELSE balance'[p][w] = balance[p][w]

LEMMA OneWrite ==
  ASSUME TypeOK, NEW p \in Product, NEW w \in Warehouse, NEW r \in BalanceRow,
         r.version = Row(p, w).version + 1,
         balance' = [balance EXCEPT ![p][w] = r]
  PROVE  OnlyWrites({<<p, w>>}) /\ balance'[p][w] = r
  BY DEF OnlyWrites, TypeOK, NullOr

\* A balance that is written has its row, the others keep theirs.
LEMMA RowAfter ==
  ASSUME TypeOK, NEW S, OnlyWrites(S), NEW p \in Product, NEW w \in Warehouse
  PROVE  /\ Row(p, w)' \in BalanceRow
         /\ <<p, w>> \notin S => Row(p, w)' = Row(p, w)
         /\ <<p, w>> \in S => /\ Row(p, w)' = balance'[p][w]
                              /\ Row(p, w)'.version = Row(p, w).version + 1
  BY EmptyTyped, StockCommandsAssumption DEF OnlyWrites, Row, NullOr

\* Drafts go on lagging behind, whatever is written.
LEMMA DraftsStay ==
  ASSUME TypeOK, DraftsLag, NEW S, OnlyWrites(S),
         draft' \in [Author -> NullOr(Draft)],
         \A a \in Author : draft'[a] \in {draft[a], None}
  PROVE  DraftsLag'
  <1>. SUFFICES ASSUME NEW a \in Author, draft'[a] # None
                PROVE  LET d == draft'[a]
                           row == balance'[d.product][d.warehouse]
                       IN  /\ row # None
                           /\ d.row.version <= row.version
                           /\ d.row.version = row.version => d.row = row
    BY DEF DraftsLag
  <1>. DEFINE d == draft[a]
  <1>1. draft'[a] = d /\ d \in Draft
    BY DEF TypeOK, NullOr
  <1>2. /\ d.product \in Product /\ d.warehouse \in Warehouse
        /\ d.row \in BalanceRow
    BY <1>1 DEF Draft
  <1>3. /\ balance[d.product][d.warehouse] # None
        /\ d.row.version <= Row(d.product, d.warehouse).version
        /\ d.row.version = Row(d.product, d.warehouse).version =>
             d.row = Row(d.product, d.warehouse)
    BY <1>1 DEF DraftsLag, Row
  <1>4. Row(d.product, d.warehouse).version \in Nat /\ d.row.version \in Nat
    BY <1>2, RowTyped DEF BalanceRow
  <1>5. CASE <<d.product, d.warehouse>> \in S
    BY <1>1, <1>2, <1>3, <1>4, <1>5, StockCommandsAssumption DEF OnlyWrites
  <1>6. CASE <<d.product, d.warehouse>> \notin S
    BY <1>1, <1>2, <1>3, <1>4, <1>6 DEF OnlyWrites, Row
  <1>. QED BY <1>5, <1>6

-----------------------------------------------------------------------------
(* What is recorded.                                                       *)

LEMMA AppendTyped ==
  ASSUME NEW T, NEW s \in Seq(T), NEW e \in T
  PROVE  /\ Append(s, e) \in Seq(T)
         /\ Append(s, e) # s
         /\ DOMAIN s = 1 .. Len(s) /\ Len(s) \in Nat
         /\ DOMAIN Append(s, e) = 1 .. (Len(s) + 1)
         /\ \A i \in DOMAIN s : Append(s, e)[i] = s[i]
         /\ Append(s, e)[Len(s) + 1] = e
  <1>1. Len(Append(s, e)) = Len(s) + 1 /\ Len(s) \in Nat
    OBVIOUS
  <1>2. Append(s, e) # s
    BY <1>1
  <1>. QED BY <1>1, <1>2

\* A movement more in the table is a movement more in the abstract ledger.
LEMMA StepsOfAppend ==
  ASSUME NEW s \in Seq(MovementRow), NEW m \in MovementRow
  PROVE  Steps(Append(s, m)) =
           Append(Steps(s), [before |-> m.before, after |-> m.after])
  <1>. DEFINE Step == [before : Quantity, after : Quantity]
              e == [before |-> m.before, after |-> m.after]
              one == Steps(Append(s, m))
              other == Append(Steps(s), e)
  <1>1. /\ Len(s) \in Nat /\ DOMAIN s = 1 .. Len(s)
        /\ Append(s, m) \in Seq(MovementRow)
        /\ DOMAIN Append(s, m) = 1 .. (Len(s) + 1)
        /\ \A i \in DOMAIN s : Append(s, m)[i] = s[i]
        /\ Append(s, m)[Len(s) + 1] = m
    BY AppendTyped
  <1>2. ASSUME NEW t \in Seq(MovementRow)
        PROVE  Steps(t) \in Seq(Step) /\ Len(Steps(t)) = Len(t)
    <2>. DEFINE g == [i \in 1 .. Len(t) |-> [before |-> t[i].before, after |-> t[i].after]]
    <2>1. Len(t) \in Nat /\ DOMAIN t = 1 .. Len(t)
      OBVIOUS
    <2>2. ASSUME NEW i \in 1 .. Len(t)
          PROVE  [before |-> t[i].before, after |-> t[i].after] \in Step
      <3>1. t[i] \in MovementRow
        BY <2>1
      <3>. QED BY <3>1 DEF MovementRow
    <2>3. g \in [1 .. Len(t) -> Step]
      BY <2>2
    <2>4. g \in Seq(Step) /\ Len(g) = Len(t)
      BY <2>1, <2>2
    <2>. QED BY <2>1, <2>4 DEF Steps
  <1>3. one \in Seq(Step) /\ Len(one) = Len(s) + 1
    <2>1. Len(Append(s, m)) = Len(s) + 1
      OBVIOUS
    <2>. HIDE DEF Step
    <2>. QED BY <1>1, <1>2, <2>1
  <1>4. e \in Step
    BY DEF MovementRow
  <1>5. Steps(s) \in Seq(Step) /\ Len(Steps(s)) = Len(s)
    BY <1>2
  <1>6. /\ other \in Seq(Step) /\ Len(other) = Len(s) + 1
        /\ \A i \in 1 .. Len(s) : other[i] = Steps(s)[i]
        /\ other[Len(s) + 1] = e
    BY <1>4, <1>5
  <1>7. \A i \in 1 .. Len(one) : one[i] = other[i]
    BY <1>1, <1>3, <1>6 DEF Steps
  <1>. QED BY <1>3, <1>6, <1>7, SeqEqual

LEMMA MovementTyped ==
  ASSUME NEW kind \in Kinds, NEW k \in Key, NEW x \in Quantity, NEW y \in Quantity
  PROVE  /\ Movement(kind, k, x, y) \in MovementRow
         /\ Movement(kind, k, x, y).before = x /\ Movement(kind, k, x, y).after = y
  BY DEF Movement, MovementRow

LEMMA ValuationTyped ==
  ASSUME NEW c \in NullOr(Cost), NEW x \in NullOr(Price), NEW row \in BalanceRow
  PROVE  /\ Valuation(c, x, row, row) \in ValuationRow
         /\ Valuation(c, x, row, row).cost = c
         /\ Valuation(c, x, row, row).price = x
         /\ Valuation(c, x, row, row).saw = row
         /\ Valuation(c, x, row, row).replaced = row
  BY DEF Valuation, ValuationRow

LEMMA ClaimTyped ==
  ASSUME TypeOK, NEW op \in Operations, NEW k \in Key, Claim(op, k)
  PROVE  used' \subseteq Operations \X Key
  BY DEF TypeOK, Claim

\* A movement is recorded at each place of S, from what it held to what it
\* holds, and nowhere else.
OnlyPosts(S) ==
  /\ ledger' \in [Product -> [Warehouse -> Seq(MovementRow)]]
  /\ \A p \in Product, w \in Warehouse :
       IF <<p, w>> \in S
       THEN \E m \in MovementRow :
              /\ m.before = Row(p, w).quantity /\ m.after = Row(p, w)'.quantity
              /\ ledger'[p][w] = Append(ledger[p][w], m)
       ELSE ledger'[p][w] = ledger[p][w]

\* A valuation of the new row is recorded at each place of S, by somebody who
\* saw the row it replaced, and nowhere else.
OnlyValues(S) ==
  /\ evidence' \in [Product -> [Warehouse -> Seq(ValuationRow)]]
  /\ \A p \in Product, w \in Warehouse :
       IF <<p, w>> \in S
       THEN \E v \in ValuationRow :
              /\ v.cost = Row(p, w)'.cost /\ v.price = Row(p, w)'.price
              /\ v.saw = v.replaced
              /\ evidence'[p][w] = Append(evidence[p][w], v)
       ELSE evidence'[p][w] = evidence[p][w]

LEMMA NoPost == TypeOK /\ UNCHANGED ledger => OnlyPosts({})
  BY DEF TypeOK, OnlyPosts

LEMMA NoValue == TypeOK /\ UNCHANGED evidence => OnlyValues({})
  BY DEF TypeOK, OnlyValues

-----------------------------------------------------------------------------
(* What each command does.                                                 *)

LEMMA AdjustEffect ==
  ASSUME TypeOK, NEW k \in Key, NEW p \in Product, NEW w \in Warehouse,
         NEW delta \in Int, Adjust(k, p, w, delta)
  PROVE  LET after == Row(p, w).quantity + delta
         IN  /\ delta # 0 /\ after \in Quantity
             /\ Row(p, w)' = Moved(Row(p, w), after)
             /\ OnlyWrites({<<p, w>>}) /\ OnlyPosts({<<p, w>>}) /\ OnlyValues({})
             /\ TypeOK'
  <1>. DEFINE after == Row(p, w).quantity + delta
              new == Moved(Row(p, w), after)
              m == Movement("ADJUSTMENT", k, Row(p, w).quantity, after)
  <1>1. balance[p][w] = Row(p, w) /\ Row(p, w) \in BalanceRow
    BY RowTyped DEF Adjust, Row
  <1>2. after \in Quantity /\ Row(p, w).quantity \in Quantity
    BY <1>1 DEF Adjust, BalanceRow
  <1>3. /\ new \in BalanceRow /\ new.version = Row(p, w).version + 1
        /\ new.quantity = after
    BY <1>1, <1>2, MovedTyped
  <1>4. balance' = [balance EXCEPT ![p][w] = new]
    <2>1. balance' = [balance EXCEPT ![p][w] =
                        Moved(balance[p][w], balance[p][w].quantity + delta)]
      BY Zenon DEF Adjust
    <2>. QED BY <1>1, <2>1
  <1>5. OnlyWrites({<<p, w>>}) /\ balance'[p][w] = new
    <2>. HIDE DEF new
    <2>. QED BY <1>3, <1>4, OneWrite
  <1>6. Row(p, w)' = new
    BY <1>5, RowAfter
  <1>7. m \in MovementRow /\ m.before = Row(p, w).quantity /\ m.after = after
    BY <1>2, MovementTyped DEF Kinds
  <1>8. ledger' = [ledger EXCEPT ![p][w] = Append(@, m)]
    BY <1>1 DEF Adjust
  <1>9. OnlyPosts({<<p, w>>})
    <2>1. Append(ledger[p][w], m) \in Seq(MovementRow)
      BY <1>7 DEF TypeOK
    <2>2. m.after = Row(p, w)'.quantity
      BY <1>3, <1>6, <1>7
    <2>. HIDE DEF m, new
    <2>. QED BY <1>7, <1>8, <2>1, <2>2 DEF OnlyPosts, TypeOK
  <1>10. OnlyValues({})
    BY NoValue DEF Adjust
  <1>11. used' \subseteq Operations \X Key
    BY ClaimTyped DEF Adjust, Operations
  <1>12. UNCHANGED <<evidence, draft>>
    BY DEF Adjust
  <1>13. TypeOK'
    BY <1>5, <1>9, <1>11, <1>12 DEF TypeOK, OnlyWrites, OnlyPosts
  <1>14. delta # 0
    BY DEF Adjust
  <1>. QED BY <1>2, <1>5, <1>6, <1>9, <1>10, <1>13, <1>14

LEMMA TransferEffect ==
  ASSUME TypeOK, NEW k \in Key, NEW p \in Product,
         NEW from \in Warehouse, NEW to \in Warehouse,
         NEW quantity \in Quantity, Transfer(k, p, from, to, quantity)
  PROVE  LET out == Row(p, from).quantity - quantity
             in == Row(p, to).quantity + quantity
             both == {<<p, from>>, <<p, to>>}
         IN  /\ from # to /\ quantity > 0
             /\ out \in Quantity /\ in \in Quantity
             /\ Row(p, from)' = Moved(Row(p, from), out)
             /\ Row(p, to)' = Moved(Inherit(Row(p, from), Row(p, to)), in)
             /\ OnlyWrites(both) /\ OnlyPosts(both) /\ OnlyValues({})
             /\ TypeOK'
  <1>. DEFINE out == Row(p, from).quantity - quantity
              in == Row(p, to).quantity + quantity
              both == {<<p, from>>, <<p, to>>}
              r == Moved(Row(p, from), out)
              heir == Inherit(Row(p, from), Row(p, to))
              s == Moved(heir, in)
              m == Movement("TRANSFER_OUT", k, Row(p, from).quantity, out)
              n == Movement("TRANSFER_IN", k, Row(p, to).quantity, in)
  <1>1. balance[p][from] = Row(p, from)
    BY DEF Transfer, Row
  <1>2. /\ Row(p, from) \in BalanceRow /\ Row(p, to) \in BalanceRow
        /\ Row(p, from).quantity \in Quantity /\ Row(p, to).quantity \in Quantity
    BY RowTyped DEF BalanceRow
  <1>3. /\ from # to /\ quantity > 0
        /\ Row(p, from).quantity >= quantity /\ in \in Quantity
    BY <1>1 DEF Transfer
  <1>4. out \in Quantity
    BY <1>2, <1>3, BalancesAssumption DEF Quantity, BalanceRow
  <1>5. heir \in BalanceRow /\ heir.version = Row(p, to).version
    BY <1>2, InheritTyped
  <1>6. /\ r \in BalanceRow /\ r.version = Row(p, from).version + 1
        /\ s \in BalanceRow /\ s.version = Row(p, to).version + 1
        /\ r.quantity = out /\ s.quantity = in
    <2>. HIDE DEF heir, in, out
    <2>1. /\ r \in BalanceRow /\ r.version = Row(p, from).version + 1
          /\ r.quantity = out
      BY <1>2, <1>4, MovedTyped
    <2>2. s \in BalanceRow /\ s.version = heir.version + 1 /\ s.quantity = in
      BY <1>3, <1>5, MovedTyped
    <2>. QED BY <2>1, <2>2, <1>5
  <1>7. balance' = [balance EXCEPT ![p][from] = r, ![p][to] = s]
    <2>1. balance' =
            [balance EXCEPT
               ![p][from] = Moved(balance[p][from], balance[p][from].quantity - quantity),
               ![p][to] = Moved(Inherit(balance[p][from], Row(p, to)), in)]
      BY Zenon DEF Transfer
    <2>. QED BY <1>1, <2>1
  <1>8. /\ OnlyWrites(both)
        /\ balance'[p][from] = r /\ balance'[p][to] = s
    <2>. HIDE DEF r, s, heir, in, out
    <2>1. from # to
      BY <1>3
    <2>. QED BY <2>1, <1>6, <1>7 DEF OnlyWrites, TypeOK, NullOr
  <1>9. Row(p, from)' = r /\ Row(p, to)' = s
    <2>1. <<p, from>> \in both /\ <<p, to>> \in both
      OBVIOUS
    <2>. HIDE DEF both, r, s
    <2>. QED BY <1>8, <2>1, RowAfter
  <1>10. /\ m \in MovementRow /\ m.before = Row(p, from).quantity /\ m.after = out
         /\ n \in MovementRow /\ n.before = Row(p, to).quantity /\ n.after = in
    BY <1>2, <1>3, <1>4, MovementTyped DEF Kinds
  <1>11. ledger' = [ledger EXCEPT ![p][from] = Append(@, m), ![p][to] = Append(@, n)]
    <2>1. ledger' =
            [ledger EXCEPT
               ![p][from] = Append(@, Movement("TRANSFER_OUT", k, balance[p][from].quantity,
                                               balance[p][from].quantity - quantity)),
               ![p][to] = Append(@, n)]
      BY Zenon DEF Transfer
    <2>. QED BY <1>1, <2>1
  <1>12. OnlyPosts(both)
    <2>1. /\ Append(ledger[p][from], m) \in Seq(MovementRow)
          /\ Append(ledger[p][to], n) \in Seq(MovementRow)
      BY <1>10 DEF TypeOK
    <2>2. from # to /\ m.after = Row(p, from)'.quantity /\ n.after = Row(p, to)'.quantity
      BY <1>3, <1>6, <1>9, <1>10
    <2>. HIDE DEF m, n, r, s, out, in, heir
    <2>. QED BY <1>10, <1>11, <2>1, <2>2 DEF OnlyPosts, TypeOK
  <1>13. OnlyValues({})
    BY NoValue DEF Transfer
  <1>14. used' \subseteq Operations \X Key
    BY ClaimTyped DEF Transfer, Operations
  <1>15. UNCHANGED <<evidence, draft>>
    BY DEF Transfer
  <1>16. TypeOK'
    BY <1>8, <1>12, <1>14, <1>15 DEF TypeOK, OnlyWrites, OnlyPosts
  <1>. QED BY <1>3, <1>4, <1>8, <1>9, <1>12, <1>13, <1>16

\* The row that a receipt leaves.
Received(row, quantity, cost, price) ==
  [row EXCEPT
     !.quantity = @ + quantity, !.version = @ + 1,
     !.cost = Or(cost, @), !.price = Or(price, @),
     !.costReview = IF cost # None THEN cost = 0 ELSE @ \/ Or(cost, row.cost) = None,
     !.priceReview = IF price # None THEN FALSE ELSE @ \/ Or(price, row.price) = None]

LEMMA ReceiveEffect ==
  ASSUME TypeOK, NEW k \in Key, NEW p \in Product, NEW w \in Warehouse,
         NEW quantity \in Quantity,
         NEW cost \in NullOr(Cost), NEW price \in NullOr(Price),
         Receive(k, p, w, quantity, cost, price)
  PROVE  /\ quantity > 0 /\ Row(p, w).quantity + quantity \in Quantity
         /\ Row(p, w)' = Received(Row(p, w), quantity, cost, price)
         /\ OnlyWrites({<<p, w>>}) /\ OnlyPosts({<<p, w>>})
         /\ OnlyValues(IF cost = None /\ price = None THEN {} ELSE {<<p, w>>})
         /\ TypeOK'
  <1>. DEFINE row == Row(p, w)
              new == Received(row, quantity, cost, price)
              m == Movement("RECEIPT", k, row.quantity, row.quantity + quantity)
              v == Valuation(new.cost, new.price, row, row)
  <1>1. row \in BalanceRow /\ row.quantity \in Quantity
    BY RowTyped DEF BalanceRow
  <1>2. quantity > 0 /\ row.quantity + quantity \in Quantity
    BY DEF Receive
  <1>3. row.version + 1 \in Nat
    BY <1>1 DEF BalanceRow
  <1>4. /\ new \in BalanceRow /\ new.version = row.version + 1
        /\ new.quantity = row.quantity + quantity
        /\ new.cost = Or(cost, row.cost) /\ new.price = Or(price, row.price)
        /\ new.cost \in NullOr(Cost) /\ new.price \in NullOr(Price)
    BY <1>1, <1>2, <1>3 DEF Received, BalanceRow, Or, NullOr
  <1>5. balance' = [balance EXCEPT ![p][w] = new]
    BY <1>1 DEF Receive, Received, Moved, BalanceRow
  <1>6. OnlyWrites({<<p, w>>}) /\ balance'[p][w] = new
    <2>. HIDE DEF new
    <2>. QED BY <1>4, <1>5, OneWrite
  <1>7. Row(p, w)' = new
    BY <1>6, RowAfter
  <1>8. /\ m \in MovementRow /\ m.before = row.quantity
        /\ m.after = row.quantity + quantity
    BY <1>1, <1>2, MovementTyped DEF Kinds
  <1>9. OnlyPosts({<<p, w>>})
    <2>1. ledger' = [ledger EXCEPT ![p][w] = Append(@, m)]
      BY DEF Receive
    <2>2. Append(ledger[p][w], m) \in Seq(MovementRow)
      BY <1>8 DEF TypeOK
    <2>3. m.after = Row(p, w)'.quantity
      BY <1>4, <1>7, <1>8
    <2>. HIDE DEF m, new
    <2>. QED BY <1>8, <2>1, <2>2, <2>3 DEF OnlyPosts, TypeOK
  <1>10. OnlyValues(IF cost = None /\ price = None THEN {} ELSE {<<p, w>>})
    <2>1. CASE cost = None /\ price = None
      BY <2>1, NoValue DEF Receive
    <2>2. CASE ~(cost = None /\ price = None)
      <3>1. /\ v \in ValuationRow /\ v.cost = new.cost /\ v.price = new.price
            /\ v.saw = row /\ v.replaced = row
        <4>. HIDE DEF new, row
        <4>. QED BY <1>1, <1>4, ValuationTyped
      <3>2. evidence' = [evidence EXCEPT ![p][w] = Append(@, v)]
        BY <2>2, <1>4 DEF Receive
      <3>3. Append(evidence[p][w], v) \in Seq(ValuationRow)
        BY <3>1 DEF TypeOK
      <3>. HIDE DEF v, new
      <3>4. OnlyValues({<<p, w>>})
        BY <1>7, <3>1, <3>2, <3>3 DEF OnlyValues, TypeOK
      <3>. QED BY <2>2, <3>4
    <2>. QED BY <2>1, <2>2
  <1>11. used' \subseteq Operations \X Key
    BY ClaimTyped DEF Receive, Operations
  <1>12. UNCHANGED draft
    BY DEF Receive
  <1>13. TypeOK'
    BY <1>6, <1>9, <1>10, <1>11, <1>12 DEF TypeOK, OnlyWrites, OnlyPosts, OnlyValues
  <1>. QED BY <1>2, <1>6, <1>7, <1>9, <1>10, <1>13

\* The row that a valuation leaves.
Revalued(row, cost, price) ==
  [row EXCEPT
     !.cost = Or(cost, @), !.price = Or(price, @),
     !.costReview = IF cost = None THEN @ ELSE cost = 0,
     !.priceReview = IF price = None THEN @ ELSE FALSE,
     !.version = @ + 1]

LEMMA RevaluedTyped ==
  ASSUME NEW row \in BalanceRow, NEW cost \in NullOr(Cost), NEW price \in NullOr(Price)
  PROVE  LET new == Revalued(row, cost, price)
         IN  /\ new \in BalanceRow /\ new.version = row.version + 1
             /\ new.cost = Or(cost, row.cost) /\ new.price = Or(price, row.price)
             /\ new.cost \in NullOr(Cost) /\ new.price \in NullOr(Price)
             /\ new.quantity = row.quantity
             /\ new.costReview = IF cost = None THEN row.costReview ELSE cost = 0
  <1>1. row.version + 1 \in Nat
    BY DEF BalanceRow
  <1>2. (IF cost = None THEN row.costReview ELSE cost = 0) \in BOOLEAN
    BY DEF BalanceRow
  <1>3. (IF price = None THEN row.priceReview ELSE FALSE) \in BOOLEAN
    BY DEF BalanceRow
  <1>4. Or(cost, row.cost) \in NullOr(Cost) /\ Or(price, row.price) \in NullOr(Price)
    BY DEF BalanceRow, Or
  <1>. QED BY <1>1, <1>2, <1>3, <1>4 DEF Revalued, BalanceRow

\* The version of the draft is that of the row, so it shows the row itself.
LEMMA RevalueEffect ==
  ASSUME TypeOK, DraftsLag, NEW k \in Key, NEW a \in Author,
         NEW cost \in NullOr(Cost), NEW price \in NullOr(Price),
         Revalue(k, a, cost, price),
         NEW p, NEW w, p = draft[a].product, w = draft[a].warehouse
  PROVE  /\ p \in Product /\ w \in Warehouse
         /\ Row(p, w)' = Revalued(Row(p, w), cost, price)
         /\ OnlyWrites({<<p, w>>}) /\ OnlyPosts({}) /\ OnlyValues({<<p, w>>})
         /\ TypeOK'
  <1>. DEFINE row == Row(p, w)
              new == Revalued(row, cost, price)
              v == Valuation(new.cost, new.price, row, row)
  <1>1. draft[a] # None /\ draft[a] \in Draft
    BY DEF Revalue, TypeOK, NullOr
  <1>2. p \in Product /\ w \in Warehouse
    BY <1>1 DEF Draft
  <1>3. row \in BalanceRow /\ balance[p][w] = row
    BY <1>1, <1>2, RowTyped DEF DraftsLag, Row
  <1>4. draft[a].row = row
    BY <1>1, <1>3 DEF DraftsLag, Revalue
  <1>5. /\ new \in BalanceRow /\ new.version = row.version + 1
        /\ new.cost = Or(cost, row.cost) /\ new.price = Or(price, row.price)
        /\ new.cost \in NullOr(Cost) /\ new.price \in NullOr(Price)
    <2>. HIDE DEF row
    <2>. QED BY <1>3, RevaluedTyped
  <1>6. balance' = [balance EXCEPT ![p][w] = new]
    BY <1>3 DEF Revalue, Revalued, BalanceRow
  <1>7. OnlyWrites({<<p, w>>}) /\ balance'[p][w] = new
    <2>. HIDE DEF new
    <2>. QED BY <1>2, <1>5, <1>6 DEF OnlyWrites, TypeOK, NullOr
  <1>8. Row(p, w)' = new
    <2>. HIDE DEF new
    <2>. QED BY <1>2, <1>7, RowAfter
  <1>9. OnlyPosts({})
    BY NoPost DEF Revalue
  <1>10. OnlyValues({<<p, w>>})
    <2>1. /\ v \in ValuationRow /\ v.cost = new.cost /\ v.price = new.price
          /\ v.saw = row /\ v.replaced = row
      <3>. HIDE DEF new, row
      <3>. QED BY <1>3, <1>5, ValuationTyped
    <2>2. evidence' = [evidence EXCEPT ![p][w] = Append(@, v)]
      BY <1>3, <1>4, <1>5 DEF Revalue
    <2>3. Append(evidence[p][w], v) \in Seq(ValuationRow)
      BY <1>2, <2>1 DEF TypeOK
    <2>. HIDE DEF v, new
    <2>. QED BY <1>2, <1>8, <2>1, <2>2, <2>3 DEF OnlyValues, TypeOK
  <1>11. used' \subseteq Operations \X Key
    BY ClaimTyped DEF Revalue, Operations
  <1>12. draft' \in [Author -> NullOr(Draft)]
    BY DEF Revalue, TypeOK, NullOr
  <1>13. TypeOK'
    BY <1>7, <1>9, <1>10, <1>11, <1>12 DEF TypeOK, OnlyWrites, OnlyPosts, OnlyValues
  <1>. QED BY <1>2, <1>7, <1>8, <1>9, <1>10, <1>13

-----------------------------------------------------------------------------
(* Values.                                                                 *)

\* Outside V a row keeps its values, or fills a gap with a supplied one.
FillsGaps(V) ==
  \A p \in Product, w \in Warehouse : <<p, w>> \notin V =>
    /\ Row(p, w).cost # None => Row(p, w)'.cost = Row(p, w).cost
    /\ Row(p, w).price # None => Row(p, w)'.price = Row(p, w).price
    /\ Row(p, w)'.cost # Row(p, w).cost => Row(p, w)'.cost \in SuppliedCosts(p)
    /\ Row(p, w)'.price # Row(p, w).price => Row(p, w)'.price \in SuppliedPrices(p)

LEMMA FillsNothing ==
  ASSUME NEW V,
         \A p \in Product, w \in Warehouse : <<p, w>> \notin V =>
           Row(p, w)'.cost = Row(p, w).cost /\ Row(p, w)'.price = Row(p, w).price
  PROVE  FillsGaps(V)
  BY DEF FillsGaps

\* What was supplied stays supplied, and a new valuation supplies its values.
LEMMA SuppliedGrows ==
  ASSUME TypeOK, NEW V, OnlyValues(V), NEW p \in Product
  PROVE  /\ SuppliedCosts(p) \subseteq SuppliedCosts(p)'
         /\ SuppliedPrices(p) \subseteq SuppliedPrices(p)'
         /\ \A w \in Warehouse : <<p, w>> \in V =>
              /\ Row(p, w)'.cost # None => Row(p, w)'.cost \in SuppliedCosts(p)'
              /\ Row(p, w)'.price # None => Row(p, w)'.price \in SuppliedPrices(p)'
  <1>1. ASSUME NEW w \in Warehouse, NEW i \in DOMAIN evidence[p][w]
        PROVE  i \in DOMAIN evidence'[p][w] /\ evidence'[p][w][i] = evidence[p][w][i]
    <2>1. evidence[p][w] \in Seq(ValuationRow)
      BY DEF TypeOK
    <2>2. CASE <<p, w>> \in V
      <3>1. PICK v \in ValuationRow : evidence'[p][w] = Append(evidence[p][w], v)
        BY <2>2 DEF OnlyValues
      <3>. QED BY <2>1, <3>1, AppendTyped
    <2>3. CASE <<p, w>> \notin V
      BY <2>3 DEF OnlyValues
    <2>. QED BY <2>2, <2>3
  <1>2. SuppliedCosts(p) \subseteq SuppliedCosts(p)'
    BY <1>1 DEF SuppliedCosts
  <1>3. SuppliedPrices(p) \subseteq SuppliedPrices(p)'
    BY <1>1 DEF SuppliedPrices
  <1>4. ASSUME NEW w \in Warehouse, <<p, w>> \in V
        PROVE  /\ Row(p, w)'.cost # None => Row(p, w)'.cost \in SuppliedCosts(p)'
               /\ Row(p, w)'.price # None => Row(p, w)'.price \in SuppliedPrices(p)'
    <2>1. PICK v \in ValuationRow :
            /\ v.cost = Row(p, w)'.cost /\ v.price = Row(p, w)'.price
            /\ evidence'[p][w] = Append(evidence[p][w], v)
      BY <1>4 DEF OnlyValues
    <2>2. PICK i \in DOMAIN evidence'[p][w] : evidence'[p][w][i] = v
      <3>1. evidence[p][w] \in Seq(ValuationRow)
        BY DEF TypeOK
      <3>2. /\ Len(evidence[p][w]) + 1 \in 1 .. (Len(evidence[p][w]) + 1)
            /\ DOMAIN evidence'[p][w] = 1 .. (Len(evidence[p][w]) + 1)
            /\ evidence'[p][w][Len(evidence[p][w]) + 1] = v
        BY <2>1, <3>1, AppendTyped
      <3>. QED BY <3>2
    <2>3. v.cost \in Cost \cup {None} /\ v.price \in Price \cup {None}
      BY DEF ValuationRow, NullOr
    <2>. QED BY <2>1, <2>2, <2>3 DEF SuppliedCosts, SuppliedPrices
  <1>. QED BY <1>2, <1>3, <1>4

LEMMA ValuesStay ==
  ASSUME TypeOK, ValuesSupplied, NEW V, OnlyValues(V), FillsGaps(V)
  PROVE  ValuesSupplied' /\ Kept
  <1>1. ASSUME NEW p \in Product, NEW w \in Warehouse
        PROVE  /\ Row(p, w)'.cost # None => Row(p, w)'.cost \in SuppliedCosts(p)'
               /\ Row(p, w)'.price # None => Row(p, w)'.price \in SuppliedPrices(p)'
    <2>1. CASE <<p, w>> \in V
      BY <2>1, SuppliedGrows
    <2>2. CASE <<p, w>> \notin V
      BY <2>2, SuppliedGrows DEF FillsGaps, ValuesSupplied
    <2>. QED BY <2>1, <2>2
  <1>2. ASSUME NEW p \in Product, NEW w \in Warehouse,
               evidence'[p][w] = evidence[p][w]
        PROVE  <<p, w>> \notin V
    <2>1. evidence[p][w] \in Seq(ValuationRow)
      BY DEF TypeOK
    <2>. QED BY <1>2, <2>1, AppendTyped DEF OnlyValues
  <1>3. Kept
    BY <1>2 DEF Kept, FillsGaps
  <1>. QED BY <1>1, <1>3 DEF ValuesSupplied

LEMMA SeenStays ==
  ASSUME TypeOK, ValuationsSeeWhatTheyReplace, NEW V, OnlyValues(V)
  PROVE  ValuationsSeeWhatTheyReplace'
  <1>. SUFFICES ASSUME NEW p \in Product, NEW w \in Warehouse,
                       NEW i \in DOMAIN evidence'[p][w]
                PROVE  evidence'[p][w][i].saw = evidence'[p][w][i].replaced
    BY DEF ValuationsSeeWhatTheyReplace
  <1>1. evidence[p][w] \in Seq(ValuationRow)
    BY DEF TypeOK
  <1>2. CASE <<p, w>> \in V
    <2>1. PICK v \in ValuationRow :
            v.saw = v.replaced /\ evidence'[p][w] = Append(evidence[p][w], v)
      BY <1>2 DEF OnlyValues
    <2>2. /\ DOMAIN evidence'[p][w] = 1 .. (Len(evidence[p][w]) + 1)
          /\ DOMAIN evidence[p][w] = 1 .. Len(evidence[p][w])
          /\ Len(evidence[p][w]) \in Nat
          /\ \A j \in DOMAIN evidence[p][w] : evidence'[p][w][j] = evidence[p][w][j]
          /\ evidence'[p][w][Len(evidence[p][w]) + 1] = v
      BY <1>1, <2>1, AppendTyped
    <2>3. i \in DOMAIN evidence[p][w] \/ i = Len(evidence[p][w]) + 1
      BY <2>2
    <2>. QED BY <2>1, <2>2, <2>3 DEF ValuationsSeeWhatTheyReplace
  <1>3. CASE <<p, w>> \notin V
    BY <1>3 DEF OnlyValues, ValuationsSeeWhatTheyReplace
  <1>. QED BY <1>2, <1>3

-----------------------------------------------------------------------------
(* What every command keeps.                                               *)

\* The command wrote S, recorded movements there and valuations at V.
Command(S, V) ==
  /\ TypeOK'
  /\ OnlyWrites(S) /\ OnlyValues(V)
  /\ FillsGaps(V)
  /\ ZeroCostsReviewed'
  /\ \A a \in Author : draft'[a] \in {draft[a], None}

LEMMA InvAfter ==
  ASSUME IInv, NEW S, NEW V, Command(S, V)
  PROVE  IInv' /\ Kept
  <1>1. DraftsLag'
    BY DraftsStay DEF IInv, Command, TypeOK
  <1>2. ValuesSupplied' /\ Kept
    BY ValuesStay DEF IInv, Command
  <1>3. ValuationsSeeWhatTheyReplace'
    BY SeenStays DEF IInv, Command
  <1>. QED BY <1>1, <1>2, <1>3 DEF IInv, Command

LEMMA AdjustKeeps ==
  ASSUME IInv, NEW k \in Key, NEW p \in Product, NEW w \in Warehouse,
         NEW delta \in Int, Adjust(k, p, w, delta)
  PROVE  Command({<<p, w>>}, {})
  <1>1. TypeOK
    BY DEF IInv
  <1>. DEFINE after == Row(p, w).quantity + delta
  <1>2. /\ Row(p, w)' = Moved(Row(p, w), after) /\ after \in Quantity
        /\ OnlyWrites({<<p, w>>}) /\ OnlyValues({}) /\ TypeOK'
    BY <1>1, AdjustEffect
  <1>3. \A q \in Product, v \in Warehouse :
          /\ Row(q, v)'.cost = Row(q, v).cost /\ Row(q, v)'.price = Row(q, v).price
          /\ Row(q, v)'.costReview = Row(q, v).costReview
    <2>. SUFFICES ASSUME NEW q \in Product, NEW v \in Warehouse
                  PROVE  /\ Row(q, v)'.cost = Row(q, v).cost
                         /\ Row(q, v)'.price = Row(q, v).price
                         /\ Row(q, v)'.costReview = Row(q, v).costReview
      OBVIOUS
    <2>1. CASE q = p /\ v = w
      BY <1>1, <1>2, <2>1, RowTyped, MovedTyped
    <2>2. CASE ~(q = p /\ v = w)
      <3>1. Row(q, v)' = Row(q, v)
        <4>. DEFINE S == {<<p, w>>}
        <4>1. <<q, v>> \notin S /\ OnlyWrites(S)
          BY <1>2, <2>2
        <4>. HIDE DEF S
        <4>. QED BY <1>1, <4>1, RowAfter
      <3>. QED BY <3>1
    <2>. QED BY <2>1, <2>2
  <1>4. FillsGaps({}) /\ ZeroCostsReviewed'
    BY <1>3, FillsNothing DEF IInv, ZeroCostsReviewed
  <1>. QED BY <1>2, <1>4 DEF Command, Adjust

LEMMA TransferKeeps ==
  ASSUME IInv, NEW k \in Key, NEW p \in Product,
         NEW from \in Warehouse, NEW to \in Warehouse,
         NEW quantity \in Quantity, Transfer(k, p, from, to, quantity)
  PROVE  Command({<<p, from>>, <<p, to>>}, {})
  <1>1. TypeOK /\ ValuesSupplied /\ ZeroCostsReviewed
    BY DEF IInv
  <1>. DEFINE out == Row(p, from).quantity - quantity
              in == Row(p, to).quantity + quantity
              both == {<<p, from>>, <<p, to>>}
              heir == Inherit(Row(p, from), Row(p, to))
  <1>2. /\ from # to /\ out \in Quantity /\ in \in Quantity
        /\ Row(p, from)' = Moved(Row(p, from), out)
        /\ Row(p, to)' = Moved(heir, in)
        /\ OnlyWrites(both) /\ OnlyValues({}) /\ TypeOK'
    BY <1>1, TransferEffect
  <1>3. Row(p, from) \in BalanceRow /\ Row(p, to) \in BalanceRow
    BY <1>1, RowTyped
  <1>4. /\ Row(p, from)'.cost = Row(p, from).cost
        /\ Row(p, from)'.price = Row(p, from).price
        /\ Row(p, from)'.costReview = Row(p, from).costReview
    BY <1>2, <1>3, MovedTyped
  <1>5. /\ Row(p, to)'.cost = IF Row(p, to).cost = None
                              THEN Row(p, from).cost ELSE Row(p, to).cost
        /\ Row(p, to)'.price = IF Row(p, to).price = None
                               THEN Row(p, from).price ELSE Row(p, to).price
        /\ Row(p, to)'.costReview =
             IF Row(p, to).cost = None /\ Row(p, from).cost # None
             THEN Row(p, from).costReview ELSE Row(p, to).costReview
    <2>. HIDE DEF heir, in
    <2>1. heir \in BalanceRow
      BY <1>3, InheritTyped DEF heir
    <2>2. /\ Row(p, to)'.cost = heir.cost /\ Row(p, to)'.price = heir.price
          /\ Row(p, to)'.costReview = heir.costReview
      BY <1>2, <2>1, MovedTyped
    <2>. QED BY <1>3, <2>2, InheritTyped DEF heir
  <1>6. \A v \in Warehouse, q \in Product : <<q, v>> \notin both =>
          Row(q, v)' = Row(q, v)
    <2>. HIDE DEF both
    <2>. QED BY <1>1, <1>2, RowAfter
  <1>7. FillsGaps({})
    <2>. SUFFICES ASSUME NEW q \in Product, NEW v \in Warehouse
                  PROVE  /\ Row(q, v).cost # None => Row(q, v)'.cost = Row(q, v).cost
                         /\ Row(q, v).price # None => Row(q, v)'.price = Row(q, v).price
                         /\ Row(q, v)'.cost # Row(q, v).cost =>
                              Row(q, v)'.cost \in SuppliedCosts(q)
                         /\ Row(q, v)'.price # Row(q, v).price =>
                              Row(q, v)'.price \in SuppliedPrices(q)
      BY DEF FillsGaps
    <2>1. CASE q = p /\ v = from
      BY <1>4, <2>1
    <2>2. CASE q = p /\ v = to
      BY <1>1, <1>5, <2>2 DEF ValuesSupplied
    <2>3. CASE <<q, v>> \notin both
      BY <1>6, <2>3
    <2>. QED BY <2>1, <2>2, <2>3
  <1>8. ZeroCostsReviewed'
    <2>. SUFFICES ASSUME NEW q \in Product, NEW v \in Warehouse, Row(q, v)'.cost = 0
                  PROVE  Row(q, v)'.costReview
      BY DEF ZeroCostsReviewed
    <2>1. CASE q = p /\ v = from
      BY <1>1, <1>4, <2>1 DEF ZeroCostsReviewed
    <2>2. CASE q = p /\ v = to
      BY <1>1, <1>5, <2>2, StockCommandsAssumption DEF ZeroCostsReviewed
    <2>3. CASE <<q, v>> \notin both
      BY <1>1, <1>6, <2>3 DEF ZeroCostsReviewed
    <2>. QED BY <2>1, <2>2, <2>3
  <1>. QED BY <1>2, <1>7, <1>8 DEF Command, Transfer

LEMMA ReceivedTyped ==
  ASSUME NEW row \in BalanceRow, NEW q \in Quantity,
         NEW cost \in NullOr(Cost), NEW price \in NullOr(Price)
  PROVE  LET new == Received(row, q, cost, price)
         IN  /\ new.cost = Or(cost, row.cost) /\ new.price = Or(price, row.price)
             /\ cost # None => new.costReview = (cost = 0)
             /\ row.costReview /\ cost = None => new.costReview
  BY DEF Received, BalanceRow

LEMMA ReceiveKeeps ==
  ASSUME IInv, NEW k \in Key, NEW p \in Product, NEW w \in Warehouse,
         NEW quantity \in Quantity,
         NEW cost \in NullOr(Cost), NEW price \in NullOr(Price),
         Receive(k, p, w, quantity, cost, price)
  PROVE  Command({<<p, w>>}, IF cost = None /\ price = None THEN {} ELSE {<<p, w>>})
  <1>1. TypeOK /\ ZeroCostsReviewed
    BY DEF IInv
  <1>. DEFINE S == {<<p, w>>}
              V == IF cost = None /\ price = None THEN {} ELSE S
  <1>2. /\ Row(p, w)' = Received(Row(p, w), quantity, cost, price)
        /\ OnlyWrites(S) /\ OnlyValues(V) /\ TypeOK'
    BY <1>1, ReceiveEffect
  <1>3. /\ Row(p, w)'.cost = Or(cost, Row(p, w).cost)
        /\ Row(p, w)'.price = Or(price, Row(p, w).price)
        /\ cost # None => Row(p, w)'.costReview = (cost = 0)
        /\ Row(p, w).costReview /\ cost = None => Row(p, w)'.costReview
    BY <1>1, <1>2, RowTyped, ReceivedTyped
  <1>4. \A q \in Product, v \in Warehouse : <<q, v>> \notin S =>
          Row(q, v)' = Row(q, v)
    <2>. HIDE DEF S
    <2>. QED BY <1>1, <1>2, RowAfter
  <1>5. FillsGaps(V)
    <2>. SUFFICES ASSUME NEW q \in Product, NEW v \in Warehouse, <<q, v>> \notin V
                  PROVE  /\ Row(q, v)'.cost = Row(q, v).cost
                         /\ Row(q, v)'.price = Row(q, v).price
      BY FillsNothing
    <2>1. CASE <<q, v>> \notin S
      BY <1>4, <2>1
    <2>2. CASE <<q, v>> \in S
      BY <1>3, <2>2 DEF Or
    <2>. QED BY <2>1, <2>2
  <1>6. ZeroCostsReviewed'
    <2>. SUFFICES ASSUME NEW q \in Product, NEW v \in Warehouse, Row(q, v)'.cost = 0
                  PROVE  Row(q, v)'.costReview
      BY DEF ZeroCostsReviewed
    <2>1. CASE <<q, v>> \notin S
      BY <1>1, <1>4, <2>1 DEF ZeroCostsReviewed
    <2>2. CASE q = p /\ v = w
      BY <1>1, <1>3, <2>2, StockCommandsAssumption DEF Or, ZeroCostsReviewed
    <2>. QED BY <2>1, <2>2
  <1>. QED BY <1>2, <1>5, <1>6 DEF Command, Receive

LEMMA RevalueKeeps ==
  ASSUME IInv, NEW k \in Key, NEW a \in Author,
         NEW cost \in NullOr(Cost), NEW price \in NullOr(Price),
         Revalue(k, a, cost, price),
         NEW p, NEW w, p = draft[a].product, w = draft[a].warehouse
  PROVE  Command({<<p, w>>}, {<<p, w>>})
  <1>1. TypeOK /\ DraftsLag /\ ZeroCostsReviewed
    BY DEF IInv
  <1>. DEFINE S == {<<p, w>>}
  <1>2. /\ p \in Product /\ w \in Warehouse
        /\ Row(p, w)' = Revalued(Row(p, w), cost, price)
        /\ OnlyWrites(S) /\ OnlyValues(S) /\ TypeOK'
    BY <1>1, RevalueEffect
  <1>3. /\ Row(p, w)'.cost = Or(cost, Row(p, w).cost)
        /\ Row(p, w)'.costReview = IF cost = None THEN Row(p, w).costReview
                                   ELSE cost = 0
    BY <1>1, <1>2, RowTyped, RevaluedTyped
  <1>4. \A q \in Product, v \in Warehouse : <<q, v>> \notin S =>
          Row(q, v)' = Row(q, v)
    <2>. HIDE DEF S
    <2>. QED BY <1>1, <1>2, RowAfter
  <1>5. FillsGaps(S)
    BY <1>4, FillsNothing
  <1>6. ZeroCostsReviewed'
    <2>. SUFFICES ASSUME NEW q \in Product, NEW v \in Warehouse, Row(q, v)'.cost = 0
                  PROVE  Row(q, v)'.costReview
      BY DEF ZeroCostsReviewed
    <2>1. CASE <<q, v>> \notin S
      BY <1>1, <1>4, <2>1 DEF ZeroCostsReviewed
    <2>2. CASE q = p /\ v = w
      BY <1>1, <1>3, <2>2, StockCommandsAssumption DEF Or, ZeroCostsReviewed
    <2>. QED BY <2>1, <2>2
  <1>7. \A b \in Author : draft'[b] \in {draft[b], None}
    BY <1>1 DEF Revalue, TypeOK
  <1>. QED BY <1>2, <1>5, <1>6, <1>7 DEF Command

\* Nothing is written when a form is opened or given up.
LEMMA QuietStep ==
  ASSUME IInv, UNCHANGED <<balance, ledger, used, evidence>>, TypeOK'
  PROVE  /\ ValuationsSeeWhatTheyReplace' /\ ValuesSupplied' /\ ZeroCostsReviewed'
         /\ Kept
  <1>1. \A p \in Product, w \in Warehouse :
          /\ Row(p, w)' = Row(p, w)
          /\ SuppliedCosts(p)' = SuppliedCosts(p)
          /\ SuppliedPrices(p)' = SuppliedPrices(p)
    BY DEF Row, SuppliedCosts, SuppliedPrices
  <1>. QED BY <1>1 DEF IInv, ValuationsSeeWhatTheyReplace, ValuesSupplied,
                       ZeroCostsReviewed, Kept

LEMMA ReadKeeps ==
  ASSUME IInv, NEW a \in Author, NEW p \in Product, NEW w \in Warehouse,
         ReadBalance(a, p, w)
  PROVE  IInv' /\ Kept
  <1>1. TypeOK /\ DraftsLag
    BY DEF IInv
  <1>. DEFINE d == [product |-> p, warehouse |-> w, row |-> balance[p][w]]
  <1>2. d \in Draft
    BY <1>1 DEF ReadBalance, TypeOK, NullOr, Draft
  <1>3. draft' = [draft EXCEPT ![a] = d]
    BY DEF ReadBalance
  <1>4. TypeOK'
    <2>. HIDE DEF d
    <2>. QED BY <1>1, <1>2, <1>3 DEF TypeOK, ReadBalance, NullOr
  <1>5. DraftsLag'
    <2>. SUFFICES ASSUME NEW b \in Author, draft'[b] # None
                  PROVE  LET e == draft'[b]
                             row == balance'[e.product][e.warehouse]
                         IN  /\ row # None
                             /\ e.row.version <= row.version
                             /\ e.row.version = row.version => e.row = row
      BY DEF DraftsLag
    <2>1. CASE b = a
      <3>1. balance[p][w] # None /\ balance[p][w].version \in Nat
        BY <1>1 DEF ReadBalance, TypeOK, NullOr, BalanceRow
      <3>. QED BY <1>1, <1>3, <2>1, <3>1 DEF ReadBalance, TypeOK
    <2>2. CASE b # a
      BY <1>1, <1>3, <2>2 DEF ReadBalance, TypeOK, DraftsLag
    <2>. QED BY <2>1, <2>2
  <1>6. UNCHANGED <<balance, ledger, used, evidence>>
    BY DEF ReadBalance
  <1>. QED BY <1>4, <1>5, <1>6, QuietStep DEF IInv

LEMMA DiscardKeeps ==
  ASSUME IInv, NEW a \in Author, Discard(a)
  PROVE  IInv' /\ Kept
  <1>1. TypeOK /\ DraftsLag
    BY DEF IInv
  <1>2. TypeOK'
    BY <1>1 DEF TypeOK, Discard, NullOr
  <1>3. DraftsLag'
    BY <1>1 DEF TypeOK, Discard, DraftsLag
  <1>4. UNCHANGED <<balance, ledger, used, evidence>>
    BY DEF Discard
  <1>. QED BY <1>2, <1>3, <1>4, QuietStep DEF IInv

-----------------------------------------------------------------------------
(* The invariant.                                                          *)

LEMMA InitInv == Init => IInv
  <1>. SUFFICES ASSUME Init PROVE IInv
    OBVIOUS
  <1>1. TypeOK
    BY StockCommandsAssumption DEF Init, TypeOK, NullOr
  <1>2. DraftsLag
    BY DEF Init, DraftsLag
  <1>3. ValuationsSeeWhatTheyReplace
    BY DEF Init, ValuationsSeeWhatTheyReplace
  <1>4. ASSUME NEW p \in Product, NEW w \in Warehouse
        PROVE  /\ Row(p, w).cost # None => Row(p, w).cost \in SuppliedCosts(p)
               /\ Row(p, w).price # None => Row(p, w).price \in SuppliedPrices(p)
               /\ Row(p, w).cost = 0 => Row(p, w).costReview
    <2>1. CASE Opening[p][w] = None
      BY <2>1, StockCommandsAssumption DEF Init, Row, Empty
    <2>2. CASE Opening[p][w] # None
      <3>1. Row(p, w) = Opening[p][w]
        BY <2>2 DEF Init, Row
      <3>2. Row(p, w) \in BalanceRow
        BY <1>1, RowTyped
      <3>3. Row(p, w).cost \in Cost \cup {None} /\ Row(p, w).price \in Price \cup {None}
        BY <3>2 DEF BalanceRow, NullOr
      <3>. QED BY <2>2, <3>1, <3>3, StockCommandsAssumption
               DEF SuppliedCosts, SuppliedPrices
    <2>. QED BY <2>1, <2>2
  <1>. QED BY <1>1, <1>2, <1>3, <1>4 DEF IInv, ValuesSupplied, ZeroCostsReviewed

LEMMA StutterInv == IInv /\ UNCHANGED vars => IInv' /\ Kept
  <1>. SUFFICES ASSUME IInv, UNCHANGED vars PROVE IInv' /\ Kept
    OBVIOUS
  <1>1. TypeOK' /\ DraftsLag'
    BY DEF vars, IInv, TypeOK, DraftsLag
  <1>. QED BY <1>1, QuietStep DEF vars, IInv

LEMMA NextInv == IInv /\ Next => IInv' /\ Kept
  <1>. SUFFICES ASSUME IInv, Next PROVE IInv' /\ Kept
    OBVIOUS
  <1>0. \A q \in Quantity : q \in Int /\ -q \in Int
    BY BalancesAssumption DEF Quantity
  <1>1. ASSUME NEW k \in Key, NEW p \in Product, NEW w \in Warehouse,
               NEW q \in Quantity, Adjust(k, p, w, q) \/ Adjust(k, p, w, -q)
        PROVE  IInv' /\ Kept
    BY <1>0, <1>1, AdjustKeeps, InvAfter
  <1>2. ASSUME NEW k \in Key, NEW p \in Product, NEW w \in Warehouse,
               NEW q \in Quantity, NEW to \in Warehouse, Transfer(k, p, w, to, q)
        PROVE  IInv' /\ Kept
    BY <1>2, TransferKeeps, InvAfter
  <1>3. ASSUME NEW k \in Key, NEW p \in Product, NEW w \in Warehouse,
               NEW q \in Quantity, NEW c \in NullOr(Cost), NEW x \in NullOr(Price),
               Receive(k, p, w, q, c, x)
        PROVE  IInv' /\ Kept
    BY <1>3, ReceiveKeeps, InvAfter
  <1>4. ASSUME NEW a \in Author, NEW p \in Product, NEW w \in Warehouse,
               ReadBalance(a, p, w)
        PROVE  IInv' /\ Kept
    BY <1>4, ReadKeeps
  <1>5. ASSUME NEW a \in Author, NEW k \in Key,
               NEW c \in NullOr(Cost), NEW x \in NullOr(Price), Revalue(k, a, c, x)
        PROVE  IInv' /\ Kept
    <2>1. PICK p, w : p = draft[a].product /\ w = draft[a].warehouse
      OBVIOUS
    <2>. QED BY <1>5, <2>1, RevalueKeeps, InvAfter
  <1>6. ASSUME NEW a \in Author, Discard(a)
        PROVE  IInv' /\ Kept
    BY <1>6, DiscardKeeps
  <1>. QED BY <1>1, <1>2, <1>3, <1>4, <1>5, <1>6 DEF Next

LEMMA InvStep == IInv /\ [Next]_vars => IInv' /\ Kept
  BY NextInv, StutterInv

\* Types hold, drafts show earlier versions of their balances, and values are
\* those supplied for the product.
THEOREM StockCommandsInv == Spec => []IInv
  BY InitInv, InvStep, PTL DEF Spec

\* Two writes never give a row one version, so a valuation that finds the
\* version its author saw replaces what the author saw.  Nothing else changes a
\* cost or a price that a balance has, and what fills a gap was supplied for the
\* product (ADR-019).
THEOREM ValuesKeptHolds == Spec => ValuesKeptNeverInvented
  <1>1. IInv /\ [Next]_vars => IInv' /\ [Kept]_vars
    BY InvStep
  <1>2. IInv' => ValuationsSeeWhatTheyReplace'
    BY DEF IInv
  <1>3. IInv /\ [Next]_vars => [Kept /\ ValuationsSeeWhatTheyReplace']_vars
    BY <1>1, <1>2
  <1>. QED BY <1>3, StockCommandsInv, PTL DEF Spec, ValuesKeptNeverInvented

\* No receipt, transfer or valuation leaves a cost of zero that nobody is told
\* to review.
THEOREM ZeroCostsReviewedHolds == Spec => []ZeroCostsReviewed
  <1>1. IInv => ZeroCostsReviewed
    BY DEF IInv
  <1>. QED BY <1>1, StockCommandsInv, PTL

-----------------------------------------------------------------------------
(* The refinement: what a command writes and records is a move of the      *)
(* abstract ledger.                                                        *)

Held == [x \in Places |-> Row(x[1], x[2]).quantity]
Moves == [x \in Places |-> Steps(ledger[x[1]][x[2]])]

LEMMA LedgerMove ==
  ASSUME TypeOK, TypeOK', NEW S \in SUBSET Places, OnlyWrites(S), OnlyPosts(S)
  PROVE  Ledger!Move(S)
  <1>1. ASSUME NEW x \in Places, x \notin S
        PROVE  Held'[x] = Held[x] /\ Moves'[x] = Moves[x]
    <2>1. x[1] \in Product /\ x[2] \in Warehouse /\ x = <<x[1], x[2]>>
      BY DEF Places
    <2>2. Row(x[1], x[2])' = Row(x[1], x[2])
      BY <1>1, <2>1, RowAfter
    <2>3. ledger'[x[1]][x[2]] = ledger[x[1]][x[2]]
      BY <1>1, <2>1 DEF OnlyPosts
    <2>. QED BY <2>2, <2>3 DEF Held, Moves
  <1>2. ASSUME NEW x \in S
        PROVE  Moves'[x] = Append(Moves[x], [before |-> Held[x], after |-> Held'[x]])
    <2>1. /\ x[1] \in Product /\ x[2] \in Warehouse /\ x = <<x[1], x[2]>>
          /\ x \in Places
      BY DEF Places
    <2>2. PICK m \in MovementRow :
            /\ m.before = Row(x[1], x[2]).quantity /\ m.after = Row(x[1], x[2])'.quantity
            /\ ledger'[x[1]][x[2]] = Append(ledger[x[1]][x[2]], m)
      BY <2>1 DEF OnlyPosts
    <2>3. ledger[x[1]][x[2]] \in Seq(MovementRow)
      BY <2>1 DEF TypeOK
    <2>4. Steps(Append(ledger[x[1]][x[2]], m)) =
            Append(Steps(ledger[x[1]][x[2]]), [before |-> m.before, after |-> m.after])
      BY <2>3, StepsOfAppend
    <2>5. /\ Moves'[x] = Steps(ledger'[x[1]][x[2]]) /\ Moves[x] = Steps(ledger[x[1]][x[2]])
          /\ Held[x] = m.before /\ Held'[x] = m.after
      BY <2>1, <2>2 DEF Moves, Held
    <2>. QED BY <2>2, <2>4, <2>5
  <1>3. Held' \in [Places -> Quantity]
    <2>. SUFFICES ASSUME NEW x \in Places
                  PROVE  Row(x[1], x[2])'.quantity \in Quantity
      BY DEF Held
    <2>1. x[1] \in Product /\ x[2] \in Warehouse
      BY DEF Places
    <2>. QED BY <2>1, RowAfter DEF BalanceRow
  <1>4. Moves' = [x \in Places |->
                    IF x \in S
                    THEN Append(Moves[x], [before |-> Held[x], after |-> Held'[x]])
                    ELSE Moves[x]]
    BY <1>1, <1>2 DEF Moves
  <1>. QED BY <1>1, <1>3, <1>4 DEF Ledger!Move, Held, Moves

\* A command at one place is a change of that place.
LEMMA OnePlaceMoves ==
  ASSUME TypeOK, TypeOK', NEW p \in Product, NEW w \in Warehouse,
         OnlyWrites({<<p, w>>}), OnlyPosts({<<p, w>>}),
         Row(p, w)'.quantity # Row(p, w).quantity
  PROVE  Ledger!Next
  <1>. DEFINE x == <<p, w>>
  <1>1. x \in Places /\ {x} \in SUBSET Places
    BY DEF Places
  <1>2. Ledger!Move({x})
    BY <1>1, LedgerMove
  <1>3. Held'[x] # Held[x]
    BY <1>1 DEF Held
  <1>4. Ledger!Change(x)
    BY <1>2, <1>3 DEF Ledger!Change, Held
  <1>. QED BY <1>1, <1>4 DEF Ledger!Next

LEMMA AdjustMoves ==
  ASSUME TypeOK, NEW k \in Key, NEW p \in Product, NEW w \in Warehouse,
         NEW delta \in Int, Adjust(k, p, w, delta)
  PROVE  Ledger!Next
  <1>. DEFINE after == Row(p, w).quantity + delta
  <1>1. /\ Row(p, w)' = Moved(Row(p, w), after) /\ after \in Quantity /\ delta # 0
        /\ OnlyWrites({<<p, w>>}) /\ OnlyPosts({<<p, w>>}) /\ TypeOK'
    BY AdjustEffect
  <1>2. Row(p, w) \in BalanceRow /\ Row(p, w).quantity \in Int
    BY RowTyped DEF BalanceRow, Quantity
  <1>3. Row(p, w)'.quantity = after
    BY <1>1, <1>2, MovedTyped
  <1>4. Row(p, w)'.quantity # Row(p, w).quantity
    BY <1>1, <1>2, <1>3
  <1>. QED BY <1>1, <1>4, OnePlaceMoves

LEMMA ReceiveMoves ==
  ASSUME TypeOK, NEW k \in Key, NEW p \in Product, NEW w \in Warehouse,
         NEW quantity \in Quantity,
         NEW cost \in NullOr(Cost), NEW price \in NullOr(Price),
         Receive(k, p, w, quantity, cost, price)
  PROVE  Ledger!Next
  <1>1. /\ Row(p, w)' = Received(Row(p, w), quantity, cost, price) /\ quantity > 0
        /\ OnlyWrites({<<p, w>>}) /\ OnlyPosts({<<p, w>>}) /\ TypeOK'
    BY ReceiveEffect
  <1>2. Row(p, w) \in BalanceRow /\ Row(p, w).quantity \in Int /\ quantity \in Int
    BY RowTyped DEF BalanceRow, Quantity
  <1>3. Row(p, w)'.quantity = Row(p, w).quantity + quantity
    BY <1>1, <1>2 DEF Received, BalanceRow
  <1>4. Row(p, w)'.quantity # Row(p, w).quantity
    BY <1>1, <1>2, <1>3
  <1>. QED BY <1>1, <1>4, OnePlaceMoves

\* A transfer takes out of one place what it puts into the other.
LEMMA TransferMoves ==
  ASSUME TypeOK, NEW k \in Key, NEW p \in Product,
         NEW from \in Warehouse, NEW to \in Warehouse,
         NEW quantity \in Quantity, Transfer(k, p, from, to, quantity)
  PROVE  Ledger!Next
  <1>. DEFINE x == <<p, from>>
              y == <<p, to>>
              out == Row(p, from).quantity - quantity
              in == Row(p, to).quantity + quantity
              heir == Inherit(Row(p, from), Row(p, to))
  <1>1. /\ from # to /\ quantity > 0 /\ out \in Quantity /\ in \in Quantity
        /\ Row(p, from)' = Moved(Row(p, from), out)
        /\ Row(p, to)' = Moved(heir, in)
        /\ OnlyWrites({x, y}) /\ OnlyPosts({x, y}) /\ TypeOK'
    BY TransferEffect
  <1>2. /\ Row(p, from) \in BalanceRow /\ Row(p, to) \in BalanceRow
        /\ heir \in BalanceRow
    BY RowTyped, InheritTyped
  <1>3. Row(p, from)'.quantity = out /\ Row(p, to)'.quantity = in
    <2>. HIDE DEF out, in, heir
    <2>. QED BY <1>1, <1>2, MovedTyped
  <1>4. /\ Row(p, from).quantity \in Int /\ Row(p, to).quantity \in Int
        /\ quantity \in Int
    BY <1>2 DEF BalanceRow, Quantity
  <1>5. x \in Places /\ y \in Places /\ x # y /\ x[1] = y[1]
    BY <1>1 DEF Places
  <1>6. Ledger!Move({x, y})
    BY <1>1, <1>5, LedgerMove
  <1>7. Held'[x] < Held[x] /\ Held'[x] + Held'[y] = Held[x] + Held[y]
    <2>1. /\ Held[x] = Row(p, from).quantity /\ Held[y] = Row(p, to).quantity
          /\ Held'[x] = out /\ Held'[y] = in
      BY <1>3, <1>5 DEF Held
    <2>. QED BY <2>1, <1>1, <1>4
  <1>8. Ledger!Transfer(x, y)
    BY <1>6, <1>7 DEF Ledger!Transfer, Held
  <1>. DEFINE e == <<x, y>>
  <1>9. /\ e \in {f \in Places \X Places : f[1] # f[2] /\ f[1][1] = f[2][1]}
        /\ e[1] = x /\ e[2] = y
    BY <1>5
  <1>. QED BY <1>8, <1>9 DEF Ledger!Next

\* What moves no quantity and records no movement is a stutter of the ledger.
LEMMA LedgerStays ==
  ASSUME \A p \in Product, w \in Warehouse :
           /\ Row(p, w)'.quantity = Row(p, w).quantity
           /\ ledger'[p][w] = ledger[p][w]
  PROVE  UNCHANGED Ledger!vars
  <1>1. ASSUME NEW x \in Places
        PROVE  /\ Row(x[1], x[2])'.quantity = Row(x[1], x[2]).quantity
               /\ Steps(ledger'[x[1]][x[2]]) = Steps(ledger[x[1]][x[2]])
    BY DEF Places
  <1>2. Held' = Held /\ Moves' = Moves
    BY <1>1 DEF Held, Moves
  <1>. QED BY <1>2 DEF Ledger!vars, Held, Moves

LEMMA RevalueStays ==
  ASSUME TypeOK, DraftsLag, NEW k \in Key, NEW a \in Author,
         NEW cost \in NullOr(Cost), NEW price \in NullOr(Price),
         Revalue(k, a, cost, price),
         NEW p, NEW w, p = draft[a].product, w = draft[a].warehouse
  PROVE  UNCHANGED Ledger!vars
  <1>. DEFINE S == {<<p, w>>}
  <1>1. /\ p \in Product /\ w \in Warehouse
        /\ Row(p, w)' = Revalued(Row(p, w), cost, price)
        /\ OnlyWrites(S)
    BY RevalueEffect
  <1>2. Row(p, w)'.quantity = Row(p, w).quantity
    BY <1>1, RowTyped, RevaluedTyped
  <1>3. \A q \in Product, v \in Warehouse : <<q, v>> \notin S =>
          Row(q, v)' = Row(q, v)
    <2>. HIDE DEF S
    <2>. QED BY <1>1, RowAfter
  <1>4. \A q \in Product, v \in Warehouse : Row(q, v)'.quantity = Row(q, v).quantity
    BY <1>2, <1>3
  <1>5. UNCHANGED ledger
    BY DEF Revalue
  <1>. QED BY <1>4, <1>5, LedgerStays

LEMMA LedgerInit == Init => Ledger!Init
  <1>. SUFFICES ASSUME Init PROVE Ledger!Init
    OBVIOUS
  <1>1. ASSUME NEW x \in Places
        PROVE  /\ Row(x[1], x[2]).quantity = IF Opening[x[1]][x[2]] = None THEN 0
                                             ELSE Opening[x[1]][x[2]].quantity
               /\ Steps(ledger[x[1]][x[2]]) = <<>>
    <2>1. x[1] \in Product /\ x[2] \in Warehouse
      BY DEF Places
    <2>2. ledger[x[1]][x[2]] = <<>>
      BY <2>1 DEF Init
    <2>3. Steps(<<>>) = <<>>
      BY DEF Steps
    <2>. QED BY <2>2, <2>3 DEF Init, Row, Empty
  <1>. QED BY <1>1 DEF Ledger!Init

LEMMA LedgerStep == IInv /\ [Next]_vars => [Ledger!Next]_(Ledger!vars)
  <1>. SUFFICES ASSUME IInv, [Next]_vars
                PROVE  Ledger!Next \/ UNCHANGED Ledger!vars
    OBVIOUS
  <1>0. TypeOK /\ DraftsLag
    BY DEF IInv
  <1>1. \A q \in Quantity : q \in Int /\ -q \in Int
    BY BalancesAssumption DEF Quantity
  <1>2. ASSUME NEW k \in Key, NEW p \in Product, NEW w \in Warehouse,
               NEW q \in Quantity, Adjust(k, p, w, q) \/ Adjust(k, p, w, -q)
        PROVE  Ledger!Next
    BY <1>0, <1>1, <1>2, AdjustMoves
  <1>3. ASSUME NEW k \in Key, NEW p \in Product, NEW w \in Warehouse,
               NEW q \in Quantity, NEW to \in Warehouse, Transfer(k, p, w, to, q)
        PROVE  Ledger!Next
    BY <1>0, <1>3, TransferMoves
  <1>4. ASSUME NEW k \in Key, NEW p \in Product, NEW w \in Warehouse,
               NEW q \in Quantity, NEW c \in NullOr(Cost), NEW x \in NullOr(Price),
               Receive(k, p, w, q, c, x)
        PROVE  Ledger!Next
    BY <1>0, <1>4, ReceiveMoves
  <1>5. ASSUME UNCHANGED <<balance, ledger>>
        PROVE  UNCHANGED Ledger!vars
    BY <1>5, LedgerStays DEF Row
  <1>6. ASSUME NEW a \in Author, NEW p \in Product, NEW w \in Warehouse,
               ReadBalance(a, p, w) \/ Discard(a)
        PROVE  UNCHANGED Ledger!vars
    BY <1>5, <1>6 DEF ReadBalance, Discard
  <1>7. ASSUME NEW a \in Author, NEW k \in Key,
               NEW c \in NullOr(Cost), NEW x \in NullOr(Price), Revalue(k, a, c, x)
        PROVE  UNCHANGED Ledger!vars
    <2>1. PICK p, w : p = draft[a].product /\ w = draft[a].warehouse
      OBVIOUS
    <2>. QED BY <1>0, <1>7, <2>1, RevalueStays
  <1>8. ASSUME NEW a \in Author, Discard(a)
        PROVE  UNCHANGED Ledger!vars
    BY <1>5, <1>8 DEF Discard
  <1>9. CASE UNCHANGED vars
    BY <1>5, <1>9 DEF vars
  <1>. QED BY <1>2, <1>3, <1>4, <1>6, <1>7, <1>8, <1>9 DEF Next

\* The commands implement the abstract ledger: a balance moves only with a
\* movement that says from what to what, and a transfer keeps the total.
THEOREM CommandsFollowLedgerHolds == Spec => CommandsFollowLedger
  <1>. QED BY LedgerInit, LedgerStep, StockCommandsInv, PTL
           DEF Spec, CommandsFollowLedger, Ledger!Spec

-----------------------------------------------------------------------------
(* The import of a counted workbook.                                       *)
(*                                                                         *)
(* The argument: only one creation of a code can be committed, by one      *)
(* person from one file; a receipt is asked for once that creation is      *)
(* answered as stored, so that what is committed for a code comes from the *)
(* file that made it, and its keys, derived from the file, admit one       *)
(* request for each warehouse.  A page that counts no error has heard that *)
(* each of its requests was stored.                                        *)

Place == Column \cup {0}

Request ==
  [actor : Actor, file : File, attempt : Nat, kind : {"product.create", "receipt.create"},
   code : Code, place : Place, quantity : Nat]

IdlePage == [state : {"idle"}, starts : Nat]
ReadyPage == [state : {"ready"}, starts : Nat, file : File]
WorkingPage ==
  [state : {"running", "complete"}, starts : Nat, file : File, row : Nat, column : Place,
   errors : SUBSET Code, waits : SUBSET Request,
   answer : {"none", "stored", "duplicate", "reused"}]

\* The first warehouse that stocks a row, or none.
FirstPlace(row) == IF Stocking(row) = {} THEN {0} ELSE FirstOf(Stocking(row))

\* A request asks for what its file counts.
Asks(q) ==
  /\ q \in Request /\ Readable(q.file)
  /\ \E i \in RowsOf[q.file] : Sheet[q.file][i].code = q.code
  /\ q.quantity = IF q.place = 0 THEN 0 ELSE CountOf(RowWith(q.file, q.code), q.place)
  /\ q.kind = "product.create" => q.place \in FirstPlace(RowWith(q.file, q.code))
  /\ q.kind = "receipt.create" =>
       /\ q.place \in Stocking(RowWith(q.file, q.code))
       /\ \E k \in Stocking(RowWith(q.file, q.code)) : k < q.place

Creation(a, f, c) == [code |-> c, actor |-> a, file |-> f]

\* Receipts come after the product that the same person made from the file.
Placed(q, products) ==
  Asks(q) /\ (q.kind = "receipt.create" => Creation(q.actor, q.file, q.code) \in products)

\* A request for the count of code c at p was committed.
Brought(a, f, c, p, done) ==
  \E d \in done : d.actor = a /\ d.file = f /\ d.code = c /\ d.place = p

Finished(a, f, i, done, products) ==
  /\ Creation(a, f, Sheet[f][i].code) \in products
  /\ \A k \in Stocking(Sheet[f][i]) : Brought(a, f, Sheet[f][i].code, k, done)

\* What the request that a page waits for is, and what its answer means.
Awaited(a, page, q, done, products) ==
  /\ Placed(q, products)
  /\ \E p \in NextColumn(page) : q = RequestFor(a, page, p)
  /\ page.answer = "stored" =>
       /\ Creation(a, page.file, q.code) \in products
       /\ q.place # 0 => Brought(a, page.file, q.code, q.place, done)
  /\ page.answer = "duplicate" =>
       \E product \in products :
         product.code = q.code /\ product # Creation(a, page.file, q.code)

Working(a, page, done, products) ==
  /\ page \in WorkingPage /\ Readable(page.file) /\ page.row \in RowsOf[page.file]
  /\ page.answer # "reused"
  /\ page.waits = {} => page.answer = "none"
  /\ page.state = "complete" => page.waits = {}
  /\ \A q \in page.waits : Awaited(a, page, q, done, products)
  /\ page.column # 0 =>
       /\ page.column \in Stocking(RowAt(page))
       /\ Creation(a, page.file, RowAt(page).code) \in products
       /\ \A k \in Stocking(RowAt(page)) :
            k <= page.column => Brought(a, page.file, RowAt(page).code, k, done)
  /\ page.errors = {} =>
       \A i \in RowsOf[page.file] :
         i < page.row \/ page.state = "complete" => Finished(a, page.file, i, done, products)

PageKept(a, page, done, products) ==
  \/ page \in IdlePage
  \/ page \in ReadyPage /\ Readable(page.file)
  \/ Working(a, page, done, products)

\* What is committed was asked for, of products created once.
BooksKept ==
  /\ created \subseteq [code : Code, actor : Actor, file : File]
  /\ \A x, y \in created : x.code = y.code => x = y
  /\ \A x \in created : \E d \in commands :
       /\ d.kind = "product.create"
       /\ d.actor = x.actor /\ d.file = x.file /\ d.code = x.code
  /\ \A d \in commands : Asks(d) /\ Creation(d.actor, d.file, d.code) \in created
  /\ \A d, e \in commands : d.code = e.code /\ d.place = e.place => d = e

\* What is received was received once.
StockKept ==
  /\ received \in [Code -> [Column -> Nat]]
  /\ \A d \in commands : d.place # 0 => received[d.code][d.place] = d.quantity
  /\ \A c \in Code, p \in Column :
       received[c][p] # 0 => \E d \in commands : d.code = c /\ d.place = p

ImportInv ==
  /\ \E S : importer \in [Actor -> S]
  /\ \A a \in Actor : PageKept(a, importer[a], commands, created)
  /\ \A q \in wire : Placed(q, created)
  /\ BooksKept /\ StockKept

LEMMA RowIsFound ==
  ASSUME NEW f \in File, Readable(f), NEW i \in RowsOf[f]
  PROVE  RowWith(f, Sheet[f][i].code) = Sheet[f][i]
<1>1. \A j \in RowsOf[f] : Sheet[f][j].code = Sheet[f][i].code => j = i
  BY DEF Readable
<1> DEFINE found == CHOOSE j \in RowsOf[f] : Sheet[f][j].code = Sheet[f][i].code
<1>2. found \in RowsOf[f] /\ Sheet[f][found].code = Sheet[f][i].code
  OBVIOUS
<1>3. found = i
  BY <1>1, <1>2
<1> QED
  BY <1>3 DEF RowWith

LEMMA RowsTyped ==
  ASSUME NEW f \in File, Readable(f), NEW i \in RowsOf[f]
  PROVE  /\ i \in Nat /\ Sheet[f][i].code \in Code
         /\ \A p \in Column : CountOf(Sheet[f][i], p) \in Nat
<1>1. i \in DOMAIN Sheet[f]
  BY DEF RowsOf
<1>2. i \in Nat /\ \A p \in Column : Sheet[f][i].counts[p] \in Nat \cup {Blank}
  BY <1>1, SheetAssumption
<1>3. Sheet[f][i].code # Blank
  BY DEF Readable
<1>4. Sheet[f][i].code \in {Sheet[f][j].code : j \in RowsOf[f]}
  OBVIOUS
<1>5. Sheet[f][i].code \in UNION {{Sheet[g][j].code : j \in RowsOf[g]} : g \in File}
  BY <1>4
<1> DEFINE c == Sheet[f][i].code
<1>6. c \in UNION {{Sheet[g][j].code : j \in RowsOf[g]} : g \in File} /\ c # Blank
  BY <1>3, <1>5
<1> HIDE DEF c
<1>7. c \in Code
  BY <1>6, Zenon DEF Code
<1> QED
  BY <1>2, <1>7 DEF CountOf, c

\* A page stays right when more is committed.
LEMMA MoreIsFine ==
  ASSUME NEW a, NEW page, NEW done, NEW products, PageKept(a, page, done, products),
         NEW more, NEW further, done \subseteq more, products \subseteq further
  PROVE  PageKept(a, page, more, further)
<1>1. \A f, c, p : Brought(a, f, c, p, done) => Brought(a, f, c, p, more)
  BY DEF Brought
<1>2. \A f, i : Finished(a, f, i, done, products) => Finished(a, f, i, more, further)
  BY <1>1 DEF Finished
<1>3. \A q : Placed(q, products) => Placed(q, further)
  BY DEF Placed
<1>4. \A q : Awaited(a, page, q, done, products) => Awaited(a, page, q, more, further)
  BY <1>1, <1>3 DEF Awaited
<1>5. Working(a, page, done, products) => Working(a, page, more, further)
  BY <1>1, <1>2, <1>4 DEF Working
<1> QED
  BY <1>5 DEF PageKept

LEMMA ImportStarts == ImportInit => ImportInv
<1> SUFFICES ASSUME ImportInit PROVE ImportInv
  OBVIOUS
<1>1. importer \in [Actor -> {NewPage}]
  BY DEF ImportInit
<1>2. \A a \in Actor : importer[a] = NewPage /\ NewPage \in IdlePage
  BY DEF ImportInit, NewPage, IdlePage
<1>3. \A a \in Actor : PageKept(a, importer[a], commands, created)
  BY <1>2 DEF PageKept
<1>4. wire = {} /\ commands = {} /\ created = {}
  BY DEF ImportInit
<1>5. BooksKept
  BY <1>4 DEF BooksKept
<1>6. received = [c \in Code |-> [p \in Column |-> 0]]
  BY DEF ImportInit
<1>7. StockKept
  BY <1>4, <1>6 DEF StockKept
<1> QED
  BY <1>1, <1>3, <1>4, <1>5, <1>7 DEF ImportInv

\* One page turns, and what is committed stays.
LEMMA PageTurns ==
  ASSUME ImportInv, NEW a \in Actor, NEW page, Turns(a, page), UNCHANGED server,
         \A q \in wire' : q \in wire \/ Placed(q, created),
         PageKept(a, page, commands, created)
  PROVE  ImportInv'
<1>1. UNCHANGED <<commands, created, received>>
  BY DEF server
<1>2. PICK S : importer \in [Actor -> S]
  BY DEF ImportInv
<1>3. importer' \in [Actor -> S \cup {page}]
  BY <1>2 DEF Turns
<1>4. importer'[a] = page /\ \A b \in Actor : b # a => importer'[b] = importer[b]
  BY <1>2 DEF Turns
<1>5. \A b \in Actor : PageKept(b, importer'[b], commands, created)
  BY <1>4 DEF ImportInv
<1>6. \A q \in wire' : Placed(q, created)
  BY DEF ImportInv
<1>7. BooksKept' /\ StockKept'
  BY <1>1 DEF ImportInv, BooksKept, StockKept
<1> QED
  BY <1>1, <1>3, <1>5, <1>6, <1>7 DEF ImportInv
LEMMA StartsCounted ==
  ASSUME NEW a, NEW page, NEW done, NEW products, PageKept(a, page, done, products)
  PROVE  page.starts \in Nat
  BY DEF PageKept, IdlePage, ReadyPage, Working, WorkingPage

LEMMA RunningWorks ==
  ASSUME NEW a, NEW page, NEW done, NEW products, PageKept(a, page, done, products),
         page.state = "running"
  PROVE  Working(a, page, done, products)
  BY DEF PageKept, IdlePage, ReadyPage

LEMMA ReadyReads ==
  ASSUME NEW a, NEW page, NEW done, NEW products, PageKept(a, page, done, products),
         page.state = "ready"
  PROVE  page.file \in File /\ Readable(page.file)
  BY DEF PageKept, IdlePage, ReadyPage, Working, WorkingPage

LEMMA FileSelected ==
  ASSUME ImportInv, NEW a \in Actor, NEW f \in File, SelectFile(a, f)
  PROVE  ImportInv'
<1> DEFINE idle == [state |-> "idle", starts |-> importer[a].starts]
           ready == [state |-> "ready", starts |-> importer[a].starts, file |-> f]
<1>1. importer[a].starts \in Nat
  BY StartsCounted DEF ImportInv
<1>2. idle \in IdlePage
  BY <1>1 DEF IdlePage
<1>3. ready \in ReadyPage /\ ready.file = f
  BY <1>1 DEF ReadyPage
<1>4. UNCHANGED server /\ wire' = wire
  BY DEF SelectFile
<1>5. CASE Readable(f)
  <2>1. Turns(a, ready)
    BY <1>5 DEF SelectFile
  <2>2. PageKept(a, ready, commands, created)
    BY <1>3, <1>5 DEF PageKept
  <2> HIDE DEF ready
  <2> QED
    BY <1>4, <2>1, <2>2, PageTurns
<1>6. CASE ~Readable(f)
  <2>1. Turns(a, idle)
    BY <1>6 DEF SelectFile
  <2>2. PageKept(a, idle, commands, created)
    BY <1>2 DEF PageKept
  <2> HIDE DEF idle
  <2> QED
    BY <1>4, <2>1, <2>2, PageTurns
<1> QED
  BY <1>5, <1>6

LEMMA PageReloaded ==
  ASSUME ImportInv, NEW a \in Actor, ReloadPage(a)
  PROVE  ImportInv'
<1> DEFINE idle == [state |-> "idle", starts |-> importer[a].starts]
<1>1. importer[a].starts \in Nat
  BY StartsCounted DEF ImportInv
<1>2. idle \in IdlePage
  BY <1>1 DEF IdlePage
<1>3. PageKept(a, idle, commands, created)
  BY <1>2 DEF PageKept
<1>4. Turns(a, idle) /\ UNCHANGED server /\ wire' = wire
  BY DEF ReloadPage
<1> HIDE DEF idle
<1> QED
  BY <1>3, <1>4, PageTurns

LEMMA NothingPrepared ==
  ASSUME ImportInv, NEW a \in Actor, Unprepared(a)
  PROVE  ImportInv'
<1> DEFINE page == importer[a]
           ready == [state |-> "ready", starts |-> page.starts, file |-> page.file]
<1>1. Working(a, page, commands, created)
  BY RunningWorks DEF ImportInv, Unprepared
<1>2. page.starts \in Nat /\ page.file \in File /\ Readable(page.file)
  BY <1>1 DEF Working, WorkingPage
<1>3. ready \in ReadyPage /\ ready.file = page.file
  BY <1>2 DEF ReadyPage
<1>4. PageKept(a, ready, commands, created)
  BY <1>2, <1>3 DEF PageKept
<1>5. Turns(a, ready) /\ UNCHANGED server /\ wire' = wire
  BY DEF Unprepared
<1> HIDE DEF ready
<1> QED
  BY <1>4, <1>5, PageTurns

LEMMA ImportStarted ==
  ASSUME ImportInv, NEW a \in Actor, StartImport(a)
  PROVE  ImportInv'
<1> DEFINE f == importer[a].file
           n == importer[a].starts
<1>1. n \in Nat /\ f \in File /\ Readable(f)
  BY StartsCounted, ReadyReads DEF ImportInv, StartImport
<1>2. PICK i \in FirstOf(RowsOf[f]) :
        Turns(a, [state |-> "running", starts |-> n + 1, file |-> f, row |-> i, column |-> 0,
                  errors |-> {}, waits |-> {}, answer |-> "none"])
  BY DEF StartImport
<1> DEFINE page == [state |-> "running", starts |-> n + 1, file |-> f, row |-> i,
                    column |-> 0, errors |-> {}, waits |-> {}, answer |-> "none"]
<1> HIDE DEF f, n
<1>3. i \in RowsOf[f] /\ \A j \in RowsOf[f] : i <= j
  BY DEF FirstOf
<1>4. i \in Nat /\ \A j \in RowsOf[f] : j \in Nat
  BY <1>1, <1>3, RowsTyped
<1>5. page \in WorkingPage
  BY <1>1, <1>4 DEF WorkingPage, Place
<1>6. \A j \in RowsOf[f] : ~(j < i)
  BY <1>3, <1>4
<1>7. Working(a, page, commands, created)
  BY <1>1, <1>3, <1>5, <1>6 DEF Working
<1>8. PageKept(a, page, commands, created)
  BY <1>7 DEF PageKept
<1>9. Turns(a, page)
  BY <1>2
<1>10. UNCHANGED server /\ wire' = wire
  BY DEF StartImport
<1> HIDE DEF page
<1> QED
  BY <1>8, <1>9, <1>10, PageTurns

\* The next request of a page asks for what the file counts, in its turn.
LEMMA NextAsks ==
  ASSUME NEW a \in Actor, NEW page, NEW done, NEW products,
         Working(a, page, done, products), NEW p \in NextColumn(page)
  PROVE  Placed(RequestFor(a, page, p), products)
<1> DEFINE f == page.file
           row == Sheet[f][page.row]
           q == RequestFor(a, page, p)
<1>1. page \in WorkingPage /\ Readable(f) /\ page.row \in RowsOf[f]
  BY DEF Working
<1>2. f \in File /\ page.starts \in Nat /\ page.column \in Place
  BY <1>1 DEF WorkingPage
<1>3. row.code \in Code /\ \A k \in Column : CountOf(row, k) \in Nat
  BY <1>1, <1>2, RowsTyped
<1>4. RowWith(f, row.code) = row
  BY <1>1, <1>2, RowIsFound
<1>5. RowAt(page) = row
  BY DEF RowAt
<1>6. Stocking(row) \subseteq Column /\ \A k \in Column : k \in Nat /\ k > 0
  BY DEF Stocking, Column
<1>7. \/ page.column = 0 /\ p \in FirstPlace(row)
      \/ page.column # 0 /\ p \in Stocking(row) /\ p > page.column
  BY <1>5, <1>6 DEF NextColumn, FirstPlace, FirstOf, Ahead
<1>8. p \in Place
  BY <1>6, <1>7 DEF FirstPlace, FirstOf, Place
<1>9. CASE page.column = 0
  <2>1. q = [actor |-> a, file |-> f, attempt |-> page.starts, kind |-> "product.create",
             code |-> row.code, place |-> p, quantity |-> IF p = 0 THEN 0 ELSE CountOf(row, p)]
    BY <1>5, <1>9 DEF RequestFor
  <2> HIDE DEF q, row
  <2>2. (IF p = 0 THEN 0 ELSE CountOf(row, p)) \in Nat
    BY <1>3, <1>8 DEF Place
  <2>3. q \in Request
    BY <1>2, <1>3, <1>8, <2>1, <2>2 DEF Request
  <2>4. q.file = f /\ q.kind = "product.create" /\ q.code = row.code /\ q.place = p
        /\ q.quantity = IF p = 0 THEN 0 ELSE CountOf(row, p)
    BY <2>1
  <2>5. \E i \in RowsOf[f] : Sheet[f][i].code = q.code
    BY <1>1, <2>4 DEF row
  <2>6. p \in FirstPlace(row)
    BY <1>7, <1>9
  <2> HIDE DEF f
  <2>7. Asks(q)
    BY <1>1, <1>4, <2>3, <2>4, <2>5, <2>6 DEF Asks
  <2> QED
    BY <2>4, <2>7 DEF Placed, q
<1>10. CASE page.column # 0
  <2>1. p # 0
    BY <1>6, <1>7, <1>10
  <2>2. q = [actor |-> a, file |-> f, attempt |-> page.starts, kind |-> "receipt.create",
             code |-> row.code, place |-> p, quantity |-> CountOf(row, p)]
    BY <1>5, <1>10, <2>1 DEF RequestFor
  <2>3. page.column \in Stocking(row) /\ Creation(a, f, row.code) \in products
    BY <1>5, <1>10 DEF Working
  <2> HIDE DEF q, row
  <2>4. CountOf(row, p) \in Nat
    BY <1>3, <1>6, <1>7, <1>10
  <2>5. q \in Request
    BY <1>2, <1>3, <1>8, <2>2, <2>4 DEF Request
  <2>6. q.file = f /\ q.kind = "receipt.create" /\ q.code = row.code /\ q.place = p
        /\ q.quantity = CountOf(row, p) /\ q.actor = a
    BY <2>2
  <2>7. \E i \in RowsOf[f] : Sheet[f][i].code = q.code
    BY <1>1, <2>6 DEF row
  <2>8. p \in Stocking(row) /\ page.column < p
    BY <1>2, <1>6, <1>7, <1>10
  <2> HIDE DEF f
  <2>9. Asks(q)
    BY <1>1, <1>4, <2>1, <2>3, <2>5, <2>6, <2>7, <2>8 DEF Asks
  <2> QED
    BY <2>3, <2>6, <2>9 DEF Placed, q
<1> QED
  BY <1>9, <1>10
LEMMA RequestSent ==
  ASSUME ImportInv, NEW a \in Actor, SendRequest(a)
  PROVE  ImportInv'
<1> DEFINE page == importer[a]
<1>1. Working(a, page, commands, created)
  BY RunningWorks DEF ImportInv, SendRequest
<1>2. PICK p \in NextColumn(page) :
        /\ Turns(a, [page EXCEPT !.waits = {RequestFor(a, page, p)}])
        /\ wire' = wire \cup {RequestFor(a, page, p)}
  BY DEF SendRequest
<1>3. page.waits = {} /\ UNCHANGED server
  BY DEF SendRequest
<1> DEFINE q == RequestFor(a, page, p)
           next == [page EXCEPT !.waits = {q}]
<1> HIDE DEF page
<1>4. page \in WorkingPage
  BY <1>1 DEF Working
<1>5. Placed(q, created)
  BY <1>1, NextAsks
<1>6. q \in Request
  BY <1>5 DEF Placed, Asks
<1> HIDE DEF q
<1>7. next \in WorkingPage
  BY <1>4, <1>6 DEF WorkingPage
<1>8. /\ next.state = page.state /\ next.starts = page.starts /\ next.file = page.file
      /\ next.row = page.row /\ next.column = page.column /\ next.errors = page.errors
      /\ next.answer = page.answer /\ next.waits = {q}
  BY <1>4 DEF WorkingPage
<1>9. page.state = "running" /\ page.answer = "none"
  BY <1>1, <1>3 DEF page, SendRequest, Working
<1> HIDE DEF next
<1>10. RowAt(next) = RowAt(page)
  BY <1>8 DEF RowAt
<1>11. NextColumn(next) = NextColumn(page)
  BY <1>8, <1>10 DEF NextColumn
<1>12. RequestFor(a, next, p) = q
  BY <1>8, <1>10 DEF RequestFor, q
<1>13. Awaited(a, next, q, commands, created)
  BY <1>5, <1>8, <1>9, <1>11, <1>12 DEF Awaited
<1>14. Working(a, next, commands, created)
  BY <1>1, <1>7, <1>8, <1>9, <1>10, <1>13 DEF Working
<1>15. PageKept(a, next, commands, created)
  BY <1>14 DEF PageKept
<1>16. Turns(a, next) /\ wire' = wire \cup {q}
  BY <1>2 DEF next, q
<1> QED
  BY <1>3, <1>5, <1>15, <1>16, PageTurns

\* The page goes on to a later row: what it had imported stays imported, and
\* either its present row is imported or there is an error.
LEMMA NextRow ==
  ASSUME ImportInv, NEW a \in Actor, importer[a].state = "running",
         NEW errors \in SUBSET Code, RowEnds(a, errors), UNCHANGED <<wire, server>>,
         errors = {} => Finished(a, importer[a].file, importer[a].row, commands, created)
  PROVE  ImportInv'
<1> DEFINE page == importer[a]
           f == page.file
           rest == {i \in RowsOf[f] : i > page.row}
           next == [page EXCEPT !.column = 0, !.errors = @ \cup errors,
                                !.waits = {}, !.answer = "none"]
<1>1. Working(a, page, commands, created)
  BY RunningWorks DEF ImportInv
<1>2. \/ rest = {} /\ Turns(a, [next EXCEPT !.state = "complete"])
      \/ \E i \in FirstOf(rest) : Turns(a, [next EXCEPT !.row = i])
  BY DEF RowEnds
<1>3. UNCHANGED server /\ wire' = wire
  OBVIOUS
<1>4. page.state = "running"
  OBVIOUS
<1>5. errors = {} => Finished(a, f, page.row, commands, created)
  OBVIOUS
<1> HIDE DEF page
<1>6. page \in WorkingPage /\ Readable(f) /\ page.row \in RowsOf[f]
  BY <1>1 DEF Working
<1>7. f \in File
  BY <1>6 DEF WorkingPage
<1>8. \A j \in RowsOf[f] : j \in Nat
  BY <1>6, <1>7, RowsTyped
<1>9. page.errors \cup errors = {} =>
        \A j \in RowsOf[f] : j <= page.row => Finished(a, f, j, commands, created)
  BY <1>1, <1>5, <1>6, <1>8 DEF Working
<1>10. CASE rest = {} /\ Turns(a, [next EXCEPT !.state = "complete"])
  <2> DEFINE last == [next EXCEPT !.state = "complete"]
  <2>1. last \in WorkingPage
    BY <1>6 DEF WorkingPage, Place
  <2>2. /\ last.state = "complete" /\ last.file = f /\ last.row = page.row
        /\ last.column = 0 /\ last.errors = page.errors \cup errors
        /\ last.waits = {} /\ last.answer = "none"
    BY <1>6 DEF WorkingPage
  <2>3. \A j \in RowsOf[f] : j <= page.row
    BY <1>6, <1>8, <1>10
  <2>4. Turns(a, last)
    BY <1>10
  <2> HIDE DEF last, f
  <2>5. Working(a, last, commands, created)
    BY <1>6, <1>9, <2>1, <2>2, <2>3 DEF Working
  <2>6. PageKept(a, last, commands, created)
    BY <2>5 DEF PageKept
  <2> QED
    BY <1>3, <2>4, <2>6, PageTurns
<1>11. CASE \E i \in FirstOf(rest) : Turns(a, [next EXCEPT !.row = i])
  <2>1. PICK i \in FirstOf(rest) : Turns(a, [next EXCEPT !.row = i])
    BY <1>11
  <2> DEFINE going == [next EXCEPT !.row = i]
  <2>2. i \in RowsOf[f] /\ i > page.row /\ \A j \in rest : i <= j
    BY DEF FirstOf
  <2>3. going \in WorkingPage
    BY <1>6, <1>8, <2>2 DEF WorkingPage, Place
  <2>4. /\ going.state = "running" /\ going.file = f /\ going.row = i
        /\ going.column = 0 /\ going.errors = page.errors \cup errors
        /\ going.waits = {} /\ going.answer = "none"
    BY <1>4, <1>6 DEF WorkingPage
  <2>5. \A j \in RowsOf[f] : j < i => j <= page.row
    BY <1>6, <1>8, <2>2
  <2>6. Turns(a, going)
    BY <2>1
  <2> HIDE DEF going, f
  <2>7. Working(a, going, commands, created)
    BY <1>6, <1>9, <2>2, <2>3, <2>4, <2>5 DEF Working
  <2>8. PageKept(a, going, commands, created)
    BY <2>7 DEF PageKept
  <2> QED
    BY <1>3, <2>6, <2>8, PageTurns
<1> QED
  BY <1>2, <1>10, <1>11

LEMMA AnswerGivenUp ==
  ASSUME ImportInv, NEW a \in Actor, GiveUp(a)
  PROVE  ImportInv'
<1>1. PICK q \in importer[a].waits : RowEnds(a, {q.code})
  BY DEF GiveUp
<1>2. importer[a].state = "running" /\ UNCHANGED <<wire, server>>
  BY DEF GiveUp, Waiting
<1>3. Working(a, importer[a], commands, created)
  BY <1>2, RunningWorks DEF ImportInv
<1>4. Awaited(a, importer[a], q, commands, created)
  BY <1>3 DEF Working
<1>5. q.code \in Code
  BY <1>4 DEF Awaited, Placed, Asks, Request
<1>6. {q.code} \in SUBSET Code /\ {q.code} # {}
  BY <1>5
<1> QED
  BY <1>1, <1>2, <1>6, NextRow
\* What a page knows once its request is answered as stored.
LEMMA RowSoFar ==
  ASSUME NEW a \in Actor, NEW page, NEW done, NEW products,
         Working(a, page, done, products), NEW q \in page.waits, page.answer = "stored"
  PROVE  /\ q.place \in FirstPlace(RowAt(page)) \cup Stocking(RowAt(page))
         /\ Stocking(RowAt(page)) # {} => q.place \in Stocking(RowAt(page))
         /\ Creation(a, page.file, RowAt(page).code) \in products
         /\ \A k \in Stocking(RowAt(page)) :
              k <= q.place => Brought(a, page.file, RowAt(page).code, k, done)
<1> DEFINE row == RowAt(page)
<1>1. Awaited(a, page, q, done, products) /\ page.column \in Place
  BY DEF Working, WorkingPage
<1>2. PICK p \in NextColumn(page) : q = RequestFor(a, page, p)
  BY <1>1 DEF Awaited
<1>3. q.place = p /\ q.code = row.code
  BY <1>2 DEF RequestFor
<1>4. Creation(a, page.file, row.code) \in products
  BY <1>1, <1>3 DEF Awaited
<1>5. p # 0 => Brought(a, page.file, row.code, p, done)
  BY <1>1, <1>3 DEF Awaited
<1>6. page.column # 0 =>
        \A k \in Stocking(row) : k <= page.column => Brought(a, page.file, row.code, k, done)
  BY DEF Working
<1>7. \A k \in Stocking(row) : k \in Nat /\ k > 0
  BY DEF Stocking, Column
<1> HIDE DEF row
<1>8. CASE Stocking(row) = {} /\ page.column = 0
  <2>1. p = 0
    BY <1>8 DEF NextColumn, row
  <2> QED
    BY <1>3, <1>4, <1>8, <2>1 DEF FirstPlace, row
<1>9. CASE ~(Stocking(row) = {} /\ page.column = 0)
  <2>1. p \in FirstOf(Ahead(row, page.column))
    BY <1>9 DEF NextColumn, row
  <2>2. p \in Stocking(row) /\ \A k \in Stocking(row) : k > page.column => p <= k
    BY <2>1 DEF FirstOf, Ahead
  <2>3. \A k \in Stocking(row) : k <= p => k <= page.column \/ k = p
    BY <1>1, <1>7, <2>2 DEF Place, Column
  <2>4. \A k \in Stocking(row) : k <= page.column => page.column # 0
    BY <1>1, <1>7 DEF Place, Column
  <2>5. \A k \in Stocking(row) : k <= p => Brought(a, page.file, row.code, k, done)
    BY <1>5, <1>6, <1>7, <2>3, <2>4
  <2> QED
    BY <1>3, <1>4, <2>2, <2>5 DEF row
<1> QED
  BY <1>8, <1>9

LEMMA AnswerHeard ==
  ASSUME ImportInv, NEW a \in Actor, Hear(a)
  PROVE  ImportInv'
<1> DEFINE page == importer[a]
<1>1. page.state = "running" /\ page.answer # "none" /\ UNCHANGED <<wire, server>>
  BY DEF Hear, Waiting
<1>2. Working(a, page, commands, created)
  BY <1>1, RunningWorks DEF ImportInv
<1>3. PICK q \in page.waits :
        CASE page.answer # "stored" -> RowEnds(a, {q.code})
          [] page.answer = "stored" /\ Ahead(RowAt(page), q.place) # {} ->
               Turns(a, [page EXCEPT !.column = q.place, !.waits = {}, !.answer = "none"])
          [] OTHER -> RowEnds(a, {})
  BY DEF Hear
<1>4. CASE page.answer # "stored"
  <2>1. RowEnds(a, {q.code})
    BY <1>3, <1>4
  <2>2. Awaited(a, page, q, commands, created)
    BY <1>2 DEF Working
  <2>3. q.code \in Code
    BY <2>2 DEF Awaited, Placed, Asks, Request
  <2>4. {q.code} \in SUBSET Code /\ {q.code} # {}
    BY <2>3
  <2> QED
    BY <1>1, <2>1, <2>4, NextRow
<1>5. CASE page.answer = "stored" /\ Ahead(RowAt(page), q.place) = {}
  <2>1. RowEnds(a, {})
    BY <1>3, <1>5
  <2> DEFINE row == RowAt(page)
  <2>2. /\ q.place \in FirstPlace(row) \cup Stocking(row)
        /\ Creation(a, page.file, row.code) \in created
        /\ \A k \in Stocking(row) :
             k <= q.place => Brought(a, page.file, row.code, k, commands)
    BY <1>2, <1>5, RowSoFar
  <2>3. \A k \in Stocking(row) : ~(k > q.place)
    BY <1>5 DEF Ahead
  <2>4. Stocking(row) \subseteq Nat /\ q.place \in Nat
    BY <2>2 DEF Stocking, Column, FirstPlace, FirstOf
  <2>5. \A k \in Stocking(row) : k <= q.place
    BY <2>3, <2>4
  <2>6. Finished(a, page.file, page.row, commands, created)
    BY <2>2, <2>5 DEF Finished, RowAt
  <2> QED
    BY <1>1, <2>1, <2>6, NextRow
<1>6. CASE page.answer = "stored" /\ Ahead(RowAt(page), q.place) # {}
  <2> DEFINE row == RowAt(page)
             next == [page EXCEPT !.column = q.place, !.waits = {}, !.answer = "none"]
  <2>1. Turns(a, next)
    BY <1>3, <1>6
  <2>2. /\ q.place \in FirstPlace(row) \cup Stocking(row)
        /\ Stocking(row) # {} => q.place \in Stocking(row)
        /\ Creation(a, page.file, row.code) \in created
        /\ \A k \in Stocking(row) :
             k <= q.place => Brought(a, page.file, row.code, k, commands)
    BY <1>2, <1>6, RowSoFar
  <2>3. q.place \in Stocking(row)
    BY <1>6, <2>2 DEF Ahead
  <2>4. q.place \in Place
    BY <2>3 DEF Stocking, Place
  <2> HIDE DEF page
  <2>5. page \in WorkingPage
    BY <1>2 DEF Working
  <2>6. next \in WorkingPage
    BY <2>4, <2>5 DEF WorkingPage
  <2>7. /\ next.state = page.state /\ next.file = page.file /\ next.row = page.row
        /\ next.column = q.place /\ next.errors = page.errors
        /\ next.answer = "none" /\ next.waits = {}
    BY <2>5 DEF WorkingPage
  <2> HIDE DEF next, row
  <2>8. RowAt(next) = row
    BY <2>7 DEF RowAt, row
  <2>9. Working(a, next, commands, created)
    BY <1>2, <2>2, <2>3, <2>6, <2>7, <2>8 DEF Working
  <2>10. PageKept(a, next, commands, created)
    BY <2>9 DEF PageKept
  <2>11. UNCHANGED server /\ wire' = wire
    BY <1>1
  <2> QED
    BY <2>1, <2>10, <2>11, PageTurns
<1> QED
  BY <1>4, <1>5, <1>6
LEMMA OneNext ==
  ASSUME NEW page, NEW p \in NextColumn(page), NEW k \in NextColumn(page)
  PROVE  p = k
<1>1. CASE page.column = 0 /\ Stocking(RowAt(page)) = {}
  BY <1>1 DEF NextColumn
<1>2. CASE ~(page.column = 0 /\ Stocking(RowAt(page)) = {})
  <2>1. p \in FirstOf(Ahead(RowAt(page), page.column))
        /\ k \in FirstOf(Ahead(RowAt(page), page.column))
    BY <1>2 DEF NextColumn
  <2>2. p <= k /\ k <= p
    BY <2>1 DEF FirstOf
  <2>3. p \in Nat /\ k \in Nat
    BY <2>1 DEF FirstOf, Ahead, Stocking, Column
  <2> QED
    BY <2>2, <2>3
<1> QED
  BY <1>1, <1>2

\* The server answers, and the page that still waits for the answer has it.
LEMMA Answered ==
  ASSUME ImportInv, NEW q \in wire, NEW outcome \in {"stored", "duplicate"},
         Answers(q, outcome), commands \subseteq commands', created \subseteq created',
         BooksKept', StockKept',
         outcome = "stored" =>
           /\ Creation(q.actor, q.file, q.code) \in created'
           /\ q.place # 0 => Brought(q.actor, q.file, q.code, q.place, commands'),
         outcome = "duplicate" =>
           \E product \in created' :
             product.code = q.code /\ product # Creation(q.actor, q.file, q.code)
  PROVE  ImportInv'
<1> DEFINE a == q.actor
           page == importer[a]
           next == [page EXCEPT !.answer = outcome]
<1>1. \A b \in Actor : PageKept(b, importer[b], commands', created')
  <2> SUFFICES ASSUME NEW b \in Actor PROVE PageKept(b, importer[b], commands', created')
    OBVIOUS
  <2>1. PageKept(b, importer[b], commands, created)
    BY DEF ImportInv
  <2> DEFINE done == commands
             products == created
             more == commands'
             further == created'
  <2>2. /\ done \subseteq more /\ products \subseteq further
        /\ PageKept(b, importer[b], done, products)
    BY <2>1
  <2> HIDE DEF done, products, more, further
  <2>3. PageKept(b, importer[b], more, further)
    BY <2>2, MoreIsFine
  <2> QED
    BY <2>3 DEF more, further
<1>2. \A r \in wire' : Placed(r, created')
  <2>1. wire' \subseteq wire
    BY DEF Answers
  <2> QED
    BY <2>1 DEF ImportInv, Placed
<1>3. PICK S : importer \in [Actor -> S]
  BY DEF ImportInv
<1>4. a \in Actor
  BY DEF ImportInv, Placed, Asks, Request
<1>5. CASE Waiting(a) /\ q \in page.waits
  <2>1. Turns(a, next)
    BY <1>5 DEF Answers
  <2>2. importer' \in [Actor -> S \cup {next}]
    BY <1>3, <1>4, <2>1 DEF Turns
  <2>3. importer'[a] = next /\ \A b \in Actor : b # a => importer'[b] = importer[b]
    BY <1>3, <1>4, <2>1 DEF Turns
  <2>4. page.state = "running"
    BY <1>5 DEF Waiting
  <2> DEFINE more == commands'
             further == created'
  <2>5. PageKept(a, page, more, further)
    BY <1>1, <1>4
  <2>6. q \in page.waits
    BY <1>5
  <2>7. outcome = "stored" =>
          /\ Creation(a, q.file, q.code) \in further
          /\ q.place # 0 => Brought(a, q.file, q.code, q.place, more)
    OBVIOUS
  <2>8. outcome = "duplicate" =>
          \E product \in further :
            product.code = q.code /\ product # Creation(a, q.file, q.code)
    OBVIOUS
  <2> HIDE DEF a, page, more, further
  <2>9. Working(a, page, more, further)
    BY <2>4, <2>5, RunningWorks
  <2>10. page \in WorkingPage
    BY <2>9 DEF Working
  <2>11. next \in WorkingPage
    BY <2>10 DEF WorkingPage
  <2>12. /\ next.state = page.state /\ next.starts = page.starts /\ next.file = page.file
         /\ next.row = page.row /\ next.column = page.column /\ next.errors = page.errors
         /\ next.waits = page.waits /\ next.answer = outcome
    BY <2>10 DEF WorkingPage
  <2> HIDE DEF next
  <2>13. RowAt(next) = RowAt(page)
    BY <2>12 DEF RowAt
  <2>14. NextColumn(next) = NextColumn(page)
    BY <2>12, <2>13 DEF NextColumn
  <2>15. \A p : RequestFor(a, next, p) = RequestFor(a, page, p)
    BY <2>12, <2>13 DEF RequestFor
  <2>16. \A r \in page.waits : r = q
    <3> SUFFICES ASSUME NEW r \in page.waits PROVE r = q
      OBVIOUS
    <3>1. Awaited(a, page, r, more, further) /\ Awaited(a, page, q, more, further)
      BY <2>6, <2>9 DEF Working
    <3>2. PICK p \in NextColumn(page) : r = RequestFor(a, page, p)
      BY <3>1 DEF Awaited
    <3>3. PICK k \in NextColumn(page) : q = RequestFor(a, page, k)
      BY <3>1 DEF Awaited
    <3>4. p = k
      BY OneNext
    <3> QED
      BY <3>2, <3>3, <3>4
  <2>17. Awaited(a, page, q, more, further)
    BY <2>6, <2>9 DEF Working
  <2>18. q.file = page.file
    BY <2>17 DEF Awaited, RequestFor
  <2>19. Awaited(a, next, q, more, further)
    BY <2>7, <2>8, <2>12, <2>14, <2>15, <2>17, <2>18 DEF Awaited
  <2>20. Working(a, next, more, further)
    BY <2>4, <2>6, <2>9, <2>11, <2>12, <2>13, <2>16, <2>19 DEF Working
  <2>21. PageKept(a, next, more, further)
    BY <2>20 DEF PageKept
  <2>22. \A b \in Actor : PageKept(b, importer'[b], commands', created')
    BY <1>1, <2>3, <2>21 DEF more, further
  <2> QED
    BY <1>2, <2>2, <2>22 DEF ImportInv
<1>6. CASE ~(Waiting(a) /\ q \in page.waits)
  <2>1. importer' = importer
    BY <1>6 DEF Answers
  <2> QED
    BY <1>1, <1>2, <1>3, <2>1 DEF ImportInv
<1> QED
  BY <1>5, <1>6

LEMMA RequestLost ==
  ASSUME ImportInv, NEW q \in wire, LoseRequest(q)
  PROVE  ImportInv'
<1>1. wire' \subseteq wire /\ UNCHANGED <<importer, commands, created, received>>
  BY DEF LoseRequest, server
<1>2. BooksKept' /\ StockKept'
  BY <1>1 DEF ImportInv, BooksKept, StockKept
<1>3. \A r \in wire' : Placed(r, created)
  BY <1>1 DEF ImportInv
<1> QED
  BY <1>1, <1>2, <1>3 DEF ImportInv

\* Two requests of one person for the same file, code and operation are the
\* same request, maybe of another attempt.
LEMMA SameOperation ==
  ASSUME NEW q, NEW d, Asks(q), Asks(d), d.kind = q.kind, OperationKey(d) = OperationKey(q)
  PROVE  d.file = q.file /\ d.code = q.code /\ d.place = q.place /\ d.quantity = q.quantity
<1>1. d.file = q.file /\ d.code = q.code /\ Operation(d) = Operation(q)
  BY DEF OperationKey
<1> DEFINE row == RowWith(q.file, q.code)
<1>2. q.kind \in {"product.create", "receipt.create"}
  BY DEF Asks, Request
<1>3. CASE q.kind = "product.create"
  <2>1. d.place \in FirstPlace(row) /\ q.place \in FirstPlace(row)
    BY <1>1, <1>3 DEF Asks
  <2> HIDE DEF row
  <2>2. Stocking(row) \subseteq Nat
    BY DEF Stocking, Column
  <2>3. d.place = q.place
    BY <2>1, <2>2 DEF FirstPlace, FirstOf
  <2> QED
    BY <1>1, <2>3 DEF Asks
<1>4. CASE q.kind = "receipt.create"
  <2>1. d.place = q.place
    BY <1>1, <1>4 DEF Operation
  <2> QED
    BY <1>1, <2>1 DEF Asks
<1> QED
  BY <1>2, <1>3, <1>4

LEMMA RequestReplayed ==
  ASSUME ImportInv, NEW q \in wire, Replay(q)
  PROVE  ImportInv'
<1>1. PICK d \in commands :
        d.actor = q.actor /\ d.kind = q.kind /\ OperationKey(d) = OperationKey(q)
  BY DEF Replay, Earlier
<1>2. Asks(q) /\ Asks(d) /\ Creation(d.actor, d.file, d.code) \in created
  BY DEF ImportInv, Placed, BooksKept
<1>3. d.file = q.file /\ d.code = q.code /\ d.place = q.place /\ d.quantity = q.quantity
  BY <1>1, <1>2, SameOperation
<1>4. d \in Earlier(q) /\ Payload(d) = Payload(q)
  BY <1>1, <1>3 DEF Earlier, Payload
<1>5. Answers(q, "stored")
  BY <1>4 DEF Replay
<1>6. UNCHANGED <<commands, created, received>>
  BY DEF Replay, server
<1>7. Creation(q.actor, q.file, q.code) \in created'
  BY <1>1, <1>2, <1>3, <1>6
<1>8. Brought(q.actor, q.file, q.code, q.place, commands')
  BY <1>1, <1>3, <1>6 DEF Brought
<1>9. BooksKept' /\ StockKept'
  BY <1>6 DEF ImportInv, BooksKept, StockKept
<1>10. commands \subseteq commands' /\ created \subseteq created'
  BY <1>6
<1> QED
  BY <1>5, <1>7, <1>8, <1>9, <1>10, Answered
\* The first request for a count brings exactly that count.
LEMMA TakenIn ==
  ASSUME BooksKept, StockKept, NEW q, Asks(q), TakeIn(q), commands' = commands \cup {q},
         \A d \in commands : ~(d.code = q.code /\ d.place = q.place)
  PROVE  StockKept'
<1>1. q.code \in Code /\ q.place \in Place /\ q.quantity \in Nat
  BY DEF Asks, Request
<1>2. q.quantity # 0 => q.place # 0
  BY DEF Asks
<1>3. received \in [Code -> [Column -> Nat]]
  BY DEF StockKept
<1>4. q.place # 0 => q.place \in Column /\ received[q.code][q.place] = 0
  BY <1>1 DEF StockKept, Place
<1>5. received' \in [Code -> [Column -> Nat]]
      /\ \A c \in Code, p \in Column :
           received'[c][p] = IF c = q.code /\ p = q.place THEN q.quantity ELSE received[c][p]
  <2>1. CASE q.quantity = 0
    <3>1. received' = received
      BY <2>1 DEF TakeIn
    <3>2. 0 \notin Column
      BY DEF Column
    <3> QED
      BY <1>3, <1>4, <2>1, <3>1, <3>2
  <2>2. CASE q.quantity # 0
    <3>1. received' = [received EXCEPT ![q.code][q.place] = @ + q.quantity]
      BY <2>2 DEF TakeIn
    <3>2. q.place \in Column /\ received[q.code][q.place] + q.quantity = q.quantity
      BY <1>1, <1>2, <1>4, <2>2
    <3>3. received' = [received EXCEPT ![q.code][q.place] = q.quantity]
      BY <1>1, <1>3, <3>1, <3>2
    <3> QED
      BY <1>1, <1>3, <3>2, <3>3
  <2> QED
    BY <2>1, <2>2
<1>6. \A d \in commands : d.code \in Code /\ d.place \in Place
  BY DEF BooksKept, Asks, Request
<1>7. \A d \in commands' : d.place # 0 => received'[d.code][d.place] = d.quantity
  BY <1>1, <1>5, <1>6 DEF StockKept, Place
<1>8. \A c \in Code, p \in Column :
        received'[c][p] # 0 => \E d \in commands' : d.code = c /\ d.place = p
  BY <1>5 DEF StockKept
<1> QED
  BY <1>5, <1>7, <1>8 DEF StockKept

LEMMA ProductCreated ==
  ASSUME ImportInv, NEW q \in wire, CreateProduct(q)
  PROVE  ImportInv'
<1> DEFINE own == Creation(q.actor, q.file, q.code)
<1>1. BooksKept /\ StockKept /\ Asks(q)
  BY DEF ImportInv, Placed
<1>2. q.kind = "product.create" /\ Earlier(q) = {}
  BY DEF CreateProduct
<1>3. q.actor \in Actor /\ q.file \in File /\ q.code \in Code
  BY <1>1 DEF Asks, Request
<1>4. CASE \E product \in created : product.code = q.code
  <2>1. Answers(q, "duplicate") /\ UNCHANGED <<commands, created, received>>
    BY <1>4 DEF CreateProduct, server
  <2>2. PICK product \in created : product.code = q.code
    BY <1>4
  <2>3. PICK d \in commands :
          /\ d.kind = "product.create"
          /\ d.actor = product.actor /\ d.file = product.file /\ d.code = product.code
    BY <1>1 DEF BooksKept
  <2>4. product # own
    <3> SUFFICES ASSUME product = own PROVE FALSE
      OBVIOUS
    <3>1. d.actor = q.actor /\ d.file = q.file /\ d.code = q.code
      BY <2>3 DEF Creation
    <3>2. OperationKey(d) = OperationKey(q)
      BY <1>2, <2>3, <3>1 DEF OperationKey, Operation
    <3>3. d \in Earlier(q)
      BY <1>2, <2>3, <3>1, <3>2 DEF Earlier
    <3> QED
      BY <1>2, <3>3
  <2>5. BooksKept' /\ StockKept'
    BY <1>1, <2>1 DEF BooksKept, StockKept
  <2>6. \E x \in created' : x.code = q.code /\ x # Creation(q.actor, q.file, q.code)
    BY <2>1, <2>2, <2>4
  <2>7. commands \subseteq commands' /\ created \subseteq created'
    BY <2>1
  <2> QED
    BY <2>1, <2>5, <2>6, <2>7, Answered
<1>5. CASE ~ \E product \in created : product.code = q.code
  <2>1. Answers(q, "stored") /\ TakeIn(q)
    BY <1>5 DEF CreateProduct
  <2>2. created' = created \cup {own} /\ commands' = commands \cup {q}
    BY <1>5 DEF CreateProduct, Creation
  <2>3. \A d \in commands : d.code # q.code
    <3> SUFFICES ASSUME NEW d \in commands PROVE d.code # q.code
      OBVIOUS
    <3>1. Creation(d.actor, d.file, d.code) \in created
      BY <1>1 DEF BooksKept
    <3>2. Creation(d.actor, d.file, d.code).code = d.code
      BY DEF Creation
    <3> QED
      BY <1>5, <3>1, <3>2
  <2>4. StockKept'
    BY <1>1, <2>1, <2>2, <2>3, TakenIn
  <2>5. own \in [code : Code, actor : Actor, file : File]
        /\ own.code = q.code /\ own.actor = q.actor /\ own.file = q.file
    BY <1>3 DEF Creation
  <2> HIDE DEF own
  <2>6. created' \subseteq [code : Code, actor : Actor, file : File]
    BY <1>1, <2>2, <2>5 DEF BooksKept
  <2>7. \A x, y \in created' : x.code = y.code => x = y
    BY <1>1, <1>5, <2>2, <2>5 DEF BooksKept
  <2>8. \A x \in created' : \E d \in commands' :
          /\ d.kind = "product.create"
          /\ d.actor = x.actor /\ d.file = x.file /\ d.code = x.code
    BY <1>1, <1>2, <2>2, <2>5 DEF BooksKept
  <2>9. \A d \in commands' : Asks(d) /\ Creation(d.actor, d.file, d.code) \in created'
    BY <1>1, <2>2 DEF BooksKept, own
  <2>10. \A d, e \in commands' : d.code = e.code /\ d.place = e.place => d = e
    BY <1>1, <2>2, <2>3 DEF BooksKept
  <2>11. BooksKept'
    BY <2>6, <2>7, <2>8, <2>9, <2>10 DEF BooksKept
  <2>12. Creation(q.actor, q.file, q.code) \in created'
    BY <2>2 DEF own
  <2>13. Brought(q.actor, q.file, q.code, q.place, commands')
    BY <2>2 DEF Brought
  <2>14. commands \subseteq commands' /\ created \subseteq created'
    BY <2>2
  <2> QED
    BY <2>1, <2>4, <2>11, <2>12, <2>13, <2>14, Answered
<1> QED
  BY <1>4, <1>5

LEMMA ReceiptCreated ==
  ASSUME ImportInv, NEW q \in wire, CreateReceipt(q)
  PROVE  ImportInv'
<1>1. BooksKept /\ StockKept /\ Asks(q)
  BY DEF ImportInv, Placed
<1>2. /\ q.kind = "receipt.create" /\ Earlier(q) = {} /\ Answers(q, "stored") /\ TakeIn(q)
      /\ commands' = commands \cup {q} /\ created' = created
  BY DEF CreateReceipt
<1>3. Creation(q.actor, q.file, q.code) \in created
  BY <1>2 DEF ImportInv, Placed
<1>4. \A d \in commands : ~(d.code = q.code /\ d.place = q.place)
  <2> SUFFICES ASSUME NEW d \in commands, d.code = q.code, d.place = q.place PROVE FALSE
    OBVIOUS
  <2>1. Asks(d) /\ Creation(d.actor, d.file, d.code) \in created
    BY <1>1 DEF BooksKept
  <2>2. Creation(d.actor, d.file, d.code) = Creation(q.actor, q.file, q.code)
    <3>1. Creation(d.actor, d.file, d.code).code = Creation(q.actor, q.file, q.code).code
      BY DEF Creation
    <3> QED
      BY <1>1, <1>3, <2>1, <3>1 DEF BooksKept
  <2>3. d.actor = q.actor /\ d.file = q.file
    BY <2>2 DEF Creation
  <2> DEFINE row == RowWith(q.file, q.code)
  <2>4. q.place \in Stocking(row) /\ \E k \in Stocking(row) : k < q.place
    BY <1>1, <1>2 DEF Asks
  <2>5. d.kind = "product.create" => q.place \in FirstPlace(row)
    BY <2>1, <2>3 DEF Asks
  <2> HIDE DEF row
  <2>6. q.place \notin FirstPlace(row)
    BY <2>4 DEF FirstPlace, FirstOf, Stocking, Column
  <2>7. d.kind = "receipt.create"
    BY <2>1, <2>5, <2>6 DEF Asks, Request
  <2>8. OperationKey(d) = OperationKey(q)
    BY <1>2, <2>3, <2>7 DEF OperationKey, Operation
  <2>9. d \in Earlier(q)
    BY <1>2, <2>3, <2>7, <2>8 DEF Earlier
  <2> QED
    BY <1>2, <2>9
<1>5. StockKept'
  BY <1>1, <1>2, <1>4, TakenIn
<1>6. BooksKept'
  <2>1. \A d \in commands' : Asks(d) /\ Creation(d.actor, d.file, d.code) \in created'
    BY <1>1, <1>2, <1>3 DEF BooksKept
  <2>2. \A d, e \in commands' : d.code = e.code /\ d.place = e.place => d = e
    BY <1>1, <1>2, <1>4 DEF BooksKept
  <2> QED
    BY <1>1, <1>2, <2>1, <2>2 DEF BooksKept
<1>7. Creation(q.actor, q.file, q.code) \in created'
  BY <1>2, <1>3
<1>8. Brought(q.actor, q.file, q.code, q.place, commands')
  BY <1>2 DEF Brought
<1>9. commands \subseteq commands' /\ created \subseteq created'
  BY <1>2
<1> QED
  BY <1>2, <1>5, <1>6, <1>7, <1>8, <1>9, Answered

LEMMA ImportSteps ==
  ASSUME ImportInv, [ImportNext]_uploaded
  PROVE  ImportInv'
<1>1. ASSUME NEW a \in Actor, NEW f \in File, SelectFile(a, f) PROVE ImportInv'
  BY <1>1, FileSelected
<1>2. ASSUME NEW a \in Actor, StartImport(a) PROVE ImportInv'
  BY <1>2, ImportStarted
<1>3. ASSUME NEW a \in Actor, Unprepared(a) PROVE ImportInv'
  BY <1>3, NothingPrepared
<1>4. ASSUME NEW a \in Actor, SendRequest(a) PROVE ImportInv'
  BY <1>4, RequestSent
<1>5. ASSUME NEW a \in Actor, Hear(a) PROVE ImportInv'
  BY <1>5, AnswerHeard
<1>6. ASSUME NEW a \in Actor, GiveUp(a) PROVE ImportInv'
  BY <1>6, AnswerGivenUp
<1>7. ASSUME NEW a \in Actor, ReloadPage(a) PROVE ImportInv'
  BY <1>7, PageReloaded
<1>8. ASSUME NEW q \in wire, Replay(q) PROVE ImportInv'
  BY <1>8, RequestReplayed
<1>9. ASSUME NEW q \in wire, CreateProduct(q) PROVE ImportInv'
  BY <1>9, ProductCreated
<1>10. ASSUME NEW q \in wire, CreateReceipt(q) PROVE ImportInv'
  BY <1>10, ReceiptCreated
<1>11. ASSUME NEW q \in wire, LoseRequest(q) PROVE ImportInv'
  BY <1>11, RequestLost
<1>12. CASE UNCHANGED uploaded
  BY <1>12 DEF uploaded, server, ImportInv, BooksKept, StockKept
<1> QED
  BY <1>1, <1>2, <1>3, <1>4, <1>5, <1>6, <1>7, <1>8, <1>9, <1>10, <1>11, <1>12 DEF ImportNext

\* What was committed for a code comes from the file that made its product.
LEMMA OneOrigin ==
  ASSUME BooksKept, NEW d \in commands, NEW x \in created, d.code = x.code
  PROVE  d.actor = x.actor /\ d.file = x.file
<1>1. Creation(d.actor, d.file, d.code) \in created
  BY DEF BooksKept
<1>2. Creation(d.actor, d.file, d.code).code = d.code
  BY DEF Creation
<1>3. Creation(d.actor, d.file, d.code) = x
  BY <1>1, <1>2 DEF BooksKept
<1> QED
  BY <1>3 DEF Creation

LEMMA InvCounts == ImportInv => ImportedAsCounted
<1> SUFFICES ASSUME ImportInv PROVE ImportedAsCounted
  OBVIOUS
<1>1. BooksKept /\ StockKept
  BY DEF ImportInv
<1>2. CountedOnce
  <2> SUFFICES ASSUME NEW c \in Code, NEW p \in Column, received[c][p] # 0
               PROVE  \E product \in created :
                        product.code = c /\ received[c][p] = CountOf(RowWith(product.file, c), p)
    BY DEF CountedOnce
  <2>1. PICK d \in commands : d.code = c /\ d.place = p
    BY <1>1 DEF StockKept
  <2>2. p # 0
    BY DEF Column
  <2>3. received[c][p] = CountOf(RowWith(d.file, c), p)
    BY <1>1, <2>1, <2>2 DEF StockKept, BooksKept, Asks
  <2>4. Creation(d.actor, d.file, d.code) \in created
    BY <1>1 DEF BooksKept
  <2>5. /\ Creation(d.actor, d.file, d.code).code = c
        /\ Creation(d.actor, d.file, d.code).file = d.file
    BY <2>1 DEF Creation
  <2> QED
    BY <2>3, <2>4, <2>5
<1>3. OwnFileAccepted
  <2> SUFFICES ASSUME NEW a \in Actor, Waiting(a),
                      importer[a].answer \in {"duplicate", "reused"},
                      NEW q \in importer[a].waits
               PROVE  [code |-> q.code, actor |-> a, file |-> importer[a].file] \notin created
    BY DEF OwnFileAccepted
  <2>1. Working(a, importer[a], commands, created)
    BY RunningWorks DEF ImportInv, Waiting
  <2>2. Awaited(a, importer[a], q, commands, created) /\ importer[a].answer = "duplicate"
    BY <2>1 DEF Working
  <2>3. PICK x \in created : x.code = q.code /\ x # Creation(a, importer[a].file, q.code)
    BY <2>2 DEF Awaited
  <2>4. Creation(a, importer[a].file, q.code).code = q.code
    BY DEF Creation
  <2>5. Creation(a, importer[a].file, q.code) \notin created
    BY <1>1, <2>3, <2>4 DEF BooksKept
  <2> QED
    BY <2>5 DEF Creation
<1>4. NoErrorMeansStored
  <2> SUFFICES ASSUME NEW a \in Actor, importer[a].state = "complete", importer[a].errors = {},
                      NEW i \in RowsOf[importer[a].file], NEW p \in Column
               PROVE  received[Sheet[importer[a].file][i].code][p]
                        = CountOf(Sheet[importer[a].file][i], p)
    BY DEF NoErrorMeansStored
  <2> DEFINE f == importer[a].file
             row == Sheet[f][i]
  <2>1. Working(a, importer[a], commands, created)
    BY DEF ImportInv, PageKept, IdlePage, ReadyPage
  <2>2. f \in File /\ Readable(f) /\ Finished(a, f, i, commands, created)
    BY <2>1 DEF Working, WorkingPage
  <2>3. RowWith(f, row.code) = row
    BY <2>2, RowIsFound
  <2>4. row.code \in Code /\ CountOf(row, p) \in Nat
    BY <2>2, RowsTyped
  <2>5. Creation(a, f, row.code) \in created
    BY <2>2 DEF Finished
  <2>6. \A k \in Stocking(row) : Brought(a, f, row.code, k, commands)
    BY <2>2 DEF Finished
  <2> HIDE DEF row, f
  <2>7. p # 0
    BY DEF Column
  <2>8. \A d \in commands : d.code = row.code /\ d.place = p =>
          received[row.code][p] = CountOf(row, p)
    <3> SUFFICES ASSUME NEW d \in commands, d.code = row.code, d.place = p
                 PROVE  received[row.code][p] = CountOf(row, p)
      OBVIOUS
    <3>1. Creation(a, f, row.code).code = row.code /\ Creation(a, f, row.code).file = f
      BY DEF Creation
    <3>2. d.file = f
      BY <1>1, <2>5, <3>1, OneOrigin
    <3>3. received[row.code][p] = d.quantity
      BY <1>1, <2>7 DEF StockKept
    <3>4. d.quantity = CountOf(row, p)
      BY <1>1, <2>3, <2>7, <3>2 DEF BooksKept, Asks
    <3> QED
      BY <3>3, <3>4
  <2>9. received[row.code][p] = CountOf(row, p)
    <3>1. CASE \E d \in commands : d.code = row.code /\ d.place = p
      BY <2>8, <3>1
    <3>2. CASE ~ \E d \in commands : d.code = row.code /\ d.place = p
      <4>1. received[row.code][p] = 0
        BY <1>1, <2>4, <3>2 DEF StockKept
      <4>2. p \notin Stocking(row)
        BY <2>6, <3>2 DEF Brought
      <4> QED
        BY <2>4, <4>1, <4>2 DEF Stocking
    <3> QED
      BY <3>1, <3>2
  <2> QED
    BY <2>9 DEF row, f
<1> QED
  BY <1>2, <1>3, <1>4 DEF ImportedAsCounted

\* Whatever is lost, repeated, late or refused, and however many people import
\* however many files: stock is what the file that made the product counts, or
\* nothing; no one is refused a file of their own; and an import without errors
\* has stored every count of its sheet.
THEOREM CountedImportHolds == ImportSpec => []ImportedAsCounted
<1>1. ImportInit => ImportInv
  BY ImportStarts
<1>2. ImportInv /\ [ImportNext]_uploaded => ImportInv'
  BY ImportSteps
<1>3. ImportInv => ImportedAsCounted
  BY InvCounts
<1> QED
  BY <1>1, <1>2, <1>3, PTL DEF ImportSpec
=============================================================================
