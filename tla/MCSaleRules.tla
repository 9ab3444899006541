---------------------------- MODULE MCSaleRules ----------------------------
(***************************************************************************)
(* Small instances for TLC of the commands on sales, of the arithmetic of  *)
(* their lines, and of the book that shows their income beside the entries *)
(* made by hand; a behaviour is one of one of them.                        *)
(*                                                                         *)
(* SaleRules: three requests over two pairs.  "twin" and "van" have the    *)
(* same total and day, so a paid one can be voided for the other; "late"   *)
(* falls on another day.                                                   *)
(***************************************************************************)
EXTENDS SaleRules, SaleLines, FinanceBook, TLC

CONSTANTS twin, van, late, p1, p2, d1, d2

VARIABLE part

\* Two requests post an income and an expense of one day under two keys, and
\* one sale of that day is completed: lines tie on date and instant, and a
\* page holds one.
Facts == [sale |-> [date |-> 1, amount |-> 5]]

Entries ==
  {[category |-> "sold", type |-> "INCOME", date |-> 1, amount |-> 2],
   [category |-> "spent", type |-> "EXPENSE", date |-> 1, amount |-> 3]}

Types == [sold |-> "INCOME", spent |-> "EXPENSE"]

Queries ==
  {[type |-> "any", source |-> "any"], [type |-> "INCOME", source |-> "MANUAL"]}

Ranks == <<"entry", "k1">> :> 1 @@ <<"entry", "k2">> :> 2 @@ <<"sale", "sale">> :> 3

\* Two sales of up to two lines over two pairs: a pair named on several lines,
\* half a cent to round on each, a shipping that two lines cannot share
\* evenly, and a pair without a reference price.
SaleLine ==
  {[pair |-> "p", quantity |-> 1, price |-> NoPrice],
   [pair |-> "q", quantity |-> 1, price |-> 3]}

Opened ==
  [p |-> [quantity |-> 4, price |-> 1, cost |-> 1],
   q |-> [quantity |-> 2, price |-> NoPrice, cost |-> 0]]

Methods == [Efectivo |-> "cash", Tarjeta |-> "digital"]

Sells == {<<twin, p1>>, <<twin, p2>>, <<van, p1>>, <<late, p2>>}

MCDemand ==
  [r \in Request |-> [p \in Pair |-> IF <<r, p>> \in Sells THEN 1 ELSE 0]]

MCTotal == [r \in Request |-> IF r = late THEN 3 ELSE 5]

MCDayOf == [r \in Request |-> IF r = late THEN d2 ELSE d1]

MCInitialStatus ==
  [r \in Request |-> IF r = van THEN "IN_TRANSIT" ELSE "COMPLETED"]

MCOpening == [p \in Pair |-> IF p = p1 THEN 3 ELSE 1]

\* Posting and PricedSale are given the same two values.
Symmetry == Permutations(Sale) \cup Permutations(Key) \cup Permutations(Posting)

PartsInit ==
  /\ part \in {"sales", "book", "lines"}
  /\ Initially /\ BookInit /\ LinesInit

PartsNext ==
  /\ UNCHANGED part
  /\ \/ part = "sales" /\ Command /\ UNCHANGED <<bookVars, lineVars>>
     \/ part = "book" /\ BookNext /\ UNCHANGED <<tables, lineVars>>
     \/ part = "lines" /\ LinesNext /\ UNCHANGED <<tables, bookVars>>

PartsSpec == PartsInit /\ [][PartsNext]_<<part, tables, bookVars, lineVars>>
=============================================================================
