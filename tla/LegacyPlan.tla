------------------------------ MODULE LegacyPlan ------------------------------
(***************************************************************************)
(* What the legacy importer makes of the workbook: the products, balances  *)
(* and valuations of its business plan, and the reconciliation issues.     *)
(* The builder reads the sheets row by row, in physical order, and decides *)
(* at the end of each sheet.  A row is what the decisions look at.  The    *)
(* totals the builder demands (14 units, 357 balances, ...) describe the   *)
(* one approved workbook; without them it accepts every workbook here.     *)
(***************************************************************************)
EXTENDS FiniteSets, Integers, Sequences

CONSTANTS
  Code, Place,   \* product codes and warehouses with an approved mapping
  Foreign,       \* a code or a warehouse without one
  Time,          \* instants of observation, positive numbers
  Amount,        \* quantities, as canonical decimals
  MaxProducts, MaxInventory, MaxMovements  \* rows read of each sheet

ASSUME LegacyPlanAssumption ==
  Time \subseteq Nat \ {0} /\ Foreign \notin Code \cup Place

VARIABLES
  phase,    \* "Productos", "Inventario", "Movimientos", "planned", "rejected"
  products, \* rows of Productos read: their codes
  decision, \* the approved decision about duplicates of a code
  rows,     \* rows of Inventario read
  groups,   \* groups[k]: the inventory rows of balance key k
  moved,    \* rows of Movimientos read
  latest    \* latest[k]: the movement row that counts for key k, or 0

planned == <<phase, products, decision, rows, groups, moved, latest>>

Key == Code \X Place
Never == 0  \* no instant of observation
Row == [code : Code, place : Place, quantity : Amount, free : BOOLEAN,
        seen : Time \cup {Never}]
Movement == [code : Code \cup {Foreign}, place : Place \cup {Foreign},
             stock : Amount]
Decisions == [row : 1 .. MaxProducts, evidence : SUBSET (1 .. MaxProducts)]

-----------------------------------------------------------------------------
(* The sheet Productos.                                                    *)

RowsOf(c) == {i \in DOMAIN products : products[i] = c}

\* The row a product is made from: the only one, or the one an approved
\* decision names if the decision names all the others too.
Canonical(c) ==
  {i \in RowsOf(c) :
     \/ RowsOf(c) = {i}
     \/ i = decision[c].row /\ decision[c].evidence = RowsOf(c) \ {i}}

\* A name of the workbook has an approved mapping to one of the database.
Resolved(name) == name # Foreign

Accepted == {c \in Code : RowsOf(c) # {}}

ReadProduct(c) ==
  /\ phase = "Productos" /\ Len(products) < MaxProducts
  /\ products' = Append(products, c)
  /\ UNCHANGED <<phase, decision, rows, groups, moved, latest>>

ProductsRead ==
  /\ phase = "Productos"
  /\ phase' = IF \A c \in Accepted: Canonical(c) # {} THEN "Inventario"
                                                      ELSE "rejected"
  /\ UNCHANGED <<products, decision, rows, groups, moved, latest>>

-----------------------------------------------------------------------------
(* The sheet Inventario.                                                   *)

\* A row of a product that is not in the plan ends the run, as one of a
\* warehouse without a mapping would.
ReadInventory(row) ==
  /\ phase = "Inventario" /\ Len(rows) < MaxInventory
  /\ IF row.code \in Accepted
       THEN /\ rows' = Append(rows, row)
            /\ groups' = [groups EXCEPT ![<<row.code, row.place>>] =
                            @ \cup {Len(rows) + 1}]
            /\ UNCHANGED phase
       ELSE phase' = "rejected" /\ UNCHANGED <<rows, groups>>
  /\ UNCHANGED <<products, decision, moved, latest>>

InventoryRead ==
  /\ phase = "Inventario"
  /\ phase' = "Movimientos"
  /\ UNCHANGED <<products, decision, rows, groups, moved, latest>>

\* The order of a group: by instant, none first, then by physical row.
SortsBefore(i, j) ==
  IF rows[i].seen = rows[j].seen THEN i < j
  ELSE rows[i].seen = Never \/ (rows[j].seen # Never /\ rows[i].seen < rows[j].seen)

\* The last row of the sorted group.
Selected(k) == CHOOSE i \in groups[k] : \A j \in groups[k] \ {i} : SortsBefore(j, i)

Keys == {k \in Key : groups[k] # {}}

Balances == {[key |-> k, row |-> Selected(k), quantity |-> rows[Selected(k)].quantity,
              costReview |-> rows[Selected(k)].free] : k \in Keys}

\* Every row with an instant is valued at that instant, not only the selected.
Valuations ==
  {[key |-> <<rows[i].code, rows[i].place>>, row |-> i, at |-> rows[i].seen,
    review |-> rows[i].free] : i \in {j \in DOMAIN rows : rows[j].seen # Never}}

RowIssues ==
  [missing |-> {i \in DOMAIN rows : rows[i].seen = Never},
   zeroCost |-> {i \in DOMAIN rows : rows[i].free}]

-----------------------------------------------------------------------------
(* The sheet Movimientos, and what does not agree.                         *)

\* A bug: the first movement of a key is kept.
KeepsMovement(k) == latest[k] = 0

\* A later row replaces an earlier one.
Replaces(k) == TRUE

\* Rows without an approved product or warehouse are passed over.
ReadMovement(m) ==
  LET k == <<m.code, m.place>>
  IN  /\ phase = "Movimientos" /\ Len(moved) < MaxMovements
      /\ moved' = Append(moved, m)
      /\ latest' = IF m.code \in Accepted /\ Resolved(m.place) /\ Replaces(k)
                     THEN [latest EXCEPT ![k] = Len(moved) + 1] ELSE latest
      /\ UNCHANGED <<phase, products, decision, rows, groups>>

MovementsRead ==
  /\ phase = "Movimientos"
  /\ phase' = "planned"
  /\ UNCHANGED <<products, decision, rows, groups, moved, latest>>

KeyIssues ==
  [inventoryOnly |-> {k \in Keys : latest[k] = 0},
   different |-> {k \in Keys : latest[k] # 0 /\
                    moved[latest[k]].stock # rows[Selected(k)].quantity},
   movementOnly |-> {k \in Key \ Keys : latest[k] # 0},
   withoutInventory |-> {c \in Accepted : \A p \in Place: groups[<<c, p>>] = {}}]

-----------------------------------------------------------------------------
PlanInit ==
  /\ phase = "Productos"
  /\ products = << >>
  /\ decision \in [Code -> Decisions]
  /\ rows = << >> /\ moved = << >>
  /\ groups = [k \in Key |-> {}]
  /\ latest = [k \in Key |-> 0]

PlanNext ==
  \/ \E c \in Code: ReadProduct(c)
  \/ ProductsRead
  \/ \E row \in Row: ReadInventory(row)
  \/ InventoryRead
  \/ \E m \in Movement: ReadMovement(m)
  \/ MovementsRead

PlanSpec == PlanInit /\ [][PlanNext]_planned

-----------------------------------------------------------------------------
(* Properties.                                                             *)

Planned == phase = "planned"

\* No row of the workbook disappears from the plan: a product row is the
\* canonical row of its code or evidence an approved decision names; an
\* inventory row belongs to the one balance of its key, and is either valued
\* or reported as not observed.
EveryRowAccountedFor ==
  Planned =>
    /\ \A i \in DOMAIN products: LET c == products[i] IN
         i \in Canonical(c) \/ i \in decision[c].evidence
    /\ \A c \in Accepted: Cardinality(Canonical(c)) = 1
    /\ \A i \in DOMAIN rows:
         /\ \E b \in Balances: b.key = <<rows[i].code, rows[i].place>>
         /\ (\E v \in Valuations: v.row = i) # (i \in RowIssues.missing)

\* The balance of a key is what the workbook observed last: no row of the key
\* was observed later, none at the same instant stands further down, and a
\* row without an instant counts only when all the rows of its key lack one.
LatestObservationWins ==
  Planned => \A b \in Balances: \A i \in DOMAIN rows:
    <<rows[i].code, rows[i].place>> = b.key /\ i # b.row =>
      rows[i].seen <= rows[b.row].seen /\ (rows[i].seen = rows[b.row].seen => i < b.row)

\* The inventory is the authority, and every disagreement with the movements
\* is reported once: a key of either sheet agrees with its last movement or
\* has exactly one issue.
DisagreementsReported ==
  Planned => \A k \in Key:
    LET ofKey == {i \in DOMAIN moved : <<moved[i].code, moved[i].place>> = k}
        inPlan == k[1] \in Accepted /\ ofKey # {}
        last == CHOOSE i \in ofKey : \A j \in ofKey : j <= i
        agrees == \E b \in Balances: b.key = k /\ inPlan /\ moved[last].stock = b.quantity
        issues == {n \in {"inventoryOnly", "different", "movementOnly"} : k \in KeyIssues[n]}
    IN  Cardinality(issues) =
          IF agrees \/ (k \notin Keys /\ ~inPlan) THEN 0 ELSE 1

\* The plan is faithful to the workbook: no row is dropped, the balances are
\* those observed last, and disagreements are reported.
PlanFaithful ==
  EveryRowAccountedFor /\ LatestObservationWins /\ DisagreementsReported
=============================================================================
