-------------------------------- MODULE MCStock --------------------------------
(***************************************************************************)
(* The ways stock moves, apart from sales: the commands of StockCommands,  *)
(* with one product in two warehouses, the physical counts of              *)
(* InventoryCount, one over two pairs and two over the same pair, and the  *)
(* import of a counted workbook.  A behaviour is one of one of them; p1    *)
(* and main start with a unit, p2 and store have no balance row yet.       *)
(***************************************************************************)
EXTENDS StockCommands, InventoryCount, CountedImport, TLC

CONSTANTS main, store, product, p1, p2, n1

VARIABLE part

MainRow ==
  [quantity |-> 1, cost |-> 0, price |-> None, costReview |-> TRUE,
   priceReview |-> FALSE, version |-> 1]

MCOpening == [p \in {product} |-> [w \in {main, store} |-> IF w = main THEN MainRow ELSE None]]

MCStocked == [p \in {p1} |-> 1]

MCScope == [n \in Session |-> IF n = n1 THEN {p1, p2} ELSE {p1}]

ASSUME PartsAssumption == n1 \in Session

\* One count over both pairs, of units 0 or 1.
OneCount ==
  /\ \A n \in Session \ {n1} : status[n] = None
  /\ \A p \in Pair :
       /\ Balance(p) <= 1 /\ Len(movements[p]) <= 2
       /\ lines[n1][p] # None => lines[n1][p].counted <= 1
  /\ \A t \in Txn : Serving(t, "capture") => step[t].counted <= 1

\* Two counts over one pair, without corrections.
TwoCounts ==
  /\ movements[p2] = <<>>
  /\ \A n \in Session : revisions[n][p1] = <<>>
  /\ \A t \in Txn : Serving(t, "capture") => step[t].pair = p1

\* Two people import: the sheet of the first file has a total, a product that
\* nobody counted and one that is in no warehouse; the second file counts the
\* first product again, and differently.
Workbook ==
  [f1 |-> <<[code |-> "c1", name |-> "n1", counts |-> <<2, 1>>],
            [code |-> "c2", name |-> "n2", counts |-> <<0, Blank>>],
            [code |-> Blank, name |-> "TOTAL", counts |-> <<2, 1>>],
            [code |-> "c3", name |-> "n3", counts |-> <<Blank, Blank>>]>>,
   f2 |-> <<[code |-> "c1", name |-> "n1", counts |-> <<2, 2>>]>>]

People == {"a1", "a2"}
Files == {"f1", "f2"}

Attempts == [a1 |-> 2, a2 |-> 1]

PartsInit ==
  /\ part \in {"commands", "one count", "two counts", "upload"}
  /\ Init /\ CountInit /\ ImportInit

PartsNext ==
  /\ UNCHANGED part
  /\ \/ part = "commands" /\ Next /\ UNCHANGED <<counting, uploaded>>
     \/ part = "one count" /\ CountNext /\ OneCount' /\ UNCHANGED <<vars, uploaded>>
     \/ part = "two counts" /\ CountNext /\ TwoCounts' /\ UNCHANGED <<vars, uploaded>>
     \/ part = "upload" /\ ImportNext /\ UNCHANGED <<vars, counting>>

PartsSpec == PartsInit /\ [][PartsNext]_<<part, vars, counting, uploaded>>

Interchangeable ==
  Permutations(Key) \cup Permutations(Txn) \cup Permutations(Session \ {n1})
===============================================================================
