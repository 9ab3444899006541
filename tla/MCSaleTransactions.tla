------------------------- MODULE MCSaleTransactions -------------------------
(* A small instance of SaleTransactions for TLC.                            *)
EXTENDS SaleTransactions, TLC

CONSTANTS twin, van, p1, p2, d1

Sells == {<<twin, p1>>, <<twin, p2>>, <<van, p1>>}

MCDemand ==
  [r \in Request |-> [p \in Pair |-> IF <<r, p>> \in Sells THEN 1 ELSE 0]]
MCTotal == [r \in Request |-> 5]
MCDayOf == [r \in Request |-> d1]
MCInitialStatus ==
  [r \in Request |-> IF r = van THEN "IN_TRANSIT" ELSE "COMPLETED"]
MCOpening == [p \in Pair |-> IF p = p1 THEN 2 ELSE 1]

Symmetry == Permutations(Sale) \cup Permutations(Key) \cup Permutations(Txn)
=============================================================================
