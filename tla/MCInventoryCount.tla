--------------------------- MODULE MCInventoryCount ---------------------------
(* Small instances of InventoryCount for TLC: p1 starts with stock, p2 has   *)
(* no balance row yet.                                                       *)
EXTENDS InventoryCount, TLC

CONSTANTS p1, p2

MCScope == [n \in Session |-> Pair]

MCStocked == [p \in {p1} |-> 1]

Symmetry == Permutations(Session) \cup Permutations(Txn)
=============================================================================
