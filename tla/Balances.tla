------------------------------- MODULE Balances -------------------------------
(***************************************************************************)
(* What the modules on stock share: a balance is a whole number of the     *)
(* smallest unit, from nothing to what the column holds.                   *)
(***************************************************************************)
EXTENDS Integers, Sequences

CONSTANTS
  None,        \* SQL NULL, a row that does not exist, or an omitted field
  MaxQuantity  \* maximumScaledInventoryQuantity

ASSUME BalancesAssumption == MaxQuantity \in Nat

Quantity == 0 .. MaxQuantity

NullOr(S) == S \cup {None}

\* The movements of a place as the abstract ledger sees them: from what to
\* what, without their kind and their key.
Steps(rows) ==
  [i \in DOMAIN rows |-> [before |-> rows[i].before, after |-> rows[i].after]]
=============================================================================
