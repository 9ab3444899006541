----------------------------- MODULE StockLedger -----------------------------
(***************************************************************************)
(* What every stock command promises, whatever it is for: a place is a     *)
(* product in a warehouse, its quantity changes only together with a       *)
(* movement that says from what to what, and what leaves one place for     *)
(* another arrives there.  The commands and the counts implement it.       *)
(***************************************************************************)
EXTENDS Integers, Sequences

CONSTANTS
  Place,
  Quantity,  \* what a place may hold
  Opening,   \* Opening[x]: the quantity of a place at the start
  Exchange,  \* pairs of places between which units are transferred
  Together   \* sets of places that one step may settle at once

VARIABLES
  quantity,  \* quantity[x]: how much place x holds
  moves      \* moves[x]: the movements of place x, oldest first

vars == <<quantity, moves>>

Init ==
  /\ quantity = Opening
  /\ moves = [x \in Place |-> <<>>]

\* The places of S get a quantity and a movement that says so; no other does.
Move(S) ==
  /\ \A x \in Place \ S : quantity'[x] = quantity[x] /\ moves'[x] = moves[x]
  /\ quantity' \in [Place -> Quantity]
  /\ moves' =
       [x \in Place |->
          IF x \in S
          THEN Append(moves[x], [before |-> quantity[x], after |-> quantity'[x]])
          ELSE moves[x]]

Change(x) == quantity'[x] # quantity[x] /\ Move({x})

Transfer(x, y) ==
  /\ quantity'[x] < quantity[x]
  /\ quantity'[x] + quantity'[y] = quantity[x] + quantity[y]
  /\ Move({x, y})

Next ==
  \/ \E x \in Place : Change(x)
  \/ \E e \in Exchange : Transfer(e[1], e[2])
  \/ \E S \in Together : Move(S)

Spec == Init /\ [][Next]_vars
=============================================================================
