------------------------------- MODULE ApiClock -------------------------------
(***************************************************************************)
(* What the modules on readings of the clock share: the clock of the API,  *)
(* which is also that of its database, and a NULL.                         *)
(***************************************************************************)
EXTENDS Integers

CONSTANTS
  MaxClock,  \* bounds the clock
  None

ASSUME ClockAssumption == MaxClock \in Nat

VARIABLE clock  \* never goes back

Time == 0..MaxClock

Advances == clock < MaxClock /\ clock' = clock + 1
=============================================================================
