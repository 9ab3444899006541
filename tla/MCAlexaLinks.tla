----------------------------- MODULE MCAlexaLinks -----------------------------
(* A small instance of AlexaLinks for TLC. *)
EXTENDS AlexaLinks, TLC

Interchangeable == Permutations(Request)

===============================================================================
