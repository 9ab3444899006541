---------------------------- MODULE MCLoginThrottle ----------------------------
(* A small instance of LoginThrottle for TLC. *)
EXTENDS LoginThrottle, TLC

Interchangeable == Permutations(Attempt)

=============================================================================
