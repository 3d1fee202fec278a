------------------------------ MODULE MCPayments ------------------------------
(* Payments for TLC. *)
EXTENDS Payments, TLC

Symmetry == Permutations(Slots) \cup Permutations(PayIds \ {Old})
===============================================================================
