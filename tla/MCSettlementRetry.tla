------------------------- MODULE MCSettlementRetry --------------------------
(* Small instances of SettlementRetry.                                     *)
EXTENDS SettlementRetry, TLC

MCRows4 == 1 .. 4
MCRows5 == 1 .. 5

RequestSymmetry == Permutations(Requests)
=============================================================================
