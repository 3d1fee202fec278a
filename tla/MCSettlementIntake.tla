------------------------- MODULE MCSettlementIntake -------------------------
(* Small instances of SettlementIntake.                                    *)
EXTENDS SettlementIntake, TLC

MCAmounts == {1, 2}
MCAmount1 == {1}
RequestSymmetry == Permutations(Requests)
=============================================================================
