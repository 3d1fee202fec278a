--------------------------- MODULE MCSettlementLedger --------------------------
(* The settlement ledger for TLC: 10% less 5% from a volume of 100 whole units on, a
   request for 100 whole units and one for 25.5. *)
EXTENDS SettlementLedger, TLC

MCAsks == {[gross |-> 1055, unit |-> 1], [gross |-> 3000, unit |-> 10]}
MCTiers == {[volumeUsd |-> 200, discountBps |-> 300], [volumeUsd |-> 1000, discountBps |-> 500]}
MCLimits == [min |-> 100, max |-> 4000, daily |-> 3500]
Symmetry == Permutations(Merchants)
================================================================================
