-------------------------- MODULE MCBulkSettlement --------------------------
(* Small instances of BulkSettlement.                                      *)
EXTENDS BulkSettlement

\* Zero, too small, too large, and too much for the day, in different orders.
MCPayloads == {<<2, 3, 2>>, <<1, 2, 0>>, <<4, 3, 3>>, <<3, 2, 2>>}
RequestSymmetry == Permutations(Requests)
=============================================================================
