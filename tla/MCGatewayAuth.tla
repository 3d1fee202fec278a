--------------------------- MODULE MCGatewayAuth ---------------------------
(* GatewayAuth with two requests at a time. *)
EXTENDS GatewayAuth, TLC

Symmetry == Permutations(Slots)
=============================================================================
