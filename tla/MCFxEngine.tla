------------------------------- MODULE MCFxEngine ------------------------------
(* The FX engine for TLC: rates 10, 11 and 20, of which the guard accepts a move between
   10 and 11 only. *)
EXTENDS FxEngine

MCFallback == [a \in Assets |-> 10]
MCPairs == {<<CHOOSE a \in Assets : TRUE, NGN>>}
MCBudget == [kind \in Kinds |-> IF kind = "error" THEN 2 ELSE 1]
================================================================================
