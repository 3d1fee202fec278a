------------------------------- MODULE MCIndexer -------------------------------
(* The indexer for TLC: a ledger cut in two by the page limit, one without events and
   an event that is skipped. *)
EXTENDS Indexer

E(ledger, valid) == [ledger |-> ledger, valid |-> valid]
MCChain == <<E(1, TRUE), E(2, TRUE), E(2, FALSE), E(2, TRUE)>>
MCRanges == {[from |-> 1, to |-> 2, force |-> TRUE], [from |-> 2, to |-> 2, force |-> FALSE]}
MCAllowed == [kind \in Occurrences |-> IF kind \in {"error", "reject", "stall"} THEN 2 ELSE 1]
NoneAllowed == [kind \in Occurrences |-> 0]
================================================================================
