----------------------- MODULE SettlementStateMachine -----------------------
(***************************************************************************)
(* What the settlement table promises its readers (the gateway, merchants  *)
(* and reconciliation): a settlement row appears once, as pending, and     *)
(* moves only along SETTLEMENT_STATUS_TRANSITIONS, so completed and failed *)
(* are final.  SettlementEngine is checked against this specification.     *)
(***************************************************************************)
EXTENDS SettlementStatus

CONSTANT Settlements        \* the ids of settlement rows

VARIABLE status             \* row id -> row state

TypeOK == status \in [Settlements -> RowState]

Init == status = [s \in Settlements |-> Absent]

\* A row is inserted with its default status.
Insert(s) ==
    /\ status[s] = Absent
    /\ status' = [status EXCEPT ![s] = "pending"]

\* Some rows move along one edge of the machine (one UPDATE statement may
\* touch several rows).
Advance ==
    /\ status' \in [Settlements -> RowState]
    /\ \A s \in Settlements :
         status'[s] # status[s] => isValidTransition(status[s], status'[s])

Next == (\E s \in Settlements : Insert(s)) \/ Advance

Spec == Init /\ [][Next]_status
=============================================================================
