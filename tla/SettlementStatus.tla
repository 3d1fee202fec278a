-------------------------- MODULE SettlementStatus --------------------------
(***************************************************************************)
(* The settlement status machine of shared/validation/schemas.ts, which    *)
(* the settlement engine and the API gateway share.                        *)
(***************************************************************************)

\* Row states: the four values of the enum, and "absent" for a row that has
\* not been inserted.
Status == {"pending", "processing", "completed", "failed"}
Absent == "absent"
RowState == Status \cup {Absent}

Terminal == {"completed", "failed"}

SETTLEMENT_STATUS_TRANSITIONS ==
    [pending    |-> {"processing", "failed"},
     processing |-> {"completed", "failed"},
     completed  |-> {},
     failed     |-> {}]

isValidTransition(from, to) ==
    /\ from \in Status
    /\ to \in SETTLEMENT_STATUS_TRANSITIONS[from]

\* The check of the Prisma extension: it passes silently when the status does
\* not change, so completed -> completed and failed -> failed are accepted.
validateTransition(current, next) ==
    current = next \/ isValidTransition(current, next)
=============================================================================
