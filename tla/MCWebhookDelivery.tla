------------------------- MODULE MCWebhookDelivery --------------------------
(* Small instances of WebhookDelivery.                                     *)
EXTENDS WebhookDelivery, TLC

CONSTANTS j1, j2, j3, e1

\* Two jobs for the same event (enqueued twice), one without an event id.
MCEventOf   == (j1 :> e1) @@ (j2 :> e1) @@ (j3 :> NoEvent)

MCBudget(reject, late, redis, crash, expire, dlq) ==
    [reject |-> reject, late |-> late, redis |-> redis, crash |-> crash,
     expire |-> expire, dlq |-> dlq]
FaultBudget    == MCBudget(3, 1, 1, 1, 1, 1)
OneReject      == MCBudget(1, 0, 0, 0, 0, 0)
=============================================================================
