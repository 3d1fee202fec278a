--------------------------- MODULE BulkSettlement ---------------------------
(***************************************************************************)
(* POST /api/settlements/bulk: the idempotency key is claimed in Redis with*)
(* the payload's hash, the items are validated one after the other against *)
(* the merchant's limits, the accepted ones are inserted in a transaction  *)
(* and enqueued, and the response is kept in Redis for replays.  Requests  *)
(* of one merchant interleave at every await, within the 24 hours for which*)
(* Redis keeps a key.  A batch is named by the request that creates it.    *)
(***************************************************************************)
EXTENDS Naturals, Sequences, FiniteSets, FiniteSetsExt, SequencesExt

CONSTANTS
    Requests,     \* bulk requests of one merchant
    Keys,         \* Idempotency-Key values
    NoKey,        \* the header is absent
    None,         \* null
    Payloads,     \* sequences of item amounts; a payload is its own hash
    AmountCap,    \* MAX_SETTLEMENT_AMOUNT, which the body's schema has as well
    MinAmount,    \* settings.minSettlementAmount, 0 if unset
    MaxAmount,    \* settings.maxSettlementAmount, None if unset
    DailyLimit,   \* settings.dailySettlementLimit, None if unset
    MaxItems,     \* 100
    MaxFaults,    \* bound on database and queue failures and crashes, together
    MaxRedisFaults \* bound on errors of the Redis commands of the handler

ASSUME BulkAssumption ==
    /\ NoKey \notin Keys
    /\ None \notin Requests \cup Payloads
    /\ IsFiniteSet(Requests)
    /\ Payloads \subseteq Seq(0 .. AmountCap)
    /\ {AmountCap, MinAmount, MaxItems, MaxFaults, MaxRedisFaults} \subseteq Nat
    /\ MaxAmount # None => MaxAmount \in Nat
    /\ DailyLimit # None => DailyLimit \in Nat

VARIABLES
    req,          \* request -> its local state
    hash,         \* Redis idempotency:bulk:<key> -> payload, None if unset
    result,       \* Redis idempotency:bulk_res:<key> -> batch, None if unset
    batch,        \* request -> the set of item indices it committed, None if none
    jobs,         \* requests whose batch was enqueued
    answer,       \* request -> the response
    faults,       \* database, queue and process failures so far
    redisFaults   \* Redis errors so far

vars == <<req, hash, result, batch, jobs, answer, faults, redisFaults>>

Stages == {"idle", "claim", "lost", "validate", "volume", "commit", "enqueue",
           "save", "done"}

Amount(r, i) == req[r].payload[i]

\* SELECT SUM(totalAmount) of the day's rows.
DailyTotal ==
    SumFunction([r \in {q \in Requests : batch[q] # None} |->
                   SumFunctionOnSet(req[r].payload, batch[r])])

-----------------------------------------------------------------------------
\* Mutant: the accepted items of the batch itself are not added up.
AcceptedIgnoringBatch(payload, dailyTotal, feeValid) ==
    {i \in DOMAIN payload : /\ feeValid
                            /\ 0 < payload[i] /\ MinAmount <= payload[i] /\ payload[i] <= MaxAmount
                            /\ dailyTotal + payload[i] <= DailyLimit}

\* The validation loop: each item in turn is accepted, or recorded as an error:
\* it is 0 (the schema lets no other amount through that is not positive), out
\* of the merchant's bounds, too much for the day, or computeSettlementAmounts
\* throws a SettlementAmountError for it: it is above the cap, or the merchant's
\* fee makes no valid snapshot, which is then so for every item.
Accepted(payload, dailyTotal, feeValid) ==
    LET loop[i \in 0 .. Len(payload)] ==
          IF i = 0 THEN [items |-> {}, total |-> 0]
          ELSE IF \/ payload[i] = 0
                  \/ payload[i] < MinAmount
                  \/ MaxAmount # None /\ payload[i] > MaxAmount
                  \/ /\ DailyLimit # None
                     /\ dailyTotal + loop[i - 1].total + payload[i] > DailyLimit
                  \/ payload[i] > AmountCap \/ ~ feeValid
            THEN loop[i - 1]
            ELSE [items |-> loop[i - 1].items \cup {i}, total |-> loop[i - 1].total + payload[i]]
    IN  loop[Len(payload)].items

Goto(r, pc) == req' = [req EXCEPT ![r].pc = pc]

Answer(r, kind, b) ==
    /\ answer' = [answer EXCEPT ![r] = [kind |-> kind, batch |-> b]]
    /\ Goto(r, "done")

\* One more failure outside Redis, or of Redis.
Fault == faults < MaxFaults /\ faults' = faults + 1 /\ UNCHANGED redisFaults
RedisFault == redisFaults < MaxRedisFaults /\ redisFaults' = redisFaults + 1 /\ UNCHANGED faults
NoFault == UNCHANGED <<faults, redisFaults>>

-----------------------------------------------------------------------------
Init ==
    /\ req = [r \in Requests |-> [pc |-> "idle", key |-> NoKey, payload |-> <<>>,
                                  accepted |-> {}, seen |-> 0, feeValid |-> TRUE]]
    /\ hash = [k \in Keys |-> None]
    /\ result = [k \in Keys |-> None]
    /\ batch = [r \in Requests |-> None]
    /\ jobs = {}
    /\ answer = [r \in Requests |-> None]
    /\ faults = 0
    /\ redisFaults = 0

\* A request whose body the schema accepts.
Receive(r, k, p) ==
    /\ req[r].pc = "idle"
    /\ req' = [req EXCEPT ![r] =
                 [@ EXCEPT !.pc = IF k = NoKey THEN "validate" ELSE "claim",
                           !.key = k, !.payload = p]]
    /\ NoFault
    /\ UNCHANGED <<hash, result, batch, jobs, answer>>

\* Mutant: the key is set without NX.
ClaimAlways(r) ==
    /\ req[r].pc = "claim"
    /\ hash' = [hash EXCEPT ![req[r].key] = req[r].payload]
    /\ Goto(r, "validate")
    /\ NoFault
    /\ UNCHANGED <<result, batch, jobs, answer>>

\* SET idempotency:bulk:<key> <payloadHash> EX 86400 NX.
Claim(r) ==
    /\ req[r].pc = "claim"
    /\ \/ /\ hash[req[r].key] = None
          /\ hash' = [hash EXCEPT ![req[r].key] = req[r].payload]
          /\ Goto(r, "validate")
       \/ /\ hash[req[r].key] # None
          /\ Goto(r, "lost")
          /\ UNCHANGED hash
    /\ NoFault
    /\ UNCHANGED <<result, batch, jobs, answer>>

\* Mutant: the stored hash is not compared.
LoseUnchecked(r) ==
    /\ req[r].pc = "lost"
    /\ \/ /\ result[req[r].key] # None
          /\ Answer(r, "replay", result[req[r].key])
       \/ /\ result[req[r].key] = None
          /\ Answer(r, "processing", None)
    /\ NoFault
    /\ UNCHANGED <<hash, result, batch, jobs>>

\* Someone else holds the key: 409 for another payload, 200 with the stored
\* response, 409 "currently processing" as long as there is none.
Lose(r) ==
    /\ req[r].pc = "lost"
    /\ \/ /\ hash[req[r].key] # req[r].payload
          /\ Answer(r, "mismatch", None)
       \/ /\ hash[req[r].key] = req[r].payload
          /\ result[req[r].key] # None
          /\ Answer(r, "replay", result[req[r].key])
       \/ /\ hash[req[r].key] = req[r].payload
          /\ result[req[r].key] = None
          /\ Answer(r, "processing", None)
    /\ NoFault
    /\ UNCHANGED <<hash, result, batch, jobs>>

\* A Redis error of either step is logged and the batch is processed all the same.
ProceedUnclaimed(r) ==
    /\ req[r].pc \in {"claim", "lost"}
    /\ RedisFault
    /\ Goto(r, "validate")
    /\ UNCHANGED <<hash, result, batch, jobs, answer>>

\* 400 for an empty or oversized batch; 404, 422 or 403 for its merchant.
Reject(r) ==
    /\ req[r].pc = "validate"
    /\ Answer(r, "rejected", None)
    /\ NoFault
    /\ UNCHANGED <<hash, result, batch, jobs>>

\* The size and the merchant are fine, and the monthly volume is known.
Validate(r) ==
    /\ req[r].pc = "validate"
    /\ Len(req[r].payload) \in 1 .. MaxItems
    /\ Goto(r, "volume")
    /\ NoFault
    /\ UNCHANGED <<hash, result, batch, jobs, answer>>

\* The day's total is read and the items are validated against it.  Whether the
\* fee makes a valid snapshot is up to the configuration and the monthly volume:
\* a tier whose discount is no integer makes an invalid one.
ValidateItems(r) ==
    /\ req[r].pc = "volume"
    /\ \E feeValid \in BOOLEAN :
         LET accepted == Accepted(req[r].payload, DailyTotal, feeValid)
         IN  req' = [req EXCEPT ![r] =
                       [@ EXCEPT !.pc = IF accepted = {} THEN "save" ELSE "commit",
                                 !.accepted = accepted, !.seen = DailyTotal,
                                 !.feeValid = feeValid]]
    /\ NoFault
    /\ UNCHANGED <<hash, result, batch, jobs, answer>>

\* prisma.$transaction: every accepted item is inserted, or none.
Commit(r) ==
    /\ req[r].pc = "commit"
    /\ batch' = [batch EXCEPT ![r] = req[r].accepted]
    /\ Goto(r, "enqueue")
    /\ NoFault
    /\ UNCHANGED <<hash, result, jobs, answer>>

\* settlementQueue.addBulk.
Enqueue(r) ==
    /\ req[r].pc = "enqueue"
    /\ jobs' = jobs \cup {r}
    /\ Goto(r, "save")
    /\ NoFault
    /\ UNCHANGED <<hash, result, batch, answer>>

\* addBulk fails: logged, and the request still returns.
EnqueueError(r) ==
    /\ req[r].pc = "enqueue"
    /\ Fault
    /\ Goto(r, "save")
    /\ UNCHANGED <<hash, result, batch, jobs, answer>>

\* The response is stored for replays, then 201.
Save(r) ==
    /\ req[r].pc = "save"
    /\ result' = IF req[r].key = NoKey THEN result
                   ELSE [result EXCEPT ![req[r].key] = r]
    /\ Answer(r, "created", r)
    /\ NoFault
    /\ UNCHANGED <<hash, batch, jobs>>

\* The SET of the response fails: logged, 201 all the same.
SaveError(r) ==
    /\ req[r].pc = "save"
    /\ req[r].key # NoKey
    /\ RedisFault
    /\ Answer(r, "created", r)
    /\ UNCHANGED <<hash, result, batch, jobs>>

\* The transaction or a query throws, or the process dies: a 500 or no answer.
Fail(r) ==
    /\ req[r].pc \notin {"idle", "done"}
    /\ Fault
    /\ Answer(r, "error", None)
    /\ UNCHANGED <<hash, result, batch, jobs>>

Finished == (\A r \in Requests : req[r].pc = "done") /\ UNCHANGED vars

Next ==
    \/ \E r \in Requests :
         \/ \E k \in Keys \cup {NoKey}, p \in Payloads : Receive(r, k, p)
         \/ Claim(r) \/ Lose(r) \/ ProceedUnclaimed(r)
         \/ Reject(r) \/ Validate(r) \/ ValidateItems(r) \/ Commit(r)
         \/ Enqueue(r) \/ EnqueueError(r) \/ Save(r) \/ SaveError(r) \/ Fail(r)
    \/ Finished

Spec == Init /\ [][Next]_vars

-----------------------------------------------------------------------------
\* Types; and a batch is enqueued only once its rows are committed, all of them.
TypeOK ==
    /\ req \in [Requests -> [pc : Stages, key : Keys \cup {NoKey},
                             payload : Payloads \cup {<<>>},
                             accepted : SUBSET (1 .. MaxItems), seen : Nat,
                             feeValid : BOOLEAN]]
    /\ hash \in [Keys -> Payloads \cup {None}]
    /\ result \in [Keys -> Requests \cup {None}]
    /\ \A r \in Requests : batch[r] # None => batch[r] = req[r].accepted
    /\ jobs \subseteq {r \in Requests : batch[r] # None}
    /\ faults \in 0 .. MaxFaults
    /\ redisFaults \in 0 .. MaxRedisFaults

RedisAnswered == redisFaults = 0

\* Within the life of a key, and with Redis answering, the requests that carry
\* it commit at most one batch, whatever fails after the claim.
OneBatchPerKey ==
    RedisAnswered => \A r, q \in Requests :
      /\ batch[r] # None /\ batch[q] # None
      /\ req[r].key = req[q].key /\ req[r].key # NoKey
      => r = q

\* Again with Redis answering, a replay is answered with the outcome of the same
\* payload, never with that of another one sent under the same key.
ReplayIsSamePayload ==
    \A r \in Requests :
      RedisAnswered /\ answer[r] # None /\ answer[r].kind = "replay"
      => /\ req[answer[r].batch].payload = req[r].payload
         /\ req[answer[r].batch].pc = "done"

\* Unless the fee is no valid one, the loop accepts exactly the items that are
\* positive and within the merchant's bounds and that, with the daily total it
\* read and the items accepted before, stay within the daily limit: no item is
\* skipped for a later one, and the cap of computeSettlementAmounts refuses none.
AcceptsGreedily ==
    \A r \in Requests : req[r].pc \in {"commit", "enqueue", "save"} =>
      \A i \in DOMAIN req[r].payload :
        i \in req[r].accepted <=>
          /\ req[r].feeValid
          /\ Amount(r, i) > 0 /\ Amount(r, i) >= MinAmount
          /\ MaxAmount # None => Amount(r, i) <= MaxAmount
          /\ DailyLimit # None =>
               req[r].seen + SumFunctionOnSet(req[r].payload, {j \in req[r].accepted : j < i})
                 + Amount(r, i) <= DailyLimit

=============================================================================
