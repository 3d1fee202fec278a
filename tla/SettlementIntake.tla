-------------------------- MODULE SettlementIntake --------------------------
(***************************************************************************)
(* POST /api/settlements on the settlement engine: validation, the daily   *)
(* volume check, the Redis claim of the idempotency key, the insert guarded*)
(* by the unique index on idempotencyKey, and the enqueue.  Requests of one*)
(* merchant interleave at every await, with the gateway's hourly job that  *)
(* frees expired keys.  A request generates its settlement id itself, so   *)
(* the row it would insert is named by the request.                        *)
(***************************************************************************)
EXTENDS Naturals, FiniteSets, FiniteSetsExt

CONSTANTS
    Requests,    \* requests of one merchant, in any order and overlap
    Keys,        \* Idempotency-Key values the clients use
    NoKey,       \* the header is absent
    None,        \* null: no id, no row, no answer
    Amounts,     \* positive settlement amounts
    DailyLimit,  \* DAILY_SETTLEMENT_VOLUME_LIMIT
    ViaGateway,  \* the clients call the gateway, not the engine
    LastDay,     \* bound on the 24-hour periods that pass
    MaxFaults    \* bound on Redis errors and crashes, together

ASSUME IntakeAssumption ==
    /\ NoKey \notin Keys
    /\ None \notin Requests
    /\ None \notin [key : Keys \cup {NoKey}, client : Keys \cup {NoKey},
                    amount : Nat, day : Nat]
    /\ IsFiniteSet(Requests)
    /\ Amounts \subseteq Nat \ {0}
    /\ DailyLimit \in Nat
    /\ ViaGateway \in BOOLEAN
    /\ LastDay \in Nat
    /\ MaxFaults \in Nat

VARIABLES
    req,     \* request -> its local state
    claim,   \* Redis idempotency:<key> -> the settlement id stored there
    row,     \* settlement table: id -> row, None before the insert
    jobs,    \* id -> jobs added to the queue for it
    answer,  \* request -> the response's code, the settlement in it, the day
    today,   \* 24-hour periods since the start
    faults   \* faults so far

vars == <<req, claim, row, jobs, answer, today, faults>>

Stages == {"idle", "volume", "claim", "get", "find", "create", "conflict",
           "enqueue", "done"}

\* What of the client's key reaches the engine: the gateway's settlement client
\* sends the tracing headers and its own, and no other.
ForwardedKey(k) == IF ViaGateway THEN NoKey ELSE k

RowsOf(day) == {s \in Requests : row[s] # None /\ row[s].day = day}
Volume(day) == MapThenSumSet(LAMBDA s : row[s].amount, RowsOf(day))

Goto(r, pc) == req' = [req EXCEPT ![r].pc = pc]

\* The handler returns: the code and the settlement it answers with.
Answer(r, code, s) ==
    /\ answer' = [answer EXCEPT ![r] = [code |-> code, id |-> s, day |-> today]]
    /\ Goto(r, "done")

-----------------------------------------------------------------------------
Init ==
    /\ req = [r \in Requests |-> [pc |-> "idle", client |-> NoKey, key |-> NoKey,
                                  amount |-> 0, claimed |-> FALSE, target |-> None]]
    /\ claim = [k \in Keys |-> None]
    /\ row = [r \in Requests |-> None]
    /\ jobs = [r \in Requests |-> 0]
    /\ answer = [r \in Requests |-> None]
    /\ today = 0
    /\ faults = 0

\* A request arrives and passes the checks on its body and on its merchant.
Receive(r, k, a) ==
    /\ req[r].pc = "idle"
    /\ req' = [req EXCEPT ![r] = [@ EXCEPT !.pc = "volume", !.client = k,
                                           !.key = ForwardedKey(k), !.amount = a]]
    /\ UNCHANGED <<claim, row, jobs, answer, today, faults>>

\* 400, 403, 404 or 422: nothing was written, and no key is claimed yet.
Reject(r) ==
    /\ req[r].pc = "volume"
    /\ Answer(r, 422, None)
    /\ UNCHANGED <<claim, row, jobs, today, faults>>

\* SELECT SUM(totalAmount) of today's rows; the decision is taken on that sum,
\* the row is inserted several awaits later.
CheckVolume(r) ==
    /\ req[r].pc = "volume"
    /\ \/ /\ Volume(today) + req[r].amount > DailyLimit
          /\ Answer(r, 429, None)
       \/ /\ Volume(today) + req[r].amount <= DailyLimit
          /\ Goto(r, IF req[r].key = NoKey THEN "create" ELSE "claim")
          /\ UNCHANGED answer
    /\ UNCHANGED <<claim, row, jobs, today, faults>>

\* SET idempotency:<key> <settlementId> EX 86400 NX.
Claim(r) ==
    /\ req[r].pc = "claim"
    /\ \/ /\ claim[req[r].key] = None
          /\ claim' = [claim EXCEPT ![req[r].key] = r]
          /\ req' = [req EXCEPT ![r] = [@ EXCEPT !.pc = "create", !.claimed = TRUE]]
       \/ /\ claim[req[r].key] # None
          /\ Goto(r, "get")
          /\ UNCHANGED claim
    /\ UNCHANGED <<row, jobs, answer, today, faults>>

\* SET throws: claimed stays null, as if another request held the key.
ClaimError(r) ==
    /\ req[r].pc = "claim"
    /\ faults < MaxFaults
    /\ faults' = faults + 1
    /\ Goto(r, "get")
    /\ UNCHANGED <<claim, row, jobs, answer, today>>

\* GET idempotency:<key>.
GetClaim(r) ==
    /\ req[r].pc = "get"
    /\ IF claim[req[r].key] = None
         THEN Goto(r, "create")
         ELSE req' = [req EXCEPT ![r] = [@ EXCEPT !.pc = "find", !.target = claim[req[r].key]]]
    /\ UNCHANGED <<claim, row, jobs, answer, today, faults>>

\* GET throws: caught, taken for a missing key.
GetClaimError(r) ==
    /\ req[r].pc = "get"
    /\ faults < MaxFaults
    /\ faults' = faults + 1
    /\ Goto(r, "create")
    /\ UNCHANGED <<claim, row, jobs, answer, today>>

\* findUnique on the claimed id: 200 with the row, or on to the insert when the
\* claimer has not inserted it (yet).
FindClaimed(r) ==
    /\ req[r].pc = "find"
    /\ \/ /\ row[req[r].target] # None
          /\ Answer(r, 200, req[r].target)
       \/ /\ row[req[r].target] = None
          /\ Goto(r, "create")
          /\ UNCHANGED answer
    /\ UNCHANGED <<claim, row, jobs, today, faults>>

HoldersOf(k) == {s \in Requests : row[s] # None /\ row[s].key = k}

NewRow(r) == [key |-> req[r].key, client |-> req[r].client,
              amount |-> req[r].amount, day |-> today]

\* Mutant: the key is not written to the row, only kept in Redis.
CreateWithoutKey(r) ==
    /\ req[r].pc = "create"
    /\ row' = [row EXCEPT ![r] = [NewRow(r) EXCEPT !.key = NoKey]]
    /\ req' = [req EXCEPT ![r] = [@ EXCEPT !.pc = "enqueue", !.target = r]]
    /\ UNCHANGED <<claim, jobs, answer, today, faults>>

\* settlement.create: the unique index on idempotencyKey admits it or raises P2002.
Create(r) ==
    /\ req[r].pc = "create"
    /\ \/ /\ req[r].key = NoKey \/ HoldersOf(req[r].key) = {}
          /\ row' = [row EXCEPT ![r] = NewRow(r)]
          /\ req' = [req EXCEPT ![r] = [@ EXCEPT !.pc = "enqueue", !.target = r]]
       \/ /\ req[r].key # NoKey /\ HoldersOf(req[r].key) # {}
          /\ Goto(r, "conflict")
          /\ UNCHANGED row
    /\ UNCHANGED <<claim, jobs, answer, today, faults>>

\* P2002: findUnique by key returns the winner's row, and the handler goes on
\* with it; UniqueConstraintError (500) if its key was freed meanwhile.
ReadWinner(r) ==
    /\ req[r].pc = "conflict"
    /\ \/ \E s \in HoldersOf(req[r].key) :
            /\ req' = [req EXCEPT ![r] = [@ EXCEPT !.pc = "enqueue", !.target = s]]
            /\ UNCHANGED answer
       \/ /\ HoldersOf(req[r].key) = {}
          /\ Answer(r, 500, None)
    /\ UNCHANGED <<claim, row, jobs, today, faults>>

\* settlementQueue.add, then 201.
Enqueue(r) ==
    /\ req[r].pc = "enqueue"
    /\ jobs' = [jobs EXCEPT ![req[r].target] = @ + 1]
    /\ Answer(r, 201, req[r].target)
    /\ UNCHANGED <<claim, row, today, faults>>

\* The process dies or an await throws (database, queue): no answer but a 500.
Fail(r) ==
    /\ req[r].pc \notin {"idle", "done"}
    /\ faults < MaxFaults
    /\ faults' = faults + 1
    /\ Answer(r, 500, None)
    /\ UNCHANGED <<claim, row, jobs, today>>

-----------------------------------------------------------------------------
\* 24 hours pass, longer than any request lives: every Redis key made before
\* has expired, and so has every row's idempotencyKeyExpiresAt.
NextDay ==
    /\ today < LastDay
    /\ \A r \in Requests : req[r].pc \in {"idle", "done"}
    /\ today' = today + 1
    /\ claim' = [k \in Keys |-> None]
    /\ UNCHANGED <<req, row, jobs, answer, faults>>

\* Mutant: the job does not look at idempotencyKeyExpiresAt.
ReclaimUnexpiredKeys ==
    /\ \E s \in Requests : row[s] # None /\ row[s].key # NoKey
    /\ row' = [s \in Requests |->
                 IF row[s] # None THEN [row[s] EXCEPT !.key = NoKey] ELSE row[s]]
    /\ UNCHANGED <<req, claim, jobs, answer, today, faults>>

\* reclaimExpiredIdempotencyKeys: one updateMany nulls every expired key.
ReclaimExpiredKeys ==
    /\ \E s \in Requests : row[s] # None /\ row[s].key # NoKey /\ row[s].day < today
    /\ row' = [s \in Requests |->
                 IF row[s] # None /\ row[s].day < today
                   THEN [row[s] EXCEPT !.key = NoKey] ELSE row[s]]
    /\ UNCHANGED <<req, claim, jobs, answer, today, faults>>

\* Every request is answered and nothing is left to expire.
Finished ==
    /\ \A r \in Requests : req[r].pc = "done"
    /\ today = LastDay
    /\ UNCHANGED vars

Step(r) ==
    \/ \E k \in Keys \cup {NoKey}, a \in Amounts : Receive(r, k, a)
    \/ Reject(r) \/ CheckVolume(r)
    \/ Claim(r) \/ ClaimError(r) \/ GetClaim(r) \/ GetClaimError(r)
    \/ FindClaimed(r) \/ Create(r) \/ ReadWinner(r) \/ Enqueue(r) \/ Fail(r)

Next ==
    \/ \E r \in Requests : Step(r)
    \/ NextDay \/ ReclaimExpiredKeys \/ Finished

Spec == Init /\ [][Next]_vars

-----------------------------------------------------------------------------
Row == [key : Keys \cup {NoKey}, client : Keys \cup {NoKey}, amount : Amounts,
        day : 0 .. LastDay]

\* Types, with two facts on the local state: a request that is enqueueing has
\* a row to enqueue, and one that holds a claim sent a key.
TypeOK ==
    /\ req \in [Requests -> [pc : Stages, client : Keys \cup {NoKey},
                             key : Keys \cup {NoKey}, amount : Amounts \cup {0},
                             claimed : BOOLEAN, target : Requests \cup {None}]]
    /\ claim \in [Keys -> Requests \cup {None}]
    /\ row \in [Requests -> Row \cup {None}]
    /\ jobs \in [Requests -> 0 .. Cardinality(Requests)]
    /\ answer \in [Requests -> [code : {200, 201, 422, 429, 500},
                                id : Requests \cup {None}, day : 0 .. LastDay]
                               \cup {None}]
    /\ today \in 0 .. LastDay
    /\ faults \in 0 .. MaxFaults
    /\ \A r \in Requests :
         /\ req[r].pc = "enqueue" => row[req[r].target] # None
         /\ req[r].claimed => req[r].key # NoKey

\* Retries with one key create one settlement within the 24 hours, whatever
\* the order of the awaits of POST /api/settlements and even when Redis fails:
\* two rows that were asked for with the same client key are of different days.
OneSettlementPerKey ==
    \A s, t \in Requests :
      s # t /\ row[s] # None /\ row[t] # None
            /\ row[s].client = row[t].client /\ row[s].client # NoKey
      => row[s].day # row[t].day

Succeeded(r) == answer[r] # None /\ answer[r].code \in {200, 201}

Answered(r) == row[answer[r].id]

\* A request that POST /api/settlements answers with success is answered with a
\* settlement asked for with its own key, and all the successful answers to a
\* key that name settlements of one day name the same one, whichever way the
\* request took: claim, replay, lost insert or Redis failure.
RetriesSeeOneSettlement ==
    \A r, q \in Requests :
      Succeeded(r) /\ Succeeded(q)
        /\ req[r].client = req[q].client /\ req[r].client # NoKey
      => /\ Answered(r).client = req[r].client
         /\ Answered(r).day = Answered(q).day => answer[r].id = answer[q].id

=============================================================================
