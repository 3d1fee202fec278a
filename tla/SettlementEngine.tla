-------------------------- MODULE SettlementEngine --------------------------
(***************************************************************************)
(* The settlement engine's processing path: the Settlement rows, the       *)
(* BullMQ queue 'settlements', the processor runs of the worker, the       *)
(* batching job and the stuck-settlement reapers, all of which write the   *)
(* status of the same rows.                                                *)
(*                                                                         *)
(* One step is one await: a database statement, a Redis command or a queue *)
(* operation.  The Prisma extension reads the current status, validates    *)
(* the transition and only then sends the UPDATE, so a status write is two *)
(* steps, and other writers interleave between them.                       *)
(***************************************************************************)
EXTENDS SettlementStatus, Naturals, FiniteSets, FiniteSetsExt

CONSTANTS
    Settlements,     \* ids of rows; rows are created in the order of their ids
    Merchants,
    NoMerchant,      \* job.data.merchantId of the jobs the reaper adds
    merchantOf,      \* row id -> merchant
    assetOf,         \* row id -> asset
    gross,           \* row id -> gross amount
    HasWebhook,      \* the rows with a webhookUrl
    Jobs,            \* slots for live BullMQ jobs
    MaxAttempts,     \* attempts of a job (3 in the code)
    MaxConcurrent,   \* MERCHANT_MAX_CONCURRENCY
    MinCount,        \* BATCH_MIN_COUNT
    VolumeThreshold, \* BATCH_VOLUME_THRESHOLD, 0 disables it
    MaxBatchSize,    \* BATCH_MAX_SIZE, 0 is unlimited
    Reapers,         \* one per call of startSettlementReaper (two in the code)
    Budget           \* kind of fault or background job -> how many may happen,
                     \* and how many of all kinds together ("total")

Kinds == {"dbError", "redisError", "timeout", "crash", "batch", "reap", "total"}

ASSUME EngineAssumption ==
    /\ Settlements \subseteq Nat \ {0}
    /\ IsFiniteSet(Settlements)
    /\ Jobs \subseteq Nat
    /\ IsFiniteSet(Jobs)
    /\ NoMerchant \notin Merchants
    /\ merchantOf \in [Settlements -> Merchants]
    /\ gross \in [Settlements -> Nat]
    /\ HasWebhook \subseteq Settlements
    /\ MaxAttempts \in Nat \ {0}
    /\ MaxConcurrent \in Nat \ {0}
    /\ {MinCount, VolumeThreshold, MaxBatchSize} \subseteq Nat
    /\ Budget \in [Kinds -> Nat]

VARIABLES
    \* PostgreSQL
    status,     \* row id -> row state
    old,        \* rows whose initiatedAt is more than STUCK_AFTER_MS ago
    counted,    \* row id -> number of SettlementBatch rows that include it
    \* Redis: BullMQ and the semaphore
    job,        \* job slot -> [sid, key, state, made, stalled]
    dlq,        \* jobs added to 'settlements-dlq': [sid, made]
    hooks,      \* jobs added to 'settlement-webhooks': [sid, event]
    held,       \* runs holding a semaphore slot
    leaked,     \* semaphore key -> slots nobody renews, until their TTL ends
    \* the engine process
    creating,   \* rows inserted by a POST handler that has yet to enqueue them
    pc,         \* run -> where its processor is
    batch,      \* the batching job: [pc, ids, group]
    reaper,     \* reaper -> [todo, add]
    \* history
    overlapped, \* rows that two actors have been at work on at a time
    \* bound
    budget      \* what is left of Budget

dbVars      == <<status, old, counted>>
queueVars   == <<job, dlq, hooks>>
semVars     == <<held, leaked>>
processVars == <<creating, batch, reaper>>
engineVars  == <<dbVars, queueVars, semVars, processVars, pc, budget>>
vars == <<engineVars, overlapped>>

Attempts == 1 .. MaxAttempts
Runs     == Jobs \X Attempts   \* a run is one attempt at one job
Keys     == Merchants \cup {NoMerchant}
NoRow    == 0

\* Where a processor run can be.  CriticalPCs are the steps between acquire and
\* release.  A run that has returned ("done") or thrown ("threw") is over when
\* the worker has told Redis; before it starts and after that it is idle.
CriticalPCs == {"readP", "writeP", "readC", "writeC", "hookC",
                "readF", "writeF", "hookF", "release", "releaseErr"}
PCs == {"idle", "acquire", "done", "threw"} \cup CriticalPCs

JobStates == {"free", "waiting", "active", "failed"}

-----------------------------------------------------------------------------
(* Helpers                                                                 *)

jobOf(r)     == job[r[1]]
attemptOf(r) == r[2]
sidOf(r)     == jobOf(r).sid
keyOf(r)     == jobOf(r).key

\* The worker still waits for this run: the watchdog has not fired for it.
Current(r) == jobOf(r).state = "active" /\ jobOf(r).made + 1 = attemptOf(r)

\* One more fault, or background run, of this kind.
Spend(kind) ==
    /\ budget[kind] > 0 /\ budget["total"] > 0
    /\ budget' = [k \in Kinds |-> IF k \in {kind, "total"} THEN budget[k] - 1
                                 ELSE budget[k]]
Unspent(kinds) == \A kind \in kinds : budget[kind] = Budget[kind]

Go(r, from, to) ==
    /\ pc[r] = from
    /\ pc' = [pc EXCEPT ![r] = to]

FreeJob(j) ==
    /\ job[j].state = "free"
    /\ \A a \in Attempts : pc[<<j, a>>] = "idle"

\* settlementQueue.add: the job starts with no attempts made.
NewJob(s, key) == [sid |-> s, key |-> key, state |-> "waiting", made |-> 0,
                   stalled |-> FALSE]
AddJob(j, s, key) ==
    /\ FreeJob(j)
    /\ \A k \in Jobs : k < j => ~FreeJob(k)
    /\ job' = [job EXCEPT ![j] = NewJob(s, key)]

\* An attempt at job j fails: BullMQ schedules the next attempt or gives up,
\* and in both cases emits 'failed', whose listener adds the job to the DLQ.
AttemptFails(j) ==
    LET n == job[j].made + 1 IN
    /\ job' = [job EXCEPT ![j] =
                 [@ EXCEPT !.made = n,
                           !.state = IF n < MaxAttempts THEN "waiting" ELSE "failed"]]
    /\ dlq' = dlq \cup {[sid |-> job[j].sid, made |-> n]}

-----------------------------------------------------------------------------
(* POST /api/settlements: the row is inserted, then the job is added.      *)

CreateRow(s) ==
    /\ status[s] = Absent
    /\ \A t \in Settlements : t < s => status[t] # Absent
    /\ status' = [status EXCEPT ![s] = "pending"]
    /\ creating' = creating \cup {s}
    /\ UNCHANGED <<old, counted, queueVars, semVars, batch, reaper, pc, budget>>

EnqueueRow(s) ==
    /\ s \in creating
    /\ \E j \in Jobs : AddJob(j, s, merchantOf[s])
    /\ creating' = creating \ {s}
    /\ UNCHANGED <<dbVars, dlq, hooks, semVars, batch, reaper, pc, budget>>

\* The queue is unreachable: the row stays behind without a job (the single
\* route answers 500, the bulk route logs the error and answers 201).
EnqueueFails(s) ==
    /\ s \in creating
    /\ Spend("redisError")
    /\ creating' = creating \ {s}
    /\ UNCHANGED <<dbVars, queueVars, semVars, batch, reaper, pc>>

-----------------------------------------------------------------------------
(* The worker: baseSettlementProcessor, raced by withJobTimeout.           *)

StartAttempt(j) ==
    /\ job[j].state = "waiting"
    /\ job' = [job EXCEPT ![j].state = "active"]
    /\ Go(<<j, job[j].made + 1>>, "idle", "acquire")
    /\ UNCHANGED <<dbVars, dlq, hooks, semVars, processVars, budget>>

\* Slots the semaphore of this key counts.
slotsOf(key) == Cardinality({r \in held : keyOf(r) = key}) + leaked[key]

\* Mutant: the limit check lets one too many in.
AcquireOneTooMany(r) ==
    /\ slotsOf(keyOf(r)) <= MaxConcurrent
    /\ Go(r, "acquire", "readP")
    /\ held' = held \cup {r}
    /\ UNCHANGED <<dbVars, queueVars, leaked, processVars, budget>>

Acquire(r) ==
    /\ slotsOf(keyOf(r)) < MaxConcurrent
    /\ Go(r, "acquire", "readP")
    /\ held' = held \cup {r}
    /\ UNCHANGED <<dbVars, queueVars, leaked, processVars, budget>>

\* settlementQueue.add of the copy.
AddCopy(r) == \E k \in Jobs : AddJob(k, sidOf(r), keyOf(r))

\* Mutant: the run returns without adding the new job.
RequeueDropsJob(r) ==
    /\ slotsOf(keyOf(r)) >= MaxConcurrent
    /\ Go(r, "acquire", "done")
    /\ UNCHANGED <<dbVars, queueVars, semVars, processVars, budget>>

\* Mutant: the run throws after adding the new job, so the old one is retried.
RequeueThenThrow(r) ==
    /\ slotsOf(keyOf(r)) >= MaxConcurrent
    /\ Go(r, "acquire", "threw")
    /\ AddCopy(r)
    /\ UNCHANGED <<dbVars, dlq, hooks, semVars, processVars, budget>>

\* At the limit: the first round of the loop adds a fresh delayed job with the
\* same data and returns.  Until the worker has completed the old job, both are
\* in the queue.
Requeue(r) ==
    /\ slotsOf(keyOf(r)) >= MaxConcurrent
    /\ Go(r, "acquire", "done")
    /\ AddCopy(r)
    /\ UNCHANGED <<dbVars, dlq, hooks, semVars, processVars, budget>>

\* Redis fails before the try block: the run throws and releases nothing.  The
\* script or the add may have been executed and only its reply lost.
AcquireFails(r) ==
    /\ Go(r, "acquire", "threw")
    /\ Spend("redisError")
    /\ \/ UNCHANGED <<job, leaked>>
       \/ /\ slotsOf(keyOf(r)) < MaxConcurrent
          /\ leaked' = [leaked EXCEPT ![keyOf(r)] = @ + 1]
          /\ UNCHANGED job
       \/ /\ slotsOf(keyOf(r)) >= MaxConcurrent
          /\ AddCopy(r)
          /\ UNCHANGED leaked
    /\ UNCHANGED <<dbVars, dlq, hooks, held, processVars>>

\* The extension's read before update({status: next}): go on to the write if
\* the transition is valid, otherwise throw.
ReadAndValidate(r, from, next, ok, thrown) ==
    /\ Go(r, from, IF validateTransition(status[sidOf(r)], next) THEN ok ELSE thrown)
    /\ UNCHANGED <<dbVars, queueVars, semVars, processVars, budget>>

\* The UPDATE itself, by id alone.
Write(r, from, next, to) ==
    /\ Go(r, from, to)
    /\ status' = [status EXCEPT ![sidOf(r)] = next]
    /\ UNCHANGED <<old, counted, queueVars, semVars, processVars, budget>>

AddHook(r, from, event, to) ==
    /\ Go(r, from, to)
    /\ hooks' = hooks \cup {[sid |-> sidOf(r), event |-> event]}
    /\ UNCHANGED <<dbVars, job, dlq, semVars, processVars, budget>>

\* Mutants: a status write that does not validate the transition.
ReadProcessingUnchecked(r) ==
    ReadAndValidate(r, "readP", "processing", "writeP", "writeP")
ReadFailedUnchecked(r) ==
    ReadAndValidate(r, "readF", "failed", "writeF", "writeF")

ReadProcessing(r)  == ReadAndValidate(r, "readP", "processing", "writeP", "readF")
WriteProcessing(r) == Write(r, "writeP", "processing", "readC")
ReadCompleted(r)   == ReadAndValidate(r, "readC", "completed", "writeC", "readF")
WriteCompleted(r)  ==
    Write(r, "writeC", "completed",
          IF sidOf(r) \in HasWebhook THEN "hookC" ELSE "release")
HookCompleted(r)   == AddHook(r, "hookC", "completed", "release")

\* The catch block: mark the row failed if the machine allows it.
ReadFailed(r)  == ReadAndValidate(r, "readF", "failed", "writeF", "releaseErr")
WriteFailed(r) ==
    Write(r, "writeF", "failed",
          IF sidOf(r) \in HasWebhook THEN "hookF" ELSE "releaseErr")
HookFailed(r)  == AddHook(r, "hookF", "failed", "releaseErr")

\* A database statement of the run throws: inside the try block that leads to
\* the catch block, inside the catch block it is swallowed.  An UPDATE may
\* have been committed before its reply was lost.
written == [writeP |-> "processing", writeC |-> "completed", writeF |-> "failed"]
DbError(r) ==
    /\ Spend("dbError")
    /\ \/ \E from \in {"readP", "writeP", "readC", "writeC"} : Go(r, from, "readF")
       \/ \E from \in {"readF", "writeF"} : Go(r, from, "releaseErr")
    /\ \/ UNCHANGED status
       \/ /\ pc[r] \in DOMAIN written
          /\ status' = [status EXCEPT ![sidOf(r)] = written[pc[r]]]
    /\ UNCHANGED <<old, counted, queueVars, semVars, processVars>>

\* The webhook queue throws, perhaps after it has taken the job: the completed
\* hook leads to the catch block, the failed hook is best effort.
HookError(r) ==
    /\ Spend("redisError")
    /\ \E from \in {"hookC", "hookF"} :
         /\ Go(r, from, IF from = "hookC" THEN "readF" ELSE "releaseErr")
         /\ \/ UNCHANGED hooks
            \/ hooks' = hooks \cup {[sid |-> sidOf(r), event |->
                                     IF from = "hookC" THEN "completed" ELSE "failed"]}
    /\ UNCHANGED <<dbVars, job, dlq, semVars, processVars>>

\* The finally block.
Leave(r) ==
    /\ Go(r, "release", "done") \/ Go(r, "releaseErr", "threw")
    /\ held' = held \ {r}
    /\ UNCHANGED <<dbVars, queueVars, processVars>>

Release(r)      == Leave(r) /\ UNCHANGED <<leaked, budget>>
\* releaseSemaphore throws and is ignored: the slot stays until its TTL ends.
ReleaseFails(r) ==
    /\ Leave(r)
    /\ Spend("redisError")
    /\ leaked' = [leaked EXCEPT ![keyOf(r)] = @ + 1]

\* The worker tells Redis how the run of its job ended (moveToCompleted and
\* moveToFailed).  A run that the watchdog has given up on has no job to end.
Settle(r) ==
    /\ \/ /\ Go(r, "done", "idle")
          /\ job' = [job EXCEPT ![r[1]].state = IF Current(r) THEN "free" ELSE @]
          /\ UNCHANGED dlq
       \/ /\ Go(r, "threw", "idle")
          /\ IF Current(r) THEN AttemptFails(r[1]) ELSE UNCHANGED <<job, dlq>>
    /\ UNCHANGED <<dbVars, hooks, semVars, processVars, budget>>

\* Redis fails there: the job stays active until the stalled check finds it.
SettleFails(r) ==
    /\ Go(r, "done", "idle") \/ Go(r, "threw", "idle")
    /\ Spend("redisError")
    /\ UNCHANGED <<dbVars, queueVars, semVars, processVars>>

\* Mutant: the watchdog gives back the slot of a run that goes on.
JobTimeoutFreesSlot(r) ==
    /\ pc[r] \notin {"idle", "done", "threw"}
    /\ Current(r)
    /\ Spend("timeout")
    /\ AttemptFails(r[1])
    /\ held' = held \ {r}
    /\ UNCHANGED <<dbVars, hooks, leaked, processVars, pc>>

\* SETTLEMENT_JOB_TIMEOUT_MS passes: the attempt fails, but nothing stops the
\* processor, which runs on beside the next attempt.
JobTimeout(r) ==
    /\ pc[r] \notin {"idle", "done", "threw"}
    /\ Current(r)
    /\ Spend("timeout")
    /\ AttemptFails(r[1])
    /\ UNCHANGED <<dbVars, hooks, semVars, processVars, pc>>

\* Mutant: a slot has no TTL.
SlotNeverExpires(key) == leaked[key] < 0 /\ UNCHANGED vars

SlotExpires(key) ==
    /\ leaked[key] > 0
    /\ leaked' = [leaked EXCEPT ![key] = @ - 1]
    /\ UNCHANGED <<dbVars, queueVars, held, processVars, pc, budget>>

-----------------------------------------------------------------------------
(* The batching job: runSettlementBatching, concurrency 1.                 *)

IdleBatch == [pc |-> "idle", ids |-> {}, group |-> {}]

Pending == {s \in Settlements : status[s] = "pending"}
\* The oldest n rows of S (all of them if n is 0).
oldestOf(S, n) ==
    {s \in S : n = 0 \/ Cardinality({t \in S : t < s}) < n}

meetsThreshold(S) ==
    \/ Cardinality(S) >= MinCount
    \/ VolumeThreshold > 0 /\ MapThenSumSet(LAMBDA s : gross[s], S) >= VolumeThreshold

BatchRead ==
    /\ batch.pc = "idle"
    /\ Pending # {}
    /\ Spend("batch")
    /\ batch' = [pc |-> "group", ids |-> oldestOf(Pending, MaxBatchSize), group |-> {}]
    /\ UNCHANGED <<dbVars, queueVars, semVars, creating, reaper, pc>>

\* The next asset's group: insert its SettlementBatch row, or skip it.
BatchGroup ==
    /\ batch.pc = "group"
    /\ batch.ids # {}
    /\ LET first == CHOOSE s \in batch.ids : \A t \in batch.ids : s <= t
           g     == {s \in batch.ids : assetOf[s] = assetOf[first]}
       IN  IF meetsThreshold(g)
             THEN /\ counted' = [s \in Settlements |->
                                   IF s \in g THEN counted[s] + 1 ELSE counted[s]]
                  /\ batch' = [pc |-> "validate", ids |-> batch.ids \ g, group |-> g]
             ELSE /\ batch' = [batch EXCEPT !.ids = @ \ g]
                  /\ UNCHANGED counted
    /\ UNCHANGED <<status, old, queueVars, semVars, creating, reaper, pc, budget>>

\* The extension's findMany before updateMany: one invalid row rejects all.
BatchValidate ==
    /\ batch.pc = "validate"
    /\ batch' = IF \A s \in batch.group : validateTransition(status[s], "processing")
                  THEN [batch EXCEPT !.pc = "write"]
                  ELSE IdleBatch
    /\ UNCHANGED <<dbVars, queueVars, semVars, creating, reaper, pc, budget>>

\* UPDATE ... WHERE id IN (group): no condition on the status.
BatchWrite ==
    /\ batch.pc = "write"
    /\ status' = [s \in Settlements |-> IF s \in batch.group THEN "processing"
                                        ELSE status[s]]
    /\ batch' = [batch EXCEPT !.pc = "group", !.group = {}]
    /\ UNCHANGED <<old, counted, queueVars, semVars, creating, reaper, pc, budget>>

BatchDone ==
    /\ batch.pc = "group"
    /\ batch.ids = {}
    /\ batch' = IdleBatch
    /\ UNCHANGED <<dbVars, queueVars, semVars, creating, reaper, pc, budget>>

\* A statement of the job throws: the job fails and is retried from the start.
BatchError ==
    /\ batch.pc # "idle"
    /\ Spend("dbError")
    /\ batch' = IdleBatch
    /\ UNCHANGED <<dbVars, queueVars, semVars, creating, reaper, pc>>

-----------------------------------------------------------------------------
(* The reaper: reapStuckSettlements every five minutes, one run at a time  *)
(* for each call of startSettlementReaper.                                 *)

IdleReaper == [todo |-> {}, add |-> NoRow]

\* STUCK_AFTER_MS passes since the row was initiated, whatever its status.
Age(s) ==
    /\ status[s] # Absent
    /\ s \notin old
    /\ budget["reap"] > 0
    /\ old' = old \cup {s}
    /\ UNCHANGED <<status, counted, queueVars, semVars, processVars, pc, budget>>

Stuck == {s \in old : status[s] = "processing"}

ReapScan(w) ==
    /\ reaper[w] = IdleReaper
    /\ Stuck # {}
    /\ Spend("reap")
    /\ reaper' = [reaper EXCEPT ![w].todo = Stuck]
    /\ UNCHANGED <<dbVars, queueVars, semVars, creating, batch, pc>>

\* Claim one row with a conditional UPDATE; a row that is no longer stuck is
\* skipped.
ReapClaim(w, s) ==
    /\ s \in reaper[w].todo
    /\ reaper[w].add = NoRow
    /\ IF s \in Stuck
         THEN /\ status' = [status EXCEPT ![s] = "failed"]
              /\ reaper' = [reaper EXCEPT ![w] = [todo |-> @.todo \ {s}, add |-> s]]
         ELSE /\ reaper' = [reaper EXCEPT ![w].todo = @ \ {s}]
              /\ UNCHANGED status
    /\ UNCHANGED <<old, counted, queueVars, semVars, creating, batch, pc, budget>>

\* queue.add('process-settlement', {id}): the job carries no merchantId.
ReapAdd(w) ==
    /\ reaper[w].add # NoRow
    /\ \E j \in Jobs : AddJob(j, reaper[w].add, NoMerchant)
    /\ reaper' = [reaper EXCEPT ![w].add = NoRow]
    /\ UNCHANGED <<dbVars, dlq, hooks, semVars, creating, batch, pc, budget>>

\* A statement or the queue throws: the rest of this pass is given up.
ReapError(w) ==
    /\ reaper[w] # IdleReaper
    /\ IF reaper[w].add = NoRow THEN Spend("dbError") ELSE Spend("redisError")
    /\ reaper' = [reaper EXCEPT ![w] = IdleReaper]
    /\ UNCHANGED <<dbVars, queueVars, semVars, creating, batch, pc>>

-----------------------------------------------------------------------------
(* The engine process dies and is restarted; PostgreSQL and Redis survive. *)

Crash ==
    /\ Spend("crash")
    /\ pc' = [r \in Runs |-> "idle"]
    /\ leaked' = [k \in Keys |-> slotsOf(k)]
    /\ held' = {}
    /\ creating' = {}
    /\ batch' = IdleBatch
    /\ reaper' = [w \in Reapers |-> IdleReaper]
    /\ UNCHANGED <<dbVars, queueVars>>

\* BullMQ's stalled check: an active job nobody works on is run again, once;
\* the second time it is failed.
Stalled(j) ==
    /\ job[j].state = "active"
    /\ pc[<<j, job[j].made + 1>>] = "idle"
    /\ IF job[j].stalled
         THEN /\ job' = [job EXCEPT ![j].state = "failed"]
              /\ dlq' = dlq \cup {[sid |-> job[j].sid, made |-> job[j].made]}
         ELSE /\ job' = [job EXCEPT ![j] = [@ EXCEPT !.state = "waiting", !.stalled = TRUE]]
              /\ UNCHANGED dlq
    /\ UNCHANGED <<dbVars, hooks, semVars, processVars, pc, budget>>

-----------------------------------------------------------------------------
Init ==
    /\ status = [s \in Settlements |-> Absent]
    /\ old = {}
    /\ counted = [s \in Settlements |-> 0]
    /\ job = [j \in Jobs |-> [sid |-> NoRow, key |-> NoMerchant, state |-> "free",
                              made |-> 0, stalled |-> FALSE]]
    /\ dlq = {}
    /\ hooks = {}
    /\ held = {}
    /\ leaked = [k \in Keys |-> 0]
    /\ creating = {}
    /\ pc = [r \in Runs |-> "idle"]
    /\ batch = IdleBatch
    /\ reaper = [w \in Reapers |-> IdleReaper]
    /\ budget = Budget
    /\ overlapped = {}

RunStep(r) ==
    \/ Acquire(r) \/ Requeue(r)
    \/ ReadProcessing(r) \/ WriteProcessing(r)
    \/ ReadCompleted(r) \/ WriteCompleted(r) \/ HookCompleted(r)
    \/ ReadFailed(r) \/ WriteFailed(r) \/ HookFailed(r)
    \/ Release(r) \/ Settle(r)

RunFault(r) ==
    \/ AcquireFails(r) \/ DbError(r) \/ HookError(r) \/ ReleaseFails(r)
    \/ SettleFails(r) \/ JobTimeout(r)

BatchStep == BatchRead \/ BatchGroup \/ BatchValidate \/ BatchWrite \/ BatchDone

ReaperStep(w) ==
    ReapScan(w) \/ (\E s \in Settlements : ReapClaim(w, s)) \/ ReapAdd(w)

Step ==
    \/ \E s \in Settlements : CreateRow(s)
    \/ \E s \in Settlements : EnqueueRow(s)
    \/ \E s \in Settlements : EnqueueFails(s)
    \/ \E j \in Jobs : StartAttempt(j)
    \/ \E r \in Runs : RunStep(r)
    \/ \E r \in Runs : RunFault(r)
    \/ \E k \in Keys : SlotExpires(k)
    \/ BatchStep
    \/ BatchError
    \/ \E s \in Settlements : Age(s)
    \/ \E w \in Reapers : ReaperStep(w)
    \/ \E w \in Reapers : ReapError(w)
    \/ Crash
    \/ \E j \in Jobs : Stalled(j)

\* Who is at work on a row: processor runs between acquire and release, the
\* batching job between its check and its UPDATE, and a reaper that has claimed
\* the row.
Critical    == {r \in Runs : pc[r] \in CriticalPCs}
workers(s)  == {r \in Critical : sidOf(r) = s}
batching(s) == batch.pc = "write" /\ s \in batch.group
reaping(s)  == \E w \in Reapers : reaper[w].add = s
Shared ==
    {s \in Settlements :
        \/ \E q, r \in workers(s) : q # r
        \/ workers(s) # {} /\ (batching(s) \/ reaping(s))
        \/ batching(s) /\ reaping(s)}

Next == Step /\ overlapped' = overlapped \cup Shared'

Spec == Init /\ [][Next]_vars

\* What the platform keeps doing: the event loop resumes every await, BullMQ
\* hands out waiting jobs and reclaims stalled ones, and Redis drops expired
\* slots.  Faults, requests and the scheduled jobs are not forced.
Fairness ==
    /\ \A s \in Settlements : WF_engineVars(EnqueueRow(s))
    /\ \A j \in Jobs : WF_engineVars(StartAttempt(j)) /\ WF_engineVars(Stalled(j))
    /\ \A r \in Runs : WF_engineVars(RunStep(r))
    /\ \A k \in Keys : WF_engineVars(SlotExpires(k))
    /\ \A w \in Reapers : WF_engineVars(ReaperStep(w))

FairSpec == Spec /\ Fairness

-----------------------------------------------------------------------------
(* Properties                                                              *)

Job == [sid : Settlements \cup {NoRow}, key : Keys, state : JobStates,
        made : 0 .. MaxAttempts, stalled : BOOLEAN]

\* The values every variable of the engine can take.
TypeOK ==
    /\ status \in [Settlements -> RowState]
    /\ old \subseteq Settlements
    /\ counted \in [Settlements -> Nat]
    /\ job \in [Jobs -> Job]
    /\ dlq \subseteq [sid : Settlements \cup {NoRow}, made : 0 .. MaxAttempts]
    /\ hooks \subseteq [sid : Settlements \cup {NoRow}, event : Terminal]
    /\ held \subseteq Runs
    /\ leaked \in [Keys -> Nat]
    /\ creating \subseteq Settlements
    /\ pc \in [Runs -> PCs]
    /\ batch \in [pc : {"idle", "group", "validate", "write"},
                  ids : SUBSET Settlements, group : SUBSET Settlements]
    /\ reaper \in [Reapers -> [todo : SUBSET Settlements,
                               add  : Settlements \cup {NoRow}]]
    /\ budget \in [Kinds -> Nat]
    /\ overlapped \subseteq Settlements

\* The promise of the per-merchant semaphore (baseSettlementProcessor with
\* redis-semaphore): whatever times out, crashes or fails to release, no more
\* than MaxConcurrent runs of one semaphore key are ever between acquire and
\* release, the runs the watchdog has given up on included.
ConcurrencyLimit ==
    \A k \in Keys : Cardinality({r \in Critical : keyOf(r) = k}) <= MaxConcurrent

\* Slots and runs agree: a run owns a slot exactly while it is between acquire
\* and release, and the semaphore never counts more than its limit.
SlotAccounting ==
    /\ held = Critical
    /\ \A k \in Keys : slotsOf(k) <= MaxConcurrent

\* For every semaphore key, the runs of the processor keep to the semaphore's
\* protocol: each enters below the limit, gives its own slot back once or loses
\* it to a crash or a Redis error, and a run that the watchdog has given up on
\* keeps it until it ends.
Slots(key) == INSTANCE MerchantSlots
                WITH Users <- Runs, Limit <- MaxConcurrent,
                     using <- {r \in Critical : keyOf(r) = key}, abandoned <- leaked[key]
ImplementsSlots ==
    /\ \A key \in Keys : Slots(key)!Init
    /\ [][\A key \in Keys : [Slots(key)!Next]_(Slots(key)!slots)]_vars

\* The queue still has to run the job: not one whose run has returned.
Working(j) ==
    \/ job[j].state = "waiting"
    \/ job[j].state = "active" /\ pc[<<j, job[j].made + 1>>] # "done"

\* A settlement has at most one job that is still to be run: the requeue at the
\* concurrency limit and BullMQ's retries replace a job, they never multiply it.
\* True until a run outlives its attempt, a reaper adds a job, or a crash or a
\* Redis error falls between adding the copy and completing the original.
OneJobPerRow ==
    Unspent({"timeout", "reap", "crash", "redisError"}) =>
      \A i, j \in Jobs :
        Working(i) /\ Working(j) /\ job[i].sid = job[j].sid => i = j

\* As long as the process has not died and Redis has not failed, a pending
\* settlement is never forgotten: its POST is still about to enqueue it, or it
\* has a job.  Requeues, retries, watchdog timeouts, batches and reapers keep it.
NoRowForgotten ==
    Unspent({"crash", "redisError"}) =>
      \A s \in Pending :
        s \in creating \/ \E j \in Jobs : job[j].sid = s /\ job[j].state # "free"

\* The semaphore, with a limit of one, is what keeps two runs off one row: then
\* only the batching job and the reapers, which do not take slots, and the jobs
\* a reaper adds, which carry no merchant, can be at work beside a run.
LimitOneExcludes ==
    MaxConcurrent = 1 /\ Unspent({"batch", "reap"}) => overlapped = {}

\* A merchant is never told both that a settlement completed and that it
\* failed (the two webhookQueue.add calls of baseSettlementProcessor), unless
\* two actors have been at work on the row at a time.
NoContradictoryWebhooks ==
    \A s \in Settlements \ overlapped :
      ~ \A e \in Terminal : [sid |-> s, event |-> e] \in hooks

\* The engine implements the status machine of the schema for every row that has
\* not yet had two actors at work on it at a time, although validation and UPDATE
\* are separate statements: a write never goes backwards, nor overwrites a
\* terminal status, whatever the writers before did or left undone.
StateMachine(s) == INSTANCE SettlementStateMachine
                     WITH Settlements <- {s}, status <- [x \in {s} |-> status[x]]
ImplementsStateMachine ==
    /\ \A s \in Settlements : StateMachine(s)!Init
    /\ [][\A s \in Settlements \ overlapped :
            [StateMachine(s)!Next]_(status[s])]_vars

\* A status that has reached completed or failed is never changed again by any
\* of the writers (worker runs, batching job, reapers).
TerminalIsFinal ==
    [][\A s \in Settlements : status[s] \in Terminal => status'[s] = status[s]]_status

\* Every job the queue has accepted carries its settlement to a terminal
\* status, unless BullMQ gives the job up after MaxAttempts failed attempts
\* (or its second stall).
AcceptedJobSettles ==
    \A s \in Settlements :
      (\E j \in Jobs : job[j].state = "waiting" /\ job[j].sid = s)
        ~> \/ status[s] \in Terminal
           \/ \E j \in Jobs : job[j].state = "failed" /\ job[j].sid = s

\* A settlement the reaper has re-enqueued is processed: its job leads to a
\* completed settlement.
ReapedSettlementRecovers ==
    \A s \in Settlements :
      (\E j \in Jobs : job[j].state = "waiting" /\ job[j].sid = s
                        /\ job[j].key = NoMerchant)
        ~> status[s] = "completed"
=============================================================================
