# A TLA+ verification project for BettaPay-Backend

BettaPay is a payment backend of four Node.js services over PostgreSQL (Prisma),
Redis and BullMQ. This project models the parts in which several actors share
state, checks them with TLC and proves the central safety properties with TLAPS.
Paths are relative to `src/`; `SE` is `services/settlement-engine/src/index.ts`, `GW`
`services/api-gateway/src/index.ts`, `IX` `services/indexer/src/index.ts`, `FX`
`services/fx-engine/src/index.ts`.

## 1. Inventory

| Component | State | Operations | What makes it correct |
| --- | --- | --- | --- |
| Settlement status machine (`shared/validation/schemas.ts`, SE 152-191) | `Settlement.status` | validated `update` and `updateMany` | completed and failed are final; a row moves only along the transition table |
| Settlement processing (SE 268-675) | queue `settlements`, DLQ, runs of the worker | acquire a slot, processing, completed, webhook, catch, release; watchdog; BullMQ retry and stall | no row forgotten, jobs are replaced and not multiplied, no contradictory webhooks, limit per merchant, accepted jobs settle |
| Batching job (`settlement-batch-processor.ts`, SE 1903-1979) | `SettlementBatch` rows | read pending, group by asset, insert batch, move rows to processing | never undoes a worker's write |
| Reaper (`settlement-reaper.ts`) | none of its own | scan, conditional claim, re-enqueue | a reaped settlement is processed |
| Per-merchant semaphore (`redis-semaphore.ts`) | a sorted set per merchant, a timer per holder | acquire, renew, release (Lua) | at most `maxConcurrent` jobs run; a running job keeps its slot; dead slots come back |
| Webhook delivery (`shared/webhook-delivery`) | BullMQ queue, `webhook_sent:*` keys, dead letters | deduplicate, POST, retry, archive | at most once per key, delivered or given up |
| Retry route (SE 607-647, 741-829, `prisma-adapter.ts`) | `supersededById`, `version` | count the chain, clone, link under an optimistic lock, enqueue | one winner, bounded acyclic chains, the limit |
| Creation route (SE 1438-1598, `prisma-adapter.ts`) | `idempotency:*` keys, unique `idempotencyKey`, daily volume | check volume, claim, find, insert, resolve P2002, enqueue | one settlement per key, same answer to retries, daily limit |
| Bulk route (SE 1600-1829) | `idempotency:bulk*` keys, rows of the batch | claim with payload hash, validate items, transaction, enqueue, store response | one batch per key, replays match their payload, greedy limits |
| Idempotency-key reclaim job (`api-gateway/src/idempotency-key-cleanup-cron.ts`) | Redis lock | null expired keys | frees keys only after their 24 hours |
| Amounts, discounts, listings, reconciliation (SE 268-430, 847-1436, GW settlements) | monthly volume in Redis, the rows of both services | price, settle, patch, list, compare | discounts are earned; reported differences are harmless or real |
| Gateway payments, merchants, assets (GW, `abandoned-payments-cron.ts`, `shared/validation/merchant-cache.ts`, `clients/fx-client.ts`) | `Payment`, `Merchant`, `SupportedAsset` rows, caches, domain events | create, status route, bulk cancel, abandoned payments, suspend, delete, restore, administer assets | a key names one payment; an answered change holds in spite of caches; final statuses stay |
| Gateway authentication (GW, `wallet-challenge-store.ts`) | challenges, lockout counters, sessions, revoked tokens, concurrency counters | challenge, verify, legacy and Google login, refresh, logout, revoke | a challenge is used once, a revoked token stays revoked, a lockout ends |
| FX engine (FX, `circuit-breaker.ts`, `fallback-tracker.ts`) | rate caches, circuit breaker, fallback mode, Redis lock, snapshots, quotes | refresh, override, warm up, quote, verify | no quote accepted beyond its slippage, locks respected, rates follow the market |
| Indexer (IX) | ledger cursor, events, deliveries, subscriptions, replay jobs | poll, persist, dispatch webhooks, dead letters, replay, clean up | no event lost or delivered twice |

Interactions: the gateway calls the engine and the FX engine over HTTP with a
timeout; routes insert a row and then add a job; the worker, the batching job, the
reapers, the retry route and the gateway's status route write the same rows; the
worker and the indexer add webhook jobs; all share one Redis. What is hard is that
every `await` is a point of interleaving, status writes are read-then-write, a
timed-out job keeps running, the process can die between a database write and a
queue operation, and keys, slots and caches expire by time. `PROJECT.json` lists the
hazards, each at its line.

## 2. Modules

One step of a model is one `await` of the code: a database statement, a Redis
command or script, or a queue operation. Where a handler awaits something no other
actor can observe or disturb, neighbouring awaits are one step. BullMQ, PostgreSQL
and Redis are modelled from how the code uses them and marked external in the map.

| Module | Models |
| --- | --- |
| `SettlementStatus` | transition table, `isValidTransition`, `validateTransition` |
| `SettlementStateMachine` | abstract specification: what the settlement table promises its readers |
| `SettlementEngine` | rows, queue, processor runs, watchdog, batching job, reapers, crashes. `status` is the table, `job` BullMQ's state, `pc` the position of a run (a job and an attempt) up to the worker's own report to Redis (`done`, `threw`), `held` and `leaked` the semaphore as the engine sees it, `creating` the handlers between insert and enqueue |
| `MerchantSlots` | abstract specification: what the semaphore of one key promises its users |
| `RedisSemaphore` | the three Lua scripts for one merchant; scores are kept as ages, each worker judges them by its own clock |
| `WebhookDelivery` | the delivery worker, with and without deduplication |
| `SettlementRetry` | overlapping requests of the retry route beside everything that writes a status: `UpdateStatus` is the Prisma extension's read, check and write for any writer, with the status it read taken from those the row has had (`been`); `overtaken` and `early` are history variables |
| `SettlementIntake` | overlapping requests of the creation route, directly or through the gateway's client, with key expiry and the reclaim job |
| `BulkSettlement` | overlapping requests of the bulk route within the life of a key |
| `SettlementLedger` | the table as both services use it: pricing with the cached monthly volume, the worker, the gateway's status route and deletion, retries, and the two reconciliation routes, whose `audit` collects the engine's and the gateway's pages one by one |
| `Payments` | requests of one gateway instance: creation behind the merchant cache and the FX client's fallback, status route, bulk cancel with stored summaries, abandoned payments, suspension, deletion with its cascade, restoring, settings, domain events and their consumer, and the asset catalogue with its cached list |
| `GatewayAuth` | every authentication route and the guard of authenticated ones (`jwt`, `session`, `touch`, `incr`), for one wallet, one Google account and one IP |
| `FxEngine` | instances that refresh behind one Redis lock: breaker, deviation guard, fallback mode, rate and pair caches, snapshots, warmup, override, quotes |
| `Indexer` | the polling loop with its cursor and backoff, the batched insert and its deliveries, dispatch, the webhook queue, dead letters, replays, cleanup, subscriptions and their cache, restarts |
| `*Proofs` | theorems |
| `MC*` | constants for TLC |

Two specifications meet in `MerchantSlots`: a user takes a slot below the limit, gives it
back once, or ends and abandons it, a slot whose reply is lost belongs to nobody (`Lose`),
and only abandoned slots are reclaimed.
`RedisSemaphore` implements it with the abandoned slots as the members of the sorted set
that do not run; `SettlementEngine`, which keeps of the semaphore just `held` and `leaked`,
implements it for every key. So what the engine does is what the scripts, timers and
TTLs allow. `SettlementLedger` keeps of the worker only its read and its write of a status;
how jobs come and go is in `SettlementEngine`.

`BatchError` and `ReapError` stand for a failing statement without effect; `DbError`
of a run also covers an UPDATE that was committed before its reply was lost, and
`AcquireFails` an acquire script or a `settlementQueue.add` that was executed.
A run that has returned is not the end of its job: BullMQ moves the job to "completed"
in a step of its own (`Settle`), so that after a requeue (`Requeue`) the copy and the
original are in the queue together, and a crash or a Redis error in between
(`SettleFails`) leaves both to be run.

Operators named as mutants in comments ("Mutant: ...") are deliberately wrong
variants. They are used nowhere in a specification: substituted for the definition
that follows them, they make a property of a run fail, which shows that the property
depends on that code.

## 3. Runs

| Run | Shows |
| --- | --- |
| `EngineNominal` | two rows, one slot, three job slots, and one of a database error, a Redis error, a timeout and a crash: `OneJobPerRow`, `NoRowForgotten`, `LimitOneExcludes` |
| `EngineOverlap` | one row, a limit of two, and three of every kind of fault and of every other writer: `NoContradictoryWebhooks`, `SlotAccounting`, the refinements `ImplementsStateMachine` and `ImplementsSlots` and, under fairness, `AcceptedJobSettles` |
| `Semaphore` | three holders, two slots, a skewed clock, lost heartbeats, lost replies, dead workers: `RunningHoldsSlot`, the refinement `ImplementsSlots`, `DeadSlotReclaimed` |
| `Webhook` | two jobs for one event and one without an event id, each kind of fault: `AtMostOncePerKey`, `PlainJobsDelivered` (the indexer's jobs are all of that kind) |
| `Retry` | two requests, four rows, limit 1, and status writers that may overtake each other on one row: `OneWinnerPerVersion`, `SupersededIsFailed`, `ChainWithinLimit` |
| `Intake` | three requests, two keys, two amounts, two days: `OneSettlementPerKey`, `RetriesSeeOneSettlement` |
| `Bulk` | three requests, four payloads, valid and invalid fee settings: `OneBatchPerKey`, `ReplayIsSamePayload`, and the validation loop against a declarative definition (`AcceptsGreedily`) |
| `Auth` | three requests of any route, two at a time, with a Redis error, an aborted request or an expiry: `ChallengeUsedOnce`, `RevokedIsFinal` (in spite of sessions that racing requests write back), `NeverOvercounted` and, while Redis answers, `LockoutEnds` |
| `Payments` | three requests or job runs, two at a time, with expiries and one fault: `RetriesSeeOnePayment`, `AnsweredChangesHold` (suspensions behind the merchant cache; the catalogue behind its list cache, from when that was really dropped), `ReportedCancelled`, `FinalUnlessOvertaken` |
| `Indexer` | four events in two ledgers, one invalid, the second ledger cut by the page limit: `DeliveriesMatchRows`, `BoundedPosts`, `PassedIsIndexed` and, under fairness, `FirstPageIndexed` |
| `Fx` | two instances, a market that moves within and beyond the guard: `AcceptedWithinSlippage`, `FailOpenWhileOpen`, `NobodyElseReleases` and, under fairness, `RatesFollowMarket` |
| `Ledger` | two rows priced around the turn of a month, moved by the worker, the gateway, a deletion and retries, and audited meanwhile: `DifferencesExplained`, `DiscountEarned`, `SettledStaysSettled` |

The conditions under which the engine's promises hold are part of the properties:

* `OneJobPerRow` until a timeout, a reaper pass, a crash or a Redis error (`Unspent`), each
  of which can leave a settlement with two jobs to run;
* `NoRowForgotten` until a crash or a Redis error;
* `LimitOneExcludes` for a limit of one, while nobody but the worker has been at work:
  then the slot keeps runs of one row apart even when it has two jobs, or an attempt that
  the watchdog gave up on;
* `NoContradictoryWebhooks` and `ImplementsStateMachine` for rows that have not had two
  actors at work on them at a time. The history variable `overlapped` collects the others.

With a limit above one (the default is 10) nothing in the code keeps two jobs of one row
apart, and both promises do fail for a row in `overlapped`.

Every module has a type invariant, `TypeOK`; the theorems `TypeCorrect` and
`RetryTypeCorrect` prove those of `SettlementEngine` and `SettlementRetry`, the others can
be added to a `.cfg`. `FlaggedFeeWasDiscounted` is a property of `SettlementLedger` that is
proved and in no run.

### Counterexamples

Seven further configurations state what a comment, document or test says and the code
does not do. TLC refutes each (`tlc -config <name>.cfg <MC module>`):

| Configuration, property | Disagreement |
| --- | --- |
| `EngineBatchRace`, `TerminalIsFinal` | the batching job's `updateMany` by id (`settlement-batch-processor.ts:193`) overwrites a row that the worker has completed since it was read |
| `EngineReaper`, `ReapedSettlementRecovers` | the reaper fails the row before it adds the job (`settlement-reaper.ts:45`), and a failed row cannot be processed |
| `WebhookLostEvent`, `DeliveredOrGivenUp` | the deduplication key is claimed before the POST (`shared/webhook-delivery/index.ts:408`): a rejected webhook is never sent again |
| `RetryLimit`, `RetryLimitEnforced` | a second retry of the original replaces its link (SE 764) and so evades the limit |
| `IntakeGateway`, `OneSettlementPerKey` | the gateway's client drops the Idempotency-Key (`clients/settlement-client.ts:64`), and a retry creates a second settlement |
| `PaymentsAssets`, `VisibleImmediately` | "so the new asset is visible immediately" (GW 4108, also 4167 and 4215): an error of the DEL is ignored (GW 4109-4112) and the change answered with the old list still cached, as it is when a list read before the change is cached after it |
| `IndexerStuck`, `CatchesUp` | a cycle that is not aborted puts the cursor back to where it began (IX, `if (!aborted) latestLedgerCursor = cursor`), so that the first page is fetched for ever; `docs/indexer-and-webhooks.md:48` says that catch-up drains multiple pages until it reaches the tip |

### Other disagreements

Modelling met further differences between text and code. They need no run of their
own; the actions named in the map show them.

Settlements:

* A job at the concurrency limit adds its copy (SE 497) before BullMQ completes it: a
  crash in between leaves two jobs for the settlement, which with a limit above one can
  run together.
* The watchdog (`withJobTimeout`, SE 427-445) leaves the processor running; with two
  slots the abandoned run and the retry overwrite each other's final status, as in
  `EngineBatchRace` (with a timeout instead of a batch).
* `worker.on('failed')` (SE 654-675) dead-letters a job at its first failed attempt;
  it logs "Job failed after all retries, moving to DLQ". Webhook jobs failed by their
  second stall, in contrast, are not archived (`shared/webhook-delivery/index.ts:514`).
* A failed settlement's job has attempts left, and the reaper adds a job for a row it has
  just failed (`settlement-reaper.ts:49`): a superseded row can be queued and run. The
  status machine stops the run at its first write, and `SupersededIsFailed` says so.
* The chain limit counts links (SE 615-640). A clone that a PATCH fails and a request
  retries before it is linked is counted without what comes before it, so the chain gets
  longer than the limit; `ChainWithinLimit` excepts such clones (`early`).
* A request that lost the Redis claim and finds no row yet (SE 1552-1565) creates the
  settlement itself; `idempotency-concurrency.test.ts:11` says "Only the first claimer
  proceeds to settlement creation". Redis then points to an id that never exists, so
  each replay goes through P2002 and adds another job for the same row;
  `OneJobPerRow` is about one accepted request.
* A key reused with another amount is answered with success and the first settlement;
  `docs/idempotency-semantics.md:11` promises 409.
* A key used again after 24 hours is answered with the old settlement until the hourly
  job frees it, and a retry after that creates a new one. `RetriesSeeOneSettlement`
  therefore compares answers that name settlements of the same day.
* Two requests that read the same daily total (SE 1486) exceed the limit together; the
  bulk route (SE 1686) and the gateway's own check have the same gap.
* A bulk request that fails after its claim leaves the key behind for 24 hours, and
  retries are told that it "is currently processing" (SE 1632).
* In the bulk loop (SE 1703-1706) the amount can be neither NaN nor negative, nor can
  `computeSettlementAmounts` find it above the cap: the request schema
  (`shared/validation/schemas.ts:14-45`) has rejected the body. Its fee snapshot, though, can be
  invalid, with `FEE_DISCOUNT_TIERS` whose basis points are no integers: then every item
  is recorded as an error (`feeValid`).
* When Redis fails during the bulk claim (SE 1634) the batch is processed all the same:
  a second batch for the key is possible, and its stored response can be replayed to a
  request with the first payload. `OneBatchPerKey` and `ReplayIsSamePayload` are stated
  for histories in which Redis has answered.
* The single route stores the merchant's base fee (SE 1575) and charges the discounted
  one, so that reconciliation's fee check accuses exactly the discounted rows; the bulk
  route stores the applied fee. `FlaggedFeeWasDiscounted` says that it accuses no others.
* Reconciliation expects the gateway's list to contain everything; it holds one page
  of 50 rows and hides those of deleted merchants, and the JWT of the report carries
  no merchant, so that its parameter has no effect. `DifferencesExplained` names
  these causes. `truncated` is set at exactly 100 differences, where nothing was cut.
* The worker and the gateway's status route each update a row by its id after a check
  of their own, and neither uses `version`, so that one may overwrite what the other has
  settled; `SettledStaysSettled` says that only a writer that had read the row before
  it was settled does this.
* The drain at shutdown (`worker-shutdown.ts:25`) follows one job while five run.

Gateway:

* A payment's key that is reused with another amount is answered 200 and the first
  payment, where `docs/idempotency-semantics.md:10` promises 409. A key that has expired
  and is not yet reclaimed makes creation fail with 500.
* Settlements accept deactivated assets. Deleting a merchant leaves the merchant cache.
* "single place that guards the payment state machine" (GW 3322): bulk cancel, the
  abandoned-payments job and deletion write statuses too.
* Settings are merged in the process and written back: of two PATCHes one is lost.
* The FX client's last good quote is kept without the amount, so that after a timeout
  a quote for another amount is served.
* Requests refused before they were counted decrement the concurrency counter all the
  same, so it falls below the requests in progress; `NeverOvercounted` is the half that
  holds. Touching a session recreates one that was deleted meanwhile; the revocation
  list, checked first, is what keeps a token revoked.
* `wallet-challenge-store.ts:200` describes a window renewed by every failure; EXPIRE is
  sent after the first one only. Eviction of sessions removes one more than necessary
  when two logins overlap.
* A legacy wallet login derives a unique `ownerId` from six characters of the address:
  a second wallet with the same prefix is answered 500. A Google login whose merchant
  was deleted meets the unique `ownerId` and is answered 401 for good.

FX engine and indexer:

* The "snapshot store" that a waiting refresh polls is its own memory; the lock's TTL
  (5 s) is shorter than the fetch timeout (10 s), so two instances do fetch at a time;
  `NobodyElseReleases` shows that the token protects the second one's lock.
* A refresh whose rates the guard rejects altogether renews the cache's age and counts
  as a success of the breaker. The guard can hold a rate for ever when the market has
  moved too far; `RatesFollowMarket` excepts it. A failing warmup stores the fallback
  rates as the newest snapshot.
* Deliveries are to become "processed" (IX 759), which the enum `WebhookDeliveryStatus`
  (`schema.prisma:156-161`) does not have: all stay pending and are dispatched again in
  every cycle; they are sent again when BullMQ has forgotten their job, and the oldest
  hundred keep newer ones waiting.
* "Ensure only one webhook worker is created to prevent duplicate deliveries" (IX 291):
  the indexer's jobs carry no `eventId` and its worker has no Redis client (IX 292, 746),
  so nothing deduplicates. A POST whose answer is lost or late, a merchant's 5xx or a stall
  before the job is completed makes the same job POST again; `BoundedPosts` states what is
  left of "once". A job failed by its second stall gets no dead letter.
* `docs/indexer-and-webhooks.md:27` says that a backed-off cycle never skips ledgers. An
  aborted cycle does: its cursor goes behind the last ledger inserted, whose remaining
  events may be on the next page. `PassedIsIndexed` states what is left: no ledger is
  lost as a whole.
* A crash between the insert of events and that of their deliveries loses the
  deliveries. Rows inserted again after a cleanup or a forced replay are sent again.
* The list of dead letters reads failed jobs of a queue whose jobs never fail. "skipping
  stuck ledger" is logged and nothing is skipped. Shutdown disconnects the database
  first and does not stop the loop.

### Bounds

Faults and scheduled jobs are bounded by a `Budget` per kind, by `MaxFaults`,
`MaxEvents` or `MaxOccurrences`; one of each kind is enough to meet every code path, and
the pairs that matter (timeout with batch or reaper, crash with database or Redis
error, two errors in a cycle or against a breaker's threshold) occur together.

* Engine: `MaxAttempts` is 2 where the code has 3: retry and last attempt occur. `Jobs`
  bounds live BullMQ jobs: 2 for one row, 3 for two, so that a requeue of one row finds a
  place while the other waits. The budget's `total` is 1 in `EngineNominal` and 3 in
  `EngineOverlap`: a timeout with a batch or a reaper and one error more.
* Retry: `MaxRetries` is 1 where the code has 3, with four rows: a chain beyond the limit
  takes three of them, and a second request's clone is the fourth. Writers may be overtaken
  on the rows of `Overtakable`, the first one.
* Bulk: `AmountCap` is 4; the bounds are 2 and 3 and the daily limit 6, so that an amount
  is zero, too small, too large or too much for the day. Unset bounds are covered by the
  theorem.
* Semaphore: `Window = 6` with interval 2 keeps the proportions of 60 s and 20 s.
* Intake: `LastDay = 1` lets a key expire once.
* Auth: three requests, two at a time, with one earlier token: two requests race and a
  third one sees what they left. Session limit 1, two failures and concurrency 1 make
  eviction, lockout and refusal happen within three requests.
* Payments: three requests or job runs, two at a time; three payments, one key, one
  setting: a lookup that misses, P2002 and the reclaim job need two creations with one
  key; a bulk cancel, its overtaking writer and a replay need three requests.
* Indexer (`Allowed`, `MaxAllowed`): the chain has a ledger that a page of two cuts and
  an event that cannot be parsed, and replays of one chunk and of two. Two occurrences
  in all, which may be two errors, two failing attempts or two stalls; `MaxAttempts` is 2
  where the code has 5, so that a job's last attempt occurs; backoff up to 2 units, one skip.
* FX: rates 10, 11 and 20 with a guard of 20%: one move is accepted, one rejected.
  Threshold 2 is reached by the two errors that are allowed.
* Ledger: amounts with one and with two decimals on either side of a discount tier,
  a gateway page of one row and a report page of one row, two months, three occurrences.

Symmetry is used for interchangeable requests, merchants and new payments, and only in
runs without liveness. Deadlock is not checked where the system may stop: all jobs done,
budgets spent, no requests left (engine, webhooks, retry, authentication, payments,
ledger). `SettlementIntake` and `BulkSettlement` say explicitly when they are finished;
they, the semaphore, the FX engine and the indexer are checked for deadlock.

### Fairness

* `SettlementEngine!Fairness`: the event loop resumes every pending await (weak
  fairness on a run's steps), BullMQ hands out waiting jobs and its stalled check runs,
  Redis drops expired slots, a started reaper pass goes on. Requests, batches and
  faults are never forced.
* `RedisSemaphore!Fairness`: time passes, timers fire, jobs end, and refused jobs come
  back (the engine re-queues them with a delay of 5 s).
* `WebhookDelivery!FairDeliverySpec`: jobs are started and processed.
* `GatewayAuth!FairSpec`: Redis drops an expired failure counter, and a request in
  progress goes on. No request has to arrive. `LockoutEnds` is stated for behaviours
  without Redis errors and aborted requests: an INCR whose EXPIRE is lost locks the
  wallet until someone resets it.
* `Indexer!FairIndexerSpec`: the loop polls or ends its cycle (`setTimeout` re-arms it), a
  stopped process is started again, and ledgers close. `FirstPageIndexed` excepts a
  process that is down and a cursor that has passed the event.
* `FxEngine!FairSpec`: the refresh timer of each instance fires and its fetch ends, and
  cooldowns end.

## 4. Proofs

Every safety property of a run is also a theorem, for every value of the constants that
satisfies the module's `ASSUME`s. Those say what the code's configuration says (limits
and amounts are numbers), that the values standing for null (`None`, `NoKey`, `Lost`)
are no values of the other kind, and that requests, jobs, slots and rows are finitely
many, though any number. `RedisProofs`, `SettlementTableProofs` and `FxIndexerProofs` each
treat two modules that have no constant and no variable in common.

### Settlement processing

* `SettlementEngineProofs`: `TypeCorrect`, `SlotAccountingHolds`,
  `ConcurrencyLimitHolds`. `ConcurrencyLimit` is not inductive: that few runs are
  in the critical section says nothing of the slots counted. The invariant is
  `TypeOK` with `SlotAccounting` (runs in the critical section are exactly the
  holders, and holders plus leaked slots of a key stay within the limit). A job slot
  is reused only when its runs have ended (lemma `FreeJobHasNoHolder`), which keeps
  the key of a running job fixed. Each action moves a slot between "free", "held" and
  "leaked", or none; a crash turns all held slots into leaked ones (`SlotEffects`).
* `EngineImplementsSlots`: by the same cases, a step is for every key a step of
  `MerchantSlots` or leaves that key's slots alone. A watchdog timeout is of the second
  kind, and one crash is a step of all keys at once, which is why `ImplementsSlots`
  conjoins the steps of the keys instead of their specifications.
* `NoRowForgottenAlways`, for histories without a crash or a Redis error (`Healthy`; the
  budgets remember both). Of `MemoryInv` the deciding part is `Claimed`: a run past its
  first write finds its row never pending again, so the run that frees a job leaves no
  pending row behind, whatever the other writers do meanwhile. A job whose run has
  returned does not count (`Kept`): after a requeue it is the copy that remembers the row.
* `OneJobPerRowAlways`, until a timeout, a reaper pass, a crash or a Redis error (`Calm`).
  `CalmInv` says that then every run is the current one of its job, that among the jobs
  of a row one at most has not returned, and that a row still to be enqueued has none.
* `LimitOneExcludesAlways` follows from `ConcurrencyLimit`, which no fault weakens: while
  neither the batching job nor a reaper has run, every job carries its row's merchant
  (`KeysInv`), so two runs of one row would hold two slots of one key.
* `NoContradictoryWebhooksAlways` and `EngineImplementsStateMachine`, for rows outside
  `overlapped` and with every fault. Neither is inductive alone: that the UPDATE after a
  validation is still legal needs that nobody else works on the row. The invariant `IInv`
  says of each such row that whoever has validated it and not yet written still may
  (`Validated`, `BatchValidated`), that a run about to add a webhook has written its event
  as the row's status (`OutcomeWritten`), and that the webhooks added agree with the
  status (`HooksAgree`). Two lemmas feed it: `WorkExistsAlways` (jobs, POSTs and
  reapers are about rows that exist) and `SpendingAlways` (budgets only shrink).

### Redis protocols

* `RedisProofs`, semaphore: `RunningHoldsSlotAlways` and `ConcurrencyLimitAlways`.
  The assumption `TimelyRenewal` (`(Misses + 1) * Interval + MaxSkew < Window`)
  is what the code's schedule has to provide. The invariant bounds a running
  holder's age by its missed heartbeats and its timer (`Heartbeat`), says that the
  key's TTL was set no earlier than any token was written (`KeyYoungest`), and that the
  tokens never exceed the limit (`Capacity`). With 60 s and 20 s the assumption
  allows one lost heartbeat, not the two the comment in `redis-semaphore.ts:176`
  names: after two, renewal and staleness coincide.
* `SemaphoreImplementsSlots`, from the same invariant. A purge and the end of the key reach
  no running job, so what they remove are abandoned slots (`ReclaimedSlots`), and `ZCARD`
  after the purge counts the running jobs and what is left of those.
* Webhooks: `AtMostOncePerKeyAlways`. What a merchant has been given of an event together
  with the POSTs of it under way fits into the claims its key has had: one for each life
  that has expired and one for the present life (`ClaimsCover`).

### Routes and the settlement table

* `SettlementIntakeProofs`: `OneSettlementPerKeyAlways` and
  `RetriesSeeOneSettlementAlways`, for requests that reach the engine directly. The
  invariant says that a row of the current day still carries its client's key
  (`CurrentRowsKeepKey`), so the unique index speaks about clients; the Redis claim is
  not needed for it at all, which is the code's own argument for the index as safety
  net. For the answers, `ReplayInv` follows each way to a row: a claim, a row found, a
  P2002 resolved, a row inserted name a request with the same key.
* `BulkSettlementProofs`: `OneBatchPerKeyAlways`, `ReplayIsSamePayloadAlways`. As long as
  Redis answers, each key has one owner, the request whose SET NX succeeded; only the
  owner inserts, and the stored hash and response are the owner's.
* `AcceptsGreedilyAlways` in the same module, for payloads of any length whose amounts the
  schema lets through, with any bounds, set or unset. The validation
  loop is a recursive function and its totals are sums over sets, so the proof first
  shows that both exist and what they are: a least counterexample
  (`LeastNumber`) stands in for induction, `SumAdd` says that a sum does not depend on
  the order in which the library adds it up, and `TurnsSound` that after each item the running
  total is the sum of the accepted items and that these never change again.
* `SettlementTableProofs`, retries: `RetryTypeCorrect`, `OneWinnerPerVersionAlways`,
  `SupersededIsFailedAlways`, `ChainWithinLimitAlways`. Versions only grow and every link
  raises one, so a version that has been won is never current again; a superseded row was
  failed when it was read, and from failed a validated write leads to failed only, unless
  the writer read before another wrote. For the chains, `ChainInv` follows the
  route's second loop (for clones that were linked before they were retried): its front holds every row as many links away as it has gone down,
  and it has counted at least one row per link, so a request that passes the check has no
  chain of `MaxRetries` links behind it; a link appends one clone. A cycle would be a chain
  of any length.
* `SettlementTableProofs`, ledger: `DifferencesExplainedAlways`,
  `FlaggedFeeWasDiscountedAlways`, `DiscountEarnedAlways`, `SettledStaysSettledAlways`.
  The invariant `LedgerInv` says what each copy of a row or a volume still has in common
  with the table: rows keep what was priced (`RowsStored`), a volume in the cache or in
  a request was once the merchant's (`VolumesSeen`, `RequestsSeen`), a write was
  validated against the status that was read (`WritesValidated`), and a report has paged
  through all the rows that were there at its start (`AuditSound`). That the checks
  accuse no undiscounted row is the lemma `RoundingsAgree`: the fee rounded to the row's
  own unit and the one rounded to whole units differ by less than the tolerance.

### Gateway

* `GatewayAuthProofs`: `ChallengeUsedOnceAlways` (the outstanding challenge has no claim
  yet, and a claim removes it) and `RevokedIsFinalAlways`. For the second, a request that
  began after its token was revoked can stand only before the check of the revocation
  list, and tokens retired are always on the list or past their `exp`; sessions do not
  matter for it. `NeverOvercountedAlways` compares the counter with the requests it stands
  for (`Holders`): each step changes both alike, or lowers only the counter, or is a fault.
* `PaymentsProofs`: `RetriesSeeOnePaymentAlways`, `AnsweredChangesHoldAlways`,
  `ReportedCancelledAlways`, `FinalUnlessOvertakenAlways`. The invariant `PInv` has a part
  per property: what each request remembers (`Locals`), at most one payment per key and
  answers that name its live holder (`Keyed`), summaries within the history of
  cancellations (`Reported`), and, for each of the two caches, that after an answered
  change neither the cache nor a read still to be cached is older (`Suspension`,
  `Listing`). For the list, "after" begins when the old one was dropped (`pinned`): by the
  handler's DEL, or, when that failed, by the end of its TTL.

### FX engine and indexer

* `FxIndexerProofs`, FX: `AcceptedWithinSlippageAlways`, `FailOpenWhileOpenAlways`,
  `NobodyElseReleasesAlways`. A quote's rate comes from the cache of computed rates, so
  the invariant `FxInv` says that an entry that is served is the quotient of the base
  rates of this moment (`Fresh`): every change of the base rates clears it. An instance
  that is down has no entry and answers nobody (`DownIsEmpty`).
* Indexer: `DeliveriesMatchRowsAlways`, `BoundedPostsAlways`, `PassedIsIndexedAlways`.
  A page is a prefix of what lies from the cursor on (lemma `PageIsPrefix`), so a cycle
  has every event before the last ledger of its batch, in hand and later in the table
  (`CycleSound`); a row a cycle creates is due to one delivery per subscription until
  the deliveries are there, and a batch holds one row of an event (`RowsPay`). Since the
  queue last forgot it, a job still to be run has made at most one POST per failed attempt
  and one more if it was stalled, and a finished one at most one more than that
  (`JobsSound`).

### Only model-checked

* `AcceptedJobSettles`, `DeadSlotReclaimed`, `PlainJobsDelivered`, `LockoutEnds`,
  `FirstPageIndexed` and `RatesFollowMarket`: liveness under fairness, which TLAPS 1.4.5
  cannot reason about (it has no `ENABLED`).
* The type invariants of the modules not named above.

Record updates of one index are written as one nested `EXCEPT`
(`![r] = [@ EXCEPT !.a = x, !.b = y]`), the form the SMT encoding treats correctly; where a
new value refers to the old one, it names it, as in `[job[d] EXCEPT ...]` of `Indexer`.

## 5. Not modelled

* No caller in the running services: `auth-hardening.ts`, `superseded-cleanup.ts`,
  `withIdempotency` of `shared/validation`, fee schedules and caps per asset.
* `worker-shutdown.ts`: what it cuts off is a crash of its worker.
* Single writes of one row: merchant registration, the KYC flag, API keys as data.
* Read-only routes: batch status, pagination of the detail list, metrics, rate history,
  event queries, audit logs.
* `upstream-fetch.ts` retries requests that the models treat as one call that may fail;
  health, documentation, rate limits, request schemas, logging, tracing and environment
  parsing keep no state that a property is about. Webhook signing is pure.
* The Redis lock and the jitter of the reclaim job: its effect is one idempotent UPDATE.

## 6. Plan

Done: every component whose state several actors share (sections 2 to 4), and a theorem
for each safety property. Left, in the order of their worth:

1. A composition of `Indexer` with `WebhookDelivery` in place of the indexer's own summary
   of the webhook worker.
2. A second gateway instance in `Payments`, with its own merchant cache.
3. Theorems for the remaining type invariants.
