-------------------------------- MODULE Indexer --------------------------------
(***************************************************************************)
(* The indexer: the polling loop and its cursor, the batched insert with   *)
(* deliveries for what landed, the dispatch pass, the webhook queue with   *)
(* its dead letters, replays, retention cleanup, subscriptions and their   *)
(* cache, crashes and the choice of the ledger to start from.  The         *)
(* contracts are one: each has pages and replays of its own.               *)
(***************************************************************************)
EXTENDS Naturals, Sequences, FiniteSetsExt

CONSTANTS
    Chain,          \* the contract events in the order of the RPC server: [ledger, valid]
    Subscriptions,  \* possible webhook subscriptions
    Old,            \* the subscriptions registered initially
    PageLimit,      \* events of one getEvents page (100)
    DispatchLimit,  \* deliveries of one dispatch pass (100)
    REPLAY_CHUNK_SIZE,
    INDEX_FROM_LEDGER,        \* 0 when unset
    INITIAL_BACKFILL_LEDGERS,
    MAX_BACKOFF,    \* in units of BASE_BACKOFF
    MAX_CONSECUTIVE_SKIPS,
    MaxAttempts,    \* attempts of a webhook job (5)
    RetryAfter,     \* possible Retry-After headers, in units of BASE_BACKOFF
    ReplayRanges,   \* possible bodies of the replay routes: [from, to, force]
    Unset,
    Allowed,        \* kind of occurrence -> how many may happen
    MaxAllowed      \* bound on all of them together

Events == DOMAIN Chain
MaxLedger == Max({Chain[e].ledger : e \in Events})
Occurrences == {"error", "crash", "replay", "cleanup", "subscribe", "test", "reject", "stall",
                "evict"}

ASSUME IndexerAssumption ==
    /\ Chain \in Seq([ledger : Nat \ {0}, valid : BOOLEAN])
    /\ \A d, e \in Events : d < e => Chain[d].ledger <= Chain[e].ledger
    /\ Old \subseteq Subscriptions
    /\ {PageLimit, DispatchLimit, REPLAY_CHUNK_SIZE, MAX_BACKOFF, MaxAttempts} \subseteq Nat \ {0}
    /\ {INDEX_FROM_LEDGER, INITIAL_BACKFILL_LEDGERS} \subseteq Nat
    /\ Allowed \in [Occurrences -> Nat] /\ MaxAllowed \in Nat

VARIABLES
    tip,         \* the network's latest ledger
    poll,        \* the polling loop: [pc, start, page, aborted, landed, todo]
    cursor,      \* latestLedgerCursor, and the ledger the process started from: history
    backoff,     \* currentBackoff and consecutiveSkips
    row,         \* event -> id of its IndexedEvent row, 0 if it has none
    ids,         \* rows created so far
    job,         \* webhook job [event, id, sub, copy] -> its state; copy 0 stands for the row
                 \* of IndexedEventWebhookDelivery as well, and others replay a dead letter
    subs,        \* WebhookSubscription rows, the cached list and the tests
    replay,      \* the replay queue and its worker
    cleanup,     \* ids the running cleanup spares, Unset if none runs
    indexed,     \* events that have had a row: history
    made,        \* event -> rows created for it: history
    left

loop == <<poll, cursor, backoff>>
table == <<row, ids, indexed, made>>
others == <<job, subs, replay, cleanup>>
indexerVars == <<tip, loop, table, others, left>>

Occurs(kind) ==
    /\ left[kind] > 0
    /\ MapThenSumSet(LAMBDA k : Allowed[k] - left[k], Occurrences) < MaxAllowed
    /\ left' = [left EXCEPT ![kind] = @ - 1]

Rows == {e \in Events : row[e] # 0}
Idle == [pc |-> "idle", start |-> 0, aborted |-> FALSE, batch |-> {}, todo |-> {}]

\* A delivery's job: when its row was created, where the queue has it, its failed
\* attempts, whether it was stalled, its dead letters, its POSTs, and how often the
\* queue forgot it.
NewJob == [at |-> 0, state |-> "none", tries |-> 0, stalled |-> FALSE, dead |-> 0, sent |-> 0,
           renewed |-> 0]
Deliveries == {d \in DOMAIN job : d.copy = 0}

\* getEvents: the first n events from ledger l on.
getEvents(l, n) ==
    LET found == {e \in Events : Chain[e].ledger \in l..tip}
    IN  {e \in found : Cardinality({d \in found : d < e}) < n}

CloseLedger ==
    /\ tip < MaxLedger
    /\ tip' = tip + 1
    /\ UNCHANGED <<loop, table, others, left>>

\* Rows for the events in batch that have none: the composite key is unique.
InsertRows(batch) ==
    LET new == batch \ Rows IN
    /\ row' = [e \in Events |->
                 IF e \in new THEN ids + Cardinality({d \in new : d <= e}) ELSE row[e]]
    /\ ids' = ids + Cardinality(new)
    /\ indexed' = indexed \cup new
    /\ made' = [e \in Events |-> IF e \in new THEN made[e] + 1 ELSE made[e]]

-----------------------------------------------------------------------------
\* calculateBackoffAfterSuccess, ...After429 and ...AfterError
Larger(a, b) == IF a > b THEN a ELSE b
Smaller(a, b) == IF a < b THEN a ELSE b
AfterSuccess == Larger(1, backoff.ms \div 2)
AfterError == {Smaller(backoff.ms * 2, MAX_BACKOFF)}
                 \cup {Smaller(r, MAX_BACKOFF) : r \in RetryAfter}

\* pollEvents: one page from the cursor on.  Events that fail decoding or validation
\* are skipped, and the loop over the page is aborted when the cycle has lasted too
\* long.  A cycle that is not aborted leaves the cursor where it was.
Cycle(page, taken, aborted) ==
    LET batch == {e \in taken : Chain[e].valid}
        pc == IF batch # {} THEN "insert" ELSE IF page = {} \/ aborted THEN "idle" ELSE "dispatch"
    IN
    /\ poll' = IF pc = "idle" THEN Idle
               ELSE [Idle EXCEPT !.pc = pc, !.start = cursor.at, !.aborted = aborted,
                                 !.batch = batch]
    /\ backoff' = [skips |-> 0, ms |-> IF pc = "idle" THEN AfterSuccess ELSE backoff.ms]

Fetch ==
    /\ poll.pc = "idle"
    /\ LET page == getEvents(cursor.at, PageLimit) IN Cycle(page, page, FALSE)
    /\ UNCHANGED <<tip, cursor, table, others, left>>

FetchAborted ==
    /\ poll.pc = "idle"
    /\ LET page == getEvents(cursor.at, PageLimit) IN
       \E e \in page : Cycle(page, {d \in page : d < e}, TRUE)
    /\ Occurs("error")
    /\ UNCHANGED <<tip, cursor, table, others>>

\* Mutant: "skipping stuck ledger" is what the log says.
TimeoutSkips ==
    /\ poll.pc = "idle"
    /\ Occurs("error")
    /\ cursor' = [cursor EXCEPT !.at = @ + 1]
    /\ UNCHANGED <<tip, poll, backoff, table, others>>

\* The page does not come within POLL_TIMEOUT_MS.
PollTimeout ==
    /\ poll.pc = "idle"
    /\ Occurs("error")
    /\ LET skips == Smaller(backoff.skips + 1, MAX_CONSECUTIVE_SKIPS) IN
       backoff' = [skips |-> skips,
                   ms |-> IF skips < MAX_CONSECUTIVE_SKIPS THEN backoff.ms
                          ELSE Smaller(backoff.ms * 2, MAX_BACKOFF)]
    /\ UNCHANGED <<tip, poll, cursor, table, others>>

\* An error of the RPC server or the database anywhere in the cycle: the cursor
\* stays where the cycle had brought it.
PollError ==
    /\ poll.pc \notin {"down", "dispatch", "add"}
    /\ Occurs("error")
    /\ poll' = Idle
    /\ \E ms \in AfterError : backoff' = [backoff EXCEPT !.ms = ms]
    /\ UNCHANGED <<tip, cursor, table, others>>

\* Mutant: the batch is not compared with what landed.
InsertForgets ==
    /\ poll.pc = "insert"
    /\ InsertRows(poll.batch)
    /\ poll' = [poll EXCEPT !.pc = "load", !.batch = {[event |-> e, id |-> ids + e] : e \in poll.batch}]
    /\ UNCHANGED <<tip, cursor, backoff, others, left>>

\* Mutant: without skipDuplicates a single duplicate fails the batch.
InsertAllOrNone ==
    /\ poll.pc = "insert"
    /\ IF poll.batch \cap Rows # {}
         THEN poll' = Idle /\ UNCHANGED table
         ELSE /\ InsertRows(poll.batch)
              /\ poll' = [poll EXCEPT !.pc = "readback",
                                      !.batch = {[event |-> e, id |-> row'[e]] : e \in poll.batch}]
    /\ UNCHANGED <<tip, cursor, backoff, others, left>>

\* flushIndexedEvents: createMany with skipDuplicates, ...
Insert ==
    /\ poll.pc = "insert"
    /\ InsertRows(poll.batch)
    /\ poll' = [poll EXCEPT !.pc = "readback",
                            !.batch = {[event |-> e, id |-> row'[e]] : e \in poll.batch \ Rows}]
    /\ UNCHANGED <<tip, cursor, backoff, others, left>>

\* ... the ids that landed are read back, ...
ReadBack ==
    /\ poll.pc = "readback"
    /\ LET landed == {r \in poll.batch : row[r.event] = r.id} IN
       poll' = [poll EXCEPT !.batch = landed, !.pc = IF landed = {} THEN "advance" ELSE "load"]
    /\ UNCHANGED <<tip, cursor, backoff, table, others, left>>

\* ... loadWebhookSubscriptions reads the list unless it is cached, ...
LoadSubscriptions ==
    /\ poll.pc = "load"
    /\ poll' = [poll EXCEPT !.pc = "deliver",
                            !.todo = IF subs.cached = Unset THEN subs.all ELSE subs.cached]
    /\ UNCHANGED <<tip, cursor, backoff, table, others, left>>

\* ... caches what it read, and each landed event gets one delivery per subscription.
CreateDeliveries ==
    /\ poll.pc = "deliver"
    /\ subs' = [subs EXCEPT !.cached = poll.todo]
    /\ LET new == {[event |-> r.event, id |-> r.id, sub |-> s, copy |-> 0] :
                      r \in poll.batch, s \in poll.todo}
       IN  job' = [d \in DOMAIN job \cup new |->
                     IF d \in DOMAIN job THEN job[d] ELSE [NewJob EXCEPT !.at = ids]]
    /\ poll' = [poll EXCEPT !.pc = "advance", !.todo = {}]
    /\ UNCHANGED <<tip, cursor, backoff, table, replay, cleanup, left>>

\* The cursor passes the last ledger that landed; an aborted cycle ends here.
Advance ==
    /\ poll.pc = "advance"
    /\ cursor' = [cursor EXCEPT !.at = Max({@} \cup {Chain[r.event].ledger + 1 : r \in poll.batch})]
    /\ poll' = IF poll.aborted THEN Idle ELSE [poll EXCEPT !.pc = "dispatch"]
    /\ backoff' = IF poll.aborted THEN [backoff EXCEPT !.ms = AfterSuccess] ELSE backoff
    /\ UNCHANGED <<tip, table, others, left>>

\* dispatchPendingWebhookDeliveries: the oldest deliveries, ...
DispatchRead ==
    /\ poll.pc = "dispatch"
    /\ \E todo \in kSubset(Smaller(DispatchLimit, Cardinality(Deliveries)), Deliveries) :
          /\ \A d \in Deliveries \ todo, t \in todo : job[t].at <= job[d].at
          /\ poll' = [poll EXCEPT !.pc = "add", !.todo = todo]
    /\ UNCHANGED <<tip, cursor, backoff, table, others, left>>

\* Mutant: the jobs are added without a jobId.
DispatchAddAlways ==
    /\ poll.pc = "add"
    /\ \E d \in poll.todo :
          /\ job' = [job EXCEPT ![d] = [job[d] EXCEPT !.state = "waiting", !.tries = 0,
                                                   !.stalled = FALSE]]
          /\ poll' = [poll EXCEPT !.todo = @ \ {d}]
    /\ UNCHANGED <<tip, cursor, backoff, table, subs, replay, cleanup, left>>

\* ... each added under a jobId the queue may still have.  The row is to become
\* "processed", which is not in WebhookDeliveryStatus: the update fails, and the
\* delivery stays pending.
DispatchAdd ==
    /\ poll.pc = "add"
    /\ \E d \in poll.todo :
          /\ job' = [job EXCEPT ![d].state = IF @ = "none" THEN "waiting" ELSE @]
          /\ poll' = [poll EXCEPT !.todo = @ \ {d}]
    /\ UNCHANGED <<tip, cursor, backoff, table, subs, replay, cleanup, left>>

\* The pass is over, or Redis fails, and the cursor returns to where the cycle began.
EndCycle ==
    /\ poll.pc = "add"
    /\ IF poll.todo = {} THEN UNCHANGED left ELSE Occurs("error")
    /\ cursor' = [cursor EXCEPT !.at = poll.start]
    /\ poll' = Idle
    /\ backoff' = [backoff EXCEPT !.ms = AfterSuccess]
    /\ UNCHANGED <<tip, table, others>>

-----------------------------------------------------------------------------
\* The webhook worker.  Its jobs have no eventId and it has no Redis client: nothing
\* tells it that an event was posted before.
Waiting == {j \in DOMAIN job : job[j].state = "waiting"}  \* waiting, delayed or active

\* The POST is answered with 2xx, and the job is completed.
Deliver(j) ==
    /\ j \in Waiting
    /\ job' = [job EXCEPT ![j] = [job[j] EXCEPT !.state = "done", !.sent = @ + 1]]
    /\ UNCHANGED <<tip, loop, table, subs, replay, cleanup, left>>

\* An attempt fails: no connection, another answer, or one that comes too late, so that
\* the merchant may have got the POST.  After the last attempt the listener files a
\* dead letter, or logs that it could not.
AttemptFails(j) ==
    LET last == job[j].tries + 1 = MaxAttempts IN
    /\ j \in Waiting
    /\ Occurs("reject")
    /\ \E posted \in 0..1, filed \in IF last THEN 0..1 ELSE {0} :
          job' = [job EXCEPT ![j] = [job[j] EXCEPT !.tries = @ + 1, !.sent = @ + posted,
                                       !.state = IF last THEN "failed" ELSE @,
                                       !.dead = @ + filed]]
    /\ UNCHANGED <<tip, loop, table, subs, replay, cleanup>>

\* The job's lock is lost during an attempt, before or after the POST: the process died,
\* or was cut off from Redis.  BullMQ runs the job again, once.
Stall(j) ==
    /\ j \in Waiting
    /\ Occurs("stall")
    /\ \E posted \in 0..1 :
          job' = [job EXCEPT ![j] = [job[j] EXCEPT !.stalled = TRUE, !.sent = @ + posted,
                                       !.state = IF job[j].stalled THEN "failed" ELSE @]]
    /\ UNCHANGED <<tip, loop, table, subs, replay, cleanup>>

\* removeOnComplete, removeOnFail: the queue keeps so many finished jobs only, and
\* forgets the jobId of another.
Evict(d) ==
    /\ d \in Deliveries
    /\ job[d].state \in {"done", "failed"}
    /\ Occurs("evict")
    /\ job' = [job EXCEPT ![d] = [job[d] EXCEPT !.state = "none", !.tries = 0, !.stalled = FALSE,
                                            !.renewed = @ + 1]]
    /\ UNCHANGED <<tip, loop, table, subs, replay, cleanup>>

\* POST /api/admin/webhooks/dead-letter/:id/replay: a new job, which gets an id of its
\* own, is added, then the dead letter is removed.
ReplayDeadLetter(j) ==
    LET copies == {i \in DOMAIN job : i.event = j.event /\ i.id = j.id /\ i.sub = j.sub}
        new == [j EXCEPT !.copy = Cardinality(copies)]
    IN
    /\ job[j].dead > 0
    /\ \E removed \in 0..1 :
          /\ job' = [i \in DOMAIN job \cup {new} |->
                       IF i = new THEN [NewJob EXCEPT !.state = "waiting"]
                       ELSE IF i = j THEN [job[j] EXCEPT !.dead = @ - removed] ELSE job[i]]
          /\ IF removed = 1 THEN UNCHANGED left ELSE Occurs("error")
    /\ UNCHANGED <<tip, loop, table, subs, replay, cleanup>>

\* POST and DELETE /api/webhooks
Subscribe(s) ==
    /\ Occurs("subscribe")
    /\ subs' = [subs EXCEPT !.all = IF s \in @ THEN @ \ {s} ELSE @ \cup {s}, !.cached = Unset]
    /\ UNCHANGED <<tip, loop, table, job, replay, cleanup>>

\* POST /api/webhooks/:id/test: one attempt, whose result is awaited and recorded.
StartTest(s) ==
    /\ s \in subs.all
    /\ Occurs("test")
    /\ subs' = [subs EXCEPT !.test[s] = "sent"]
    /\ UNCHANGED <<tip, loop, table, job, replay, cleanup>>

EndTest(s) ==
    /\ subs.test[s] = "sent"
    /\ \E result \in IF s \in subs.all THEN {"success", "failed"} ELSE {"none"} :
          subs' = [subs EXCEPT !.test[s] = result]
    /\ UNCHANGED <<tip, loop, table, job, replay, cleanup, left>>

-----------------------------------------------------------------------------
\* POST /api/events/replay and /replay/contract/:contractId, refused only while the
\* worker runs the same range.
RequestReplay(range) ==
    /\ Occurs("replay")
    /\ replay.pc # "idle" => replay.range # range
    /\ replay' = [replay EXCEPT !.waiting = Append(@, [range |-> range, tries |-> 0])]
    /\ UNCHANGED <<tip, loop, table, job, subs, cleanup>>

\* The replay worker takes a job; a forced replay deletes the rows of the range.
StartReplay ==
    LET range == Head(replay.waiting).range IN
    /\ replay.pc = "idle" /\ replay.waiting # <<>> /\ poll.pc # "down"
    /\ row' = [e \in Events |-> IF range.force /\ Chain[e].ledger \in range.from..range.to
                                THEN 0 ELSE row[e]]
    /\ replay' = [waiting |-> Tail(replay.waiting), range |-> range,
                  tries |-> Head(replay.waiting).tries,
                  pc |-> "fetch", at |-> range.from, todo |-> {}]
    /\ UNCHANGED <<tip, loop, ids, indexed, made, job, subs, cleanup, left>>

EndReplay == [replay EXCEPT !.pc = "idle", !.todo = {}, !.at = 0, !.tries = 0]

\* A chunk from the replay's cursor on; the cursor passes every ledger in it, and the
\* chunk is the last one if it reaches the end of the range or is not full.
FetchChunk ==
    LET range == replay.range
        chunk == getEvents(replay.at, REPLAY_CHUNK_SIZE)
        todo == {e \in chunk : Chain[e].ledger <= range.to}
        final == Chain[Max(chunk)].ledger >= range.to \/ Cardinality(chunk) < REPLAY_CHUNK_SIZE
    IN
    /\ replay.pc = "fetch"
    /\ replay' = IF chunk = {} \/ todo = {} THEN EndReplay
                 ELSE [replay EXCEPT !.pc = IF final THEN "last" ELSE "create",
                         !.todo = IF range.force THEN todo ELSE todo \ Rows,
                         !.at = Max({Chain[e].ledger + 1 : e \in todo})]
    /\ UNCHANGED <<tip, loop, table, job, subs, cleanup, left>>

\* The events of the chunk one by one, an existing row (P2002) skipped; no deliveries.
CreateReplayed ==
    /\ replay.pc \in {"create", "last"}
    /\ IF replay.todo = {}
         THEN /\ replay' = IF replay.pc = "last" \/ replay.at > replay.range.to
                           THEN EndReplay ELSE [replay EXCEPT !.pc = "fetch"]
              /\ UNCHANGED table
         ELSE /\ InsertRows({Min(replay.todo)})
              /\ replay' = [replay EXCEPT !.todo = @ \ {Min(@)}]
    /\ UNCHANGED <<tip, loop, job, subs, cleanup, left>>

\* An error fails the attempt, and the second attempt is the last.
ReplayFails ==
    /\ replay.pc # "idle"
    /\ Occurs("error")
    /\ replay' = [EndReplay EXCEPT !.waiting =
                    IF replay.tries = 0 THEN Append(@, [range |-> replay.range, tries |-> 1]) ELSE @]
    /\ UNCHANGED <<tip, loop, table, job, subs, cleanup>>

\* cleanupOldEvents: events of jobs that are waiting are spared, ...
CleanupRead ==
    /\ cleanup = Unset
    /\ Occurs("cleanup")
    /\ cleanup' = {d.id : d \in Waiting}
    /\ UNCHANGED <<tip, loop, table, job, subs, replay>>

\* ... and the other rows older than the retention period are deleted.
CleanupDelete ==
    /\ cleanup # Unset
    /\ \E cutoff \in 1..ids :
          row' = [e \in Events |-> IF row[e] <= cutoff /\ row[e] \notin cleanup THEN 0 ELSE row[e]]
    /\ cleanup' = Unset
    /\ UNCHANGED <<tip, loop, ids, indexed, made, job, subs, replay, left>>

-----------------------------------------------------------------------------
\* The process ends (shutdown, or it dies); BullMQ returns its job to the queue.
Stop ==
    /\ poll.pc # "down"
    /\ Occurs("crash")
    /\ poll' = [Idle EXCEPT !.pc = "down"]
    /\ backoff' = [ms |-> 1, skips |-> 0]
    /\ subs' = [subs EXCEPT !.cached = Unset,
                            !.test = [s \in Subscriptions |-> IF @[s] = "sent" THEN "none" ELSE @[s]]]
    /\ cleanup' = Unset
    /\ replay' = [EndReplay EXCEPT !.waiting =
                    IF replay.pc = "idle" THEN @
                    ELSE Append(@, [range |-> replay.range, tries |-> replay.tries])]
    /\ UNCHANGED <<tip, cursor, table, job>>

\* discoverStartLedger: the override, or after the last ledger with a row, or the
\* backfill window, or ledger 1; a query that fails is passed over.
Backfill == IF tip > INITIAL_BACKFILL_LEDGERS THEN tip - INITIAL_BACKFILL_LEDGERS ELSE 1
discoverStartLedger(failing) ==
    IF INDEX_FROM_LEDGER > 0 THEN INDEX_FROM_LEDGER
    ELSE IF Rows # {} /\ "database" \notin failing THEN Max({Chain[e].ledger : e \in Rows}) + 1
    ELSE IF "rpc" \notin failing THEN Backfill ELSE 1

Start ==
    /\ poll.pc = "down"
    /\ \E failing \in SUBSET {"database", "rpc"} :
          /\ IF failing = {} THEN UNCHANGED left ELSE Occurs("error")
          /\ cursor' = [at |-> discoverStartLedger(failing), from |-> discoverStartLedger(failing)]
    /\ poll' = Idle
    /\ UNCHANGED <<tip, backoff, table, others>>

IndexerInit ==
    /\ tip = 1
    /\ poll = [Idle EXCEPT !.pc = "down"]
    /\ cursor = [at |-> 0, from |-> 0]
    /\ backoff = [ms |-> 1, skips |-> 0]
    /\ row = [e \in Events |-> 0] /\ ids = 0
    /\ job = <<>>
    /\ subs = [all |-> Old, cached |-> Unset, test |-> [s \in Subscriptions |-> "none"]]
    /\ replay = [waiting |-> <<>>, range |-> Unset, tries |-> 0, pc |-> "idle", at |-> 0, todo |-> {}]
    /\ cleanup = Unset
    /\ indexed = {} /\ made = [e \in Events |-> 0]
    /\ left = Allowed

Poll ==
    \/ Fetch \/ Insert \/ ReadBack \/ LoadSubscriptions \/ CreateDeliveries \/ Advance
    \/ DispatchRead \/ DispatchAdd

IndexerNext ==
    \/ CloseLedger
    \/ Poll \/ EndCycle \/ FetchAborted \/ PollTimeout \/ PollError
    \/ \E j \in DOMAIN job :
          Deliver(j) \/ AttemptFails(j) \/ Stall(j) \/ Evict(j) \/ ReplayDeadLetter(j)
    \/ \E s \in Subscriptions : Subscribe(s) \/ StartTest(s) \/ EndTest(s)
    \/ \E range \in ReplayRanges : RequestReplay(range)
    \/ StartReplay \/ FetchChunk \/ CreateReplayed \/ ReplayFails
    \/ CleanupRead \/ CleanupDelete
    \/ Stop \/ Start

IndexerSpec == IndexerInit /\ [][IndexerNext]_indexerVars

\* A scheduled cycle runs, its steps are answered or fail, an instance is started
\* again, and ledgers keep closing.
FairIndexerSpec ==
    /\ IndexerSpec
    /\ WF_indexerVars(Poll \/ EndCycle) /\ WF_indexerVars(Start) /\ WF_indexerVars(CloseLedger)

-----------------------------------------------------------------------------
\* Every variable stays in its type; the backoff stays between its base and its limit.
TypeOK ==
    /\ tip \in 1..MaxLedger
    /\ poll.pc \in {"down", "idle", "insert", "readback", "load", "deliver", "advance",
                    "dispatch", "add"}
    /\ backoff \in [ms : 1..MAX_BACKOFF, skips : 0..MAX_CONSECUTIVE_SKIPS]
    /\ \A e \in Events : row[e] \in 0..ids
    /\ \A d, e \in Rows : row[d] = row[e] => d = e
    /\ Rows \subseteq indexed
    /\ subs.all \subseteq Subscriptions
    /\ replay.tries \in 0..1
    /\ \A kind \in Occurrences : left[kind] \in 0..Allowed[kind]

\* The same page is fetched cycle after cycle, and replays and restarts read it too;
\* still an event has no more deliveries to a subscription than rows were created for
\* it (more than one row only after a cleanup or a forced replay).
DeliveriesMatchRows ==
    \A e \in Events, s \in Subscriptions :
        Cardinality({d \in Deliveries : d.event = e /\ d.sub = s}) <= made[e]

\* Deliveries stay pending and are dispatched in every cycle; but the jobId keeps the
\* merchant from getting more POSTs than one job can make, each time the queue has the
\* job: one in each attempt, as attempts fail after the merchant got the POST, and one
\* more, as a stalled job is run again without an attempt being counted.
BoundedPosts ==
    \A j \in DOMAIN job : job[j].sent <= (MaxAttempts + 1) * (1 + job[j].renewed)

\* "No ledger loss", as far as it goes: when the cursor has passed a ledger since the
\* start, its valid events have been indexed, or at least one of them has (the rest of
\* a ledger that a page or an aborted cycle cut in two is lost).
PassedIsIndexed ==
    \A e \in Events :
        Chain[e].valid /\ Chain[e].ledger \in cursor.from..(cursor.at - 1)
        => \E d \in indexed : d = e \/ Chain[d].ledger = Chain[e].ledger

\* The events on the page a cycle is about to fetch are indexed, despite timeouts, errors,
\* aborted cycles, replays and cleanups, unless the process stops or the cursor has
\* passed them.
FirstPageIndexed ==
    \A e \in Events :
        poll.pc = "idle" /\ Chain[e].valid /\ e \in getEvents(cursor.at, PageLimit)
        ~> e \in indexed \/ poll.pc = "down" \/ Chain[e].ledger < cursor.at

\* The poll catches up: every valid event after the start is indexed in the end.
CatchesUp ==
    <>[](\A e \in Events : Chain[e].valid /\ Chain[e].ledger >= cursor.from => e \in indexed)
===============================================================================
