------------------------------- MODULE Payments -------------------------------
(***************************************************************************)
(* Payments and merchants in the API gateway: idempotent creation behind   *)
(* the merchant cache, the status route, bulk cancellation with replayable *)
(* summaries, the abandoned-payments job, suspension, soft deletion and its*)
(* cascade, restoring, settings, the settlement status route, the domain   *)
(* events with their consumer, and the catalogue of supported assets with  *)
(* its cache.  Requests to one gateway instance interleave at every await. *)
(***************************************************************************)
EXTENDS Naturals, FiniteSets

CONSTANTS
    Slots,        \* requests and job runs in progress at the same time
    MaxRequests,  \* bound on the requests received and job runs
    PayIds,       \* identities of payments, Old among them
    Old,          \* a payment that exists initially
    Keys,         \* Idempotency-Key values
    NoKey,        \* the header is absent
    None,         \* null, nothing read
    Settings,     \* keys of the merchant's settings
    MaxFaults     \* bound on database, Redis and queue errors and crashes

ASSUME PaymentsAssumption ==
    /\ Old \in PayIds /\ NoKey \notin Keys
    /\ None \notin PayIds \cup Keys \cup {"active", "suspended"} /\ None \notin BOOLEAN
    /\ {MaxRequests, MaxFaults} \subseteq Nat

VARIABLES
    req,         \* slot -> the request it serves
    received,    \* requests received so far
    merchant,    \* the merchant's row: status, deleted, settings
    cached,      \* merchantCache: the status it holds, None if nothing
    pay,         \* payment -> [status, key, live]; status "none" if not created
    settlement,  \* status of a settlement of the merchant
    summary,     \* Redis: bulk-cancel key -> ids reported cancelled, None if unset
    events,      \* payments whose payment.created is queued
    mirror,      \* payments in paymentMirror
    notified,    \* payments whose payment.expired webhook was enqueued
    answers,     \* key -> payments named in answers while the key lives: history
    cancelled,   \* payments that have been cancelled: history
    inForce,     \* the suspension was answered and no older row was being cached: history
    asset,       \* a row of SupportedAsset: active, inactive, or none
    listed,      \* Redis: whether the cached list of assets names it, None if unset
    pinned,      \* since its last change the cached list was dropped, while no older one was
                 \* being cached: history
    announced,   \* its last change was answered: history
    quoted,      \* the FX client holds a last good quote
    faults       \* faults so far

rows == <<merchant, cached, pay, settlement>>
queues == <<summary, events, mirror, notified>>
history == <<answers, cancelled, inForce>>
catalogue == <<asset, listed, pinned, announced, quoted>>
vars == <<req, received, rows, queues, history, catalogue, faults>>

PAYMENT_STATUS_TRANSITIONS ==
    [initiated |-> {"completed", "failed", "cancelled"},
     completed |-> {}, failed |-> {}, cancelled |-> {}]
SETTLEMENT_STATUS_TRANSITIONS ==
    [pending |-> {"processing", "failed"}, processing |-> {"completed", "failed"},
     completed |-> {}, failed |-> {}]

Kinds == {"create", "status", "bulk", "sweep", "suspend", "unsuspend", "delete", "restore",
          "settings", "settlement", "assets", "asset"}
Pcs == {"idle", "begin", "fill", "lookup", "quote", "insert", "raced", "emit", "write", "save",
        "notify", "invalidate"}
Idle == [kind |-> "create", pc |-> "idle", arg |-> None, key |-> NoKey, saw |-> None,
         late |-> FALSE]

Created == {p \in PayIds : pay[p].status # "none"}
Initiated == {p \in PayIds : pay[p].status = "initiated"}
Holding(k) == {p \in Created : pay[p].key = k}
LiveWith(k) == {p \in Holding(k) : pay[p].live}

-----------------------------------------------------------------------------
At(s, kind, pc) == req[s].kind = kind /\ req[s].pc = pc
Goto(s, pc) == req' = [req EXCEPT ![s].pc = pc]
Saw(s, x, pc) == req' = [req EXCEPT ![s] = [@ EXCEPT !.saw = x, !.pc = pc]]
Respond(s) == req' = [req EXCEPT ![s] = Idle]

\* Payments ps get status st.
SetStatus(ps, st) ==
    /\ pay' = [p \in PayIds |-> IF p \in ps THEN [pay[p] EXCEPT !.status = st] ELSE pay[p]]
    /\ cancelled' = IF st = "cancelled" THEN cancelled \cup ps ELSE cancelled

\* A request arrives or a job run starts.
Receive(s, kind, arg, key) ==
    /\ req[s].pc = "idle"
    /\ received < MaxRequests
    /\ received' = received + 1
    /\ req' = [req EXCEPT ![s] = [Idle EXCEPT !.kind = kind, !.pc = "begin", !.arg = arg, !.key = key,
                                      !.late = IF kind = "assets" THEN pinned ELSE inForce]]
    /\ UNCHANGED <<rows, queues, history, catalogue, faults>>

-----------------------------------------------------------------------------
\* POST /api/payments: the merchant from the cache, or else from the database.
ReadMerchant(s) ==
    /\ At(s, "create", "begin")
    /\ IF cached # None
         THEN IF cached = "suspended" THEN Respond(s) ELSE Goto(s, "lookup")
         ELSE Saw(s, IF merchant.deleted THEN None ELSE merchant.status, "fill")
    /\ UNCHANGED <<received, rows, queues, history, catalogue, faults>>

\* getCachedMerchant caches what its loader returned, whatever happened meanwhile.
FillCache(s) ==
    /\ At(s, "create", "fill")
    /\ cached' = IF req[s].saw = None THEN cached ELSE req[s].saw
    /\ IF req[s].saw = "active" THEN Goto(s, "lookup") ELSE Respond(s)
    /\ UNCHANGED <<received, merchant, pay, settlement, queues, history, catalogue, faults>>

\* The TTL of the cache entry ends.
CacheExpires ==
    /\ cached # None
    /\ cached' = None
    /\ UNCHANGED <<req, received, merchant, pay, settlement, queues, history, catalogue, faults>>

\* An unexpired payment with the key is the answer.
Lookup(s) ==
    LET k == req[s].key IN
    /\ At(s, "create", "lookup")
    /\ IF k # NoKey /\ LiveWith(k) # {}
         THEN Respond(s) /\ answers' = [answers EXCEPT ![k] = @ \cup LiveWith(k)]
         ELSE Goto(s, "quote") /\ UNCHANGED answers
    /\ UNCHANGED <<received, rows, queues, cancelled, inForce, catalogue, faults>>

\* What the FX client makes of its call: a quote, which it keeps; no quote after an
\* error; or after a read timeout the last good quote, for whatever amount, if any.
GetQuote ==
    {[reply |-> "quote", kept |-> TRUE], [reply |-> "none", kept |-> quoted],
     [reply |-> IF quoted THEN "stale" ELSE "timeout", kept |-> quoted]}

\* convertTo asks for a quote; without one a read timeout is answered 503.
Quote(s) ==
    /\ At(s, "create", "quote")
    /\ \E q \in GetQuote :
          /\ quoted' = q.kept
          /\ IF q.reply = "timeout" THEN Respond(s) ELSE Goto(s, "insert")
    /\ UNCHANGED <<received, rows, queues, history, asset, listed, pinned, announced, faults>>

\* Mutant: the key is left out of the row.
InsertWithoutKey(s) ==
    /\ At(s, "create", "insert")
    /\ \E p \in PayIds \ Created :
          /\ pay' = [pay EXCEPT ![p] = [status |-> "initiated", key |-> NoKey, live |-> TRUE]]
          /\ answers' = [k \in Keys |-> IF k = req[s].key THEN answers[k] \cup {p} ELSE answers[k]]
          /\ Saw(s, p, "emit")
    /\ UNCHANGED <<received, merchant, cached, settlement, queues, cancelled, inForce, catalogue, faults>>

\* The insert, unless another row holds the key, expired or not (P2002).
Insert(s) ==
    LET k == req[s].key IN
    /\ At(s, "create", "insert")
    /\ IF k # NoKey /\ Holding(k) # {}
         THEN Goto(s, "raced") /\ UNCHANGED <<pay, answers>>
         ELSE \E p \in PayIds \ Created :
                /\ pay' = [pay EXCEPT ![p] = [status |-> "initiated", key |-> k, live |-> TRUE]]
                /\ answers' = [x \in Keys |-> IF x = k THEN answers[x] \cup {p} ELSE answers[x]]
                /\ Saw(s, p, "emit")
    /\ UNCHANGED <<received, merchant, cached, settlement, queues, cancelled, inForce, catalogue, faults>>

\* After P2002: the unexpired winner, or an error.
Raced(s) ==
    LET k == req[s].key IN
    /\ At(s, "create", "raced")
    /\ answers' = [answers EXCEPT ![k] = @ \cup LiveWith(k)]
    /\ Respond(s)
    /\ UNCHANGED <<received, rows, queues, cancelled, inForce, catalogue, faults>>

\* domainEvents.add after the commit.
Emit(s) ==
    /\ At(s, "create", "emit")
    /\ events' = events \cup {req[s].saw}
    /\ Respond(s)
    /\ UNCHANGED <<received, rows, summary, mirror, notified, history, catalogue, faults>>

\* createDomainEventProcessor upserts the mirror row, if the table is there; a
\* failed upsert ends the job too.
Consume(p) ==
    /\ p \in events
    /\ events' = events \ {p}
    /\ mirror' \in {mirror, mirror \cup {p}}
    /\ UNCHANGED <<req, received, rows, summary, notified, history, catalogue, faults>>

\* 24 hours after its creation the key of p expires.
KeyExpires(p) ==
    /\ pay[p].live /\ pay[p].key # NoKey
    /\ pay' = [pay EXCEPT ![p].live = FALSE]
    /\ answers' = [answers EXCEPT ![pay[p].key] = {}]
    /\ UNCHANGED <<req, received, merchant, cached, settlement, queues, cancelled, inForce, catalogue, faults>>

\* reclaimExpiredIdempotencyKeys on the payments.
ReclaimExpiredKeys ==
    /\ \E p \in Created : ~pay[p].live
    /\ pay' = [p \in PayIds |-> IF pay[p].live THEN pay[p]
                                ELSE [pay[p] EXCEPT !.key = NoKey, !.live = TRUE]]
    /\ UNCHANGED <<req, received, merchant, cached, settlement, queues, history, catalogue, faults>>

-----------------------------------------------------------------------------
\* Mutant: the transition is not validated.
ReadAnyStatus(s) ==
    LET p == req[s].arg.p IN
    /\ At(s, "status", "begin")
    /\ IF p \in Created THEN Saw(s, pay[p].status, "write") ELSE Respond(s)
    /\ UNCHANGED <<received, rows, queues, history, catalogue, faults>>

\* PATCH /api/payments/:id/status: findUnique and the transition table, ...
ReadStatus(s) ==
    LET p == req[s].arg.p IN
    /\ At(s, "status", "begin")
    /\ IF p \in Created /\ req[s].arg.to \in PAYMENT_STATUS_TRANSITIONS[pay[p].status]
         THEN Saw(s, pay[p].status, "write") ELSE Respond(s)
    /\ UNCHANGED <<received, rows, queues, history, catalogue, faults>>

\* ... then the update by id.
WriteStatus(s) ==
    /\ At(s, "status", "write")
    /\ SetStatus({req[s].arg.p}, req[s].arg.to)
    /\ Respond(s)
    /\ UNCHANGED <<received, merchant, cached, settlement, queues, answers, inForce, catalogue, faults>>

\* POST /api/payments/bulk-cancel: a stored summary is replayed.
BulkReplay(s) ==
    /\ At(s, "bulk", "begin")
    /\ IF req[s].key # NoKey /\ summary[req[s].key] # None THEN Respond(s) ELSE Goto(s, "lookup")
    /\ UNCHANGED <<received, rows, queues, history, catalogue, faults>>

\* Mutant: the summary is kept before the transaction.
BulkSaveFirst(s) ==
    /\ At(s, "bulk", "lookup")
    /\ LET todo == req[s].arg \cap Initiated IN
         /\ Saw(s, [report |-> todo, todo |-> todo], "write")
         /\ summary' = [k \in Keys |-> IF k = req[s].key THEN todo ELSE summary[k]]
    /\ UNCHANGED <<received, rows, events, mirror, notified, history, catalogue, faults>>

\* The rows are read: saw is what is reported cancelled, and what is to be cancelled.
BulkRead(s) ==
    LET ids == req[s].arg \cap Created
        todo == ids \cap Initiated
    IN
    /\ At(s, "bulk", "lookup")
    /\ Saw(s, [report |-> todo \cup {p \in ids : pay[p].status = "cancelled"}, todo |-> todo],
           IF todo # {} THEN "write" ELSE "save")
    /\ UNCHANGED <<received, rows, queues, history, catalogue, faults>>

\* One transaction updates them by id.
BulkWrite(s) ==
    /\ At(s, "bulk", "write")
    /\ SetStatus(req[s].saw.todo, "cancelled")
    /\ Goto(s, "save")
    /\ UNCHANGED <<received, merchant, cached, settlement, queues, answers, inForce, catalogue, faults>>

\* The summary is stored and sent.
BulkSave(s) ==
    /\ At(s, "bulk", "save")
    /\ summary' = [k \in Keys |-> IF k = req[s].key THEN req[s].saw.report ELSE summary[k]]
    /\ Respond(s)
    /\ UNCHANGED <<received, rows, events, mirror, notified, history, catalogue, faults>>

\* autoExpireAbandonedPayments: initiated payments that are old enough (one page),
\* updateMany by id, and the webhooks.
SweepRead(s) ==
    /\ At(s, "sweep", "begin")
    /\ \E ps \in SUBSET Initiated :
          IF ps = {} THEN Respond(s) ELSE Saw(s, ps, "write")
    /\ UNCHANGED <<received, rows, queues, history, catalogue, faults>>

SweepWrite(s) ==
    /\ At(s, "sweep", "write")
    /\ SetStatus(req[s].saw, "cancelled")
    /\ Goto(s, "notify")
    /\ UNCHANGED <<received, merchant, cached, settlement, queues, answers, inForce, catalogue, faults>>

SweepNotify(s) ==
    /\ At(s, "sweep", "notify")
    /\ notified' = notified \cup req[s].saw
    /\ Respond(s)
    /\ UNCHANGED <<received, rows, summary, events, mirror, history, catalogue, faults>>

-----------------------------------------------------------------------------
\* suspendMerchant: 404 for a deleted merchant, 409 if there is nothing to do.
SuspendRead(s) ==
    LET to == IF req[s].kind = "suspend" THEN "suspended" ELSE "active" IN
    /\ req[s].kind \in {"suspend", "unsuspend"} /\ req[s].pc = "begin"
    /\ IF merchant.deleted \/ merchant.status = to THEN Respond(s) ELSE Saw(s, to, "write")
    /\ UNCHANGED <<received, rows, queues, history, catalogue, faults>>

SuspendWrite(s) ==
    /\ req[s].kind \in {"suspend", "unsuspend"} /\ req[s].pc = "write"
    /\ merchant' = [merchant EXCEPT !.status = req[s].saw]
    /\ inForce' = FALSE
    /\ req' = [x \in Slots |-> IF x = s THEN [req[x] EXCEPT !.pc = "invalidate"]
                               ELSE IF req[x].kind = "assets" THEN req[x]
                               ELSE [req[x] EXCEPT !.late = FALSE]]
    /\ UNCHANGED <<received, cached, pay, settlement, queues, answers, cancelled, catalogue, faults>>

\* The suspension holds from here on, unless a row read before is about to be cached.
Holds == merchant.status = "suspended" /\ ~\E x \in Slots : At(x, "create", "fill")
                                                          /\ req[x].saw = "active"

\* Mutant: the cache is left alone.
InvalidateNothing(s) ==
    /\ req[s].kind \in {"suspend", "unsuspend", "settings"} /\ req[s].pc = "invalidate"
    /\ inForce' = Holds
    /\ Respond(s)
    /\ UNCHANGED <<received, rows, queues, answers, cancelled, catalogue, faults>>

\* merchantCache.invalidate after the commit, and the reply.
Invalidate(s) ==
    /\ req[s].kind \in {"suspend", "unsuspend", "settings"} /\ req[s].pc = "invalidate"
    /\ cached' = None
    /\ inForce' = Holds
    /\ Respond(s)
    /\ UNCHANGED <<received, merchant, pay, settlement, queues, answers, cancelled, catalogue, faults>>

\* DELETE, restore and PATCH settings read the row, ...
MerchantRead(s) ==
    LET kind == req[s].kind IN
    /\ kind \in {"delete", "restore", "settings"} /\ req[s].pc = "begin"
    /\ IF merchant.deleted = (kind = "restore") THEN Saw(s, merchant.settings, "write")
                                               ELSE Respond(s)
    /\ UNCHANGED <<received, rows, queues, history, catalogue, faults>>

\* ... then DELETE cancels initiated payments and fails pending settlements in the
\* transaction of the deletion.  The merchant cache is not invalidated.
DeleteWrite(s) ==
    /\ At(s, "delete", "write")
    /\ merchant' = [merchant EXCEPT !.deleted = TRUE]
    /\ SetStatus(Initiated, "cancelled")
    /\ settlement' = IF settlement = "pending" THEN "failed" ELSE settlement
    /\ Respond(s)
    /\ UNCHANGED <<received, cached, queues, answers, inForce, catalogue, faults>>

RestoreWrite(s) ==
    /\ At(s, "restore", "write")
    /\ merchant' = [merchant EXCEPT !.deleted = FALSE]
    /\ Respond(s)
    /\ UNCHANGED <<received, cached, pay, settlement, queues, history, catalogue, faults>>

\* The settings read before are merged with the new ones and written back.
SettingsWrite(s) ==
    /\ At(s, "settings", "write")
    /\ merchant' = [merchant EXCEPT !.settings = req[s].saw \cup {req[s].arg}]
    /\ Goto(s, "invalidate")
    /\ UNCHANGED <<received, cached, pay, settlement, queues, history, catalogue, faults>>

\* PATCH /api/settlements/:id/status
SettlementRead(s) ==
    /\ At(s, "settlement", "begin")
    /\ IF req[s].arg \in SETTLEMENT_STATUS_TRANSITIONS[settlement] THEN Goto(s, "write")
                                                                  ELSE Respond(s)
    /\ UNCHANGED <<received, rows, queues, history, catalogue, faults>>

SettlementWrite(s) ==
    /\ At(s, "settlement", "write")
    /\ settlement' = req[s].arg
    /\ Respond(s)
    /\ UNCHANGED <<received, merchant, cached, pay, queues, history, catalogue, faults>>

-----------------------------------------------------------------------------
\* GET /api/assets: the cached list, ...
ListCached(s) ==
    /\ At(s, "assets", "begin")
    /\ IF listed # None THEN Respond(s) ELSE Goto(s, "lookup")
    /\ UNCHANGED <<received, rows, queues, history, catalogue, faults>>

\* ... or else the active rows, ...
ListRead(s) ==
    /\ At(s, "assets", "lookup")
    /\ Saw(s, asset = "active", "fill")
    /\ UNCHANGED <<received, rows, queues, history, catalogue, faults>>

\* ... which are then cached for five minutes.
ListFill(s) ==
    /\ At(s, "assets", "fill")
    /\ listed' = req[s].saw
    /\ Respond(s)
    /\ UNCHANGED <<received, rows, queues, history, asset, pinned, announced, quoted, faults>>

\* The change holds from here on, unless an older list is about to be cached.
ListHolds == ~\E x \in Slots : At(x, "assets", "fill") /\ req[x].saw # (asset = "active")

ListExpires ==
    /\ listed # None
    /\ listed' = None
    /\ pinned' = ListHolds
    /\ UNCHANGED <<req, received, rows, queues, history, asset, announced, quoted, faults>>

\* An administrator's change of the row: one statement, then the audit record.
ChangeAsset(s, to) ==
    /\ asset' = to
    /\ pinned' = FALSE /\ announced' = FALSE
    /\ req' = [x \in Slots |-> IF x = s THEN [req[x] EXCEPT !.pc = "invalidate"]
                               ELSE IF req[x].kind = "assets" THEN [req[x] EXCEPT !.late = FALSE]
                               ELSE req[x]]
    /\ UNCHANGED <<received, rows, queues, history, listed, quoted, faults>>

RefuseAsset(s) == Respond(s) /\ UNCHANGED <<received, rows, queues, history, catalogue, faults>>

\* POST: 409 if the code exists.
CreateAsset(s) ==
    /\ At(s, "asset", "begin") /\ req[s].arg = "create"
    /\ IF asset # "none" THEN RefuseAsset(s)
       ELSE \E to \in {"active", "inactive"} : ChangeAsset(s, to)

\* PATCH: 404 if it does not; isActive may be left as it is.
UpdateAsset(s) ==
    /\ At(s, "asset", "begin") /\ req[s].arg = "update"
    /\ IF asset = "none" THEN RefuseAsset(s)
       ELSE \E to \in {"active", "inactive"} : ChangeAsset(s, to)

\* DELETE: 404 if it does not exist.
DeleteAsset(s) ==
    /\ At(s, "asset", "begin") /\ req[s].arg = "delete"
    /\ IF asset = "none" THEN RefuseAsset(s) ELSE ChangeAsset(s, "none")

\* Both caches of the list are emptied, and the change is answered.
InvalidateList(s) ==
    /\ At(s, "asset", "invalidate")
    /\ listed' = None
    /\ pinned' = ListHolds /\ announced' = TRUE
    /\ Respond(s)
    /\ UNCHANGED <<received, rows, queues, history, asset, quoted, faults>>

\* A DEL that fails is ignored and the change answered all the same: the cached
\* list is dropped, if only the reply was lost, or left as it was.
InvalidateListFails(s) ==
    /\ At(s, "asset", "invalidate")
    /\ faults < MaxFaults
    /\ faults' = faults + 1
    /\ listed' \in {listed, None}
    /\ announced' = TRUE
    /\ Respond(s)
    /\ UNCHANGED <<received, rows, queues, history, asset, pinned, quoted>>

CatalogueStep(s) ==
    \/ ListCached(s) \/ ListRead(s) \/ ListFill(s)
    \/ CreateAsset(s) \/ UpdateAsset(s) \/ DeleteAsset(s)
    \/ InvalidateList(s) \/ InvalidateListFails(s)

-----------------------------------------------------------------------------
\* An error of the database, Redis or a queue, or a crash, ends the request; where
\* the code catches it the request goes on without the effect.
Fail(s) ==
    LET r == req[s] IN
    /\ faults < MaxFaults
    /\ faults' = faults + 1
    /\ r.pc # "idle"
    /\ IF r.kind \in {"bulk", "assets"} /\ r.pc = "begin" THEN Goto(s, "lookup") ELSE Respond(s)
    /\ UNCHANGED <<received, rows, queues, history, catalogue>>

Init ==
    /\ req = [s \in Slots |-> Idle]
    /\ received = 0
    /\ merchant = [status |-> "active", deleted |-> FALSE, settings |-> {}]
    /\ cached = None
    /\ pay = [p \in PayIds |-> [status |-> IF p = Old THEN "initiated" ELSE "none",
                                key |-> NoKey, live |-> TRUE]]
    /\ settlement = "pending"
    /\ summary = [k \in Keys |-> None]
    /\ events = {} /\ mirror = {} /\ notified = {}
    /\ answers = [k \in Keys |-> {}]
    /\ cancelled = {} /\ inForce = FALSE
    /\ asset = "active" /\ listed = None /\ pinned = FALSE /\ announced = FALSE /\ quoted = FALSE
    /\ faults = 0

Arrival(s) ==
    \/ \E k \in Keys \cup {NoKey} :
          \/ Receive(s, "create", None, k)
          \/ \E ps \in SUBSET PayIds : ps # {} /\ Receive(s, "bulk", ps, k)
    \/ \E p \in PayIds, to \in {"completed", "failed", "cancelled"} :
          Receive(s, "status", [p |-> p, to |-> to], NoKey)
    \/ \E kind \in {"sweep", "suspend", "unsuspend", "delete", "restore", "assets"} :
          Receive(s, kind, None, NoKey)
    \/ \E x \in Settings : Receive(s, "settings", x, NoKey)
    \/ \E x \in {"create", "update", "delete"} : Receive(s, "asset", x, NoKey)
    \/ \E to \in {"processing", "completed", "failed"} : Receive(s, "settlement", to, NoKey)

Step(s) ==
    \/ ReadMerchant(s) \/ FillCache(s) \/ Lookup(s) \/ Quote(s) \/ Insert(s) \/ Raced(s) \/ Emit(s)
    \/ ReadStatus(s) \/ WriteStatus(s)
    \/ BulkReplay(s) \/ BulkRead(s) \/ BulkWrite(s) \/ BulkSave(s)
    \/ SweepRead(s) \/ SweepWrite(s) \/ SweepNotify(s)
    \/ SuspendRead(s) \/ SuspendWrite(s) \/ Invalidate(s)
    \/ MerchantRead(s) \/ DeleteWrite(s) \/ RestoreWrite(s) \/ SettingsWrite(s)
    \/ SettlementRead(s) \/ SettlementWrite(s)
    \/ CatalogueStep(s)

Next ==
    \/ \E s \in Slots : Arrival(s) \/ Step(s) \/ Fail(s)
    \/ \E p \in PayIds : Consume(p) \/ KeyExpires(p)
    \/ CacheExpires \/ ListExpires \/ ReclaimExpiredKeys

Spec == Init /\ [][Next]_vars

-----------------------------------------------------------------------------
\* Every variable stays in its type, and a queued or mirrored event is that of a
\* committed payment.
TypeOK ==
    /\ \A s \in Slots : req[s].kind \in Kinds /\ req[s].pc \in Pcs /\ req[s].late \in BOOLEAN
    /\ received \in 0..MaxRequests /\ faults \in 0..MaxFaults
    /\ merchant \in [status : {"active", "suspended"}, deleted : BOOLEAN,
                     settings : SUBSET Settings]
    /\ cached \in {"active", "suspended", None}
    /\ \A p \in PayIds : pay[p].status \in DOMAIN PAYMENT_STATUS_TRANSITIONS \cup {"none"}
                         /\ pay[p].key \in Keys \cup {NoKey} /\ pay[p].live \in BOOLEAN
    /\ settlement \in DOMAIN SETTLEMENT_STATUS_TRANSITIONS
    /\ summary \in [Keys -> SUBSET PayIds \cup {None}]
    /\ events \cup mirror \cup notified \cup cancelled \subseteq Created
    /\ answers \in [Keys -> SUBSET PayIds]
    /\ {inForce, pinned, announced, quoted} \subseteq BOOLEAN
    /\ asset \in {"active", "inactive", "none"} /\ listed \in BOOLEAN \cup {None}

\* Idempotent creation: while a key lives, all requests with it that are answered
\* with a payment are answered with the same one, whatever overlaps (a lookup that
\* misses, P2002, the reclaim job, crashes between commit and reply).
RetriesSeeOnePayment == \A k \in Keys : Cardinality(answers[k]) <= 1

\* A request to create a payment that arrives after a suspension was answered is
\* refused, the cache notwithstanding, unless a row read before the suspension was
\* being cached while it was answered.
SuspensionTakesHold ==
    \A s \in Slots : req[s].late /\ req[s].kind = "create" => req[s].pc \in {"idle", "begin", "fill"}

\* A request for the list of assets is answered with the last change of the catalogue,
\* be it from the cache or from the table, if it arrives after the cached list was
\* dropped: by the handler that made the change, before it answers, or, if its DEL
\* failed, when the five minutes of the list end.  The exception is a list read before
\* the change that was being cached while the other was dropped.
ListingTakesHold ==
    \A s \in Slots : req[s].late /\ req[s].kind = "assets" =>
        /\ req[s].pc = "begin" => listed \in {None, asset = "active"}
        /\ req[s].pc = "fill" => req[s].saw = (asset = "active")

\* What an administrator was answered holds, in spite of both caches, from the moment
\* on at which the code can promise it.
AnsweredChangesHold == SuspensionTakesHold /\ ListingTakesHold

\* A change that was answered is in the list at once, as the comments of the three
\* handlers say.  It is not, if the DEL fails or an older list is cached after it.
VisibleImmediately == announced => listed \in {None, asset = "active"}

\* A final payment status changes only under a writer that had read the payment as
\* initiated: each writer alone respects the transition table, and only one that
\* was overtaken between its read and its update leaves a final status.
ReadAsInitiated(s, p) ==
    \/ At(s, "status", "write") /\ req[s].arg.p = p /\ req[s].saw = "initiated"
    \/ At(s, "bulk", "write") /\ p \in req[s].saw.todo
    \/ At(s, "sweep", "write") /\ p \in req[s].saw
FinalUnlessOvertaken ==
    [][\A p \in PayIds :
          pay[p].status \in {"completed", "failed", "cancelled"} /\ pay'[p].status # pay[p].status
          => \E s \in Slots : ReadAsInitiated(s, p)]_vars

\* Whatever a stored bulk-cancel summary reports as cancelled has been cancelled.
ReportedCancelled == \A k \in Keys : summary[k] # None => summary[k] \subseteq cancelled

=============================================================================
