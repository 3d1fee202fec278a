---------------------------- MODULE SettlementLedger ---------------------------
(***************************************************************************)
(* The Settlement table as both services use it: the settlement engine     *)
(* prices new rows with a discount for the month's volume, which it caches *)
(* in Redis, its worker moves them, the gateway patches their status and   *)
(* fails a deleted merchant's rows, and the two reconciliation routes      *)
(* compare the engine's own reads with the gateway's listing.              *)
(* Idempotency, limits and queueing are in SettlementIntake,               *)
(* BulkSettlement, SettlementRetry and SettlementEngine.                   *)
(***************************************************************************)
EXTENDS Integers, FiniteSets, FiniteSetsExt, Functions, SettlementStatus

CONSTANTS
    Merchants, Clients,
    Ids,                    \* row ids, in the order the report pages through
    Asks,                   \* requests: [gross, unit]; unit is the last decimal place
    Tiers,                  \* FEE_DISCOUNT_TIERS: [volumeUsd, discountBps]
    FeeBps,                 \* the merchants' fee
    Limits,                 \* the merchants' settlement limits: [min, max, daily]
    MAX_SETTLEMENT_AMOUNT,
    Whole,                  \* the smallest amount's units in one whole currency unit
    ListLimit,              \* rows on the gateway's listing page
    ReportPage,             \* rows the report reads at a time
    LastMonth,
    MaxOccurrences,         \* bound on the writes, audits, errors and other occurrences
    All, None

ASSUME LedgerAssumption ==
    /\ Ids \subseteq Nat /\ IsFiniteSet(Ids) /\ IsFiniteSet(Tiers)
    /\ LastMonth \in Nat /\ MaxOccurrences \in Nat
    /\ Limits \in [{"min", "max", "daily"} -> Nat]
    /\ FeeBps \in 0..10000 /\ MAX_SETTLEMENT_AMOUNT \in Nat
    /\ {Whole, ListLimit, ReportPage} \subseteq Nat \ {0}
    /\ \A a \in Asks : a.gross \in Nat \ {0} /\ a.unit \in 1..Whole
    /\ \A t \in Tiers : t.volumeUsd \in Nat /\ t.discountBps \in Nat

Months == 0..LastMonth

VARIABLES
    rows,        \* id -> row, of the ids that are taken
    month,
    deleted,     \* soft-deleted merchants
    monthlyVol,  \* Redis: merchant -> month -> cached volume, or None
    client,      \* settlement requests
    worker,      \* the engine's worker: the write it has validated, or None
    patch,       \* PATCH /api/settlements/:id/status: the write it has validated, or None
    audit,       \* a reconciliation
    left,        \* occurrences left
    seen         \* merchant -> month -> the volumes it has had: history

table == <<rows, seen>>
ledgerVars == <<table, month, deleted, monthlyVol, client, worker, patch, audit, left>>

Occurs == left > 0 /\ left' = left - 1

-----------------------------------------------------------------------------
Existing == DOMAIN rows

\* The discount of the highest tier the volume reaches.
resolveVolumeDiscount(volume) ==
    LET reached == {t \in Tiers : volume > 0 /\ volume >= t.volumeUsd}
    IN  IF reached = {} THEN 0
        ELSE Max({t.discountBps : t \in {u \in reached :
                    \A v \in reached : v.volumeUsd <= u.volumeUsd}})

\* The fee, rounded down at the decimals of the request.
computeSettlementAmounts(ask, volume) ==
    LET discount == Min({resolveVolumeDiscount(volume), FeeBps})
        fee == ((ask.gross * (FeeBps - discount)) \div (10000 * ask.unit)) * ask.unit
    IN  [gross |-> ask.gross, fee |-> fee, net |-> ask.gross - fee,
         feeBpsApplied |-> FeeBps - discount, discount |-> discount, volume |-> volume]

\* The rows' gross sum since the month began, failed rows left out.
VolumeOf(table_, m, k) ==
    MapThenSumSet(LAMBDA id : table_[id].gross,
        {id \in DOMAIN table_ : /\ table_[id].merchant = m /\ table_[id].month >= k
                                /\ table_[id].status # "failed"})

\* Every change of the table is seen in the volumes' history.
Store(newRows) ==
    /\ rows' = newRows
    /\ seen' = [m \in Merchants |-> [k \in Months |->
                    seen[m][k] \cup {VolumeOf(newRows, m, k)}]]

\* A new row is the newest.
Added(id, row) ==
    [x \in Existing \cup {id} |->
        IF x = id THEN [row EXCEPT !.created = Cardinality(Existing)] ELSE rows[x]]
SetStatus(id, status) == [rows EXCEPT ![id] = [@ EXCEPT !.status = status]]

AtRest == [at |-> "idle"]

LedgerInit ==
    /\ rows = <<>> /\ month = 0
    /\ deleted = {}
    /\ monthlyVol = [m \in Merchants |-> [k \in Months |-> None]]
    /\ client = [c \in Clients |-> AtRest]
    /\ worker = None /\ patch = None /\ audit = AtRest /\ left = MaxOccurrences
    /\ seen = [m \in Merchants |-> [k \in Months |-> {VolumeOf(rows, m, k)}]]

-----------------------------------------------------------------------------
(* New settlements: POST /api/settlements and POST /api/settlements/bulk.   *)

ClientStep(c, local) ==
    /\ client' = [client EXCEPT ![c] = local]
    /\ UNCHANGED <<month, deleted, worker, patch, audit>>

\* The gateway's limits for a single settlement; the daily total is of every row.
\* (Time passes a month at a time: the rows of a month are of one day.)
GatewayAdmits(m, ask) ==
    /\ Limits.min <= ask.gross /\ ask.gross <= Limits.max
    /\ ask.gross + MapThenSumSet(LAMBDA id : rows[id].gross,
            {id \in Existing : rows[id].merchant = m /\ rows[id].month = month})
         <= Limits.daily

\* Both routes of the engine refuse a deleted merchant, then look for its month's
\* volume; single settlements come through the gateway.
Submit(c, m, ask, route) ==
    /\ client[c].at = "idle"
    /\ m \notin deleted
    /\ route = "single" => GatewayAdmits(m, ask)
    /\ Existing # Ids
    /\ ClientStep(c, [at |-> "cache", merchant |-> m, ask |-> ask, route |-> route,
                      month |-> month, volume |-> 0])
    /\ UNCHANGED <<table, monthlyVol, left>>

\* The cache's key names the merchant and the month.
\* Mutant: it names the merchant only, so that any month's entry answers.
CachedMerchant(c) ==
    {monthlyVol[client[c].merchant][k] : k \in Months} \ {None}
Cached(c) == {monthlyVol[client[c].merchant][client[c].month]} \ {None}

GetCached(c) ==
    /\ client[c].at = "cache"
    /\ \E volume \in Cached(c) :
         ClientStep(c, [client[c] EXCEPT !.at = "insert", !.volume = volume])
    /\ UNCHANGED <<table, monthlyVol, left>>

\* There is no entry, or Redis does not answer.
GetMisses(c) ==
    /\ client[c].at = "cache"
    /\ IF Cached(c) = {} THEN UNCHANGED left ELSE Occurs
    /\ ClientStep(c, [client[c] EXCEPT !.at = "query"])
    /\ UNCHANGED <<table, monthlyVol>>

QueryVolume(c) ==
    /\ client[c].at = "query"
    /\ ClientStep(c, [client[c] EXCEPT
            !.at = "fill", !.volume = VolumeOf(rows, client[c].merchant, client[c].month)])
    /\ UNCHANGED <<table, monthlyVol, left>>

\* A database error counts as no volume.
QueryFails(c) ==
    /\ client[c].at = "query"
    /\ Occurs
    /\ ClientStep(c, [client[c] EXCEPT !.at = "insert"])
    /\ UNCHANGED <<table, monthlyVol>>

\* The entry is written for five minutes, or Redis does not answer.
FillCache(c) ==
    /\ client[c].at = "fill"
    /\ \/ monthlyVol' = [monthlyVol EXCEPT
              ![client[c].merchant][client[c].month] = client[c].volume]
          /\ UNCHANGED left
       \/ Occurs /\ UNCHANGED monthlyVol
    /\ ClientStep(c, [client[c] EXCEPT !.at = "insert"])
    /\ UNCHANGED table

CacheExpires(m, k) ==
    /\ Occurs
    /\ monthlyVol[m][k] # None
    /\ monthlyVol' = [monthlyVol EXCEPT ![m][k] = None]
    /\ UNCHANGED <<table, month, deleted, client, worker, patch, audit>>

\* A single settlement is stored with the merchant's fee, one of a bulk request
\* with the fee that was applied.
StoredFeeBps(route, amounts) == IF route = "single" THEN FeeBps ELSE amounts.feeBpsApplied

Insert(c) ==
    LET amounts == computeSettlementAmounts(client[c].ask, client[c].volume)
    IN  /\ client[c].at = "insert"
        /\ client[c].ask.gross <= MAX_SETTLEMENT_AMOUNT
        /\ \E id \in Ids \ Existing :
             Store(Added(id,
                    [merchant |-> client[c].merchant, gross |-> amounts.gross,
                     fee |-> amounts.fee, net |-> amounts.net,
                     feeBps |-> StoredFeeBps(client[c].route, amounts),
                     route |-> client[c].route, discount |-> amounts.discount,
                     volume |-> amounts.volume, volumeMonth |-> client[c].month,
                     status |-> "pending", month |-> month, created |-> 0]))
        /\ ClientStep(c, AtRest)
        /\ UNCHANGED <<monthlyVol, left>>

\* The amount is above the cap: 422.
Refuse(c) ==
    /\ client[c].at = "insert"
    /\ client[c].ask.gross > MAX_SETTLEMENT_AMOUNT
    /\ ClientStep(c, AtRest)
    /\ UNCHANGED <<table, monthlyVol, left>>

NextMonth ==
    /\ Occurs
    /\ month < LastMonth
    /\ month' = month + 1
    /\ UNCHANGED <<table, deleted, monthlyVol, client, worker, patch, audit>>

-----------------------------------------------------------------------------
(* The writers of the status column.                                        *)

\* The worker's update: first the Prisma extension reads the row and checks the
\* transition, which it lets pass when the status stays as it is.
\* Mutant: nothing checks it.
WorkerReadAny(id, status) ==
    /\ Occurs
    /\ worker = None /\ id \in Existing /\ status # "pending"
    /\ worker' = [id |-> id, from |-> rows[id].status, to |-> status]
    /\ UNCHANGED <<table, month, deleted, monthlyVol, client, patch, audit>>
WorkerRead(id, status) ==
    /\ id \in Existing
    /\ validateTransition(rows[id].status, status)
    /\ WorkerReadAny(id, status)

\* Then the row is updated by its id, whatever its status is by now.
WorkerWrite ==
    /\ worker # None
    /\ worker' = None
    /\ Store(SetStatus(worker.id, worker.to))
    /\ UNCHANGED <<month, deleted, monthlyVol, client, patch, audit, left>>

\* The gateway's route reads the row and checks the transition, then updates the
\* row by its id, too.
PatchRead(id, status) ==
    /\ Occurs
    /\ patch = None /\ id \in Existing
    /\ isValidTransition(rows[id].status, status)
    /\ patch' = [id |-> id, from |-> rows[id].status, to |-> status]
    /\ UNCHANGED <<table, month, deleted, monthlyVol, client, worker, audit>>

PatchWrite ==
    /\ patch # None
    /\ patch' = None
    /\ Store(SetStatus(patch.id, patch.to))
    /\ UNCHANGED <<month, deleted, monthlyVol, client, worker, audit, left>>

\* Deleting a merchant fails its pending settlements in the same transaction.
DeleteMerchant(m) ==
    /\ Occurs
    /\ m \notin deleted
    /\ deleted' = deleted \cup {m}
    /\ Store([id \in Existing |->
            IF rows[id].merchant = m /\ rows[id].status = "pending"
            THEN [rows[id] EXCEPT !.status = "failed"] ELSE rows[id]])
    /\ UNCHANGED <<month, monthlyVol, client, worker, patch, audit>>

RestoreMerchant(m) ==
    /\ Occurs
    /\ m \in deleted
    /\ deleted' = deleted \ {m}
    /\ UNCHANGED <<table, month, monthlyVol, client, worker, patch, audit>>

\* The retry route clones a failed row with its amounts (their link: SettlementRetry).
Retry(id) ==
    /\ Occurs
    /\ id \in Existing /\ rows[id].status = "failed"
    /\ \E new \in Ids \ Existing :
         Store(Added(new, [rows[id] EXCEPT !.status = "pending", !.month = month]))
    /\ UNCHANGED <<month, deleted, monthlyVol, client, worker, patch, audit>>

-----------------------------------------------------------------------------
(* GET /api/settlements/reconcile and /reconcile/report.                    *)

AuditStep(local) ==
    /\ audit' = local
    /\ UNCHANGED <<table, month, deleted, monthlyVol, client, worker, patch>>

Of(merchant, id) == merchant = All \/ rows[id].merchant = merchant

\* What the engine reads of the table.
Local(merchant) == {id \in Existing : Of(merchant, id)}

Reconcile(merchant) ==
    /\ Occurs
    /\ audit.at = "idle"
    /\ AuditStep([at |-> "fetch", route |-> "reconcile", merchant |-> merchant,
                  before |-> Existing,
                  local |-> [id \in Local(merchant) |-> rows[id]]])

Report(merchant) ==
    /\ Occurs
    /\ audit.at = "idle"
    /\ AuditStep([at |-> "page", route |-> "report", merchant |-> merchant,
                  before |-> Existing, cursor |-> -1, local |-> <<>>])

\* The next rows in the order of their ids; a short page is the last.
ReadPage ==
    /\ audit.at = "page"
    /\ UNCHANGED left
    /\ LET after == {id \in Local(audit.merchant) : id > audit.cursor}
           page == {id \in after : Cardinality({x \in after : x <= id}) <= ReportPage}
           local == [id \in DOMAIN audit.local \cup page |->
                       IF id \in page THEN rows[id] ELSE audit.local[id]]
       IN  AuditStep(
             IF Cardinality(page) < ReportPage
             THEN [at |-> "fetch", route |-> "report", merchant |-> audit.merchant,
                   before |-> audit.before, local |-> local]
             ELSE [audit EXCEPT !.cursor = Max(page), !.local = local])

\* The gateway lists the newest rows first, one page of them, without those of
\* deleted merchants.  The service token may name a merchant; the report's own
\* JWT carries none, and the parameter is then ignored.
Listable(a) ==
    LET merchant == IF a.route = "reconcile" THEN a.merchant ELSE All
    IN  {id \in Existing : Of(merchant, id) /\ rows[id].merchant \notin deleted}
Newer(id, other) == rows[other].created > rows[id].created

\* Mutant: the oldest first.
ListingOldest(a) ==
    {id \in Listable(a) : Cardinality({x \in Listable(a) : Newer(x, id)}) < ListLimit}
Listing(a) ==
    {id \in Listable(a) : Cardinality({x \in Listable(a) : Newer(id, x)}) < ListLimit}

\* History: rows with a full page of newer ones, and the deleted merchants.
Beyond(a) ==
    {id \in Listable(a) : Cardinality({x \in Listable(a) : Newer(id, x)}) >= ListLimit}

Fetch ==
    /\ audit.at = "fetch"
    /\ UNCHANGED left
    /\ AuditStep([at |-> "answer", route |-> audit.route, merchant |-> audit.merchant,
                  before |-> audit.before, local |-> audit.local,
                  gateway |-> [id \in Listing(audit) |-> rows[id]],
                  beyond |-> Beyond(audit), hidden |-> deleted])

\* The gateway answers with an error, or not in time: 504.
FetchFails == audit.at = "fetch" /\ AuditStep(AtRest) /\ UNCHANGED left

Answer == audit.at = "answer" /\ AuditStep(AtRest) /\ UNCHANGED left

InLocal(a) == DOMAIN a.local
InGateway(a) == DOMAIN a.gateway
Missing(a) == InGateway(a) \ InLocal(a)
Extra(a) == InLocal(a) \ InGateway(a)

\* The fields that the detailed diff and the report compare.
COMPARE_FIELDS == {"status", "gross", "fee", "net", "feeBps", "merchant"}
FieldDiffs(a, id) == {f \in COMPARE_FIELDS : a.local[id][f] # a.gateway[id][f]}

\* computeReconciliationDiff compares amounts, the report every field.
computeReconciliationDiff(a) ==
    {id \in InLocal(a) \cap InGateway(a) : FieldDiffs(a, id) \cap {"gross", "fee", "net"} # {}}
Mismatched(a) ==
    IF a.route = "reconcile" THEN computeReconciliationDiff(a)
    ELSE {id \in InLocal(a) \cap InGateway(a) : FieldDiffs(a, id) # {}}

GrossTotal(side) == SumFunction([id \in DOMAIN side |-> side[id].gross])

\* The route's local checks: the amounts add up, and the fee is the row's rate
\* of the gross amount, rounded to whole units, give or take one.
Flagged(a) ==
    {id \in InLocal(a) :
        LET r == a.local[id]
            expected == ((r.gross * r.feeBps) \div (10000 * Whole)) * Whole
        IN  \/ r.gross - r.fee # r.net
            \/ expected - r.fee > Whole \/ r.fee - expected > Whole}

-----------------------------------------------------------------------------
LedgerNext ==
    \/ \E c \in Clients :
         \/ \E m \in Merchants, ask \in Asks, route \in {"single", "bulk"} :
              Submit(c, m, ask, route)
         \/ GetCached(c) \/ GetMisses(c) \/ QueryVolume(c) \/ QueryFails(c)
         \/ FillCache(c) \/ Insert(c) \/ Refuse(c)
    \/ \E m \in Merchants, k \in Months : CacheExpires(m, k)
    \/ NextMonth
    \/ \E id \in Ids, status \in Status : WorkerRead(id, status) \/ PatchRead(id, status)
    \/ WorkerWrite \/ PatchWrite
    \/ \E m \in Merchants : DeleteMerchant(m) \/ RestoreMerchant(m)
    \/ \E id \in Ids : Retry(id)
    \/ \E m \in Merchants \cup {All} : Reconcile(m) \/ Report(m)
    \/ ReadPage \/ Fetch \/ FetchFails \/ Answer

LedgerSpec == LedgerInit /\ [][LedgerNext]_ledgerVars

-----------------------------------------------------------------------------
(* Properties.                                                              *)

\* A row's discount is for a volume its merchant had really reached, before this
\* row, in the month for which the price was asked (or for none, after an error),
\* however stale the cache is, and whenever the month turned.
DiscountEarned ==
    [][\A id \in Existing' \ Existing :
         rows'[id].volume \in seen[rows'[id].merchant][rows'[id].volumeMonth] \cup {0}]_ledgerVars

\* What a reconciliation reports between two services that read one table has
\* an explanation that is not a loss: a row is missing from the engine's side
\* because it is newer than the audit or another merchant's, extra because the
\* gateway hides a deleted merchant or lists a page of newer rows, mismatched because its
\* status moved, and the totals differ only with such rows.
MissingExplained(a) ==
    \A id \in Missing(a) :
        \/ id \notin a.before
        \/ a.route = "report" /\ a.gateway[id].merchant # a.merchant
ExtraExplained(a) ==
    \A id \in Extra(a) : id \in a.beyond \/ a.local[id].merchant \in a.hidden
MismatchExplained(a) ==
    \A id \in Mismatched(a) : a.route = "report" /\ FieldDiffs(a, id) = {"status"}
DifferencesExplained ==
    audit.at = "answer" =>
        /\ MissingExplained(audit) /\ ExtraExplained(audit) /\ MismatchExplained(audit)
        /\ GrossTotal(audit.local) # GrossTotal(audit.gateway) =>
             Missing(audit) \cup Extra(audit) # {}

\* The local checks accuse no row whose fee was not discounted by the single
\* route, the one that stores the fee before the discount.
FlaggedFeeWasDiscounted ==
    audit.at = "answer" =>
        \A id \in Flagged(audit) :
            audit.local[id].route = "single" /\ audit.local[id].discount > 0

\* A completed or failed row changes only under a writer that had read it before
\* it was settled: none starts from a settled row to move it (the worker may write
\* the status once more that it has read).
SettledStaysSettled ==
    [][\A id \in Existing :
         rows[id].status \in Terminal /\ rows'[id].status # rows[id].status =>
             \/ worker # None /\ worker' = None /\ worker.from \notin Terminal \ {worker.to}
             \/ patch # None /\ patch' = None /\ patch.from \notin Terminal]_ledgerVars
================================================================================
