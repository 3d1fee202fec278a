-------------------------- MODULE SettlementRetry ---------------------------
(***************************************************************************)
(* POST /api/settlements/:id/retry: a failed settlement is cloned, the     *)
(* original is linked to its clone with an optimistic lock on the row's    *)
(* version, and the clone is enqueued.  Requests interleave at every await,*)
(* and with everything that writes the status of a row: the worker's runs, *)
(* the batching job, the gateway's PATCH and the reaper.  Which rows have a*)
(* job is left open here: reaped rows are queued again, failed ones have   *)
(* attempts left, and runs outlive their jobs (SettlementEngine), so that a*)
(* run may be at work on any row at any time.                              *)
(***************************************************************************)
EXTENDS Naturals, FiniteSets, SettlementStatus

CONSTANTS
    Rows,         \* ids of settlement rows, 1 .. MaxRows; row 1 exists at first
    Requests,     \* concurrent requests, each of which may be issued again
    Overtakable,  \* bound: rows whose writers may be overtaken by others
    MaxRetries    \* MAX_SETTLEMENT_RETRY_COUNT

ASSUME RetryAssumption ==
    /\ Rows \subseteq Nat \ {0}
    /\ 1 \in Rows
    /\ IsFiniteSet(Rows)
    /\ MaxRetries \in Nat
    /\ Overtakable \subseteq Rows

VARIABLES
    status,      \* row -> one of RowState
    version,     \* row -> optimistic concurrency version
    sup,         \* row -> supersededById, NoRow if null
    been,        \* row -> statuses that it has had, for writers to have read
    req,         \* request -> its local state
    overtaken,   \* history: rows written on a validation that no longer held
    early        \* history: clones retried before anything pointed to them

vars == <<status, version, sup, been, req, overtaken, early>>
statusVars == <<status, been, overtaken>>
linkVars == <<version, sup>>

NoRow == 0
\* Locals are reset when they are not used any more.
Idle == [pc |-> "idle", id |-> NoRow, ver |-> 0, cur |-> NoRow, visited |-> {},
         front |-> {}, count |-> 0, clone |-> NoRow]

Go(q, fields) == req' = [req EXCEPT ![q] = fields]

-----------------------------------------------------------------------------
Init ==
    /\ status = [s \in Rows |-> IF s = 1 THEN "pending" ELSE "absent"]
    /\ version = [s \in Rows |-> 0]
    /\ sup = [s \in Rows |-> NoRow]
    /\ been = [s \in Rows |-> IF s = 1 THEN {"pending"} ELSE {}]
    /\ req = [q \in Requests |-> Idle]
    /\ overtaken = {}
    /\ early = {}

\* A status update as the Prisma extension makes it: findUnique, where the row
\* has status "from", validateTransition, and the query itself, by which time
\* the row may have another status.  The worker's runs, which have "processing"
\* rejected on a failed row and write "failed" once more, the batching job, the
\* gateway's PATCH and the reaper (whose condition leaves it no time to be
\* overtaken) all write in this way.
UpdateStatus(s, from, to) ==
    /\ from \in been[s]
    /\ validateTransition(from, to)
    /\ IF from = status[s]
         THEN UNCHANGED overtaken
         ELSE /\ s \in Overtakable
              /\ overtaken' = overtaken \cup {s}
    /\ status' = [status EXCEPT ![s] = to]
    /\ been' = [been EXCEPT ![s] = @ \cup {to}]
    /\ UNCHANGED <<linkVars, req, early>>

\* Mutant: any settlement may be retried.
ReadAnyOriginal(q, s) ==
    /\ req[q] = Idle
    /\ status[s] # "absent"
    /\ Go(q, [Idle EXCEPT !.pc = "up", !.id = s, !.ver = version[s], !.cur = s])
    /\ early' = IF \E p \in Requests : req[p].pc = "link" /\ req[p].clone = s
                  THEN early \cup {s} ELSE early
    /\ UNCHANGED <<statusVars, linkVars>>

\* findUnique(id): only a failed settlement may be retried (otherwise 404, 422).
ReadOriginal(q, s) ==
    /\ req[q] = Idle
    /\ status[s] = "failed"
    /\ Go(q, [Idle EXCEPT !.pc = "up", !.id = s, !.ver = version[s], !.cur = s])
    /\ early' = IF \E p \in Requests : req[p].pc = "link" /\ req[p].clone = s
                  THEN early \cup {s} ELSE early
    /\ UNCHANGED <<statusVars, linkVars>>

\* getSettlementRetryCount, first loop: one findUnique along supersededById.
WalkUp(q) ==
    /\ req[q].pc = "up"
    /\ LET next    == sup[req[q].cur]
           visited == req[q].visited \cup {req[q].cur}
           counted == [req[q] EXCEPT !.visited = visited, !.cur = next, !.count = @ + 1]
           Down(n) == [req[q] EXCEPT !.pc = "down", !.front = {req[q].id}, !.count = n,
                                     !.visited = {}, !.cur = NoRow]
       IN  Go(q, IF next = NoRow THEN Down(req[q].count)
                 ELSE IF next \in visited THEN Down(req[q].count + 1)
                 ELSE counted)
    /\ UNCHANGED <<statusVars, linkVars, early>>

\* Mutant: only the rows that supersede this one are counted.
WalkDownNotAtAll(q) ==
    /\ req[q].pc = "down"
    /\ Go(q, [req[q] EXCEPT !.pc = "create"])
    /\ UNCHANGED <<statusVars, linkVars, early>>

\* Second loop: the rows superseded by the current frontier.  When it ends,
\* assertRetryLimit rejects the request (409) or lets it go on.
WalkDown(q) ==
    /\ req[q].pc = "down"
    /\ LET children == {s \in Rows : sup[s] \in req[q].front}
       IN  Go(q, IF children # {}
                   THEN [req[q] EXCEPT !.front = children, !.count = @ + Cardinality(children)]
                 ELSE IF req[q].count >= MaxRetries THEN Idle
                 ELSE [Idle EXCEPT !.pc = "create", !.id = req[q].id, !.ver = req[q].ver])
    /\ UNCHANGED <<statusVars, linkVars, early>>

\* settlement.create: the clone is pending before anything points to it.
CreateClone(q) ==
    /\ req[q].pc = "create"
    /\ \E c \in Rows :
         /\ status[c] = "absent"
         /\ \A s \in Rows : s < c => status[s] # "absent"
         /\ status' = [status EXCEPT ![c] = "pending"]
         /\ been' = [been EXCEPT ![c] = {"pending"}]
         /\ Go(q, [req[q] EXCEPT !.pc = "link", !.clone = c])
    /\ UNCHANGED <<linkVars, overtaken, early>>

\* Mutant: the link is written whatever the version is.
LinkUnconditionally(q) ==
    /\ req[q].pc = "link"
    /\ sup' = [sup EXCEPT ![req[q].id] = req[q].clone]
    /\ version' = [version EXCEPT ![req[q].id] = @ + 1]
    /\ Go(q, [req[q] EXCEPT !.pc = "add"])
    /\ UNCHANGED <<statusVars, early>>

\* updateSettlementWithOptimisticLock: UPDATE ... WHERE id AND version.
Link(q) ==
    /\ req[q].pc = "link"
    /\ version[req[q].id] = req[q].ver
    /\ sup' = [sup EXCEPT ![req[q].id] = req[q].clone]
    /\ version' = [version EXCEPT ![req[q].id] = @ + 1]
    /\ Go(q, [req[q] EXCEPT !.pc = "add"])
    /\ UNCHANGED <<statusVars, early>>

\* VersionConflictError: the request is answered 409 and its clone stays.
LinkConflict(q) ==
    /\ req[q].pc = "link"
    /\ version[req[q].id] # req[q].ver
    /\ Go(q, Idle)
    /\ UNCHANGED <<statusVars, linkVars, early>>

\* settlementQueue.add, and the 201 response.
AddJob(q) ==
    /\ req[q].pc = "add"
    /\ Go(q, Idle)
    /\ UNCHANGED <<statusVars, linkVars, early>>

\* The database or Redis fails, or the process dies: what is written stays.
RequestFails(q) ==
    /\ req[q] # Idle
    /\ Go(q, Idle)
    /\ UNCHANGED <<statusVars, linkVars, early>>

Next ==
    \/ \E s \in Rows, from \in Status, to \in Status \ {"pending"} :
         UpdateStatus(s, from, to)
    \/ \E q \in Requests :
         \/ \E s \in Rows : ReadOriginal(q, s)
         \/ WalkUp(q) \/ WalkDown(q) \/ CreateClone(q)
         \/ Link(q) \/ LinkConflict(q) \/ AddJob(q) \/ RequestFails(q)

Spec == Init /\ [][Next]_vars

-----------------------------------------------------------------------------
\* The values of the rows and of the requests' locals.
TypeOK ==
    /\ status \in [Rows -> RowState]
    /\ version \in [Rows -> Nat]
    /\ sup \in [Rows -> Rows \cup {NoRow}]
    /\ been \in [Rows -> SUBSET Status]
    /\ req \in [Requests ->
                  [pc      : {"idle", "up", "down", "create", "link", "add"},
                   id      : Rows \cup {NoRow}, ver : Nat,
                   cur     : Rows \cup {NoRow}, visited : SUBSET Rows,
                   front   : SUBSET Rows, count : Nat, clone : Rows \cup {NoRow}]]
    /\ overtaken \subseteq Rows
    /\ early \subseteq Rows

\* The optimistic lock decides between requests that read the same version of
\* a settlement: at most one of them gets to enqueue its clone (#543).
OneWinnerPerVersion ==
    \A p, q \in Requests :
      (/\ req[p].pc = "add" /\ req[q].pc = "add"
       /\ req[p].id = req[q].id /\ req[p].ver = req[q].ver) => p = q

\* A settlement that a clone replaces never pays out itself, although it may
\* be queued and run again, and although status writes neither check nor change
\* the version: failed is final, unless some writer's validation and write had
\* another write between them.
SupersededIsFailed ==
    \A s \in Rows : sup[s] # NoRow => status[s] = "failed" \/ s \in overtaken

\* No chain of supersededById links is longer than the retry limit, however
\* requests overlap: of MaxRetries + 1 superseded rows some one is not superseded
\* by the next.  The exception is a chain through a clone that was failed, by a
\* PATCH say, and retried itself before the request that created it linked it:
\* its own retries were counted without those before it.
ChainWithinLimit ==
    LET superseded == {s \in Rows : sup[s] # NoRow} \ early
    IN  \A chain \in [0..MaxRetries -> superseded] :
            \E i \in 0..MaxRetries - 1 : sup[chain[i]] # chain[i + 1]

\* A settlement is retried at most MaxRetries times ("should reject when retry
\* count reaches max allowed"): each retry bumps the version once.
RetryLimitEnforced == \A s \in Rows : version[s] <= MaxRetries
=============================================================================
