-------------------------- MODULE WebhookDelivery ---------------------------
(***************************************************************************)
(* @bettapay/webhook-delivery: a BullMQ queue of POSTs to merchants, with  *)
(* retries, a dead-letter queue, and deduplication by event id in Redis.   *)
(* The settlement engine's worker runs with deduplication; the indexer's   *)
(* worker gets no Redis client and runs without.                           *)
(***************************************************************************)
EXTENDS Naturals, FiniteSets

CONSTANTS
    Jobs,
    Events,         \* event ids
    NoEvent,        \* eventId of a job without one
    eventOf,        \* job -> event id or NoEvent
    Dedup,          \* the worker has a Redis client (opts.redis)
    MaxAttempts,    \* attempts of a job (5 by default)
    Budget          \* kind of fault -> how many may happen

Kinds == {"reject", "late", "redis", "crash", "expire", "dlq"}

ASSUME WebhookAssumption ==
    /\ NoEvent \notin Events
    /\ IsFiniteSet(Jobs)
    /\ eventOf \in [Jobs -> Events \cup {NoEvent}]
    /\ Dedup \in BOOLEAN
    /\ MaxAttempts \in Nat \ {0}
    /\ Budget \in [Kinds -> Nat]

VARIABLES
    job,        \* job -> [state, made, stalled]
    pc,         \* job -> where its processor is: "idle", "dedup" or "post"
    claimed,    \* events whose key webhook_sent:<id> exists
    expired,    \* event -> how often its key has expired
    received,   \* jobs whose POST the merchant has processed: history
    given,      \* event -> how often the merchant has processed it: history
    archived,   \* jobs added to the dead-letter queue
    budget

deliveryVars == <<job, pc, claimed, expired, received, given, archived, budget>>

JobStates == {"absent", "waiting", "active", "completed", "failed"}

Spend(kind) ==
    /\ budget[kind] > 0
    /\ budget' = [budget EXCEPT ![kind] = @ - 1]

Deduplicated(j) == Dedup /\ eventOf[j] # NoEvent

\* The attempt throws: BullMQ retries it or marks the job failed.
Failed(j) ==
    LET n == job[j].made + 1 IN
    [job EXCEPT ![j] = [@ EXCEPT !.made = n,
                        !.state = IF n < MaxAttempts THEN "waiting" ELSE "failed"]]

\* The listener of 'failed': once the attempts are used up the job is added to
\* the dead-letter queue; an error of that queue is only logged (it can
\* happen any number of times when Budget["dlq"] > 0).
Throw(j) ==
    /\ job' = Failed(j)
    /\ pc' = [pc EXCEPT ![j] = "idle"]
    /\ archived' \in IF job[j].made + 1 < MaxAttempts THEN {archived}
                     ELSE {archived \cup {j}} \cup
                          (IF Budget["dlq"] > 0 THEN {archived} ELSE {})

Finish(j) ==
    /\ job' = [job EXCEPT ![j].state = "completed"]
    /\ pc' = [pc EXCEPT ![j] = "idle"]

\* The merchant processes the POSTs of these jobs.
Receive(jobs) ==
    /\ received' = received \cup jobs
    /\ given' = [e \in Events |-> given[e] + Cardinality({j \in jobs : eventOf[j] = e})]

-----------------------------------------------------------------------------
DeliveryInit ==
    /\ job = [j \in Jobs |-> [state |-> "absent", made |-> 0, stalled |-> FALSE]]
    /\ pc = [j \in Jobs |-> "idle"]
    /\ claimed = {}
    /\ expired = [e \in Events |-> 0]
    /\ received = {}
    /\ given = [e \in Events |-> 0]
    /\ archived = {}
    /\ budget = Budget

\* queue.add('deliver', ...)
Enqueue(j) ==
    /\ job[j].state = "absent"
    /\ job' = [job EXCEPT ![j].state = "waiting"]
    /\ UNCHANGED <<pc, claimed, expired, received, given, archived, budget>>

Start(j) ==
    /\ job[j].state = "waiting"
    /\ job' = [job EXCEPT ![j].state = "active"]
    /\ pc' = [pc EXCEPT ![j] = IF Deduplicated(j) THEN "dedup" ELSE "post"]
    /\ UNCHANGED <<claimed, expired, received, given, archived, budget>>

\* Mutant: the key is read but not claimed (GET instead of SET NX).
ClaimByRead(j) ==
    /\ pc[j] = "dedup"
    /\ eventOf[j] \notin claimed
    /\ pc' = [pc EXCEPT ![j] = "post"]
    /\ UNCHANGED <<job, claimed, expired, received, given, archived, budget>>

\* SET webhook_sent:<event> NX succeeds: this job delivers the event.
Claim(j) ==
    /\ pc[j] = "dedup"
    /\ eventOf[j] \notin claimed
    /\ claimed' = claimed \cup {eventOf[j]}
    /\ pc' = [pc EXCEPT ![j] = "post"]
    /\ UNCHANGED <<job, expired, received, given, archived, budget>>

\* The key exists: the job is a duplicate and completes without a POST.
Skip(j) ==
    /\ pc[j] = "dedup"
    /\ eventOf[j] \in claimed
    /\ Finish(j)
    /\ UNCHANGED <<claimed, expired, received, given, archived, budget>>

\* Redis throws: fail closed.  The key may have been set before the reply was
\* lost.
DedupError(j) ==
    /\ pc[j] = "dedup"
    /\ Spend("redis")
    /\ Throw(j)
    /\ claimed' \in {claimed, claimed \cup {eventOf[j]}}
    /\ UNCHANGED <<expired, received, given>>

\* The POST is answered with 2xx.
Deliver(j) ==
    /\ pc[j] = "post"
    /\ Receive({j})
    /\ Finish(j)
    /\ UNCHANGED <<claimed, expired, archived, budget>>

\* Mutant: a POST that failed completes the job.
RejectIgnored(j) ==
    /\ pc[j] = "post"
    /\ Spend("reject")
    /\ Finish(j)
    /\ UNCHANGED <<claimed, expired, received, given, archived>>

\* The merchant does not take the event: no connection, or a non-2xx answer.
Reject(j) ==
    /\ pc[j] = "post"
    /\ Spend("reject")
    /\ Throw(j)
    /\ UNCHANGED <<claimed, expired, received, given>>

\* The merchant takes the event, but the answer misses the 5 s timeout.
AnswerTooLate(j) ==
    /\ pc[j] = "post"
    /\ Spend("late")
    /\ Receive({j})
    /\ Throw(j)
    /\ UNCHANGED <<claimed, expired>>

\* The key's hour is over.
KeyExpires(e) ==
    /\ e \in claimed
    /\ Spend("expire")
    /\ claimed' = claimed \ {e}
    /\ expired' = [expired EXCEPT ![e] = @ + 1]
    /\ UNCHANGED <<job, pc, received, given, archived>>

\* The worker process dies and is restarted; a POST on its way may still arrive.
Crash ==
    /\ Spend("crash")
    /\ \E arrived \in SUBSET {j \in Jobs : pc[j] = "post"} :
         Receive(arrived)
    /\ pc' = [j \in Jobs |-> "idle"]
    /\ UNCHANGED <<job, claimed, expired, archived>>

\* BullMQ runs an orphaned active job again, once.
Stalled(j) ==
    /\ job[j].state = "active"
    /\ pc[j] = "idle"
    /\ job' = IF job[j].stalled THEN [job EXCEPT ![j].state = "failed"]
              ELSE [job EXCEPT ![j] = [@ EXCEPT !.state = "waiting", !.stalled = TRUE]]
    /\ UNCHANGED <<pc, claimed, expired, received, given, archived, budget>>

JobStep(j) == Start(j) \/ Claim(j) \/ Skip(j) \/ Deliver(j) \/ Stalled(j)

DeliveryNext ==
    \/ \E j \in Jobs : Enqueue(j)
    \/ \E j \in Jobs : JobStep(j)
    \/ \E j \in Jobs : DedupError(j) \/ Reject(j) \/ AnswerTooLate(j)
    \/ \E e \in Events : KeyExpires(e)
    \/ Crash

DeliverySpec == DeliveryInit /\ [][DeliveryNext]_deliveryVars

\* BullMQ hands out jobs and the event loop resumes their processors; the
\* number of faults is finite.
FairDeliverySpec == DeliverySpec /\ \A j \in Jobs : WF_deliveryVars(JobStep(j))

-----------------------------------------------------------------------------
\* The values of the delivery state.
DeliveryTypeOK ==
    /\ job \in [Jobs -> [state : JobStates, made : 0 .. MaxAttempts, stalled : BOOLEAN]]
    /\ pc \in [Jobs -> {"idle", "dedup", "post"}]
    /\ claimed \subseteq Events
    /\ expired \in [Events -> Nat]
    /\ received \subseteq Jobs
    /\ given \in [Events -> Nat]
    /\ archived \subseteq Jobs
    /\ budget \in [Kinds -> Nat]

\* Deduplication (SET NX before the POST): a merchant is given an event at most
\* once for every life of its key, although the event may have been enqueued
\* twice, its worker may have died during the POST, and an answer may have been
\* late.
AtMostOncePerKey ==
    Dedup => \A e \in Events : given[e] <= expired[e] + 1

SameEvent(i, j) == i = j \/ (eventOf[i] = eventOf[j] /\ eventOf[j] # NoEvent)

\* The event of job j reaches the merchant, or the job is failed in the end.
DeliveredOrFailed(j) ==
    job[j].state = "waiting"
      ~> \/ job[j].state = "failed"
         \/ \E i \in Jobs : SameEvent(i, j) /\ i \in received

\* A job that is not deduplicated (all of the indexer's, and those without an
\* event id) is retried until it is delivered or its attempts are used up,
\* across rejections, late answers and a crash of the worker.
PlainJobsDelivered ==
    \A j \in Jobs : ~Deduplicated(j) => DeliveredOrFailed(j)

\* "Callers enqueue a job; the worker does all retrying": the same for every
\* job, deduplicated or not.
DeliveredOrGivenUp == \A j \in Jobs : DeliveredOrFailed(j)
=============================================================================
