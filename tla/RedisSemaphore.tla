--------------------------- MODULE RedisSemaphore ---------------------------
(***************************************************************************)
(* The per-merchant semaphore of redis-semaphore.ts for one merchant: a    *)
(* sorted set of tokens scored by their last heartbeat, with Lua scripts   *)
(* for acquire, renew and release, and a renewal timer in every holder.    *)
(*                                                                         *)
(* A score is a Date.now() of the worker that wrote it, and staleness is   *)
(* judged with the Date.now() of the worker that acquires, so the workers' *)
(* clock offsets are part of the model.  Scores are kept as ages (time     *)
(* since the score was written), which makes time relative and finite.     *)
(***************************************************************************)
EXTENDS Naturals, Integers, FiniteSets

CONSTANTS
    Holders,        \* jobs that want a slot; each acquires under a fresh token
    MaxConcurrent,
    Window,         \* ttlSeconds, in seconds
    MaxSkew,        \* bound on the difference of two workers' clocks
    skew,           \* holder -> offset of its worker's clock
    Misses          \* renewals in a row that may fail or be skipped

ASSUME SemaphoreAssumption ==
    /\ IsFiniteSet(Holders)
    /\ MaxConcurrent \in Nat \ {0}
    /\ Window \in Nat \ {0}
    /\ MaxSkew \in Nat
    /\ skew \in [Holders -> 0 .. MaxSkew]
    /\ Misses \in Nat

\* startSemaphoreRenewal: a third of the TTL, at least a second.
Interval == IF Window \div 3 > 1 THEN Window \div 3 ELSE 1

\* The renewal schedule leaves room for Misses lost heartbeats and the skew.
\* With the 60 s TTL of the code that is one lost heartbeat and any skew below
\* 20 s: after two lost ones the next is due when the slot is already stale.
ASSUME TimelyRenewal == (Misses + 1) * Interval + MaxSkew < Window

VARIABLES
    age,       \* token -> seconds since its score was written, or NotHeld
    keyAge,    \* seconds since the key's last EXPIRE
    phase,     \* holder -> "idle", "running" or "dead"
    timer,     \* holder -> seconds since its renewal timer last fired
    missed     \* holder -> renewals in a row that did not reach Redis

vars == <<age, keyAge, phase, timer, missed>>

NotHeld == -1
\* Ages beyond this are equally stale for every clock.
MaxAge == Window + MaxSkew

Running == {h \in Holders : phase[h] = "running"}
Members == {h \in Holders : age[h] # NotHeld}

\* Mutant: no purge, only the key's TTL reclaims slots.
StaleNever(h) == {x \in Members : age[x] < NotHeld}

\* What ZREMRANGEBYSCORE(0, now - window) removes, by the clock of h.
Stale(h) == {x \in Members : age[x] + skew[h] - skew[x] >= Window}

-----------------------------------------------------------------------------
Init ==
    /\ age = [h \in Holders |-> NotHeld]
    /\ keyAge = 0
    /\ phase = [h \in Holders |-> "idle"]
    /\ timer = [h \in Holders |-> 0]
    /\ missed = [h \in Holders |-> 0]

\* Mutant: the limit check lets one too many in.
AcquireOffByOne(h) ==
    /\ phase[h] = "idle"
    /\ Cardinality(Members \ Stale(h)) <= MaxConcurrent
    /\ age' = [x \in Holders |-> IF x = h THEN 0
                                 ELSE IF x \in Stale(h) THEN NotHeld ELSE age[x]]
    /\ keyAge' = 0
    /\ phase' = [phase EXCEPT ![h] = "running"]
    /\ timer' = [timer EXCEPT ![h] = 0]
    /\ missed' = [missed EXCEPT ![h] = 0]

\* acquireScript: purge the stale tokens, then take a slot if one is free.
TakeSlot(h) ==
    /\ phase[h] = "idle"
    /\ Cardinality(Members \ Stale(h)) < MaxConcurrent
    /\ age' = [x \in Holders |-> IF x = h THEN 0
                                 ELSE IF x \in Stale(h) THEN NotHeld ELSE age[x]]
    /\ keyAge' = 0

Acquire(h) ==
    /\ TakeSlot(h)
    /\ phase' = [phase EXCEPT ![h] = "running"]
    /\ timer' = [timer EXCEPT ![h] = 0]
    /\ missed' = [missed EXCEPT ![h] = 0]

\* The script's reply is lost: the job fails, and its token stays behind.
AcquireLost(h) ==
    /\ TakeSlot(h)
    /\ phase' = [phase EXCEPT ![h] = "dead"]
    /\ UNCHANGED <<timer, missed>>

\* The same script at the limit: the purge happens all the same.
Refused(h) ==
    /\ phase[h] = "idle"
    /\ Cardinality(Members \ Stale(h)) >= MaxConcurrent
    /\ age' = [x \in Holders |-> IF x \in Stale(h) THEN NotHeld ELSE age[x]]
    /\ UNCHANGED <<keyAge, phase, timer, missed>>

\* Mutant: the renewal only refreshes the key's TTL.
RenewKeyOnly(h) ==
    /\ phase[h] = "running"
    /\ timer[h] = Interval
    /\ keyAge' = 0
    /\ timer' = [timer EXCEPT ![h] = 0]
    /\ missed' = [missed EXCEPT ![h] = 0]
    /\ UNCHANGED <<age, phase>>

\* renewScript, when the holder's timer fires: a token that is no longer a
\* member is not added again (onLost only logs; the job goes on).
Renew(h) ==
    /\ phase[h] = "running"
    /\ timer[h] = Interval
    /\ IF h \in Members
         THEN age' = [age EXCEPT ![h] = 0] /\ keyAge' = 0
         ELSE UNCHANGED <<age, keyAge>>
    /\ timer' = [timer EXCEPT ![h] = 0]
    /\ missed' = [missed EXCEPT ![h] = 0]
    /\ UNCHANGED phase

\* The renewal throws (onError only logs) or the event loop was too late.
RenewFails(h) ==
    /\ phase[h] = "running"
    /\ timer[h] = Interval
    /\ missed[h] < Misses
    /\ timer' = [timer EXCEPT ![h] = 0]
    /\ missed' = [missed EXCEPT ![h] = @ + 1]
    /\ UNCHANGED <<age, keyAge, phase>>

\* releaseScript, for exactly this token; a no-op if it was purged.
Release(h) ==
    /\ phase[h] = "running"
    /\ age' = [age EXCEPT ![h] = NotHeld]
    /\ phase' = [phase EXCEPT ![h] = "idle"]
    /\ UNCHANGED <<keyAge, timer, missed>>

\* The worker dies, or its release never reaches Redis: nobody renews.
Die(h) ==
    /\ phase[h] = "running"
    /\ phase' = [phase EXCEPT ![h] = "dead"]
    /\ UNCHANGED <<age, keyAge, timer, missed>>

\* A new job takes the place of a dead one once its token has been purged.
Replace(h) ==
    /\ phase[h] = "dead"
    /\ h \notin Members
    /\ phase' = [phase EXCEPT ![h] = "idle"]
    /\ UNCHANGED <<age, keyAge, timer, missed>>

\* A second passes.  A due renewal timer fires before it does.  The key, with
\* all its tokens, is gone when its own TTL ends.
Tick ==
    /\ \A h \in Running : timer[h] < Interval
    /\ timer' = [h \in Holders |-> IF h \in Running THEN timer[h] + 1 ELSE timer[h]]
    /\ IF keyAge + 1 >= Window
         THEN age' = [h \in Holders |-> NotHeld] /\ keyAge' = 0
         ELSE /\ keyAge' = keyAge + 1
              /\ age' = [h \in Holders |->
                           IF h \notin Members THEN NotHeld
                           ELSE IF age[h] < MaxAge THEN age[h] + 1 ELSE MaxAge]
    /\ UNCHANGED <<phase, missed>>

Next ==
    \/ \E h \in Holders :
         \/ Acquire(h) \/ AcquireLost(h) \/ Refused(h)
         \/ Renew(h) \/ RenewFails(h)
         \/ Release(h) \/ Die(h) \/ Replace(h)
    \/ Tick

Spec == Init /\ [][Next]_vars

\* Timers and Redis run on, jobs end, and refused jobs come back (the worker
\* re-queues them every five seconds).
Fairness ==
    /\ WF_vars(Tick)
    /\ \A h \in Holders :
         /\ WF_vars(Acquire(h) \/ Refused(h))
         /\ WF_vars(Renew(h))
         /\ WF_vars(Release(h))

FairSpec == Spec /\ Fairness

-----------------------------------------------------------------------------
\* The values of the semaphore's state.
TypeOK ==
    /\ age \in [Holders -> -1 .. MaxAge]
    /\ keyAge \in 0 .. Window
    /\ phase \in [Holders -> {"idle", "running", "dead"}]
    /\ timer \in [Holders -> 0 .. Interval]
    /\ missed \in [Holders -> 0 .. Misses]

\* A job never loses its slot while it runs, although slots are reclaimed by
\* age, by other workers' clocks (acquireScript, startSemaphoreRenewal #486).
RunningHoldsSlot == Running \subseteq Members

\* No more than MaxConcurrent jobs of the merchant run at a time, across all
\* workers (the purpose of redis-semaphore.ts).
ConcurrencyLimit == Cardinality(Running) <= MaxConcurrent

\* The scripts, timers and TTLs provide what the settlement processor builds
\* on: a member of the set that does not run is an abandoned slot, a purge or
\* the key's TTL reclaims only those, and a slot is taken below the limit only.
Slots == INSTANCE MerchantSlots
           WITH Users <- Holders, Limit <- MaxConcurrent,
                using <- Running, abandoned <- Cardinality(Members \ Running)
ImplementsSlots == Slots!Spec

\* A dead worker's slot does not stay: it is reclaimed, by the purge of a later
\* acquire or by the key's TTL, even while other jobs keep renewing the key.
DeadSlotReclaimed ==
    \A h \in Holders : phase[h] = "dead" ~> h \notin Members
=============================================================================
