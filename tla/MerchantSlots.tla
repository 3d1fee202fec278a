---------------------------- MODULE MerchantSlots ----------------------------
(***************************************************************************)
(* What the per-merchant semaphore promises the settlement processor: a    *)
(* user is let in only while fewer than Limit slots are taken, so that no  *)
(* more than Limit ever are.  Slots of users that died or could not give   *)
(* theirs back stay taken until they are reclaimed, and the slot of a user *)
(* that goes on is never reclaimed.  RedisSemaphore implements this with   *)
(* scripts, timers and TTLs, and the runs of SettlementEngine keep to it   *)
(* for every semaphore key.                                                *)
(***************************************************************************)
EXTENDS Naturals, FiniteSets

CONSTANTS
    Users,        \* jobs of one merchant that may want a slot
    Limit         \* maxConcurrent

VARIABLES
    using,        \* users between acquire and release
    abandoned     \* slots taken by nobody any more

slots == <<using, abandoned>>

Init == using = {} /\ abandoned = 0

\* acquireSemaphore succeeds; it may reclaim slots before it counts.
Take(u) ==
    /\ u \notin using
    /\ abandoned' \in 0 .. abandoned
    /\ Cardinality(using) + abandoned' < Limit
    /\ using' = using \cup {u}

\* acquireSemaphore takes a slot, but its reply is lost: nobody knows of the slot.
Lose ==
    /\ abandoned' \in 0 .. abandoned + 1
    /\ Cardinality(using) + abandoned' <= Limit
    /\ UNCHANGED using

\* releaseSemaphore.
GiveBack(u) ==
    /\ u \in using
    /\ using' = using \ {u}
    /\ UNCHANGED abandoned

\* Some users end without giving back their slots: a process with several of
\* them dies, or a release does not reach Redis.
Abandon ==
    \E gone \in SUBSET using :
      /\ using' = using \ gone
      /\ abandoned' = abandoned + Cardinality(gone)

\* Abandoned slots come back.
Reclaim ==
    /\ abandoned' \in 0 .. abandoned
    /\ UNCHANGED using

Next == (\E u \in Users : Take(u) \/ GiveBack(u)) \/ Lose \/ Abandon \/ Reclaim

Spec == Init /\ [][Next]_slots
=============================================================================
