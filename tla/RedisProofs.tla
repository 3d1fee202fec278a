----------------------------- MODULE RedisProofs ----------------------------
(***************************************************************************)
(* Proofs about the two protocols that the services run over Redis keys:   *)
(* the per-merchant semaphore, whose concurrency limit holds for any number*)
(* of jobs, any TTL and any clock offsets that TimelyRenewal allows, and   *)
(* the deduplication of webhook deliveries, for any jobs and faults.       *)
(***************************************************************************)
EXTENDS RedisSemaphore, WebhookDelivery, FiniteSetTheorems, TLAPS

-----------------------------------------------------------------------------
(* The semaphore                                                           *)

\* A running job's slot is exactly as old as its renewal schedule says.
Heartbeat ==
    \A h \in Running : h \in Members /\ age[h] = timer[h] + Interval * missed[h]

\* The key is never older than a token: every write of a score is followed by
\* EXPIRE in the same script.
KeyYoungest == \A h \in Members : keyAge <= age[h]

\* The set never holds more tokens than the limit.
Capacity == Cardinality(Members) <= MaxConcurrent

\* The inductive invariant.
IInv == TypeOK /\ Heartbeat /\ KeyYoungest /\ Capacity

LEMMA IntervalType == Interval \in Nat \ {0}
BY SemaphoreAssumption DEF Interval

LEMMA TimesMonotone ==
  ASSUME NEW a \in Nat, NEW b \in Nat, NEW c \in Nat, a <= b
  PROVE  c * a <= c * b
<1>1. PICK d \in Nat : b = a + d
  <2>1. b - a \in Nat /\ b = a + (b - a)
    OBVIOUS
  <2>2. QED
    BY <2>1
<1>2. c * b = c * a + c * d
  BY <1>1
<1>3. c * d \in Nat /\ c * a \in Nat
  OBVIOUS
<1>4. QED
  BY <1>2, <1>3

\* A running job's slot is younger than the window by more than the skew.
LEMMA RunningIsFresh ==
  ASSUME TypeOK, Heartbeat, NEW h \in Running
  PROVE  /\ age[h] \in Nat
         /\ age[h] + MaxSkew < Window
         /\ timer[h] < Interval => age[h] + 1 + MaxSkew < Window
<1> DEFINE I == Interval
           m == missed[h]
<1>1. I \in Nat /\ m \in Nat /\ m <= Misses /\ Misses \in Nat
      /\ timer[h] \in Nat /\ timer[h] <= I
  BY SemaphoreAssumption, IntervalType DEF TypeOK, Running
<1>2. I * m <= I * Misses /\ I * m \in Nat /\ I * Misses \in Nat
  BY <1>1, TimesMonotone
<1>3. (Misses + 1) * I = I * Misses + I
  BY <1>1
<1>4. age[h] = timer[h] + I * m
  BY DEF Heartbeat
<1>5. (Misses + 1) * I + MaxSkew < Window
  BY TimelyRenewal
<1>6. MaxSkew \in Nat /\ Window \in Nat
  BY SemaphoreAssumption
<1> HIDE DEF I, m
<1>7. I = Interval
  BY DEF I
<1>8. QED
  BY <1>1, <1>2, <1>3, <1>4, <1>5, <1>6, <1>7

\* No clock finds a running job's slot stale.
LEMMA RunningNotStale ==
  ASSUME TypeOK, Heartbeat, NEW h \in Running, NEW x \in Holders
  PROVE  h \notin Stale(x)
<1>1. age[h] \in Nat /\ age[h] + MaxSkew < Window
  BY RunningIsFresh
<1>2. skew[x] \in 0 .. MaxSkew /\ skew[h] \in 0 .. MaxSkew
  BY SemaphoreAssumption DEF Running
<1>3. QED
  BY <1>1, <1>2, SemaphoreAssumption DEF Stale

LEMMA MembersFinite == IsFiniteSet(Members)
BY SemaphoreAssumption, FS_Subset DEF Members

LEMMA InitInv == Init => IInv
<1> SUFFICES ASSUME Init PROVE IInv
  OBVIOUS
<1>1. Members = {} /\ Running = {}
  BY DEF Init, Members, Running, NotHeld
<1>2. Cardinality(Members) = 0
  BY <1>1, FS_EmptySet
<1>3. TypeOK
  BY SemaphoreAssumption, IntervalType DEF Init, TypeOK, NotHeld, MaxAge
<1>4. QED
  BY <1>1, <1>2, <1>3, SemaphoreAssumption
     DEF IInv, Heartbeat, KeyYoungest, Capacity

\* Tokens only leave the set: the limit is kept.
LEMMA ShrinkKeepsCapacity ==
  ASSUME Capacity, Members' \subseteq Members
  PROVE  Capacity'
<1>1. Cardinality(Members') <= Cardinality(Members)
  BY MembersFinite, FS_Subset
<1>2. Cardinality(Members) \in Nat /\ Cardinality(Members') \in Nat
  BY MembersFinite, FS_Subset, FS_CardinalityType
<1>3. QED
  BY <1>1, <1>2, SemaphoreAssumption DEF Capacity

\* acquireScript, whether or not its reply arrives: no running job loses its
\* slot, and the limit is kept.
LEMMA TakeSlotEffect ==
  ASSUME IInv, NEW h \in Holders, TakeSlot(h)
  PROVE  /\ age' \in [Holders -> -1 .. MaxAge] /\ keyAge' = 0
         /\ age'[h] = 0 /\ h \notin Running
         /\ \A x \in Running : age'[x] = age[x] /\ x \in Members'
         /\ Members' = (Members \ Stale(h)) \cup {h}
         /\ KeyYoungest' /\ Capacity'
<1> USE SemaphoreAssumption, IntervalType
<1>0. TypeOK /\ Heartbeat /\ KeyYoungest /\ Capacity
  BY DEF IInv
<1>1. \A x \in Running : x \notin Stale(h)
  BY <1>0, RunningNotStale
<1>2. age' = [x \in Holders |-> IF x = h THEN 0
                                ELSE IF x \in Stale(h) THEN NotHeld ELSE age[x]]
  BY DEF TakeSlot
<1>3. Members' = (Members \ Stale(h)) \cup {h}
  BY <1>2 DEF Members, NotHeld
<1>4. h \notin Running /\ age'[h] = 0 /\ keyAge' = 0
  BY <1>2 DEF TakeSlot, Running
<1>5. age' \in [Holders -> -1 .. MaxAge]
  BY <1>0, <1>2 DEF TypeOK, NotHeld, MaxAge
<1>6. ASSUME NEW x \in Running PROVE age'[x] = age[x] /\ x \in Members'
  BY <1>0, <1>1, <1>2, <1>3, <1>4 DEF Heartbeat, Running
<1>7. KeyYoungest'
  BY <1>4, <1>5 DEF KeyYoungest, Members, NotHeld
<1>8. Capacity'
  <2> DEFINE S == Members \ Stale(h)
  <2>1. IsFiniteSet(S) /\ Cardinality(S) \in Nat
    BY MembersFinite, FS_Subset, FS_CardinalityType
  <2>2. Cardinality(S \cup {h}) = IF h \in S THEN Cardinality(S) ELSE Cardinality(S) + 1
    BY <2>1, FS_AddElement, Zenon
  <2>3. Cardinality(S) < MaxConcurrent
    BY DEF TakeSlot
  <2>4. Cardinality(S \cup {h}) <= MaxConcurrent
    <3> HIDE DEF S
    <3>1. QED
      BY <2>1, <2>2, <2>3
  <2>5. QED
    BY <1>3, <2>4 DEF Capacity
<1>9. QED
  BY <1>3, <1>4, <1>5, <1>6, <1>7, <1>8

LEMMA StepInv == IInv /\ [Next]_vars => IInv'
<1> SUFFICES ASSUME IInv, [Next]_vars PROVE IInv'
  OBVIOUS
<1> USE SemaphoreAssumption, IntervalType
<1>0. TypeOK /\ Heartbeat /\ KeyYoungest /\ Capacity
  BY DEF IInv
<1>1. ASSUME NEW h \in Holders, Acquire(h) PROVE IInv'
  <2>0. TakeSlot(h)
    BY <1>1 DEF Acquire
  <2>1. /\ age' \in [Holders -> -1 .. MaxAge] /\ keyAge' = 0
        /\ age'[h] = 0 /\ h \notin Running
        /\ \A x \in Running : age'[x] = age[x] /\ x \in Members'
        /\ h \in Members'
        /\ KeyYoungest' /\ Capacity'
    BY <2>0, TakeSlotEffect
  <2>2. Running' = Running \cup {h}
    BY <1>0, <1>1 DEF Acquire, Running, TypeOK
  <2>3. TypeOK'
    <3>1. age' \in [Holders -> -1 .. MaxAge']
      BY <2>1 DEF MaxAge
    <3>2. phase' \in [Holders -> {"idle", "running", "dead"}]
      BY <1>0, <1>1 DEF Acquire, TypeOK
    <3>3. timer' \in [Holders -> 0 .. Interval] /\ missed' \in [Holders -> 0 .. Misses]
      BY <1>0, <1>1 DEF Acquire, TypeOK
    <3>4. QED
      BY <2>1, <3>1, <3>2, <3>3 DEF TypeOK
  <2>4. Heartbeat'
    <3>1. timer'[h] = 0 /\ missed'[h] = 0 /\ Interval * 0 = 0
      BY <1>0, <1>1 DEF Acquire, TypeOK
    <3>2. ASSUME NEW x \in Running
          PROVE  x \in Members' /\ age'[x] = timer'[x] + Interval * missed'[x]
      BY <1>0, <1>1, <2>1 DEF Acquire, TypeOK, Heartbeat, Running
    <3>3. QED
      BY <2>1, <2>2, <3>1, <3>2 DEF Heartbeat
  <2>5. QED
    BY <2>1, <2>3, <2>4 DEF IInv
<1>10. ASSUME NEW h \in Holders, AcquireLost(h) PROVE IInv'
  <2>0. TakeSlot(h) /\ timer' = timer /\ missed' = missed
        /\ phase' = [phase EXCEPT ![h] = "dead"]
    BY <1>10 DEF AcquireLost
  <2>1. /\ age' \in [Holders -> -1 .. MaxAge] /\ keyAge' = 0
        /\ h \notin Running
        /\ \A x \in Running : age'[x] = age[x] /\ x \in Members'
        /\ KeyYoungest' /\ Capacity'
    BY <2>0, TakeSlotEffect
  <2>2. Running' = Running
    BY <1>0, <2>0, <2>1 DEF Running, TypeOK
  <2>3. TypeOK'
    <3>1. age' \in [Holders -> -1 .. MaxAge']
      BY <2>1 DEF MaxAge
    <3>2. phase' \in [Holders -> {"idle", "running", "dead"}]
      BY <1>0, <2>0 DEF TypeOK
    <3>3. QED
      BY <1>0, <2>0, <2>1, <3>1, <3>2 DEF TypeOK
  <2>4. Heartbeat'
    BY <1>0, <2>0, <2>1, <2>2 DEF Heartbeat
  <2>5. QED
    BY <2>1, <2>3, <2>4 DEF IInv
<1>2. ASSUME NEW h \in Holders, Refused(h) PROVE IInv'
  <2>1. \A x \in Running : x \notin Stale(h)
    BY <1>0, RunningNotStale
  <2>2. /\ age' = [x \in Holders |-> IF x \in Stale(h) THEN NotHeld ELSE age[x]]
        /\ UNCHANGED <<keyAge, phase, timer, missed>>
    BY <1>2 DEF Refused
  <2>3. Members' \subseteq Members /\ Running' = Running
    BY <2>2 DEF Members, Running, NotHeld
  <2>4. TypeOK'
    BY <1>0, <2>2 DEF TypeOK, NotHeld, MaxAge
  <2>5. Heartbeat'
    BY <1>0, <2>1, <2>2, <2>3 DEF Heartbeat, Members, Running, NotHeld
  <2>6. KeyYoungest'
    BY <1>0, <2>2, <2>3 DEF KeyYoungest, Members, NotHeld
  <2>7. QED
    BY <1>0, <2>3, <2>4, <2>5, <2>6, ShrinkKeepsCapacity DEF IInv
<1>3. ASSUME NEW h \in Holders, Renew(h) PROVE IInv'
  <2>1. h \in Running /\ h \in Members
    BY <1>0, <1>3 DEF Renew, Running, Heartbeat
  <2>2. /\ age' = [age EXCEPT ![h] = 0]
        /\ keyAge' = 0
        /\ timer' = [timer EXCEPT ![h] = 0]
        /\ missed' = [missed EXCEPT ![h] = 0]
        /\ phase' = phase
    BY <1>3, <2>1 DEF Renew
  <2>3. Members' = Members /\ Running' = Running
    BY <1>0, <2>1, <2>2 DEF Members, Running, NotHeld, TypeOK
  <2>4. TypeOK'
    BY <1>0, <2>2 DEF TypeOK, MaxAge
  <2>5. Heartbeat'
    <3>1. Interval * 0 = 0
      OBVIOUS
    <3>2. QED
      BY <1>0, <2>2, <2>3, <3>1 DEF Heartbeat, TypeOK, Running
  <2>6. KeyYoungest'
    BY <2>2, <2>3, <2>4 DEF KeyYoungest, TypeOK, Members, NotHeld
  <2>7. QED
    BY <1>0, <2>3, <2>4, <2>5, <2>6 DEF IInv, Capacity
<1>4. ASSUME NEW h \in Holders, RenewFails(h) PROVE IInv'
  <2>1. /\ timer' = [timer EXCEPT ![h] = 0]
        /\ missed' = [missed EXCEPT ![h] = missed[h] + 1]
        /\ UNCHANGED <<age, keyAge, phase>>
        /\ timer[h] = Interval /\ missed[h] < Misses
    BY <1>4 DEF RenewFails
  <2>2. Members' = Members /\ Running' = Running
    BY <2>1 DEF Members, Running
  <2>3. TypeOK'
    BY <1>0, <2>1 DEF TypeOK
  <2>4. Heartbeat'
    <3>1. Interval * (missed[h] + 1) = Interval * missed[h] + Interval
      BY <1>0 DEF TypeOK
    <3>2. Interval * missed[h] \in Nat
      BY <1>0 DEF TypeOK
    <3>3. QED
      BY <1>0, <2>1, <2>2, <3>1, <3>2 DEF Heartbeat, TypeOK, Running
  <2>5. QED
    BY <1>0, <2>1, <2>2, <2>3, <2>4 DEF IInv, Capacity, KeyYoungest
<1>5. ASSUME NEW h \in Holders, Release(h) PROVE IInv'
  <2>1. /\ age' = [age EXCEPT ![h] = NotHeld]
        /\ phase' = [phase EXCEPT ![h] = "idle"]
        /\ UNCHANGED <<keyAge, timer, missed>>
    BY <1>5 DEF Release
  <2>2. Members' = Members \ {h} /\ Running' = Running \ {h}
    BY <1>0, <2>1 DEF Members, Running, NotHeld, TypeOK
  <2>3. TypeOK'
    BY <1>0, <2>1 DEF TypeOK, NotHeld, MaxAge
  <2>4. Heartbeat' /\ KeyYoungest'
    BY <1>0, <2>1, <2>2 DEF Heartbeat, KeyYoungest, TypeOK, Members, Running
  <2>5. QED
    BY <1>0, <2>2, <2>3, <2>4, ShrinkKeepsCapacity DEF IInv
<1>6. ASSUME NEW h \in Holders, Die(h) \/ Replace(h) PROVE IInv'
  <2>1. /\ phase' \in [Holders -> {"idle", "running", "dead"}]
        /\ Running' \subseteq Running
        /\ UNCHANGED <<age, keyAge, timer, missed>>
    BY <1>0, <1>6 DEF Die, Replace, TypeOK, Running
  <2>2. Members' = Members
    BY <2>1 DEF Members
  <2>3. TypeOK'
    BY <1>0, <2>1 DEF TypeOK
  <2>4. QED
    BY <1>0, <2>1, <2>2, <2>3 DEF IInv, Heartbeat, KeyYoungest, Capacity
<1>7. CASE Tick
  <2>1. /\ \A h \in Running : timer[h] < Interval
        /\ timer' = [h \in Holders |-> IF h \in Running THEN timer[h] + 1 ELSE timer[h]]
        /\ UNCHANGED <<phase, missed>>
    BY <1>7 DEF Tick
  <2>2. Running' = Running
    BY <2>1 DEF Running
  <2>3. timer' \in [Holders -> 0 .. Interval]
    BY <1>0, <2>1 DEF TypeOK
  <2>4. CASE keyAge + 1 >= Window
    <3>1. age' = [h \in Holders |-> NotHeld] /\ keyAge' = 0
      BY <1>7, <2>4 DEF Tick
    <3>2. Running = {}
      <4> SUFFICES ASSUME NEW h \in Running PROVE FALSE
        OBVIOUS
      <4>1. age[h] \in Nat /\ age[h] + 1 + MaxSkew < Window
        BY <1>0, <2>1, RunningIsFresh
      <4>2. keyAge <= age[h] /\ keyAge \in Nat
        BY <1>0 DEF Heartbeat, KeyYoungest, TypeOK
      <4>3. QED
        BY <2>4, <4>1, <4>2
    <3>3. Members' = {} /\ Members' \subseteq Members
      BY <3>1 DEF Members
    <3>4. TypeOK'
      BY <1>0, <2>1, <2>3, <3>1 DEF TypeOK, NotHeld, MaxAge
    <3>5. QED
      BY <1>0, <2>2, <3>2, <3>3, <3>4, ShrinkKeepsCapacity
         DEF IInv, Heartbeat, KeyYoungest
  <2>5. CASE ~(keyAge + 1 >= Window)
    <3>1. /\ keyAge' = keyAge + 1
          /\ age' = [h \in Holders |->
                       IF h \notin Members THEN NotHeld
                       ELSE IF age[h] < MaxAge THEN age[h] + 1 ELSE MaxAge]
      BY <1>7, <2>5 DEF Tick
    <3>2. ASSUME NEW h \in Members PROVE age[h] \in 0 .. MaxAge
      BY <1>0 DEF TypeOK, Members, NotHeld
    <3>3. MaxAge \in Nat /\ MaxAge >= Window
      BY DEF MaxAge
    <3>4. Members' = Members
      BY <3>1, <3>2, <3>3 DEF Members, NotHeld
    <3>5. TypeOK'
      <4>1. age' \in [Holders -> -1 .. MaxAge]
        BY <3>1, <3>2, <3>3 DEF NotHeld
      <4>2. keyAge' \in 0 .. Window
        BY <1>0, <2>5, <3>1 DEF TypeOK
      <4>3. QED
        BY <1>0, <2>1, <2>3, <4>1, <4>2 DEF TypeOK
    <3>6. Heartbeat'
      <4> SUFFICES ASSUME NEW h \in Running
                   PROVE  h \in Members /\ age'[h] = timer'[h] + Interval * missed[h]
        BY <2>1, <2>2, <3>4 DEF Heartbeat
      <4>1. h \in Members /\ age[h] = timer[h] + Interval * missed[h]
        BY <1>0 DEF Heartbeat
      <4>2. age[h] \in Nat /\ age[h] + 1 + MaxSkew < Window
        BY <1>0, <2>1, RunningIsFresh
      <4>3. age'[h] = age[h] + 1
        BY <3>1, <3>3, <4>1, <4>2 DEF Running
      <4>4. timer'[h] = timer[h] + 1 /\ timer[h] \in Nat
        BY <1>0, <2>1 DEF Running, TypeOK
      <4>5. Interval * missed[h] \in Nat
        BY <1>0 DEF TypeOK, Running
      <4>6. QED
        BY <4>1, <4>3, <4>4, <4>5
    <3>7. KeyYoungest'
      <4> SUFFICES ASSUME NEW h \in Members PROVE keyAge' <= age'[h]
        BY <3>4 DEF KeyYoungest
      <4>1. keyAge <= age[h] /\ keyAge \in Nat
        BY <1>0 DEF KeyYoungest, TypeOK
      <4>2. age'[h] = IF age[h] < MaxAge THEN age[h] + 1 ELSE MaxAge
        BY <3>1 DEF Members
      <4>3. QED
        BY <2>5, <3>1, <3>2, <3>3, <4>1, <4>2
    <3>8. QED
      BY <1>0, <3>4, <3>5, <3>6, <3>7 DEF IInv, Capacity
  <2>6. QED
    BY <2>4, <2>5
<1>8. CASE UNCHANGED vars
  BY <1>0, <1>8
     DEF vars, IInv, TypeOK, Heartbeat, KeyYoungest, Capacity, Members, Running
<1>9. QED
  BY <1>1, <1>2, <1>3, <1>4, <1>5, <1>6, <1>7, <1>8, <1>10 DEF Next

LEMMA Invariance == Spec => []IInv
BY InitInv, StepInv, PTL DEF Spec

\* A running job never loses its slot to another worker's purge or to the
\* key's TTL, for every TTL, skew and number of lost heartbeats that
\* TimelyRenewal allows.
THEOREM RunningHoldsSlotAlways == Spec => []RunningHoldsSlot
<1>1. IInv => RunningHoldsSlot
  BY DEF IInv, Heartbeat, RunningHoldsSlot
<1>2. QED
  BY <1>1, Invariance, PTL

\* No more than MaxConcurrent jobs of a merchant run at once, whatever jobs
\* die, lose heartbeats or are refused.
THEOREM ConcurrencyLimitAlways == Spec => []ConcurrencyLimit
<1>1. ASSUME IInv PROVE ConcurrencyLimit
  <2>1. Running \subseteq Members
    BY <1>1 DEF IInv, Heartbeat
  <2>2. /\ Cardinality(Running) <= Cardinality(Members)
        /\ Cardinality(Running) \in Nat /\ Cardinality(Members) \in Nat
    BY <2>1, MembersFinite, FS_Subset, FS_CardinalityType
  <2>3. Cardinality(Members) <= MaxConcurrent
    BY <1>1 DEF IInv, Capacity
  <2>4. QED
    BY <2>2, <2>3, SemaphoreAssumption DEF ConcurrencyLimit
<1>2. QED
  BY <1>1, Invariance, PTL

-----------------------------------------------------------------------------
(* The semaphore implements the slots that its users count on.              *)

Abandoned == Members \ Running

\* Both specifications count with the Cardinality of FiniteSets.
LEMMA SameCount == \A S : Slots!Cardinality(S) = Cardinality(S)
BY Zenon DEF Slots!Cardinality, Cardinality

\* What a step does to the slots, in terms of the members of the set.
LEMMA SlotSets ==
  ASSUME IInv
  PROVE  /\ IsFiniteSet(Running) /\ IsFiniteSet(Abandoned)
         /\ Cardinality(Running) \in Nat /\ Cardinality(Abandoned) \in Nat
         /\ Running \subseteq Members
<1>1. Running \subseteq Members
  BY DEF IInv, Heartbeat
<1>2. QED
  BY <1>1, MembersFinite, FS_Subset, FS_CardinalityType DEF Abandoned

\* Slots that leave the set without a running job are reclaimed.
LEMMA ReclaimedSlots ==
  ASSUME IInv, Abandoned' \subseteq Abandoned
  PROVE  Cardinality(Abandoned)' \in 0 .. Cardinality(Abandoned)
<1> DEFINE A == Abandoned
           B == Abandoned'
<1>1. IsFiniteSet(A) /\ Cardinality(A) \in Nat
  BY SlotSets
<1> HIDE DEF A, B
<1>2. B \subseteq A
  BY DEF A, B
<1>3. IsFiniteSet(B) /\ Cardinality(B) <= Cardinality(A) /\ Cardinality(B) \in Nat
  BY <1>1, <1>2, FS_Subset, FS_CardinalityType
<1>4. Cardinality(B) \in 0 .. Cardinality(A)
  BY <1>1, <1>3
<1>5. QED
  BY <1>4 DEF A, B

\* Below the limit there is room beside the running jobs and the abandoned
\* slots that the purge leaves.
LEMMA FreshSlots ==
  ASSUME IInv, NEW h \in Holders, TakeSlot(h)
  PROVE  /\ IsFiniteSet((Members \ Stale(h)) \ Running)
         /\ Cardinality((Members \ Stale(h)) \ Running) \in Nat
         /\ Cardinality(Running) + Cardinality((Members \ Stale(h)) \ Running) < MaxConcurrent
         /\ Cardinality((Members \ Stale(h)) \ Running) <= Cardinality(Abandoned)
<1> DEFINE fresh == Members \ Stale(h)
           rest == fresh \ Running
<1>1. Running \subseteq fresh
  BY RunningNotStale, SlotSets DEF IInv
<1>2. /\ IsFiniteSet(fresh) /\ IsFiniteSet(Running) /\ IsFiniteSet(rest)
      /\ Cardinality(Running) \in Nat /\ Cardinality(rest) \in Nat
      /\ Cardinality(fresh) \in Nat
  BY SlotSets, MembersFinite, FS_Subset, FS_CardinalityType
<1>3. Cardinality(rest) = Cardinality(fresh) - Cardinality(Running)
  <2>1. fresh \cap Running = Running
    BY <1>1
  <2>2. QED
    BY <1>2, <2>1, FS_Difference
<1>4. Cardinality(fresh) < MaxConcurrent /\ MaxConcurrent \in Nat
  BY SemaphoreAssumption DEF TakeSlot
<1>5. Cardinality(rest) <= Cardinality(Abandoned)
  <2>1. rest \subseteq Abandoned
    BY DEF Abandoned
  <2> HIDE DEF rest
  <2>2. QED
    BY <2>1, SlotSets, FS_Subset
<1>6. Cardinality(Running) + Cardinality(rest) < MaxConcurrent
  <2> HIDE DEF fresh, rest
  <2>1. QED
    BY <1>2, <1>3, <1>4
<1>7. QED
  BY <1>2, <1>5, <1>6

LEMMA SlotsRefined == IInv /\ [Next]_vars => [Slots!Next]_(Slots!slots)
<1> SUFFICES ASSUME IInv, [Next]_vars
             PROVE  Slots!Next \/ (Running' = Running /\ Abandoned' = Abandoned)
  BY DEF Slots!slots, Abandoned
<1>0. TypeOK /\ Heartbeat
  BY DEF IInv
<1>1. ASSUME Running' = Running, Abandoned' \subseteq Abandoned PROVE Slots!Next
  <2>1. Cardinality(Abandoned)' \in 0 .. Cardinality(Abandoned)
    BY <1>1, ReclaimedSlots
  <2>2. QED
    BY <1>1, <2>1 DEF Slots!Next, Slots!Reclaim, Abandoned
<1>2. ASSUME NEW h \in Holders, Acquire(h) PROVE Slots!Next
  <2>1. TakeSlot(h)
    BY <1>2 DEF Acquire
  <2>2. Members' = (Members \ Stale(h)) \cup {h} /\ h \notin Running
    BY <2>1, TakeSlotEffect
  <2>3. Running' = Running \cup {h}
    BY <1>0, <1>2 DEF Acquire, Running, TypeOK
  <2>4. Abandoned' \subseteq Abandoned /\ Abandoned' \subseteq (Members \ Stale(h)) \ Running
    BY <2>2, <2>3 DEF Abandoned
  <2>5. Cardinality(Abandoned)' \in 0 .. Cardinality(Abandoned)
    BY <2>4, ReclaimedSlots
  <2>6. Cardinality(Abandoned') <= Cardinality((Members \ Stale(h)) \ Running)
    <3>1. IsFiniteSet((Members \ Stale(h)) \ Running)
      BY FreshSlots, <2>1
    <3>2. QED
      BY <2>4, <3>1, FS_Subset, Zenon
  <2>7. Cardinality(Running) + Cardinality(Abandoned)' < MaxConcurrent
    <3> DEFINE rest == Cardinality((Members \ Stale(h)) \ Running)
               left == Cardinality(Abandoned')
    <3>1. rest \in Nat /\ Cardinality(Running) + rest < MaxConcurrent
      BY <2>1, FreshSlots
    <3>2. left <= rest /\ left \in Nat /\ Cardinality(Running) \in Nat
      BY <2>5, <2>6, SlotSets
    <3> HIDE DEF rest, left
    <3>3. Cardinality(Running) + left < MaxConcurrent
      BY <3>1, <3>2, SemaphoreAssumption
    <3>4. QED
      BY <3>3 DEF left
  <2>8. Slots!Take(h)
    BY <2>2, <2>3, <2>5, <2>7, SameCount, Zenon DEF Slots!Take, Abandoned
  <2>9. QED
    BY <2>8, Zenon DEF Slots!Next
<1>10. ASSUME NEW h \in Holders, AcquireLost(h) PROVE Slots!Next
  <2>1. TakeSlot(h)
    BY <1>10 DEF AcquireLost
  <2>2. Members' = (Members \ Stale(h)) \cup {h} /\ h \notin Running
    BY <2>1, TakeSlotEffect
  <2>3. Running' = Running
    BY <1>0, <1>10, <2>2 DEF AcquireLost, Running, TypeOK
  <2>4. Abandoned' = ((Members \ Stale(h)) \ Running) \cup {h}
    BY <2>2, <2>3 DEF Abandoned
  <2> DEFINE R == (Members \ Stale(h)) \ Running
             left == Cardinality(Abandoned')
  <2>5. IsFiniteSet(R) /\ Cardinality(R) \in Nat
        /\ Cardinality(Running) + Cardinality(R) < MaxConcurrent
        /\ Cardinality(R) <= Cardinality(Abandoned)
    BY <2>1, FreshSlots
  <2>6. left = IF h \in R THEN Cardinality(R) ELSE Cardinality(R) + 1
    BY <2>4, <2>5, FS_AddElement, Zenon
  <2>7. Cardinality(Running) \in Nat /\ Cardinality(Abandoned) \in Nat
    BY SlotSets
  <2> HIDE DEF R, left
  <2>8. left \in 0 .. Cardinality(Abandoned) + 1
        /\ Cardinality(Running) + left <= MaxConcurrent
    BY <2>5, <2>6, <2>7, SemaphoreAssumption
  <2>9. Cardinality(Abandoned)' \in 0 .. Cardinality(Abandoned) + 1
        /\ Cardinality(Running) + Cardinality(Abandoned)' <= MaxConcurrent
    BY <2>8 DEF left
  <2>10. Slots!Lose
    BY <2>3, <2>9, SameCount, Zenon DEF Slots!Lose, Abandoned
  <2>11. QED
    BY <2>10, Zenon DEF Slots!Next
<1>3. ASSUME NEW h \in Holders, Refused(h)
      PROVE  Running' = Running /\ Abandoned' \subseteq Abandoned
  BY <1>3 DEF Refused, Members, Running, Abandoned, NotHeld
<1>4. ASSUME NEW h \in Holders, Renew(h) \/ RenewFails(h) \/ Replace(h)
      PROVE  Running' = Running /\ Abandoned' = Abandoned
  <2>1. Running' = Running
    BY <1>0, <1>4 DEF Renew, RenewFails, Replace, Running, TypeOK
  <2>2. Members' = Members
    BY <1>0, <1>4 DEF Renew, RenewFails, Replace, Members, NotHeld, TypeOK
  <2>3. QED
    BY <2>1, <2>2 DEF Abandoned
<1>5. ASSUME NEW h \in Holders, Release(h) PROVE Slots!Next
  <2>1. Members' = Members \ {h} /\ Running' = Running \ {h} /\ h \in Running
    BY <1>0, <1>5 DEF Release, Members, Running, NotHeld, TypeOK
  <2>2. Abandoned' = Abandoned
    BY <2>1 DEF Abandoned
  <2>3. QED
    BY <2>1, <2>2 DEF Slots!Next, Slots!GiveBack, Abandoned
<1>6. ASSUME NEW h \in Holders, Die(h) PROVE Slots!Next
  <2>1. Members' = Members /\ Running' = Running \ {h} /\ h \in Running /\ h \in Members
    BY <1>0, <1>6 DEF Die, Members, Running, TypeOK, Heartbeat
  <2>2. Abandoned' = Abandoned \cup {h} /\ h \notin Abandoned
    BY <2>1 DEF Abandoned
  <2>3. Cardinality(Abandoned \cup {h}) = Cardinality(Abandoned) + 1
    BY <2>2, SlotSets, FS_AddElement
  <2>4. Cardinality({h}) = 1
    BY FS_Singleton
  <2>5. /\ Running' = Running \ {h} /\ {h} \in SUBSET Running
        /\ Cardinality(Abandoned)' = Cardinality(Abandoned) + Cardinality({h})
    BY <2>1, <2>2, <2>3, <2>4
  <2>6. Slots!Abandon
    BY <2>5, SameCount, Zenon DEF Slots!Abandon, Abandoned
  <2>7. QED
    BY <2>6 DEF Slots!Next
<1>7. CASE Tick
  <2>1. Running' = Running
    BY <1>7 DEF Tick, Running
  <2>2. Members' \subseteq Members
    BY <1>0, <1>7 DEF Tick, Members, NotHeld, TypeOK
  <2>3. QED
    BY <1>1, <2>1, <2>2 DEF Abandoned
<1>8. CASE UNCHANGED vars
  BY <1>8 DEF vars, Running, Members, Abandoned
<1>9. QED
  BY <1>1, <1>2, <1>3, <1>4, <1>5, <1>6, <1>7, <1>8, <1>10 DEF Next

\* The Lua scripts, the renewal timers and the TTLs implement the slots that the
\* settlement processor counts on: a slot is taken below the limit only, and none
\* is reclaimed but those of jobs that have died.
THEOREM SemaphoreImplementsSlots == Spec => ImplementsSlots
<1>1. Init => Slots!Init
  <2> SUFFICES ASSUME Init PROVE Slots!Init
    OBVIOUS
  <2>1. Running = {} /\ Members \ Running = {}
    BY DEF Init, Members, Running, NotHeld
  <2>2. QED
    BY <2>1, FS_EmptySet DEF Slots!Init
<1>2. IInv /\ [Next]_vars => [Slots!Next]_(Slots!slots)
  BY SlotsRefined
<1>3. QED
  BY <1>1, <1>2, Invariance, PTL DEF Spec, ImplementsSlots, Slots!Spec

-----------------------------------------------------------------------------
(* Deliveries to merchants                                                 *)

\* The jobs whose POST of event e is under way.
Posting(e) == {j \in Jobs : pc[j] = "post" /\ eventOf[j] = e}

\* Only a claim leads a deduplicated job to its POST: what the merchant has been
\* given of an event, and what is on its way, fits into the claims that its key
\* has had: those that expired, and the present one.
ClaimsCover ==
    \A e \in Events :
      given[e] + Cardinality(Posting(e)) <= expired[e] + (IF e \in claimed THEN 1 ELSE 0)

\* A job about to deduplicate has an event id.
DedupHasEvent == \A j \in Jobs : pc[j] = "dedup" => eventOf[j] \in Events

DeliveryInv ==
    /\ pc \in [Jobs -> {"idle", "dedup", "post"}]
    /\ expired \in [Events -> Nat]
    /\ given \in [Events -> Nat]
    /\ DedupHasEvent
    /\ ClaimsCover

\* The POSTs under way are finitely many.
LEMMA PostingFinite ==
    ASSUME NEW S \in SUBSET Jobs
    PROVE  IsFiniteSet(S) /\ Cardinality(S) \in Nat
  BY WebhookAssumption, FS_Subset, FS_CardinalityType

\* The processor of job j goes elsewhere than to its POST: no more is on its way.
LEMMA PostingShrinks ==
    ASSUME DeliveryInv, NEW j \in Jobs, NEW p \in {"idle", "dedup"}, NEW e \in Events,
           pc' = [pc EXCEPT ![j] = p]
    PROVE  /\ Cardinality(Posting(e)') <= Cardinality(Posting(e))
           /\ j \in Posting(e) => Cardinality(Posting(e)') = Cardinality(Posting(e)) - 1
           /\ Cardinality(Posting(e)') \in Nat /\ Cardinality(Posting(e)) \in Nat
  <1>1. Posting(e)' = Posting(e) \ {j}
    BY DEF Posting, DeliveryInv
  <1>2. IsFiniteSet(Posting(e)) /\ Cardinality(Posting(e)) \in Nat
        /\ Cardinality(Posting(e)') \in Nat
    BY PostingFinite, <1>1 DEF Posting
  <1>3. Cardinality(Posting(e) \ {j}) = Cardinality(Posting(e)) - (IF j \in Posting(e) THEN 1 ELSE 0)
    BY <1>2, FS_RemoveElement, FS_CardinalityType
  <1> QED  BY <1>1, <1>2, <1>3

\* It reaches its POST: one more of its event is on its way.
LEMMA PostingGrows ==
    ASSUME DeliveryInv, NEW j \in Jobs, NEW e \in Events, pc' = [pc EXCEPT ![j] = "post"]
    PROVE  /\ eventOf[j] # e => Posting(e)' = Posting(e)
           /\ Cardinality(Posting(e)') <= Cardinality(Posting(e)) + 1
           /\ Cardinality(Posting(e)') \in Nat /\ Cardinality(Posting(e)) \in Nat
  <1>1. Posting(e)' = IF eventOf[j] = e THEN Posting(e) \cup {j} ELSE Posting(e)
    BY DEF Posting, DeliveryInv
  <1>2. IsFiniteSet(Posting(e)) /\ Cardinality(Posting(e)) \in Nat
        /\ Cardinality(Posting(e)') \in Nat
    BY PostingFinite, <1>1 DEF Posting
  <1>3. Cardinality(Posting(e) \cup {j}) <= Cardinality(Posting(e)) + 1
    <2>1. CASE j \in Posting(e)
      <3>1. Posting(e) \cup {j} = Posting(e)
        BY <2>1
      <3> QED  BY <1>2, <3>1
    <2>2. CASE j \notin Posting(e)
      <3>1. Cardinality(Posting(e) \cup {j}) = Cardinality(Posting(e)) + 1
        BY <1>2, <2>2, FS_AddElement
      <3> QED  BY <1>2, <3>1
    <2> QED  BY <2>1, <2>2
  <1> QED  BY <1>1, <1>2, <1>3

\* A step after which no POST is under way that was not before, nothing was given,
\* and no claim was lost.
LEMMA QuietStep ==
    ASSUME DeliveryInv, NEW j \in Jobs, NEW p \in {"idle", "dedup"},
           pc' = [pc EXCEPT ![j] = p], p = "dedup" => eventOf[j] \in Events,
           UNCHANGED <<expired, given>>, claimed \subseteq claimed'
    PROVE  DeliveryInv'
  <1>1. ASSUME NEW e \in Events
        PROVE  given'[e] + Cardinality(Posting(e)')
                 <= expired'[e] + (IF e \in claimed' THEN 1 ELSE 0)
    <2>1. /\ Cardinality(Posting(e)') <= Cardinality(Posting(e))
          /\ Cardinality(Posting(e)') \in Nat /\ Cardinality(Posting(e)) \in Nat
      BY PostingShrinks
    <2> QED  BY <2>1 DEF DeliveryInv, ClaimsCover
  <1>2. ClaimsCover'
    BY <1>1 DEF ClaimsCover
  <1> QED  BY <1>2 DEF DeliveryInv, DedupHasEvent

\* The merchant processes the POST of job j, which is over.
LEMMA ReceiveStep ==
    ASSUME DeliveryInv, NEW j \in Jobs, pc[j] = "post",
           pc' = [pc EXCEPT ![j] = "idle"], Receive({j}), UNCHANGED <<expired, claimed>>
    PROVE  DeliveryInv'
  <1>1. ASSUME NEW e \in Events
        PROVE  /\ given'[e] \in Nat
               /\ given'[e] + Cardinality(Posting(e)')
                    <= expired'[e] + (IF e \in claimed' THEN 1 ELSE 0)
    <2>1. /\ Cardinality(Posting(e)') <= Cardinality(Posting(e))
          /\ j \in Posting(e) => Cardinality(Posting(e)') = Cardinality(Posting(e)) - 1
          /\ Cardinality(Posting(e)') \in Nat /\ Cardinality(Posting(e)) \in Nat
      BY PostingShrinks
    <2>2. given'[e] = given[e] + Cardinality({i \in {j} : eventOf[i] = e})
      BY DEF Receive
    <2>3. CASE eventOf[j] = e
      <3>1. {i \in {j} : eventOf[i] = e} = {j} /\ j \in Posting(e)
        BY <2>3 DEF Posting
      <3>2. given'[e] = given[e] + 1
        BY <2>2, <3>1, FS_Singleton
      <3> QED  BY <2>1, <3>1, <3>2 DEF DeliveryInv, ClaimsCover
    <2>4. CASE eventOf[j] # e
      <3>1. {i \in {j} : eventOf[i] = e} = {}
        BY <2>4
      <3>2. given'[e] = given[e]
        <4>1. Cardinality({i \in {j} : eventOf[i] = e}) = 0
          BY <3>1, FS_EmptySet
        <4>2. given[e] \in Nat
          BY DEF DeliveryInv
        <4> QED  BY <2>2, <4>1, <4>2
      <3> QED  BY <2>1, <3>2 DEF DeliveryInv, ClaimsCover
    <2> QED  BY <2>3, <2>4
  <1>2. given' \in [Events -> Nat]
    <2>1. given' = [e \in Events |-> given'[e]]
      BY DEF Receive
    <2> QED  BY <1>1, <2>1
  <1>3. ClaimsCover'
    BY <1>1 DEF ClaimsCover
  <1> QED  BY <1>2, <1>3 DEF DeliveryInv, DedupHasEvent

\* The worker dies: what arrives was under way, and nothing is any more.
LEMMA CrashStep == ASSUME DeliveryInv, Crash PROVE DeliveryInv'
  <1>1. PICK arrived \in SUBSET {j \in Jobs : pc[j] = "post"} : Receive(arrived)
    BY DEF Crash
  <1>2. pc' = [j \in Jobs |-> "idle"] /\ UNCHANGED <<claimed, expired>>
    BY DEF Crash
  <1>3. ASSUME NEW e \in Events
        PROVE  /\ given'[e] \in Nat
               /\ given'[e] + Cardinality(Posting(e)')
                    <= expired'[e] + (IF e \in claimed' THEN 1 ELSE 0)
    <2>1. {j \in arrived : eventOf[j] = e} \subseteq Posting(e) /\ Posting(e)' = {}
      BY <1>2 DEF Posting
    <2>2. IsFiniteSet(Posting(e)) /\ Cardinality(Posting(e)) \in Nat
      BY PostingFinite DEF Posting
    <2>3. /\ Cardinality({j \in arrived : eventOf[j] = e}) <= Cardinality(Posting(e))
          /\ Cardinality({j \in arrived : eventOf[j] = e}) \in Nat
      BY <2>1, <2>2, FS_Subset, FS_CardinalityType
    <2>4. Cardinality(Posting(e)') = 0
      BY <2>1, FS_EmptySet
    <2>5. given'[e] = given[e] + Cardinality({j \in arrived : eventOf[j] = e})
      BY <1>1 DEF Receive
    <2> QED  BY <1>2, <2>2, <2>3, <2>4, <2>5 DEF DeliveryInv, ClaimsCover
  <1>4. given' \in [Events -> Nat]
    <2>1. given' = [e \in Events |-> given'[e]]
      BY <1>1 DEF Receive
    <2> QED  BY <1>3, <2>1
  <1>5. ClaimsCover'
    BY <1>3 DEF ClaimsCover
  <1> QED  BY <1>2, <1>4, <1>5 DEF DeliveryInv, DedupHasEvent

\* Each step of the worker, the queue and Redis keeps the invariant.
LEMMA NextDeliveryInv == ASSUME Dedup, DeliveryInv, [DeliveryNext]_deliveryVars PROVE DeliveryInv'
  <1> USE WebhookAssumption
  <1>1. ASSUME NEW j \in Jobs, Start(j) PROVE DeliveryInv'
    <2>1. CASE Deduplicated(j)
      <3>1. pc' = [pc EXCEPT ![j] = "dedup"] /\ eventOf[j] \in Events
            /\ UNCHANGED <<claimed, expired, given>>
        BY <1>1, <2>1 DEF Start, Deduplicated
      <3> QED  BY <3>1, QuietStep
    <2>2. CASE ~Deduplicated(j)
      <3>1. pc' = [pc EXCEPT ![j] = "post"] /\ eventOf[j] = NoEvent
            /\ UNCHANGED <<claimed, expired, given>>
        BY <1>1, <2>2 DEF Start, Deduplicated
      <3>2. \A e \in Events : Posting(e)' = Posting(e)
        BY <3>1, PostingGrows
      <3>3. ClaimsCover'
        BY <3>1, <3>2 DEF DeliveryInv, ClaimsCover
      <3> QED  BY <3>1, <3>3 DEF DeliveryInv, DedupHasEvent
    <2> QED  BY <2>1, <2>2
  <1>2. ASSUME NEW j \in Jobs, Claim(j) PROVE DeliveryInv'
    <2>1. /\ pc' = [pc EXCEPT ![j] = "post"] /\ eventOf[j] \in Events
          /\ eventOf[j] \notin claimed /\ claimed' = claimed \cup {eventOf[j]}
          /\ UNCHANGED <<expired, given>>
      BY <1>2 DEF Claim, DeliveryInv, DedupHasEvent
    <2>2. ASSUME NEW e \in Events
          PROVE  given'[e] + Cardinality(Posting(e)')
                   <= expired'[e] + (IF e \in claimed' THEN 1 ELSE 0)
      <3>1. /\ eventOf[j] # e => Posting(e)' = Posting(e)
            /\ Cardinality(Posting(e)') <= Cardinality(Posting(e)) + 1
            /\ Cardinality(Posting(e)') \in Nat /\ Cardinality(Posting(e)) \in Nat
        BY <2>1, PostingGrows
      <3>2. CASE eventOf[j] = e
        BY <2>1, <3>1, <3>2 DEF DeliveryInv, ClaimsCover
      <3>3. CASE eventOf[j] # e
        BY <2>1, <3>1, <3>3 DEF DeliveryInv, ClaimsCover
      <3> QED  BY <3>2, <3>3
    <2>3. ClaimsCover'
      BY <2>2 DEF ClaimsCover
    <2> QED  BY <2>1, <2>3 DEF DeliveryInv, DedupHasEvent
  <1>3. ASSUME NEW j \in Jobs, Skip(j) \/ DedupError(j) \/ Reject(j) PROVE DeliveryInv'
    <2>1. /\ pc' = [pc EXCEPT ![j] = "idle"] /\ UNCHANGED <<expired, given>>
          /\ claimed \subseteq claimed'
      BY <1>3 DEF Skip, DedupError, Reject, Finish, Throw
    <2> QED  BY <2>1, QuietStep
  <1>4. ASSUME NEW j \in Jobs, Deliver(j) \/ AnswerTooLate(j) PROVE DeliveryInv'
    <2>1. /\ pc[j] = "post" /\ pc' = [pc EXCEPT ![j] = "idle"] /\ Receive({j})
          /\ UNCHANGED <<claimed, expired>>
      BY <1>4 DEF Deliver, AnswerTooLate, Finish, Throw
    <2> QED  BY <2>1, ReceiveStep
  <1>5. ASSUME NEW e \in Events, KeyExpires(e) PROVE DeliveryInv'
    <2>1. /\ e \in claimed /\ claimed' = claimed \ {e}
          /\ expired' = [expired EXCEPT ![e] = @ + 1] /\ UNCHANGED <<pc, given>>
      BY <1>5 DEF KeyExpires
    <2>2. expired' \in [Events -> Nat]
      BY <2>1 DEF DeliveryInv
    <2>3. \A d \in Events : Posting(d)' = Posting(d)
      BY <2>1 DEF Posting
    <2>4. \A d \in Events : Cardinality(Posting(d)) \in Nat
      BY PostingFinite DEF Posting
    <2>5. ClaimsCover'
      <3> SUFFICES ASSUME NEW d \in Events
                   PROVE  given[d] + Cardinality(Posting(d))
                            <= expired'[d] + (IF d \in claimed' THEN 1 ELSE 0)
        BY <2>1, <2>3 DEF ClaimsCover
      <3>1. given[d] + Cardinality(Posting(d)) <= expired[d] + (IF d \in claimed THEN 1 ELSE 0)
        BY DEF DeliveryInv, ClaimsCover
      <3>2. CASE d = e
        <4>1. expired'[d] = expired[d] + 1 /\ d \notin claimed' /\ d \in claimed
          BY <2>1, <3>2 DEF DeliveryInv
        <4> QED  BY <2>4, <3>1, <4>1 DEF DeliveryInv
      <3>3. CASE d # e
        <4>1. expired'[d] = expired[d] /\ (d \in claimed' <=> d \in claimed)
          BY <2>1, <3>3 DEF DeliveryInv
        <4> QED  BY <2>4, <3>1, <4>1 DEF DeliveryInv
      <3> QED  BY <3>2, <3>3
    <2> QED  BY <2>1, <2>2, <2>5 DEF DeliveryInv, DedupHasEvent
  <1>6. ASSUME \/ \E j \in Jobs : Enqueue(j) \/ Stalled(j)
               \/ UNCHANGED deliveryVars
        PROVE  DeliveryInv'
    <2>1. UNCHANGED <<pc, claimed, expired, given>>
      BY <1>6 DEF Enqueue, Stalled, deliveryVars
    <2>2. \A e \in Events : Posting(e)' = Posting(e)
      BY <2>1 DEF Posting
    <2> QED  BY <2>1, <2>2 DEF DeliveryInv, DedupHasEvent, ClaimsCover
  <1> QED  BY <1>1, <1>2, <1>3, <1>4, <1>5, <1>6, CrashStep DEF DeliveryNext, JobStep

\* For any jobs, attempts and faults, deduplication gives a merchant an event at most
\* once for each life of the event's Redis key, whatever is enqueued twice, rejected,
\* answered too late or interrupted by a crash.
THEOREM AtMostOncePerKeyAlways == DeliverySpec => []AtMostOncePerKey
  <1>1. CASE ~Dedup
    <2>1. AtMostOncePerKey
      BY <1>1 DEF AtMostOncePerKey
    <2>2. [](~Dedup) => []AtMostOncePerKey
      <3>1. ~Dedup => AtMostOncePerKey
        BY DEF AtMostOncePerKey
      <3> QED  BY <3>1, PTL
    <2> QED  BY <1>1, <2>2, PTL
  <1>2. CASE Dedup
    <2>1. DeliveryInit => DeliveryInv
      <3> SUFFICES ASSUME DeliveryInit PROVE DeliveryInv
        OBVIOUS
      <3>1. \A e \in Events : Posting(e) = {} /\ given[e] = 0 /\ expired[e] = 0 /\ e \notin claimed
        BY DEF DeliveryInit, Posting
      <3>2. ClaimsCover
        BY <3>1, FS_EmptySet DEF ClaimsCover
      <3> QED  BY <3>2 DEF DeliveryInit, DeliveryInv, DedupHasEvent
    <2>2. DeliveryInv /\ [DeliveryNext]_deliveryVars => DeliveryInv'
      BY <1>2, NextDeliveryInv
    <2>3. DeliveryInv => AtMostOncePerKey
      <3> SUFFICES ASSUME DeliveryInv, NEW e \in Events PROVE given[e] <= expired[e] + 1
        BY DEF AtMostOncePerKey
      <3>1. Cardinality(Posting(e)) \in Nat
        BY PostingFinite DEF Posting
      <3> QED  BY <3>1 DEF DeliveryInv, ClaimsCover
    <2> QED  BY <2>1, <2>2, <2>3, PTL DEF DeliverySpec
  <1> QED  BY <1>1, <1>2
=============================================================================
