----------------------- MODULE SettlementEngineProofs -----------------------
(***************************************************************************)
(* Proofs about SettlementEngine for any number of settlements, jobs,      *)
(* merchants, reapers and faults.                                          *)
(***************************************************************************)
EXTENDS SettlementEngine, FiniteSetTheorems, TLAPS

\* A program counter moves within PCs.
LEMMA GoType ==
  ASSUME TypeOK, NEW r, NEW from, NEW to \in PCs, Go(r, from, to)
  PROVE  pc' \in [Runs -> PCs]
BY DEF TypeOK, Go

\* A budget only shrinks to a natural number.
LEMMA SpendType ==
  ASSUME TypeOK, NEW kind \in Kinds, Spend(kind)
  PROVE  budget' \in [Kinds -> Nat]
BY DEF TypeOK, Spend

\* BullMQ counts at most MaxAttempts failed attempts of a job, because only
\* the current run of a job fails it.
LEMMA AttemptFailsType ==
  ASSUME TypeOK, NEW r \in Runs, Current(r), AttemptFails(r[1])
  PROVE  /\ job' \in [Jobs -> Job]
         /\ dlq' \subseteq [sid : Settlements \cup {NoRow}, made : 0 .. MaxAttempts]
<1> USE EngineAssumption
<1> DEFINE j == r[1]
           n == job[j].made + 1
<1>1. j \in Jobs /\ r[2] \in 1 .. MaxAttempts
  BY DEF Runs, Attempts
<1>2. n = r[2] /\ job[j] \in Job
  BY <1>1 DEF TypeOK, Current, jobOf, attemptOf, Job
<1>3. n \in 0 .. MaxAttempts
  BY <1>1, <1>2
<1>4. job' = [job EXCEPT ![j] =
                [@ EXCEPT !.made = n,
                          !.state = IF n < MaxAttempts THEN "waiting" ELSE "failed"]]
  BY DEF AttemptFails
<1>5. job' \in [Jobs -> Job]
  BY <1>1, <1>2, <1>3, <1>4 DEF TypeOK, Job, JobStates
<1>6. QED
  BY <1>1, <1>2, <1>3, <1>5 DEF AttemptFails, TypeOK, Job

\* Changing the state of a job keeps it well formed.
LEMMA SetStateType ==
  ASSUME NEW f \in [Jobs -> Job], NEW j \in Jobs, NEW x \in JobStates
  PROVE  [f EXCEPT ![j].state = x] \in [Jobs -> Job]
BY DEF Job

\* A new job is well formed.
LEMMA AddJobType ==
  ASSUME TypeOK, NEW j \in Jobs, NEW s \in Settlements \cup {NoRow}, NEW k \in Keys,
         AddJob(j, s, k)
  PROVE  job' \in [Jobs -> Job]
BY EngineAssumption DEF TypeOK, AddJob, NewJob, Job, JobStates

\* The runs are finitely many, so slots can be counted.
LEMMA HeldFinite ==
  ASSUME TypeOK
  PROVE  IsFiniteSet(held) /\ IsFiniteSet(Runs)
<1>1. IsFiniteSet(Attempts)
  BY EngineAssumption, FS_Interval DEF Attempts
<1>2. IsFiniteSet(Runs)
  BY <1>1, EngineAssumption, FS_Product DEF Runs
<1>3. QED
  BY <1>2, FS_Subset DEF TypeOK

LEMMA TypeInit == Init => TypeOK
BY EngineAssumption
   DEF Init, TypeOK, RowState, Absent, Status, Job, JobStates, Keys, NoRow, PCs,
       IdleBatch, IdleReaper

\* What the worker tells Redis about a run keeps the job well formed.
LEMMA SettleType ==
  ASSUME TypeOK, NEW r \in Runs, Settle(r)
  PROVE  /\ pc' \in [Runs -> PCs]
         /\ job' \in [Jobs -> Job]
         /\ dlq' \subseteq [sid : Settlements \cup {NoRow}, made : 0 .. MaxAttempts]
<1> USE EngineAssumption
<1>1. r[1] \in Jobs
  BY DEF Runs
<1>2. pc' \in [Runs -> PCs]
  BY GoType DEF Settle, PCs
<1>3. CASE UNCHANGED <<job, dlq>>
  BY <1>2, <1>3 DEF TypeOK
<1>4. CASE Current(r) /\ AttemptFails(r[1])
  BY <1>2, <1>4, AttemptFailsType
<1>5. CASE /\ job' = [job EXCEPT ![r[1]].state = IF Current(r) THEN "free" ELSE @]
           /\ UNCHANGED dlq
  <2>1. job' \in [Jobs -> Job]
    BY <1>1, <1>5 DEF TypeOK, Job, JobStates
  <2>2. QED
    BY <1>2, <1>5, <2>1 DEF TypeOK
<1>6. QED
  BY <1>3, <1>4, <1>5 DEF Settle

\* A run works on a well-formed job, and so does the copy it adds.
LEMMA RunJob ==
  ASSUME TypeOK, NEW r \in Runs
  PROVE  /\ r[1] \in Jobs /\ job[r[1]] \in Job
         /\ sidOf(r) \in Settlements \cup {NoRow} /\ keyOf(r) \in Keys
BY DEF Runs, TypeOK, sidOf, keyOf, jobOf, Job

LEMMA AddCopyType ==
  ASSUME TypeOK, NEW r \in Runs, AddCopy(r)
  PROVE  job' \in [Jobs -> Job]
BY RunJob, AddJobType DEF AddCopy

\* One more slot that nobody gives back.
LEMMA LeakType ==
  ASSUME TypeOK, NEW r \in Runs, leaked' = [leaked EXCEPT ![keyOf(r)] = @ + 1]
  PROVE  leaked' \in [Keys -> Nat]
<1>1. keyOf(r) \in Keys
  BY RunJob
<1>2. leaked[keyOf(r)] \in Nat /\ leaked \in [Keys -> Nat]
  BY <1>1 DEF TypeOK
<1> HIDE DEF keyOf
<1>3. QED
  BY <1>1, <1>2

\* Every step keeps the types.
LEMMA TypeStep == TypeOK /\ [Next]_vars => TypeOK'
<1> SUFFICES ASSUME TypeOK, [Next]_vars PROVE TypeOK'
  OBVIOUS
<1>0. overlapped' \subseteq Settlements
  BY DEF Next, vars, Shared, TypeOK
<1> USE EngineAssumption, <1>0
<1>1. ASSUME NEW s \in Settlements, CreateRow(s) PROVE TypeOK'
  BY <1>1 DEF CreateRow, TypeOK, RowState, Status, queueVars, semVars
<1>2. ASSUME NEW s \in Settlements, EnqueueRow(s) PROVE TypeOK'
  <2>1. job' \in [Jobs -> Job]
    BY <1>2, AddJobType DEF EnqueueRow, Keys
  <2>2. QED
    BY <1>2, <2>1 DEF EnqueueRow, TypeOK, dbVars, semVars
<1>3. ASSUME NEW s \in Settlements, EnqueueFails(s) PROVE TypeOK'
  <2>1. budget' \in [Kinds -> Nat]
    BY <1>3, SpendType DEF EnqueueFails, Kinds
  <2>2. QED
    BY <1>3, <2>1 DEF EnqueueFails, TypeOK, dbVars, queueVars, semVars
<1>4. ASSUME NEW j \in Jobs, StartAttempt(j) PROVE TypeOK'
  <2>1. pc' \in [Runs -> PCs]
    BY <1>4, GoType DEF StartAttempt, PCs
  <2>2. job' \in [Jobs -> Job]
    <3>1. job' = [job EXCEPT ![j].state = "active"]
      BY <1>4 DEF StartAttempt
    <3>2. "active" \in JobStates /\ job \in [Jobs -> Job]
      BY DEF JobStates, TypeOK
    <3>3. QED
      BY <3>1, <3>2, SetStateType
  <2>3. QED
    BY <1>4, <2>1, <2>2 DEF StartAttempt, TypeOK, dbVars, semVars, processVars
<1>5. ASSUME NEW r \in Runs, RunStep(r) PROVE TypeOK'
  <2>1. CASE Acquire(r)
    <3>1. pc' \in [Runs -> PCs]
      BY <2>1, GoType DEF Acquire, PCs, CriticalPCs
    <3>2. QED
      BY <2>1, <3>1 DEF Acquire, TypeOK, dbVars, queueVars, processVars
  <2>2. CASE Requeue(r)
    <3>1. pc' \in [Runs -> PCs]
      BY <2>2, GoType DEF Requeue, PCs
    <3>2. job' \in [Jobs -> Job]
      BY <2>2, AddCopyType DEF Requeue
    <3>3. QED
      BY <2>2, <3>1, <3>2 DEF Requeue, TypeOK, dbVars, semVars, processVars
  <2>3. ASSUME NEW from, NEW next, NEW ok \in PCs, NEW thrown \in PCs,
               ReadAndValidate(r, from, next, ok, thrown)
        PROVE  TypeOK'
    <3>1. pc' \in [Runs -> PCs]
      BY <2>3, GoType DEF ReadAndValidate
    <3>2. QED
      BY <2>3, <3>1 DEF ReadAndValidate, TypeOK, dbVars, queueVars, semVars, processVars
  <2>4. ASSUME NEW from, NEW next \in Status, NEW to \in PCs, Write(r, from, next, to)
        PROVE  TypeOK'
    <3>1. pc' \in [Runs -> PCs]
      BY <2>4, GoType DEF Write
    <3>2. QED
      BY <2>4, <3>1 DEF Write, TypeOK, RowState, queueVars, semVars, processVars
  <2>5. ASSUME NEW from, NEW event \in Terminal, NEW to \in PCs,
               AddHook(r, from, event, to)
        PROVE  TypeOK'
    <3>1. pc' \in [Runs -> PCs]
      BY <2>5, GoType DEF AddHook
    <3>2. sidOf(r) \in Settlements \cup {NoRow}
      BY DEF sidOf, jobOf, Runs, TypeOK, Job
    <3>3. QED
      BY <2>5, <3>1, <3>2 DEF AddHook, TypeOK, dbVars, semVars, processVars
  <2>6. CASE Release(r)
    <3>1. pc' \in [Runs -> PCs]
      BY <2>6, GoType DEF Release, Leave, PCs
    <3>2. QED
      BY <2>6, <3>1 DEF Release, Leave, TypeOK, dbVars, queueVars, processVars
  <2>7. CASE Settle(r)
    BY <2>7, SettleType DEF Settle, TypeOK, dbVars, semVars, processVars
  <2>8. QED
    BY <1>5, <2>1, <2>2, <2>3, <2>4, <2>5, <2>6, <2>7
       DEF RunStep, ReadProcessing, WriteProcessing, ReadCompleted, WriteCompleted,
           HookCompleted, ReadFailed, WriteFailed, HookFailed, PCs, CriticalPCs,
           Status, Terminal
<1>6. ASSUME NEW r \in Runs, RunFault(r) PROVE TypeOK'
  <2>1. CASE AcquireFails(r)
    <3>1. pc' \in [Runs -> PCs] /\ budget' \in [Kinds -> Nat]
      BY <2>1, GoType, SpendType DEF AcquireFails, PCs, Kinds
    <3>2. job' \in [Jobs -> Job]
      BY <2>1, AddCopyType DEF AcquireFails, TypeOK
    <3>3. leaked' \in [Keys -> Nat]
      BY <2>1, LeakType DEF AcquireFails, TypeOK
    <3>4. QED
      BY <2>1, <3>1, <3>2, <3>3 DEF AcquireFails, TypeOK, dbVars, processVars
  <2>2. CASE DbError(r)
    <3>1. budget' \in [Kinds -> Nat]
      BY <2>2, SpendType DEF DbError, Kinds
    <3>2. pc' \in [Runs -> PCs]
      BY <2>2, GoType DEF DbError, PCs, CriticalPCs
    <3>3. status' \in [Settlements -> RowState]
      BY <2>2 DEF DbError, TypeOK, RowState, Status, written
    <3>4. QED
      BY <2>2, <3>1, <3>2, <3>3 DEF DbError, TypeOK, queueVars, semVars, processVars
  <2>3. CASE HookError(r)
    <3>1. budget' \in [Kinds -> Nat]
      BY <2>3, SpendType DEF HookError, Kinds
    <3>2. pc' \in [Runs -> PCs]
      BY <2>3, GoType DEF HookError, PCs, CriticalPCs
    <3>3. hooks' \subseteq [sid : Settlements \cup {NoRow}, event : Terminal]
      BY <2>3, RunJob DEF HookError, TypeOK, Terminal
    <3>4. QED
      BY <2>3, <3>1, <3>2, <3>3 DEF HookError, TypeOK, dbVars, semVars, processVars
  <2>4. CASE ReleaseFails(r)
    <3>1. pc' \in [Runs -> PCs] /\ budget' \in [Kinds -> Nat]
      BY <2>4, GoType, SpendType DEF ReleaseFails, Leave, PCs, Kinds
    <3>2. leaked' \in [Keys -> Nat]
      BY <2>4, LeakType DEF ReleaseFails
    <3>3. QED
      BY <2>4, <3>1, <3>2 DEF ReleaseFails, Leave, TypeOK, dbVars, queueVars, processVars
  <2>5. CASE JobTimeout(r)
    <3>1. budget' \in [Kinds -> Nat]
      BY <2>5, SpendType DEF JobTimeout, Kinds
    <3>2. QED
      BY <2>5, <3>1, AttemptFailsType
         DEF JobTimeout, TypeOK, dbVars, semVars, processVars
  <2>6. CASE SettleFails(r)
    <3>1. pc' \in [Runs -> PCs] /\ budget' \in [Kinds -> Nat]
      BY <2>6, GoType, SpendType DEF SettleFails, PCs, Kinds
    <3>2. QED
      BY <2>6, <3>1 DEF SettleFails, TypeOK, dbVars, queueVars, semVars, processVars
  <2>7. QED
    BY <1>6, <2>1, <2>2, <2>3, <2>4, <2>5, <2>6 DEF RunFault
<1>7. ASSUME NEW k \in Keys, SlotExpires(k) PROVE TypeOK'
  <2>1. leaked' \in [Keys -> Nat]
    BY <1>7 DEF SlotExpires, TypeOK
  <2>2. QED
    BY <1>7, <2>1 DEF SlotExpires, TypeOK, dbVars, queueVars, processVars
<1>8. CASE BatchStep
  <2>1. CASE BatchRead
    <3>1. budget' \in [Kinds -> Nat]
      BY <2>1, SpendType DEF BatchRead, Kinds
    <3>2. QED
      BY <2>1, <3>1
         DEF BatchRead, TypeOK, Pending, oldestOf, dbVars, queueVars, semVars
  <2>2. CASE BatchGroup
    <3>1. PICK g \in SUBSET Settlements :
            \/ /\ counted' = [s \in Settlements |->
                                IF s \in g THEN counted[s] + 1 ELSE counted[s]]
               /\ batch' = [pc |-> "validate", ids |-> batch.ids \ g, group |-> g]
            \/ batch' = [batch EXCEPT !.ids = @ \ g] /\ UNCHANGED counted
      <4> DEFINE first == CHOOSE s \in batch.ids : \A t \in batch.ids : s <= t
                 g     == {s \in batch.ids : assetOf[s] = assetOf[first]}
      <4>1. g \in SUBSET Settlements
        BY DEF TypeOK
      <4>2. QED
        <5>1. \/ /\ counted' = [s \in Settlements |->
                                  IF s \in g THEN counted[s] + 1 ELSE counted[s]]
                 /\ batch' = [pc |-> "validate", ids |-> batch.ids \ g, group |-> g]
              \/ batch' = [batch EXCEPT !.ids = @ \ g] /\ UNCHANGED counted
          BY <2>2, Zenon DEF BatchGroup
        <5>2. QED
          BY <4>1, <5>1, Zenon
    <3>2. counted' \in [Settlements -> Nat]
      BY <3>1 DEF TypeOK
    <3>3. QED
      BY <2>2, <3>1, <3>2 DEF BatchGroup, TypeOK, queueVars, semVars
  <2>3. CASE BatchValidate
    BY <2>3 DEF BatchValidate, IdleBatch, TypeOK, dbVars, queueVars, semVars
  <2>4. CASE BatchWrite
    BY <2>4 DEF BatchWrite, TypeOK, RowState, Status, queueVars, semVars
  <2>5. CASE BatchDone
    BY <2>5 DEF BatchDone, IdleBatch, TypeOK, dbVars, queueVars, semVars
  <2>6. QED
    BY <1>8, <2>1, <2>2, <2>3, <2>4, <2>5 DEF BatchStep
<1>9. CASE BatchError
  <2>1. budget' \in [Kinds -> Nat]
    BY <1>9, SpendType DEF BatchError, Kinds
  <2>2. QED
    BY <1>9, <2>1 DEF BatchError, IdleBatch, TypeOK, dbVars, queueVars, semVars
<1>10. ASSUME NEW s \in Settlements, Age(s) PROVE TypeOK'
  BY <1>10 DEF Age, TypeOK, queueVars, semVars, processVars
<1>11. ASSUME NEW w \in Reapers, ReaperStep(w) PROVE TypeOK'
  <2>1. CASE ReapScan(w)
    <3>1. budget' \in [Kinds -> Nat]
      BY <2>1, SpendType DEF ReapScan, Kinds
    <3>2. QED
      BY <2>1, <3>1 DEF ReapScan, Stuck, TypeOK, dbVars, queueVars, semVars
  <2>2. ASSUME NEW s \in Settlements, ReapClaim(w, s) PROVE TypeOK'
    <3>1. status' \in [Settlements -> RowState]
      BY <2>2 DEF ReapClaim, TypeOK, RowState, Status
    <3>2. reaper' \in [Reapers -> [todo : SUBSET Settlements,
                                  add  : Settlements \cup {NoRow}]]
      BY <2>2 DEF ReapClaim, TypeOK
    <3>3. QED
      BY <2>2, <3>1, <3>2 DEF ReapClaim, TypeOK, queueVars, semVars
  <2>3. CASE ReapAdd(w)
    <3>1. reaper[w].add \in Settlements \cup {NoRow}
      BY DEF TypeOK
    <3>2. job' \in [Jobs -> Job]
      BY <2>3, <3>1, AddJobType DEF ReapAdd, Keys
    <3>3. QED
      BY <2>3, <3>2 DEF ReapAdd, TypeOK, dbVars, semVars
  <2>4. QED
    BY <1>11, <2>1, <2>2, <2>3 DEF ReaperStep
<1>12. ASSUME NEW w \in Reapers, ReapError(w) PROVE TypeOK'
  <2>1. budget' \in [Kinds -> Nat]
    BY <1>12, SpendType DEF ReapError, Kinds
  <2>2. QED
    BY <1>12, <2>1 DEF ReapError, IdleReaper, TypeOK, dbVars, queueVars, semVars
<1>13. CASE Crash
  <2>1. budget' \in [Kinds -> Nat]
    BY <1>13, SpendType DEF Crash, Kinds
  <2>2. leaked' \in [Keys -> Nat]
    <3>1. ASSUME NEW k \in Keys PROVE slotsOf(k) \in Nat
      <4>1. IsFiniteSet({r \in held : keyOf(r) = k})
        BY HeldFinite, FS_Subset
      <4>2. QED
        BY <4>1, FS_CardinalityType DEF slotsOf, TypeOK
    <3>2. QED
      BY <1>13, <3>1 DEF Crash
  <2>3. QED
    BY <1>13, <2>1, <2>2
       DEF Crash, IdleBatch, IdleReaper, TypeOK, PCs, dbVars, queueVars
<1>14. ASSUME NEW j \in Jobs, Stalled(j) PROVE TypeOK'
  <2>1. job' \in [Jobs -> Job]
    <3>1. job \in [Jobs -> Job] /\ job[j] \in Job
      BY DEF TypeOK
    <3>2. CASE job' = [job EXCEPT ![j].state = "failed"]
      BY <3>1, <3>2 DEF Job, JobStates
    <3>3. CASE job' = [job EXCEPT ![j] = [@ EXCEPT !.state = "waiting", !.stalled = TRUE]]
      <4>1. [job[j] EXCEPT !.state = "waiting", !.stalled = TRUE] \in Job
        BY <3>1 DEF Job, JobStates
      <4>2. QED
        BY <3>1, <3>3, <4>1
    <3>4. QED
      BY <1>14, <3>2, <3>3 DEF Stalled
  <2>2. dlq' \subseteq [sid : Settlements \cup {NoRow}, made : 0 .. MaxAttempts]
    BY <1>14 DEF Stalled, TypeOK, Job
  <2>3. QED
    BY <1>14, <2>1, <2>2 DEF Stalled, TypeOK, dbVars, semVars, processVars
<1>15. CASE UNCHANGED vars
  BY <1>15 DEF vars, engineVars, dbVars, queueVars, semVars, processVars, TypeOK
<1>16. QED
  BY <1>1, <1>2, <1>3, <1>4, <1>5, <1>6, <1>7, <1>8, <1>9, <1>10, <1>11, <1>12,
     <1>13, <1>14, <1>15 DEF Next, Step

\* Type correctness: for every number of rows, jobs, merchants and faults, each
\* variable of the engine keeps its type; in particular no job is counted more
\* than MaxAttempts failed attempts and no slot count becomes negative.
THEOREM TypeCorrect == Spec => []TypeOK
BY TypeInit, TypeStep, PTL DEF Spec

-----------------------------------------------------------------------------
(* The semaphore: SlotAccounting with TypeOK is inductive, and it implies  *)
(* the concurrency limit.                                                  *)

\* The jobs of the runs in S keep their semaphore keys.
KeepsKeys(S) == \A r \in S : job'[r[1]].key = job[r[1]].key

\* The same holders with the same keys count the same.
LEMMA SameSlots ==
  ASSUME TypeOK, held' = held, leaked' = leaked, KeepsKeys(held), NEW k \in Keys
  PROVE  slotsOf(k)' = slotsOf(k)
<1>1. {r \in held : keyOf(r) = k}' = {r \in held : keyOf(r) = k}
  BY DEF KeepsKeys, keyOf, jobOf
<1>2. QED
  BY <1>1 DEF slotsOf

\* What a step can do to the slots: nothing, a run enters below the limit, a
\* slot is taken for a run that never learns of it, a run leaves and gives its
\* slot back or not, a slot expires, or all are lost.
SlotsKept == held' = held /\ leaked' = leaked /\ KeepsKeys(held) /\ Critical' = Critical
Enters(r) ==
    /\ r \notin held /\ held' = held \cup {r} /\ Critical' = held'
    /\ leaked' = leaked /\ job' = job
    /\ slotsOf(keyOf(r)) < MaxConcurrent
Misses(r) ==
    /\ held' = held /\ Critical' = Critical /\ job' = job
    /\ leaked' = [leaked EXCEPT ![keyOf(r)] = @ + 1]
    /\ slotsOf(keyOf(r)) < MaxConcurrent
Leaves(r) == held' = held \ {r} /\ Critical' = held' /\ KeepsKeys(Runs)
SlotEffect ==
    \/ SlotsKept
    \/ \E r \in Runs : Enters(r)
    \/ \E r \in Runs : Misses(r)
    \/ \E r \in held : Leaves(r) /\ leaked' = leaked
    \/ \E r \in held : Leaves(r) /\ leaked' = [leaked EXCEPT ![keyOf(r)] = @ + 1]
    \/ \E key \in Keys : SlotExpires(key)
    \/ Crash

\* Moving a run between two steps on the same side of acquire or release.
LEMMA GoCritical ==
  ASSUME TypeOK, NEW r, NEW from, NEW to, Go(r, from, to),
         from \in CriticalPCs <=> to \in CriticalPCs
  PROVE  Critical' = Critical
BY DEF TypeOK, Go, Critical

\* A run that enters or leaves the critical section.
LEMMA GoEnter ==
  ASSUME TypeOK, NEW r \in Runs, NEW from, NEW to, Go(r, from, to),
         to \in CriticalPCs
  PROVE  Critical' = Critical \cup {r}
BY DEF TypeOK, Go, Critical

LEMMA GoLeave ==
  ASSUME TypeOK, NEW r \in Runs, NEW from, NEW to, Go(r, from, to),
         from \in CriticalPCs, to \notin CriticalPCs
  PROVE  r \in Critical /\ Critical' = Critical \ {r}
BY DEF TypeOK, Go, Critical

\* Adding a job reuses only a slot none of whose runs is in progress.
LEMMA FreeJobHasNoHolder ==
  ASSUME TypeOK, SlotAccounting, NEW j \in Jobs, FreeJob(j), NEW r \in held
  PROVE  r[1] # j
<1>1. r \in Runs /\ pc[r] \in CriticalPCs
  BY DEF SlotAccounting, Critical
<1>2. r = <<r[1], r[2]>> /\ r[2] \in Attempts
  BY <1>1 DEF Runs
<1>3. pc[r] # "idle"
  BY <1>1 DEF CriticalPCs
<1>4. QED
  BY <1>2, <1>3 DEF FreeJob

LEMMA AddJobKeepsKeys ==
  ASSUME TypeOK, SlotAccounting, NEW j \in Jobs, NEW s, NEW k, AddJob(j, s, k)
  PROVE  KeepsKeys(held)
BY FreeJobHasNoHolder DEF KeepsKeys, AddJob, TypeOK

\* A failed attempt changes a job's count and state only.
LEMMA AttemptFailsKeepsKeys ==
  ASSUME TypeOK, NEW j \in Jobs, AttemptFails(j)
  PROVE  KeepsKeys(Runs)
<1>1. ASSUME NEW i \in Jobs PROVE job'[i].key = job[i].key
  <2>1. job[i] \in Job /\ job[j] \in Job
    BY DEF TypeOK
  <2> DEFINE n == job[j].made + 1
  <2>2. job' = [job EXCEPT ![j] =
                  [@ EXCEPT !.made = n,
                            !.state = IF n < MaxAttempts THEN "waiting" ELSE "failed"]]
    BY DEF AttemptFails
  <2> HIDE DEF n
  <2>3. QED
    BY <2>1, <2>2 DEF TypeOK, Job
<1>2. QED
  BY <1>1 DEF KeepsKeys, Runs

\* Leaving the critical section gives up exactly one slot.
LEMMA LeaveSlots ==
  ASSUME TypeOK, SlotAccounting, NEW r \in Runs, Leave(r)
  PROVE  r \in held /\ Leaves(r)
<1>1. r \in held /\ Critical' = Critical \ {r} /\ held' = held \ {r}
  BY GoLeave DEF Leave, SlotAccounting, CriticalPCs
<1>2. KeepsKeys(Runs)
  BY DEF Leave, queueVars, KeepsKeys
<1>3. QED
  BY <1>1, <1>2 DEF SlotAccounting, Leaves

\* The end of a job's attempt touches no slot and no key.
LEMMA SettleSlots ==
  ASSUME TypeOK, NEW r \in Runs, Settle(r)
  PROVE  KeepsKeys(Runs) /\ Critical' = Critical
<1>1. Critical' = Critical
  BY GoCritical DEF Settle, CriticalPCs
<1>2. r[1] \in Jobs
  BY DEF Runs
<1>3. CASE UNCHANGED job
  BY <1>1, <1>3 DEF KeepsKeys
<1>4. CASE AttemptFails(r[1])
  BY <1>1, <1>2, <1>4, AttemptFailsKeepsKeys
<1>5. CASE job' = [job EXCEPT ![r[1]].state = IF Current(r) THEN "free" ELSE @]
  BY <1>1, <1>2, <1>5 DEF KeepsKeys, Runs, TypeOK, Job
<1>6. QED
  BY <1>3, <1>4, <1>5 DEF Settle

\* What the count of a key becomes when run r gives its slot up.
LEMMA DropSlot ==
  ASSUME TypeOK, NEW r \in held, Leaves(r), NEW k \in Keys
  PROVE  LET S == {x \in held : keyOf(x) = k} IN
         /\ {x \in held : keyOf(x) = k}' = S \ {r}
         /\ Cardinality(S) \in Nat
         /\ Cardinality({x \in held : keyOf(x) = k}') =
              IF keyOf(r) = k THEN Cardinality(S) - 1 ELSE Cardinality(S)
<1> DEFINE S == {x \in held : keyOf(x) = k}
<1>1. IsFiniteSet(S)
  BY HeldFinite, FS_Subset
<1>2. {x \in held : keyOf(x) = k}' = S \ {r}
  BY DEF Leaves, KeepsKeys, keyOf, jobOf, TypeOK
<1>3. r \in S <=> keyOf(r) = k
  OBVIOUS
<1>4. Cardinality(S \ {r}) = IF r \in S THEN Cardinality(S) - 1 ELSE Cardinality(S)
  BY <1>1, FS_RemoveElement
<1>5. QED
  BY <1>1, <1>2, <1>3, <1>4, FS_CardinalityType

LEMMA SlotInit == Init => SlotAccounting
<1> SUFFICES ASSUME Init PROVE SlotAccounting
  OBVIOUS
<1>1. held = {} /\ Critical = {}
  BY DEF Init, Critical, CriticalPCs
<1>2. ASSUME NEW k \in Keys PROVE slotsOf(k) = 0
  <2>1. {r \in held : keyOf(r) = k} = {}
    BY <1>1
  <2>2. leaked[k] = 0
    BY DEF Init
  <2>3. QED
    BY <2>1, <2>2, FS_EmptySet DEF slotsOf
<1>3. QED
  BY <1>1, <1>2, EngineAssumption DEF SlotAccounting

\* Every step has one of these effects.
LEMMA SlotEffects == TypeOK /\ SlotAccounting /\ [Next]_vars => SlotEffect
<1> SUFFICES ASSUME TypeOK, SlotAccounting, [Next]_vars PROVE SlotEffect
  OBVIOUS
<1> USE EngineAssumption
\* Steps that touch neither jobs nor runs nor slots.
<1>1. ASSUME UNCHANGED <<job, held, leaked, pc>> PROVE SlotEffect
  BY <1>1 DEF SlotEffect, SlotsKept, KeepsKeys, Critical
<1>2. ASSUME NEW s \in Settlements, EnqueueRow(s) PROVE SlotEffect
  <2>1. KeepsKeys(held)
    BY <1>2, AddJobKeepsKeys DEF EnqueueRow
  <2>2. QED
    BY <1>2, <2>1 DEF SlotEffect, SlotsKept, EnqueueRow, semVars, Critical
<1>3. ASSUME NEW j \in Jobs, StartAttempt(j) PROVE SlotEffect
  <2>1. Critical' = Critical
    BY <1>3, GoCritical DEF StartAttempt, CriticalPCs
  <2>2. job' = [job EXCEPT ![j].state = "active"]
    BY <1>3 DEF StartAttempt
  <2>3. KeepsKeys(held)
    BY <2>2 DEF KeepsKeys, TypeOK, Runs, Job
  <2>4. QED
    BY <1>3, <2>1, <2>3 DEF SlotEffect, SlotsKept, StartAttempt, semVars
<1>4. ASSUME NEW r \in Runs, RunStep(r) PROVE SlotEffect
  <2>1. CASE Acquire(r)
    <3>1. held' = held \cup {r} /\ leaked' = leaked /\ job' = job
      BY <2>1 DEF Acquire, queueVars
    <3>2. Critical' = held' /\ r \notin held
      BY <2>1, <3>1, GoEnter DEF Acquire, Go, Critical, CriticalPCs, SlotAccounting
    <3>3. Enters(r)
      BY <2>1, <3>1, <3>2 DEF Enters, Acquire
    <3>4. QED
      BY <3>3 DEF SlotEffect
  <2>2. CASE Requeue(r)
    <3>1. Critical' = Critical
      BY <2>2, GoCritical DEF Requeue, CriticalPCs
    <3>2. KeepsKeys(held)
      BY <2>2, AddJobKeepsKeys DEF Requeue, AddCopy
    <3>3. QED
      BY <2>2, <3>1, <3>2 DEF SlotEffect, SlotsKept, Requeue, semVars
  <2>3. ASSUME NEW from \in CriticalPCs, NEW to \in CriticalPCs, Go(r, from, to),
               UNCHANGED <<job, held, leaked>>
        PROVE  SlotEffect
    BY <2>3, GoCritical DEF SlotEffect, SlotsKept, KeepsKeys
  <2>4. CASE Release(r)
    BY <2>4, LeaveSlots DEF Release, SlotEffect
  <2>5. CASE Settle(r)
    <3>1. KeepsKeys(held) /\ Critical' = Critical
      BY <2>5, SettleSlots DEF KeepsKeys, TypeOK
    <3>2. QED
      BY <2>5, <3>1 DEF SlotEffect, SlotsKept, Settle, semVars
  <2>6. CASE ~(Acquire(r) \/ Requeue(r) \/ Release(r) \/ Settle(r))
    BY <1>4, <2>3, <2>6
       DEF RunStep, ReadProcessing, WriteProcessing, ReadCompleted, WriteCompleted,
           HookCompleted, ReadFailed, WriteFailed, HookFailed, ReadAndValidate,
           Write, AddHook, CriticalPCs, queueVars, semVars
  <2>7. QED
    BY <2>1, <2>2, <2>4, <2>5, <2>6
<1>5. ASSUME NEW r \in Runs, RunFault(r) PROVE SlotEffect
  <2>0. r[1] \in Jobs
    BY DEF Runs
  <2>1. CASE AcquireFails(r)
    <3>1. Critical' = Critical
      BY <2>1, GoCritical DEF AcquireFails, CriticalPCs
    <3>2. held' = held
      BY <2>1 DEF AcquireFails
    <3>3. CASE UNCHANGED <<job, leaked>>
      BY <3>1, <3>2, <3>3 DEF SlotEffect, SlotsKept, KeepsKeys
    <3>4. CASE /\ slotsOf(keyOf(r)) < MaxConcurrent
               /\ leaked' = [leaked EXCEPT ![keyOf(r)] = @ + 1]
               /\ UNCHANGED job
      BY <3>1, <3>2, <3>4 DEF SlotEffect, Misses
    <3>5. CASE AddCopy(r) /\ UNCHANGED leaked
      <4>1. KeepsKeys(held)
        BY <3>5, AddJobKeepsKeys DEF AddCopy
      <4>2. QED
        BY <3>1, <3>2, <3>5, <4>1 DEF SlotEffect, SlotsKept
    <3>6. QED
      BY <2>1, <3>3, <3>4, <3>5 DEF AcquireFails
  <2>2. CASE DbError(r)
    <3>1. Critical' = Critical
      BY <2>2, GoCritical DEF DbError, CriticalPCs
    <3>2. QED
      BY <2>2, <3>1 DEF SlotEffect, SlotsKept, DbError, queueVars, semVars, KeepsKeys
  <2>3. CASE HookError(r)
    <3>1. Critical' = Critical
      BY <2>3, GoCritical DEF HookError, CriticalPCs
    <3>2. QED
      BY <2>3, <3>1 DEF SlotEffect, SlotsKept, HookError, queueVars, semVars, KeepsKeys
  <2>4. CASE ReleaseFails(r)
    BY <2>4, LeaveSlots DEF ReleaseFails, SlotEffect
  <2>5. CASE JobTimeout(r)
    <3>1. KeepsKeys(Runs)
      BY <2>0, <2>5, AttemptFailsKeepsKeys DEF JobTimeout
    <3>2. QED
      BY <2>5, <3>1 DEF SlotEffect, SlotsKept, JobTimeout, semVars, KeepsKeys, TypeOK, Critical
  <2>6. CASE SettleFails(r)
    <3>1. Critical' = Critical
      BY <2>6, GoCritical DEF SettleFails, CriticalPCs
    <3>2. QED
      BY <2>6, <3>1 DEF SlotEffect, SlotsKept, SettleFails, queueVars, semVars, KeepsKeys
  <2>7. QED
    BY <1>5, <2>1, <2>2, <2>3, <2>4, <2>5, <2>6 DEF RunFault
<1>6. ASSUME NEW key \in Keys, SlotExpires(key) PROVE SlotEffect
  BY <1>6 DEF SlotEffect
<1>7. ASSUME NEW w \in Reapers, ReapAdd(w) PROVE SlotEffect
  <2>1. KeepsKeys(held)
    BY <1>7, AddJobKeepsKeys DEF ReapAdd
  <2>2. QED
    BY <1>7, <2>1 DEF SlotEffect, SlotsKept, ReapAdd, semVars, Critical
<1>8. CASE Crash
  BY <1>8 DEF SlotEffect
<1>9. ASSUME NEW j \in Jobs, Stalled(j) PROVE SlotEffect
  <2>1. KeepsKeys(Runs)
    <3>1. \/ job' = [job EXCEPT ![j].state = "failed"]
          \/ job' = [job EXCEPT ![j] = [@ EXCEPT !.state = "waiting", !.stalled = TRUE]]
      BY <1>9 DEF Stalled
    <3>2. ASSUME NEW i \in Jobs PROVE job'[i].key = job[i].key
      <4>1. job[i] \in Job /\ job[j] \in Job /\ job \in [Jobs -> Job]
        BY DEF TypeOK
      <4>2. [job[j] EXCEPT !.state = "failed"].key = job[j].key
        BY <4>1 DEF Job
      <4>3. [job[j] EXCEPT !.state = "waiting", !.stalled = TRUE].key = job[j].key
        BY <4>1 DEF Job
      <4>4. QED
        BY <3>1, <4>1, <4>2, <4>3
    <3>3. QED
      BY <3>2 DEF KeepsKeys, Runs
  <2>2. QED
    BY <1>9, <2>1 DEF SlotEffect, SlotsKept, Stalled, semVars, KeepsKeys, TypeOK, Critical
<1>10. CASE \/ \E s \in Settlements : CreateRow(s) \/ EnqueueFails(s) \/ Age(s)
            \/ BatchStep \/ BatchError
            \/ \E w \in Reapers :
                  \/ ReapScan(w) \/ ReapError(w)
                  \/ \E s \in Settlements : ReapClaim(w, s)
            \/ UNCHANGED vars
  <2>1. UNCHANGED <<job, held, leaked, pc>>
    BY <1>10
       DEF CreateRow, EnqueueFails, Age, BatchStep, BatchRead, BatchGroup,
           BatchValidate, BatchWrite, BatchDone, BatchError, ReapScan, ReapError,
           ReapClaim, vars, engineVars, dbVars, queueVars, semVars, processVars
  <2>2. QED
    BY <1>1, <2>1
<1>11. QED
  BY <1>2, <1>3, <1>4, <1>5, <1>6, <1>7, <1>8, <1>9, <1>10 DEF Next, Step, ReaperStep

\* Every step keeps slots and runs in agreement.
LEMMA SlotStep == TypeOK /\ SlotAccounting /\ [Next]_vars => SlotAccounting'
<1> SUFFICES ASSUME TypeOK, SlotAccounting, [Next]_vars PROVE SlotAccounting'
  OBVIOUS
<1> USE EngineAssumption
<1>0. SlotEffect
  BY SlotEffects
<1>1. ASSUME SlotsKept PROVE SlotAccounting'
  BY <1>1, SameSlots DEF SlotsKept, SlotAccounting
<1>2. ASSUME NEW r \in Runs, Enters(r) PROVE SlotAccounting'
  <2>1. held' = held \cup {r} /\ leaked' = leaked /\ job' = job /\ Critical' = held'
    BY <1>2 DEF Enters
  <2>2. ASSUME NEW k \in Keys PROVE slotsOf(k)' <= MaxConcurrent
    <3> DEFINE S  == {x \in held : keyOf(x) = k}
               n  == Cardinality(S)
               m  == Cardinality(S \cup {r})
               n1 == Cardinality({x \in held : keyOf(x) = k}')
    <3>1. IsFiniteSet(S)
      BY HeldFinite, FS_Subset
    <3>2. n \in Nat
      BY <3>1, FS_CardinalityType
    <3>3. m = IF r \in S THEN n ELSE n + 1
      BY <3>1, FS_AddElement, Zenon
    <3>4. {x \in held : keyOf(x) = k}' = IF keyOf(r) = k THEN S \cup {r} ELSE S
      BY <2>1 DEF keyOf, jobOf
    <3>5. n1 = IF keyOf(r) = k THEN m ELSE n
      BY <3>4, Zenon
    <3>6. slotsOf(k) = n + leaked[k] /\ slotsOf(k)' = n1 + leaked[k]
      BY <2>1 DEF slotsOf
    <3>7. slotsOf(k) <= MaxConcurrent
      BY DEF SlotAccounting
    <3>8. keyOf(r) = k => slotsOf(k) < MaxConcurrent
      BY <1>2 DEF Enters
    <3>9. leaked[k] \in Nat
      BY DEF TypeOK
    <3> HIDE DEF S, n, m, n1
    <3>10. QED
      BY <3>2, <3>3, <3>5, <3>6, <3>7, <3>8, <3>9
  <2>3. QED
    BY <2>1, <2>2 DEF SlotAccounting
<1>3. ASSUME NEW r \in held, Leaves(r),
             \/ leaked' = leaked
             \/ leaked' = [leaked EXCEPT ![keyOf(r)] = @ + 1]
      PROVE  SlotAccounting'
  <2>1. ASSUME NEW k \in Keys PROVE slotsOf(k)' <= MaxConcurrent
    <3>1. slotsOf(k) <= MaxConcurrent
      BY DEF SlotAccounting
    <3> DEFINE n  == Cardinality({x \in held : keyOf(x) = k})
               n1 == Cardinality({x \in held : keyOf(x) = k}')
    <3>2. n \in Nat /\ n1 = IF keyOf(r) = k THEN n - 1 ELSE n
      BY <1>3, DropSlot
    <3>3. slotsOf(k) = n + leaked[k] /\ slotsOf(k)' = n1 + leaked'[k]
      BY DEF slotsOf
    <3>4. leaked[k] \in Nat
      BY DEF TypeOK
    <3>5. \/ leaked'[k] = leaked[k]
          \/ keyOf(r) = k /\ leaked'[k] = leaked[k] + 1
      BY <1>3 DEF TypeOK
    <3> HIDE DEF n, n1
    <3>6. QED
      BY <3>1, <3>2, <3>3, <3>4, <3>5
  <2>2. QED
    BY <1>3, <2>1 DEF SlotAccounting, Leaves
<1>4. ASSUME NEW key \in Keys, SlotExpires(key) PROVE SlotAccounting'
  <2>1. held' = held /\ job' = job /\ Critical' = Critical
    BY <1>4 DEF SlotExpires, queueVars, Critical
  <2>2. ASSUME NEW k \in Keys PROVE slotsOf(k)' <= MaxConcurrent
    <3> DEFINE n == Cardinality({x \in held : keyOf(x) = k})
    <3>1. n \in Nat
      BY HeldFinite, FS_Subset, FS_CardinalityType
    <3>2. {x \in held : keyOf(x) = k}' = {x \in held : keyOf(x) = k}
      BY <2>1 DEF keyOf, jobOf
    <3>3. slotsOf(k) = n + leaked[k] /\ slotsOf(k)' = n + leaked'[k]
      BY <3>2 DEF slotsOf
    <3>4. leaked[k] \in Nat /\ leaked'[k] \in Nat /\ leaked'[k] <= leaked[k]
      BY <1>4 DEF SlotExpires, TypeOK
    <3>5. slotsOf(k) <= MaxConcurrent
      BY DEF SlotAccounting
    <3> HIDE DEF n
    <3>6. QED
      BY <3>1, <3>3, <3>4, <3>5
  <2>3. QED
    BY <2>1, <2>2 DEF SlotAccounting
<1>5. CASE Crash
  <2>1. held' = {} /\ Critical' = {}
    BY <1>5 DEF Crash, Critical, CriticalPCs
  <2>2. ASSUME NEW k \in Keys PROVE slotsOf(k)' <= MaxConcurrent
    <3>1. leaked'[k] = slotsOf(k)
      BY <1>5 DEF Crash
    <3>2. Cardinality({x \in held : keyOf(x) = k}') = 0
      <4>1. {x \in held : keyOf(x) = k}' = {}
        BY <2>1
      <4>2. QED
        BY <4>1, FS_EmptySet
    <3>3. slotsOf(k)' = 0 + leaked'[k]
      BY <3>2 DEF slotsOf
    <3>4. slotsOf(k) \in Nat
      <4>1. IsFiniteSet({r \in held : keyOf(r) = k})
        BY HeldFinite, FS_Subset
      <4>2. QED
        BY <4>1, FS_CardinalityType DEF slotsOf, TypeOK
    <3>5. slotsOf(k) <= MaxConcurrent
      BY DEF SlotAccounting
    <3>6. QED
      BY <3>1, <3>3, <3>4, <3>5
  <2>3. QED
    BY <2>1, <2>2 DEF SlotAccounting
<1>6. ASSUME NEW r \in Runs, Misses(r) PROVE SlotAccounting'
  <2>1. held' = held /\ job' = job /\ Critical' = Critical
    BY <1>6 DEF Misses
  <2>2. ASSUME NEW k \in Keys PROVE slotsOf(k)' <= MaxConcurrent
    <3> DEFINE n == Cardinality({x \in held : keyOf(x) = k})
    <3>1. n \in Nat
      BY HeldFinite, FS_Subset, FS_CardinalityType
    <3>2. {x \in held : keyOf(x) = k}' = {x \in held : keyOf(x) = k}
      BY <2>1 DEF keyOf, jobOf
    <3>3. slotsOf(k) = n + leaked[k] /\ slotsOf(k)' = n + leaked'[k]
      BY <3>2 DEF slotsOf
    <3>4. leaked[k] \in Nat /\ slotsOf(k) <= MaxConcurrent
      BY DEF SlotAccounting, TypeOK
    <3>5. IF keyOf(r) = k THEN leaked'[k] = leaked[k] + 1 /\ slotsOf(k) < MaxConcurrent
          ELSE leaked'[k] = leaked[k]
      BY <1>6 DEF Misses, TypeOK
    <3> HIDE DEF n
    <3>6. QED
      BY <3>1, <3>3, <3>4, <3>5
  <2>3. QED
    BY <2>1, <2>2 DEF SlotAccounting
<1>7. QED
  BY <1>0, <1>1, <1>2, <1>3, <1>4, <1>5, <1>6 DEF SlotEffect

\* The semaphore's books are right in every reachable state: a run owns a slot
\* exactly while it is between acquire and release, and held and leaked slots
\* of one key together never exceed MaxConcurrent, whatever number of runs
\* time out, crash or fail to release.
THEOREM SlotAccountingHolds == Spec => []SlotAccounting
<1>1. TypeOK /\ SlotAccounting /\ [Next]_vars => (TypeOK /\ SlotAccounting)'
  BY TypeStep, SlotStep
<1>2. QED
  BY TypeInit, SlotInit, <1>1, PTL DEF Spec

\* The per-merchant concurrency limit of baseSettlementProcessor: at most
\* MaxConcurrent processor runs of one semaphore key are ever between acquire
\* and release, the runs that outlived the watchdog included.
THEOREM ConcurrencyLimitHolds == Spec => []ConcurrencyLimit
<1>1. ASSUME TypeOK, SlotAccounting PROVE ConcurrencyLimit
  <2> SUFFICES ASSUME NEW k \in Keys
               PROVE  Cardinality({r \in Critical : keyOf(r) = k}) <= MaxConcurrent
    BY DEF ConcurrencyLimit
  <2> DEFINE n == Cardinality({r \in held : keyOf(r) = k})
  <2>1. n \in Nat
    BY <1>1, HeldFinite, FS_Subset, FS_CardinalityType
  <2>2. n + leaked[k] <= MaxConcurrent
    BY <1>1 DEF SlotAccounting, slotsOf
  <2>3. leaked[k] \in Nat /\ MaxConcurrent \in Nat
    BY <1>1, EngineAssumption DEF TypeOK
  <2>4. Cardinality({r \in Critical : keyOf(r) = k}) = n
    BY <1>1 DEF SlotAccounting
  <2> HIDE DEF n
  <2>5. QED
    BY <2>1, <2>2, <2>3, <2>4
<1>2. QED
  BY <1>1, TypeCorrect, SlotAccountingHolds, PTL

\* The semaphore's protocol counts with the Cardinality of FiniteSets.
LEMMA SameCount == \A key \in Keys : \A S : Slots(key)!Cardinality(S) = Cardinality(S)
BY Zenon DEF Slots!Cardinality, Cardinality

\* The runs of one key that are between acquire and release.
Using(key) == {r \in Critical : keyOf(r) = key}

\* Every step is, for every key, a step of the semaphore's protocol or changes
\* none of that key's slots.
LEMMA SlotProtocol ==
  ASSUME TypeOK, SlotAccounting, [Next]_vars, NEW key \in Keys
  PROVE  \/ Slots(key)!Next
         \/ (Using(key)' = Using(key) /\ leaked'[key] = leaked[key])
<1> USE EngineAssumption
<1>0. held = Critical /\ held' = Critical' /\ TypeOK'
  BY SlotStep, TypeStep DEF SlotAccounting
<1> DEFINE S  == {r \in held : keyOf(r) = key}
           S1 == {r \in held : keyOf(r) = key}'
<1>1. Using(key) = S /\ Using(key)' = S1
  BY <1>0 DEF Using
<1>2. IsFiniteSet(S) /\ Cardinality(S) \in Nat /\ leaked[key] \in Nat
  BY HeldFinite, FS_Subset, FS_CardinalityType DEF TypeOK
<1>3. CASE SlotsKept
  <2>1. S1 = S
    BY <1>3 DEF SlotsKept, KeepsKeys, keyOf, jobOf
  <2>2. QED
    BY <1>1, <1>3, <2>1 DEF SlotsKept
<1>4. ASSUME NEW r \in Runs, Enters(r)
      PROVE  Slots(key)!Next \/ (S1 = S /\ leaked'[key] = leaked[key])
  <2>1. S1 = (IF keyOf(r) = key THEN S \cup {r} ELSE S) /\ leaked' = leaked /\ r \notin S
    BY <1>4 DEF Enters, keyOf, jobOf
  <2>2. ASSUME keyOf(r) = key PROVE Slots(key)!Take(r)
    <3>1. Cardinality(S) + leaked[key] < MaxConcurrent
      BY <1>4, <2>2 DEF Enters, slotsOf
    <3>2. leaked'[key] \in 0 .. leaked[key] /\ leaked'[key] = leaked[key]
      BY <1>2, <2>1
    <3>3. S1 = S \cup {r}
      BY <2>1, <2>2
    <3>4. Slots(key)!Cardinality(S) + leaked'[key] < MaxConcurrent
      BY <3>1, <3>2, SameCount, Zenon
    <3> HIDE DEF S, S1
    <3>5. QED
      BY <1>1, <2>1, <3>2, <3>3, <3>4, Zenon DEF Slots!Take, Using
  <2>3. QED
    BY <2>1, <2>2 DEF Slots!Next
<1>5. ASSUME NEW r \in held, Leaves(r), leaked' = leaked
      PROVE  Slots(key)!Next \/ (S1 = S /\ leaked'[key] = leaked[key])
  <2>1. S1 = S \ {r} /\ r \in Runs
    BY <1>5, DropSlot DEF TypeOK
  <2> HIDE DEF S, S1
  <2>2. ASSUME r \in S PROVE Slots(key)!GiveBack(r)
    BY <1>1, <1>5, <2>1, <2>2 DEF Slots!GiveBack, Using
  <2>3. QED
    BY <1>5, <2>1, <2>2 DEF Slots!Next
<1>6. ASSUME NEW r \in held, Leaves(r), leaked' = [leaked EXCEPT ![keyOf(r)] = @ + 1]
      PROVE  Slots(key)!Next \/ (S1 = S /\ leaked'[key] = leaked[key])
  <2>1. S1 = S \ {r} /\ (r \in S <=> keyOf(r) = key)
    BY <1>6, DropSlot
  <2>2. CASE keyOf(r) # key
    <3>1. S1 = S
      BY <2>1, <2>2
    <3>2. leaked'[key] = leaked[key]
      BY <1>6, <2>2 DEF TypeOK
    <3>3. QED
      BY <3>1, <3>2
  <2>3. CASE keyOf(r) = key
    <3>1. leaked'[key] = leaked[key] + 1
      BY <1>6, <2>3 DEF TypeOK
    <3>2. Cardinality({r}) = 1
      BY FS_Singleton
    <3>3. leaked'[key] = leaked[key] + Slots(key)!Cardinality({r})
      BY <3>1, <3>2, SameCount, Zenon
    <3>4. {r} \in SUBSET S /\ S1 = S \ {r}
      BY <2>1, <2>3
    <3> HIDE DEF S, S1
    <3>5. Slots(key)!Abandon
      BY <1>1, <3>3, <3>4, Zenon DEF Slots!Abandon, Using
    <3>6. QED
      BY <3>5, Zenon DEF Slots!Next
  <2>4. QED
    BY <2>2, <2>3
<1>7. ASSUME NEW k \in Keys, SlotExpires(k)
      PROVE  Slots(key)!Next
  <2>1. S1 = S
    BY <1>7 DEF SlotExpires, queueVars, keyOf, jobOf
  <2>2. leaked'[key] \in 0 .. leaked[key]
    BY <1>0, <1>2, <1>7 DEF SlotExpires, TypeOK
  <2> HIDE DEF S, S1
  <2>3. Slots(key)!Reclaim
    BY <1>1, <2>1, <2>2 DEF Slots!Reclaim, Using
  <2>4. QED
    BY <2>3 DEF Slots!Next
<1>8. ASSUME Crash PROVE Slots(key)!Next
  <2>1. S1 = {} /\ leaked'[key] = slotsOf(key)
    BY <1>8 DEF Crash
  <2>2. slotsOf(key) = Cardinality(S) + leaked[key]
    BY DEF slotsOf
  <2> HIDE DEF S, S1
  <2>3. leaked'[key] = leaked[key] + Cardinality(S)
    BY <1>2, <2>1, <2>2
  <2>4. leaked'[key] = leaked[key] + Slots(key)!Cardinality(S)
    BY <2>3, SameCount, Zenon
  <2>5. S \in SUBSET S /\ S1 = S \ S
    BY <2>1
  <2>6. Slots(key)!Abandon
    BY <1>1, <2>4, <2>5, Zenon DEF Slots!Abandon, Using
  <2>7. QED
    BY <2>6 DEF Slots!Next
<1>9. ASSUME NEW r \in Runs, Misses(r)
      PROVE  Slots(key)!Next \/ (S1 = S /\ leaked'[key] = leaked[key])
  <2>1. S1 = S
    BY <1>9 DEF Misses, keyOf, jobOf
  <2>2. CASE keyOf(r) # key
    BY <1>9, <2>1, <2>2 DEF Misses, TypeOK
  <2>3. CASE keyOf(r) = key
    <3>1. leaked'[key] = leaked[key] + 1 /\ Cardinality(S) + leaked[key] < MaxConcurrent
      BY <1>9, <2>3 DEF Misses, TypeOK, slotsOf
    <3> HIDE DEF S, S1
    <3>2. leaked'[key] \in 0 .. leaked[key] + 1
      BY <1>2, <3>1
    <3>3. Cardinality(S) + leaked'[key] <= MaxConcurrent
      BY <1>2, <3>1
    <3>4. Slots(key)!Cardinality(S) + leaked'[key] <= MaxConcurrent
      BY <3>3, SameCount, Zenon
    <3>5. Slots(key)!Lose
      BY <1>1, <2>1, <3>2, <3>4, Zenon DEF Slots!Lose, Using
    <3>6. QED
      BY <3>5 DEF Slots!Next
  <2>4. QED
    BY <2>2, <2>3
<1>10. SlotEffect
  BY SlotEffects
<1> HIDE DEF S, S1
<1>11. QED
  BY <1>1, <1>3, <1>4, <1>5, <1>6, <1>7, <1>8, <1>9, <1>10 DEF SlotEffect

\* For every semaphore key the processor runs keep to the semaphore's protocol:
\* whatever times out, crashes or fails to release, a run enters below the limit
\* only, leaves once, and a slot it loses stays taken until its TTL ends.
THEOREM EngineImplementsSlots == Spec => ImplementsSlots
<1>1. Init => \A key \in Keys : Slots(key)!Init
  <2> SUFFICES ASSUME Init, NEW key \in Keys PROVE Slots(key)!Init
    OBVIOUS
  <2>1. Critical = {} /\ leaked[key] = 0
    BY DEF Init, Critical, CriticalPCs
  <2>2. {r \in Critical : keyOf(r) = key} = {}
    BY <2>1
  <2>3. QED
    BY <2>1, <2>2 DEF Slots!Init
<1>2. TypeOK /\ SlotAccounting /\ [Next]_vars
        => [\A key \in Keys : [Slots(key)!Next]_(Slots(key)!slots)]_vars
  <2> SUFFICES ASSUME TypeOK, SlotAccounting, [Next]_vars, NEW key \in Keys
               PROVE  [Slots(key)!Next]_(Slots(key)!slots)
    OBVIOUS
  <2>1. QED
    BY SlotProtocol DEF Slots!slots, Using
<1>3. QED
  BY <1>1, <1>2, TypeCorrect, SlotAccountingHolds, PTL DEF Spec, ImplementsSlots

-----------------------------------------------------------------------------
(* What a step does to the rows, to the runs and to the jobs               *)

\* Budgets only shrink; a crash and a Redis error are remembered in theirs.
LEMMA BudgetStep ==
  ASSUME TypeOK, [Next]_vars
  PROVE  \/ UNCHANGED budget
         \/ \E kind \in Kinds : Spend(kind)
BY DEF Next, Step, CreateRow, EnqueueRow, EnqueueFails, StartAttempt, RunStep, Acquire, Requeue,
       ReadProcessing, WriteProcessing, ReadCompleted, WriteCompleted, HookCompleted, ReadFailed,
       WriteFailed, HookFailed, ReadAndValidate, Write, AddHook, Release, Settle, RunFault,
       AcquireFails, DbError, HookError, ReleaseFails, SettleFails, JobTimeout, SlotExpires,
       BatchStep, BatchRead, BatchGroup, BatchValidate, BatchWrite, BatchDone, BatchError, Age,
       ReaperStep, ReapScan, ReapClaim, ReapAdd, ReapError, Crash, Stalled, vars, engineVars, Kinds

LEMMA SpendLess ==
  ASSUME TypeOK, NEW kind \in Kinds, Spend(kind)
  PROVE  /\ budget'[kind] < budget[kind]
         /\ \A k \in Kinds : budget'[k] <= budget[k]
BY DEF TypeOK, Spend, Kinds

\* What is left of a budget never exceeds it, and once spent it stays so.
Spending == \A kind \in Kinds : budget[kind] <= Budget[kind]

LEMMA SpendingStep ==
  ASSUME TypeOK, Spending, [Next]_vars
  PROVE  /\ Spending'
         /\ \A kind \in Kinds :
              budget'[kind] = Budget[kind] => budget[kind] = Budget[kind] /\ ~Spend(kind)
<1>1. \A kind \in Kinds : /\ budget'[kind] <= budget[kind]
                          /\ Spend(kind) => budget'[kind] < budget[kind]
  BY BudgetStep, SpendLess DEF TypeOK
<1>2. \A kind \in Kinds : budget'[kind] \in Nat /\ budget[kind] \in Nat /\ Budget[kind] \in Nat
                          /\ budget[kind] <= Budget[kind]
  BY TypeStep, EngineAssumption DEF TypeOK, Spending
<1>3. QED
  BY <1>1, <1>2 DEF Spending

LEMMA SpendingAlways == Spec => []Spending
<1>1. Init => Spending
  BY EngineAssumption DEF Init, Spending
<1>2. TypeOK /\ Spending /\ [Next]_vars => Spending'
  BY SpendingStep
<1>3. QED
  BY <1>1, <1>2, TypeCorrect, PTL DEF Spec

\* A run moves on.
Moves(r, to) == pc[r] # "idle" /\ pc' = [pc EXCEPT ![r] = to]

\* Who writes the status of a row: the POST that inserts it, a run that sends an
\* UPDATE, the batching job and a reaper.
RunWrites(r) ==
    /\ pc[r] \in DOMAIN written
    /\ status' = [status EXCEPT ![sidOf(r)] = written[pc[r]]]
    /\ \E to \in PCs \ DOMAIN written : Moves(r, to)
    /\ UNCHANGED <<hooks, batch>>
ReaperWrites(s) ==
    /\ s \in Stuck
    /\ status' = [status EXCEPT ![s] = "failed"]
    /\ \E w \in Reapers : reaper'[w].add = s
    /\ UNCHANGED hooks
StatusEffect ==
    \/ UNCHANGED status
    \/ \E s \in Settlements : CreateRow(s)
    \/ \E r \in Runs : RunWrites(r)
    \/ BatchWrite
    \/ \E s \in Settlements : ReaperWrites(s)

LEMMA StatusEffects == TypeOK /\ [Next]_vars => StatusEffect
<1> SUFFICES ASSUME TypeOK, [Next]_vars PROVE StatusEffect
  OBVIOUS
<1> USE DEF StatusEffect
<1>1. ASSUME NEW r \in Runs, RunStep(r) PROVE StatusEffect
  <2>1. WriteProcessing(r) \/ WriteCompleted(r) \/ WriteFailed(r) => RunWrites(r)
    BY DEF WriteProcessing, WriteCompleted, WriteFailed, Write, Go, RunWrites, written, Moves, PCs,
           CriticalPCs, queueVars, processVars
  <2>2. UNCHANGED status \/ WriteProcessing(r) \/ WriteCompleted(r) \/ WriteFailed(r)
    BY <1>1 DEF RunStep, Acquire, Requeue, ReadProcessing, ReadCompleted, HookCompleted,
                ReadFailed, HookFailed, ReadAndValidate, AddHook, Release, Leave, Settle, dbVars
  <2>3. QED
    BY <2>1, <2>2
<1>2. ASSUME NEW r \in Runs, RunFault(r) PROVE StatusEffect
  <2>1. CASE DbError(r)
    <3>1. CASE UNCHANGED status
      BY <3>1
    <3>2. CASE /\ pc[r] \in DOMAIN written
               /\ status' = [status EXCEPT ![sidOf(r)] = written[pc[r]]]
      <4>1. \E to \in {"readF", "releaseErr"} : Moves(r, to)
        BY <2>1 DEF DbError, Go, Moves
      <4>2. {"readF", "releaseErr"} \subseteq PCs \ DOMAIN written
        BY DEF PCs, CriticalPCs, written
      <4>3. UNCHANGED <<hooks, batch>>
        BY <2>1 DEF DbError, queueVars, processVars
      <4>4. RunWrites(r)
        BY <3>2, <4>1, <4>2, <4>3 DEF RunWrites
      <4>5. QED
        BY <4>4
    <3>3. QED
      BY <2>1, <3>1, <3>2 DEF DbError
  <2>2. QED
    BY <1>2, <2>1 DEF RunFault, AcquireFails, HookError, ReleaseFails, Leave, SettleFails,
                      JobTimeout, dbVars
<1>3. ASSUME BatchStep PROVE StatusEffect
  BY <1>3 DEF BatchStep, BatchRead, BatchGroup, BatchValidate, BatchDone, dbVars
<1>4. ASSUME NEW w \in Reapers, ReaperStep(w) PROVE StatusEffect
  <2>1. ASSUME NEW s \in Settlements, ReapClaim(w, s), s \in Stuck PROVE ReaperWrites(s)
    <3>1. reaper' = [reaper EXCEPT ![w] = [todo |-> @.todo \ {s}, add |-> s]]
      BY <2>1 DEF ReapClaim
    <3>2. reaper'[w].add = s
      BY <3>1 DEF TypeOK
    <3>3. QED
      BY <2>1, <3>2 DEF ReapClaim, ReaperWrites, queueVars
  <2>2. QED
    BY <1>4, <2>1 DEF ReaperStep, ReapScan, ReapClaim, ReapAdd, dbVars
<1>5. QED
  BY <1>1, <1>2, <1>3, <1>4
     DEF Next, Step, EnqueueRow, EnqueueFails, StartAttempt, SlotExpires, Age, ReapError, BatchError,
         Crash, Stalled, vars, engineVars, dbVars

\* A row never disappears, and none goes back to pending.
LEMMA StatusOnward ==
  ASSUME TypeOK, [Next]_vars, NEW s \in Settlements, status[s] # Absent
  PROVE  /\ status'[s] # Absent
         /\ status[s] # "pending" => status'[s] # "pending"
<1>1. CASE \E t \in Settlements : CreateRow(t)
  BY <1>1 DEF CreateRow, TypeOK, Absent
<1>2. CASE \E r \in Runs : RunWrites(r)
  BY <1>2 DEF RunWrites, written, TypeOK, Absent
<1>3. CASE BatchWrite
  BY <1>3 DEF BatchWrite, Absent
<1>4. CASE \E t \in Settlements : ReaperWrites(t)
  BY <1>4 DEF ReaperWrites, TypeOK, Absent
<1>5. QED
  BY <1>1, <1>2, <1>3, <1>4, StatusEffects DEF StatusEffect

\* How runs move: one run moves on, one attempt begins, or all of them end.
PcEffect ==
    \/ UNCHANGED pc
    \/ Crash
    \/ \E j \in Jobs : StartAttempt(j)
    \/ \E r \in Runs : (RunStep(r) \/ RunFault(r)) /\ \E to \in PCs : Moves(r, to)

LEMMA RunMoves ==
  ASSUME NEW r \in Runs, RunStep(r) \/ RunFault(r), ~UNCHANGED pc
  PROVE  \E to \in PCs : Moves(r, to)
<1>1. CASE RunStep(r)
  BY <1>1 DEF RunStep, Acquire, Requeue, ReadProcessing, WriteProcessing, ReadCompleted,
              WriteCompleted, HookCompleted, ReadFailed, WriteFailed, HookFailed,
              ReadAndValidate, Write, AddHook, Release, Leave, Settle, Go, Moves, PCs, CriticalPCs
<1>2. CASE RunFault(r)
  BY <1>2 DEF RunFault, AcquireFails, DbError, HookError, ReleaseFails, Leave, SettleFails,
              JobTimeout, Go, Moves, PCs, CriticalPCs
<1>3. QED
  BY <1>1, <1>2

LEMMA PcEffects == [Next]_vars => PcEffect
BY RunMoves
   DEF PcEffect, Next, Step, CreateRow, EnqueueRow, EnqueueFails, SlotExpires, BatchStep, BatchRead,
       BatchGroup, BatchValidate, BatchWrite, BatchDone, BatchError, Age, ReaperStep, ReapScan,
       ReapClaim, ReapAdd, ReapError, Stalled, vars, engineVars

\* Where a new job comes from: a run that copies its own, a POST, a reaper.
Source(s, key) ==
    \/ \E r \in Runs : /\ Requeue(r) \/ AcquireFails(r)
                       /\ pc[r] # "idle" /\ s = sidOf(r) /\ key = keyOf(r)
    \/ EnqueueRow(s) /\ s \in creating /\ key = merchantOf[s]
    \/ \E w \in Reapers : /\ ReapAdd(w)
                          /\ reaper[w].add # NoRow /\ s = reaper[w].add /\ key = NoMerchant

Fails(r) ==
    /\ Current(r) /\ AttemptFails(r[1]) /\ pc[r] \notin {"idle", "done"}
    /\ pc' = [pc EXCEPT ![r] = "idle"] \/ Spend("timeout")
Finishes(r) ==
    /\ Current(r) /\ pc[r] = "done"
    /\ pc' = [pc EXCEPT ![r] = "idle"]
    /\ job' = [job EXCEPT ![r[1]].state = "free"]
Adds(k) == \E s \in Settlements \cup {NoRow}, key \in Keys : AddJob(k, s, key) /\ Source(s, key)
JobEffect ==
    \/ UNCHANGED job
    \/ \E j \in Jobs : StartAttempt(j) \/ Stalled(j)
    \/ \E r \in Runs : Fails(r) \/ Finishes(r)
    \/ \E k \in Jobs : Adds(k)

LEMMA CopyAdds ==
  ASSUME TypeOK, NEW r \in Runs, AddCopy(r), Requeue(r) \/ AcquireFails(r), pc[r] # "idle"
  PROVE  \E k \in Jobs : Adds(k)
BY RunJob DEF AddCopy, Adds, Source

LEMMA JobEffects == TypeOK /\ [Next]_vars => JobEffect
<1> SUFFICES ASSUME TypeOK, [Next]_vars PROVE JobEffect
  OBVIOUS
<1> USE DEF JobEffect
<1>1. ASSUME NEW s \in Settlements, EnqueueRow(s) PROVE JobEffect
  BY <1>1, EngineAssumption DEF EnqueueRow, Adds, Source, Keys
<1>2. ASSUME NEW w \in Reapers, ReapAdd(w) PROVE JobEffect
  <2>1. reaper[w].add \in Settlements \cup {NoRow} /\ NoMerchant \in Keys
    BY DEF TypeOK, Keys
  <2>2. QED
    BY <1>2, <2>1 DEF ReapAdd, Adds, Source
<1>3. ASSUME NEW r \in Runs, Settle(r) PROVE JobEffect
  <2>1. CASE Go(r, "threw", "idle")
    <3>1. UNCHANGED job \/ Fails(r)
      BY <1>3, <2>1 DEF Settle, Go, Fails
    <3>2. QED
      BY <3>1
  <2>2. CASE Go(r, "done", "idle") /\ Current(r)
    BY <1>3, <2>2 DEF Settle, Go, Finishes
  <2>3. CASE Go(r, "done", "idle") /\ ~Current(r)
    <3>1. job' = [job EXCEPT ![r[1]].state = @]
      BY <1>3, <2>3 DEF Settle, Go
    <3>2. job[r[1]] \in Job /\ r[1] \in Jobs /\ job \in [Jobs -> Job]
      BY RunJob DEF TypeOK
    <3>3. job' = job
      BY <3>1, <3>2 DEF Job
    <3>4. QED
      BY <3>3
  <2>4. QED
    BY <1>3, <2>1, <2>2, <2>3 DEF Settle
<1>4. ASSUME NEW r \in Runs, RunStep(r) PROVE JobEffect
  <2>1. Requeue(r) => JobEffect
    BY CopyAdds DEF Requeue, Go
  <2>2. UNCHANGED job \/ Requeue(r) \/ Settle(r)
    BY <1>4 DEF RunStep, Acquire, ReadProcessing, WriteProcessing, ReadCompleted,
                WriteCompleted, HookCompleted, ReadFailed, WriteFailed, HookFailed,
                ReadAndValidate, Write, AddHook, Release, Leave, queueVars
  <2>3. QED
    BY <1>3, <2>1, <2>2
<1>5. ASSUME NEW r \in Runs, RunFault(r) PROVE JobEffect
  <2>1. AddCopy(r) /\ AcquireFails(r) => JobEffect
    BY CopyAdds DEF AcquireFails, Go
  <2>2. JobTimeout(r) => Fails(r)
    BY DEF JobTimeout, Fails
  <2>3. UNCHANGED job \/ (AddCopy(r) /\ AcquireFails(r)) \/ JobTimeout(r)
    BY <1>5 DEF RunFault, AcquireFails, DbError, HookError, ReleaseFails, Leave, SettleFails,
                queueVars
  <2>4. QED
    BY <2>1, <2>2, <2>3
<1>6. QED
  BY <1>1, <1>2, <1>4, <1>5
     DEF Next, Step, CreateRow, EnqueueFails, SlotExpires, BatchStep, BatchRead, BatchGroup,
         BatchValidate, BatchWrite, BatchDone, BatchError, Age, ReaperStep, ReapScan, ReapClaim,
         ReapError, Crash, vars, engineVars, queueVars

\* The jobs after each of these effects.
LEMMA FailsJobs ==
  ASSUME TypeOK, NEW r \in Runs, Fails(r)
  PROVE  /\ \A i \in Jobs : i # r[1] => job'[i] = job[i]
         /\ job'[r[1]].sid = job[r[1]].sid /\ job'[r[1]].key = job[r[1]].key
         /\ job'[r[1]].state \in {"waiting", "failed"}
<1> DEFINE j == r[1]
           n == job[j].made + 1
           x == IF n < MaxAttempts THEN "waiting" ELSE "failed"
<1>1. job[j] \in Job /\ job \in [Jobs -> Job] /\ j \in Jobs
  BY RunJob DEF TypeOK
<1>2. job' = [job EXCEPT ![j] = [@ EXCEPT !.made = n, !.state = x]]
  BY DEF Fails, AttemptFails
<1>3. x \in {"waiting", "failed"}
  OBVIOUS
<1> HIDE DEF n, x
<1>4. QED
  BY <1>1, <1>2, <1>3 DEF Job

LEMMA FinishesJobs ==
  ASSUME TypeOK, NEW r \in Runs, Finishes(r)
  PROVE  /\ \A i \in Jobs : i # r[1] => job'[i] = job[i]
         /\ job'[r[1]].sid = job[r[1]].sid /\ job'[r[1]].key = job[r[1]].key
         /\ job'[r[1]].state = "free"
BY RunJob DEF Finishes, TypeOK, Job

LEMMA StartJobs ==
  ASSUME TypeOK, NEW j \in Jobs, StartAttempt(j)
  PROVE  /\ \A i \in Jobs : i # j => job'[i] = job[i]
         /\ job'[j].sid = job[j].sid /\ job'[j].key = job[j].key
         /\ job'[j].made = job[j].made /\ job'[j].state = "active"
         /\ \A r \in Runs : pc'[r] = IF r = <<j, job[j].made + 1>> THEN "acquire" ELSE pc[r]
BY DEF StartAttempt, Go, TypeOK, Job

LEMMA StalledJobs ==
  ASSUME TypeOK, NEW j \in Jobs, Stalled(j)
  PROVE  /\ \A i \in Jobs : i # j => job'[i] = job[i]
         /\ job'[j].sid = job[j].sid /\ job'[j].key = job[j].key
         /\ job'[j].state \in {"waiting", "failed"}
         /\ job[j].state = "active" /\ UNCHANGED pc
<1>1. job[j] \in Job /\ job \in [Jobs -> Job]
  BY DEF TypeOK
<1>2. CASE job' = [job EXCEPT ![j].state = "failed"]
  BY <1>1, <1>2 DEF Job, Stalled
<1>3. CASE job' = [job EXCEPT ![j] = [@ EXCEPT !.state = "waiting", !.stalled = TRUE]]
  BY <1>1, <1>3 DEF Job, Stalled
<1>4. QED
  BY <1>2, <1>3 DEF Stalled

LEMMA AddsJobs ==
  ASSUME TypeOK, NEW k \in Jobs, Adds(k)
  PROVE  /\ \A i \in Jobs : i # k => job'[i] = job[i]
         /\ FreeJob(k) /\ job'[k].state = "waiting"
         /\ Source(job'[k].sid, job'[k].key)
BY DEF TypeOK, Adds, AddJob, NewJob

\* A slot in use stays about its row and merchant.
LEMMA SameJob ==
  ASSUME TypeOK, [Next]_vars, NEW j \in Jobs, ~FreeJob(j)
  PROVE  job'[j].sid = job[j].sid /\ job'[j].key = job[j].key
<1>1. CASE \E i \in Jobs : StartAttempt(i) \/ Stalled(i)
  BY <1>1, StartJobs, StalledJobs
<1>2. CASE \E r \in Runs : Fails(r) \/ Finishes(r)
  BY <1>2, FailsJobs, FinishesJobs DEF Runs
<1>3. CASE \E k \in Jobs : Adds(k)
  BY <1>3, AddsJobs
<1>4. QED
  BY <1>1, <1>2, <1>3, JobEffects DEF JobEffect

\* A run in progress holds its slot, and keeps its row and merchant.
LEMMA BusyRun ==
  ASSUME TypeOK, NEW r \in Runs, pc[r] # "idle"
  PROVE  r[1] \in Jobs /\ ~FreeJob(r[1])
BY DEF FreeJob, Runs

LEMMA SameRun ==
  ASSUME TypeOK, [Next]_vars, NEW r \in Runs, pc[r] # "idle"
  PROVE  sidOf(r)' = sidOf(r) /\ keyOf(r)' = keyOf(r)
BY BusyRun, SameJob DEF sidOf, keyOf, jobOf

\* A slot comes into use by a new job.
LEMMA NewlyUsed ==
  ASSUME TypeOK, [Next]_vars, NEW j \in Jobs, FreeJob(j), ~FreeJob(j)'
  PROVE  Source(job'[j].sid, job'[j].key)
<1>1. job[j].state = "free" /\ \A r \in Runs : r[1] = j => pc[r] = "idle"
  BY DEF FreeJob, Runs
<1>2. CASE \E k \in Jobs : Adds(k)
  <2>1. PICK k \in Jobs : Adds(k)
    BY <1>2
  <2>2. CASE k = j
    BY <2>1, <2>2, AddsJobs
  <2>3. CASE k # j
    <3>1. job'[j] = job[j]
      BY <2>1, <2>3, AddsJobs
    <3>2. ~ \E i \in Jobs : StartAttempt(i)
      BY <2>1, AddsJobs, StartJobs DEF StartAttempt, FreeJob
    <3>3. \A r \in Runs : pc[r] = "idle" => pc'[r] = "idle"
      BY <3>2, PcEffects DEF PcEffect, Moves, TypeOK, Crash
    <3>4. QED
      BY <1>1, <3>1, <3>3 DEF FreeJob, Runs
  <2>4. QED
    BY <2>2, <2>3
<1>3. CASE ~ \E k \in Jobs : Adds(k)
  <2>1. job'[j].state = "free"
    <3>1. CASE \E i \in Jobs : StartAttempt(i) \/ Stalled(i)
      BY <1>1, <3>1, StartJobs, StalledJobs DEF StartAttempt
    <3>2. CASE \E r \in Runs : Fails(r) \/ Finishes(r)
      BY <1>1, <3>2, FailsJobs, FinishesJobs DEF Runs, Fails, Current, jobOf
    <3>3. QED
      BY <1>1, <1>3, <3>1, <3>2, JobEffects DEF JobEffect
  <2>2. \A r \in Runs : r[1] = j => pc'[r] = "idle"
    <3> SUFFICES ASSUME NEW r \in Runs, r[1] = j PROVE pc'[r] = "idle"
      OBVIOUS
    <3>1. ASSUME NEW i \in Jobs, StartAttempt(i) PROVE pc'[r] = "idle"
      <4>1. i # j
        BY <1>1, <3>1 DEF StartAttempt
      <4>2. QED
        BY <1>1, <3>1, <4>1, StartJobs
    <3>2. QED
      BY <1>1, <3>1, PcEffects DEF PcEffect, Moves, TypeOK, Crash
  <2>3. QED
    BY <2>1, <2>2 DEF FreeJob, Runs
<1>4. QED
  BY <1>2, <1>3

-----------------------------------------------------------------------------
(* Every job, run, POST and reaper is about a row that exists.             *)

Exists(s)   == s \in Settlements /\ status[s] # Absent
Outlives(s) == s \in Settlements /\ status'[s] # Absent
WorkExists ==
    /\ \A j \in Jobs : ~FreeJob(j) => Exists(job[j].sid)
    /\ \A s \in creating : Exists(s)
    /\ \A w \in Reapers : reaper[w].add # NoRow => Exists(reaper[w].add)

LEMMA RunExists ==
  ASSUME TypeOK, WorkExists, NEW r \in Runs, pc[r] # "idle"
  PROVE  Exists(sidOf(r))
BY BusyRun DEF WorkExists, sidOf, jobOf

LEMMA SourceExists ==
  ASSUME TypeOK, WorkExists, NEW s, NEW key, Source(s, key)
  PROVE  Exists(s)
BY RunExists DEF Source, WorkExists

\* Where the handlers and the reapers get their rows.
LEMMA CreatingFrom ==
  ASSUME [Next]_vars, NEW s \in creating'
  PROVE  s \in creating \/ (s \in Settlements /\ CreateRow(s))
BY DEF Next, Step, CreateRow, EnqueueRow, EnqueueFails, StartAttempt, RunStep, Acquire, Requeue,
       ReadProcessing, WriteProcessing, ReadCompleted, WriteCompleted, HookCompleted, ReadFailed,
       WriteFailed, HookFailed, ReadAndValidate, Write, AddHook, Release, Leave, Settle, RunFault,
       AcquireFails, DbError, HookError, ReleaseFails, SettleFails, JobTimeout, SlotExpires,
       BatchStep, BatchRead, BatchGroup, BatchValidate, BatchWrite, BatchDone, BatchError, Age,
       ReaperStep, ReapScan, ReapClaim, ReapAdd, ReapError, Crash, Stalled, vars, engineVars,
       processVars

LEMMA ReaperFrom ==
  ASSUME TypeOK, [Next]_vars, NEW w \in Reapers, reaper'[w].add # NoRow
  PROVE  \/ reaper'[w].add = reaper[w].add
         \/ \E s \in Settlements : ReapClaim(w, s) /\ s \in Stuck /\ reaper'[w].add = s
<1> DEFINE Goal == \/ reaper'[w].add = reaper[w].add
                   \/ \E s \in Settlements : ReapClaim(w, s) /\ s \in Stuck /\ reaper'[w].add = s
<1>1. UNCHANGED reaper => Goal
  OBVIOUS
<1>2. ASSUME NEW v \in Reapers, ReaperStep(v) PROVE Goal
  <2>1. reaper[w] \in [todo : SUBSET Settlements, add : Settlements \cup {NoRow}]
        /\ reaper \in [Reapers -> [todo : SUBSET Settlements, add : Settlements \cup {NoRow}]]
    BY DEF TypeOK
  <2>2. ReapScan(v) => Goal
    BY <2>1 DEF ReapScan
  <2>3. ReapAdd(v) => Goal
    BY <2>1 DEF ReapAdd
  <2>4. ASSUME NEW s \in Settlements, ReapClaim(v, s) PROVE Goal
    <3>1. CASE s \in Stuck
      <4>1. reaper' = [reaper EXCEPT ![v] = [todo |-> @.todo \ {s}, add |-> s]]
        BY <2>4, <3>1 DEF ReapClaim
      <4>2. CASE v = w
        <5>1. reaper'[w].add = s
          BY <2>1, <4>1, <4>2
        <5>2. QED
          BY <2>4, <3>1, <4>2, <5>1
      <4>3. CASE v # w
        BY <2>1, <4>1, <4>3
      <4>4. QED
        BY <4>2, <4>3
    <3>2. CASE s \notin Stuck
      BY <2>1, <2>4, <3>2 DEF ReapClaim
    <3>3. QED
      BY <3>1, <3>2
  <2>5. QED
    BY <1>2, <2>2, <2>3, <2>4 DEF ReaperStep
<1>3. ASSUME NEW v \in Reapers, ReapError(v) PROVE Goal
  BY <1>3 DEF ReapError, IdleReaper, TypeOK
<1>4. Crash => Goal
  BY DEF Crash, IdleReaper
<1>5. QED
  BY <1>1, <1>2, <1>3, <1>4
     DEF Next, Step, CreateRow, EnqueueRow, EnqueueFails, StartAttempt, RunStep, Acquire, Requeue,
         ReadProcessing, WriteProcessing, ReadCompleted, WriteCompleted, HookCompleted,
         ReadFailed, WriteFailed, HookFailed, ReadAndValidate, Write, AddHook, Release, Leave,
         Settle, RunFault, AcquireFails, DbError, HookError, ReleaseFails, SettleFails,
         JobTimeout, SlotExpires, BatchStep, BatchRead, BatchGroup, BatchValidate, BatchWrite,
         BatchDone, BatchError, Age, Stalled, vars, engineVars, processVars

LEMMA ExistsStep ==
  ASSUME TypeOK, [Next]_vars, NEW s, Exists(s)
  PROVE  Outlives(s)
BY StatusOnward DEF Exists, Outlives

LEMMA WorkExistsAlways == Spec => []WorkExists
<1>1. Init => WorkExists
  BY DEF Init, WorkExists, FreeJob, Runs, IdleReaper
<1>2. TypeOK /\ WorkExists /\ [Next]_vars => WorkExists'
  <2> SUFFICES ASSUME TypeOK, WorkExists, [Next]_vars PROVE WorkExists'
    OBVIOUS
  <2>1. ASSUME NEW j \in Jobs, ~FreeJob(j)' 
      PROVE  Outlives(job'[j].sid)
    <3>1. CASE FreeJob(j)
      BY <2>1, <3>1, NewlyUsed, SourceExists, ExistsStep
    <3>2. CASE ~FreeJob(j)
      BY <3>2, SameJob, ExistsStep DEF WorkExists
    <3>3. QED
      BY <3>1, <3>2
  <2>2. ASSUME NEW s \in creating' PROVE Outlives(s)
    <3>1. CASE s \in creating
      BY <3>1, ExistsStep DEF WorkExists
    <3>2. CASE s \in Settlements /\ CreateRow(s)
      BY <3>2 DEF CreateRow, Outlives, TypeOK, Absent
    <3>3. QED
      BY <3>1, <3>2, CreatingFrom
  <2>3. ASSUME NEW w \in Reapers, reaper'[w].add # NoRow
      PROVE  Outlives(reaper'[w].add)
    <3>1. CASE reaper'[w].add = reaper[w].add
      BY <2>3, <3>1, ExistsStep DEF WorkExists
    <3>2. CASE \E s \in Settlements : s \in Stuck /\ reaper'[w].add = s
      BY <3>2, ExistsStep DEF Exists, Stuck, Absent
    <3>3. QED
      BY <2>3, <3>1, <3>2, ReaperFrom
  <2>4. QED
    BY <2>1, <2>2, <2>3 DEF WorkExists, Exists, Outlives
<1>3. QED
  BY <1>1, <1>2, TypeCorrect, PTL DEF Spec

-----------------------------------------------------------------------------
(* No pending settlement is forgotten                                      *)

\* The steps a run takes only after it has written processing.
Past == {"readC", "writeC", "hookC", "release"}

\* A run that has claimed its row never finds it pending again.
Claimed ==
    \A r \in Runs :
        pc[r] \in Past /\ sidOf(r) \in Settlements => status[sidOf(r)] \notin {Absent, "pending"}

\* Neither Redis nor the process has failed yet.
Healthy == Unspent({"crash", "redisError"})

\* A job the queue keeps: its run has not returned.
Kept(j) ==
    /\ job[j].state # "free"
    /\ \A r \in Runs : r[1] = j /\ Current(r) => pc[r] # "done"
Remembered(s) == s \in creating \/ \E j \in Jobs : job[j].sid = s /\ Kept(j)

MemoryInv ==
    /\ Spending
    /\ Claimed
    /\ Healthy => \A s \in Pending : Remembered(s)

\* How a run gets past its claim: by the write of processing.
LEMMA PastStep ==
  ASSUME TypeOK, [Next]_vars, NEW r \in Runs, pc'[r] \in Past
  PROVE  \/ pc[r] \in Past
         \/ pc[r] = "writeP" /\ status' = [status EXCEPT ![sidOf(r)] = "processing"]
<1> DEFINE Goal == \/ pc[r] \in Past
                   \/ pc[r] = "writeP" /\ status' = [status EXCEPT ![sidOf(r)] = "processing"]
<1> USE DEF Past
<1>1. ASSUME NEW q \in Runs, NEW to, RunStep(q) \/ RunFault(q), Moves(q, to) PROVE Goal
  <2>1. CASE q # r
    BY <1>1, <2>1 DEF Moves, TypeOK
  <2>2. CASE q = r
    <3>1. pc'[r] = to
      BY <1>1, <2>2 DEF Moves, TypeOK
    <3>2. CASE RunStep(q)
      BY <2>2, <3>1, <3>2
         DEF RunStep, Acquire, Requeue, ReadProcessing, WriteProcessing, ReadCompleted,
             WriteCompleted, HookCompleted, ReadFailed, WriteFailed, HookFailed, ReadAndValidate,
             Write, AddHook, Release, Leave, Settle, Go, TypeOK
    <3>3. CASE RunFault(q)
      BY <2>2, <3>1, <3>3
         DEF RunFault, AcquireFails, DbError, HookError, ReleaseFails, Leave, SettleFails,
             JobTimeout, Go, TypeOK
    <3>4. QED
      BY <1>1, <3>2, <3>3
  <2>3. QED
    BY <2>1, <2>2
<1>2. ASSUME NEW j \in Jobs, StartAttempt(j) PROVE Goal
  BY <1>2, StartJobs
<1>3. Crash => Goal
  BY DEF Crash
<1>4. QED
  BY <1>1, <1>2, <1>3, PcEffects DEF PcEffect

LEMMA ClaimedStep ==
  ASSUME TypeOK, Claimed, [Next]_vars
  PROVE  Claimed'
<1> SUFFICES ASSUME NEW r \in Runs, pc'[r] \in Past, sidOf(r)' \in Settlements
             PROVE  status'[sidOf(r)'] \notin {Absent, "pending"}
  BY DEF Claimed
<1>1. \/ pc[r] \in Past
      \/ pc[r] = "writeP" /\ status' = [status EXCEPT ![sidOf(r)] = "processing"]
  BY PastStep
<1>2. sidOf(r)' = sidOf(r)
  BY <1>1, SameRun DEF Past
<1>3. CASE pc[r] \in Past
  BY <1>2, <1>3, StatusOnward DEF Claimed
<1>4. CASE pc[r] = "writeP" /\ status' = [status EXCEPT ![sidOf(r)] = "processing"]
  BY <1>2, <1>4 DEF TypeOK, Absent
<1>5. QED
  BY <1>1, <1>3, <1>4

\* A run returns from the release of its slot, or after it has added a copy.
LEMMA DoneStep ==
  ASSUME TypeOK, [Next]_vars, NEW r \in Runs, pc'[r] = "done", pc[r] # "done"
  PROVE  pc[r] = "release" \/ Requeue(r)
<1> DEFINE Goal == pc[r] = "release" \/ Requeue(r)
<1>1. ASSUME NEW q \in Runs, NEW to, RunStep(q) \/ RunFault(q), Moves(q, to) PROVE Goal
  <2>1. CASE q # r
    BY <1>1, <2>1 DEF Moves, TypeOK
  <2>2. CASE q = r
    <3>1. pc'[r] = to
      BY <1>1, <2>2 DEF Moves, TypeOK
    <3>2. CASE RunStep(q)
      BY <2>2, <3>1, <3>2
         DEF RunStep, Acquire, ReadProcessing, WriteProcessing, ReadCompleted,
             WriteCompleted, HookCompleted, ReadFailed, WriteFailed, HookFailed, ReadAndValidate,
             Write, AddHook, Release, Leave, Settle, Go, TypeOK
    <3>3. CASE RunFault(q)
      BY <2>2, <3>1, <3>3
         DEF RunFault, AcquireFails, DbError, HookError, ReleaseFails, Leave, SettleFails,
             JobTimeout, Go, TypeOK
    <3>4. QED
      BY <1>1, <3>2, <3>3
  <2>3. QED
    BY <2>1, <2>2
<1>2. ASSUME NEW j \in Jobs, StartAttempt(j) PROVE Goal
  BY <1>2, StartJobs
<1>3. Crash => Goal
  BY DEF Crash
<1>4. QED
  BY <1>1, <1>2, <1>3, PcEffects DEF PcEffect

\* An attempt becomes the current one when it starts.
LEMMA CurrentStep ==
  ASSUME TypeOK, [Next]_vars, NEW r \in Runs, Current(r)', pc'[r] # "acquire"
  PROVE  Current(r)
<1> USE DEF Current, jobOf, attemptOf
<1>1. r[1] \in Jobs /\ r = <<r[1], r[2]>>
  BY DEF Runs
<1>2. ASSUME NEW j \in Jobs, StartAttempt(j) PROVE Current(r)
  BY <1>1, <1>2, StartJobs
<1>3. ASSUME NEW j \in Jobs, Stalled(j) PROVE Current(r)
  BY <1>1, <1>3, StalledJobs
<1>4. ASSUME NEW q \in Runs, Fails(q) \/ Finishes(q) PROVE Current(r)
  BY <1>1, <1>4, FailsJobs, FinishesJobs
<1>5. ASSUME NEW k \in Jobs, Adds(k) PROVE Current(r)
  BY <1>1, <1>5, AddsJobs
<1>6. QED
  BY <1>1, <1>2, <1>3, <1>4, <1>5, JobEffects DEF JobEffect

\* A job that is kept goes on being kept, unless its own run returns.
LEMMA KeptStep ==
  ASSUME TypeOK, [Next]_vars, NEW j \in Jobs, Kept(j)
  PROVE  \/ Kept(j)'
         \/ \E r \in Runs : r[1] = j /\ (pc[r] = "release" \/ Requeue(r))
<1>1. job'[j].state # "free"
  <2>1. ASSUME NEW i \in Jobs, StartAttempt(i) \/ Stalled(i) PROVE job'[j].state # "free"
    BY <2>1, StartJobs, StalledJobs DEF Kept
  <2>2. ASSUME NEW r \in Runs, Fails(r) PROVE job'[j].state # "free"
    BY <2>2, FailsJobs DEF Kept
  <2>3. ASSUME NEW r \in Runs, Finishes(r) PROVE job'[j].state # "free"
    <3>1. r[1] # j
      BY <2>3 DEF Finishes, Kept
    <3>2. QED
      BY <2>3, <3>1, FinishesJobs DEF Kept
  <2>4. ASSUME NEW k \in Jobs, Adds(k) PROVE job'[j].state # "free"
    BY <2>4, AddsJobs DEF Kept
  <2>5. QED
    BY <2>1, <2>2, <2>3, <2>4, JobEffects DEF JobEffect, Kept
<1>2. ASSUME NEW r \in Runs, r[1] = j, Current(r)', pc'[r] = "done"
      PROVE  pc[r] = "release" \/ Requeue(r)
  <2>1. Current(r) /\ pc[r] # "done"
    BY <1>2, CurrentStep DEF Kept
  <2>2. QED
    BY <1>2, <2>1, DoneStep
<1>3. QED
  BY <1>1, <1>2 DEF Kept

\* At the limit the row has the new job before the old one goes.
LEMMA RequeueKeeps ==
  ASSUME TypeOK, NEW r \in Runs, Requeue(r)
  PROVE  \E k \in Jobs : job'[k].sid = sidOf(r) /\ Kept(k)'
<1>1. PICK k \in Jobs : AddJob(k, sidOf(r), keyOf(r))
  BY DEF Requeue, AddCopy
<1>2. job'[k].sid = sidOf(r) /\ job'[k].state = "waiting"
  BY <1>1 DEF AddJob, NewJob, TypeOK
<1>3. Kept(k)'
  BY <1>2 DEF Kept, Current, jobOf
<1>4. QED
  BY <1>2, <1>3

\* A row leaves the POST handler with a job or with a Redis error.
LEMMA CreatingStep ==
  ASSUME TypeOK, [Next]_vars, NEW s \in creating
  PROVE  \/ s \in creating'
         \/ Remembered(s)'
         \/ \E kind \in {"crash", "redisError"} : Spend(kind)
<1> DEFINE Goal == \/ s \in creating'
                   \/ Remembered(s)'
                   \/ \E kind \in {"crash", "redisError"} : Spend(kind)
<1>1. ASSUME NEW t \in Settlements, CreateRow(t) PROVE Goal
  BY <1>1 DEF CreateRow
<1>2. ASSUME NEW t \in Settlements, EnqueueRow(t) PROVE Goal
  <2>1. CASE s = t
    <3>1. PICK j \in Jobs : AddJob(j, s, merchantOf[s])
      BY <1>2, <2>1 DEF EnqueueRow
    <3>2. job'[j].sid = s /\ job'[j].state = "waiting"
      BY <3>1 DEF AddJob, NewJob, TypeOK
    <3>3. QED
      BY <3>2 DEF Remembered, Kept, Current, jobOf
  <2>2. CASE s # t
    BY <1>2, <2>2 DEF EnqueueRow
  <2>3. QED
    BY <2>1, <2>2
<1>3. (\E t \in Settlements : EnqueueFails(t)) \/ Crash => Goal
  BY DEF EnqueueFails, Crash
<1>4. CASE \/ \E t \in Settlements : Age(t)
           \/ \E j \in Jobs : StartAttempt(j) \/ Stalled(j)
           \/ \E r \in Runs : RunStep(r) \/ RunFault(r)
           \/ \E k \in Keys : SlotExpires(k)
           \/ BatchStep \/ BatchError
           \/ \E w \in Reapers : ReaperStep(w) \/ ReapError(w)
           \/ UNCHANGED vars
  <2>1. UNCHANGED creating
    BY <1>4 DEF Age, StartAttempt, Stalled, RunStep, Acquire, Requeue, ReadProcessing,
                WriteProcessing, ReadCompleted, WriteCompleted, HookCompleted, ReadFailed,
                WriteFailed, HookFailed, ReadAndValidate, Write, AddHook, Release, Leave, Settle,
                RunFault, AcquireFails, DbError, HookError, ReleaseFails, SettleFails, JobTimeout,
                SlotExpires, BatchStep, BatchRead, BatchGroup, BatchValidate, BatchWrite,
                BatchDone, BatchError, ReaperStep, ReapScan, ReapClaim, ReapAdd, ReapError, vars,
                engineVars, processVars
  <2>2. QED
    BY <2>1
<1>5. QED
  BY <1>1, <1>2, <1>3, <1>4 DEF Next, Step

\* A job that has the row goes on having it, is replaced by its copy, or its run
\* has released the slot, and then the row is not pending.
LEMMA RememberedStep ==
  ASSUME TypeOK, Claimed, [Next]_vars, NEW s \in Settlements, Remembered(s), s \in Pending
  PROVE  \/ Remembered(s)'
         \/ \E kind \in {"crash", "redisError"} : Spend(kind)
<1>1. CASE s \in creating
  BY <1>1, CreatingStep DEF Remembered
<1>2. CASE \E j \in Jobs : job[j].sid = s /\ Kept(j)
  <2>1. PICK j \in Jobs : job[j].sid = s /\ Kept(j)
    BY <1>2
  <2>2. job'[j].sid = s
    BY <2>1, SameJob DEF Kept, FreeJob
  <2>3. CASE Kept(j)'
    BY <2>2, <2>3 DEF Remembered
  <2>4. ASSUME NEW r \in Runs, r[1] = j, Requeue(r) PROVE Remembered(s)'
    <3>1. sidOf(r) = s
      BY <2>1, <2>4 DEF sidOf, jobOf
    <3>2. QED
      BY <2>4, <3>1, RequeueKeeps DEF Remembered
  <2>5. ASSUME NEW r \in Runs, r[1] = j, pc[r] = "release" PROVE FALSE
    BY <2>1, <2>5 DEF Claimed, Past, sidOf, jobOf, Pending
  <2>6. QED
    BY <2>1, <2>3, <2>4, <2>5, KeptStep
<1>3. QED
  BY <1>1, <1>2 DEF Remembered

\* A pending row was pending before or has just been inserted.
LEMMA PendingStep ==
  ASSUME TypeOK, [Next]_vars, NEW s \in Pending'
  PROVE  s \in Settlements /\ (s \in Pending \/ s \in creating')
<1>1. s \in Settlements /\ status'[s] = "pending"
  BY DEF Pending
<1>2. CASE \E t \in Settlements : CreateRow(t)
  BY <1>1, <1>2 DEF CreateRow, Pending, TypeOK
<1>3. CASE \E r \in Runs : RunWrites(r)
  BY <1>1, <1>3 DEF RunWrites, written, TypeOK, Pending
<1>4. CASE BatchWrite
  BY <1>1, <1>4 DEF BatchWrite, Pending
<1>5. CASE \E t \in Settlements : ReaperWrites(t)
  BY <1>1, <1>5 DEF ReaperWrites, TypeOK, Pending
<1>6. QED
  BY <1>1, <1>2, <1>3, <1>4, <1>5, StatusEffects DEF StatusEffect, Pending

\* A pending settlement always has a job, or a POST that is about to add one, as
\* long as Redis answers and the process lives.  A job goes after its run has
\* released its slot, and then it has written processing, or after its run has
\* added a copy at the limit.
THEOREM NoRowForgottenAlways == Spec => []NoRowForgotten
<1>1. Init => MemoryInv
  <2> SUFFICES ASSUME Init PROVE MemoryInv
    OBVIOUS
  <2>1. Pending = {} /\ Claimed
    BY DEF Init, Pending, Claimed, Past, Absent
  <2>2. Spending
    BY EngineAssumption DEF Init, Spending
  <2>3. QED
    BY <2>1, <2>2 DEF MemoryInv
<1>2. TypeOK /\ MemoryInv /\ [Next]_vars => (TypeOK /\ MemoryInv)'
  <2> SUFFICES ASSUME TypeOK, MemoryInv, [Next]_vars PROVE MemoryInv'
    BY TypeStep
  <2>1. Claimed' /\ Spending'
    BY ClaimedStep, SpendingStep DEF MemoryInv
  <2>2. Healthy' => Healthy /\ ~ \E kind \in {"crash", "redisError"} : Spend(kind)
    BY SpendingStep DEF Healthy, Unspent, Kinds, MemoryInv
  <2>3. ASSUME Healthy', NEW s \in Pending' PROVE Remembered(s)'
    <3>1. Healthy /\ ~ \E kind \in {"crash", "redisError"} : Spend(kind)
      BY <2>2, <2>3
    <3>2. CASE s \in creating'
      BY <3>2 DEF Remembered
    <3>3. CASE s \in Pending
      BY <3>1, <3>3, RememberedStep DEF MemoryInv, Pending
    <3>4. QED
      BY <2>3, <3>2, <3>3, PendingStep
  <2>4. QED
    BY <2>1, <2>3 DEF MemoryInv
<1>3. MemoryInv => NoRowForgotten
  BY DEF MemoryInv, NoRowForgotten, Healthy, Remembered, Kept
<1>4. QED
  BY <1>1, <1>2, <1>3, TypeInit, PTL DEF Spec

-----------------------------------------------------------------------------
(* A settlement has at most one job that is still to be run, as long as     *)
(* nothing times out, crashes, loses Redis or reaps: then no run outlives   *)
(* its attempt, and the only new jobs are that of the POST and the copy a   *)
(* run adds before it returns.                                              *)

Calm == Unspent({"timeout", "reap", "crash", "redisError"})

RunsAreCurrent == \A r \in Runs : pc[r] # "idle" => Current(r)
Busy(j) == job[j].state \in {"waiting", "active"} /\ Kept(j)
OneBusyJob == \A i, j \in Jobs : Busy(i) /\ Busy(j) /\ job[i].sid = job[j].sid => i = j
NotYetQueued == \A s \in creating, j \in Jobs : Busy(j) => job[j].sid # s
ReapersIdle == \A w \in Reapers : reaper[w] = IdleReaper

CalmInv == Calm => RunsAreCurrent /\ OneBusyJob /\ NotYetQueued /\ ReapersIdle

\* A run that is current is the only one of its job.
LEMMA OneCurrent ==
  ASSUME NEW q \in Runs, NEW r \in Runs, Current(q), Current(r), q[1] = r[1]
  PROVE  q = r
BY DEF Current, jobOf, attemptOf, Runs

\* In a calm step a run goes on being current until it is over.
LEMMA CalmRun ==
  ASSUME TypeOK, RunsAreCurrent, [Next]_vars, ~Spend("timeout"), NEW r \in Runs,
         pc'[r] # "idle"
  PROVE  Current(r)'
<1> USE DEF Current, jobOf, attemptOf
<1>0. r[1] \in Jobs /\ r = <<r[1], r[2]>>
  BY DEF Runs
<1>1. CASE pc[r] = "idle"
  <2>1. PICK j \in Jobs : StartAttempt(j)
    BY <1>1, PcEffects DEF PcEffect, Moves, TypeOK, Crash
  <2>2. r = <<j, job[j].made + 1>>
    BY <1>1, <2>1, StartJobs
  <2>3. QED
    BY <2>1, <2>2, StartJobs
<1>2. CASE pc[r] # "idle"
  <2>1. Current(r)
    BY <1>2 DEF RunsAreCurrent
  <2>2. ASSUME NEW j \in Jobs, StartAttempt(j) PROVE Current(r)'
    <3>1. j # r[1]
      BY <2>1, <2>2 DEF StartAttempt
    <3>2. QED
      BY <1>0, <2>1, <2>2, <3>1, StartJobs
  <2>3. ASSUME NEW j \in Jobs, Stalled(j) PROVE Current(r)'
    <3>1. j # r[1]
      BY <1>0, <1>2, <2>1, <2>3 DEF Stalled
    <3>2. QED
      BY <1>0, <2>1, <2>3, <3>1, StalledJobs
  <2>4. ASSUME NEW q \in Runs, Fails(q) \/ Finishes(q) PROVE Current(r)'
    <3>1. pc'[q] = "idle" /\ Current(q)
      BY <2>4 DEF Fails, Finishes, TypeOK
    <3>2. q[1] # r[1]
      BY <2>1, <3>1, OneCurrent
    <3>3. QED
      BY <1>0, <2>1, <2>4, <3>2, FailsJobs, FinishesJobs
  <2>5. ASSUME NEW k \in Jobs, Adds(k) PROVE Current(r)'
    <3>1. k # r[1]
      BY <1>2, <2>5, AddsJobs, BusyRun
    <3>2. QED
      BY <1>0, <2>1, <2>5, <3>1, AddsJobs
  <2>6. QED
    BY <2>1, <2>2, <2>3, <2>4, <2>5, JobEffects DEF JobEffect
<1>3. QED
  BY <1>1, <1>2

\* What a run that has returned can still do.
LEMMA AfterDone ==
  ASSUME TypeOK, [Next]_vars, NEW r \in Runs, pc[r] = "done", Current(r),
         \A kind \in {"timeout", "crash", "redisError"} : ~Spend(kind)
  PROVE  Finishes(r) \/ pc'[r] = "done"
<1>1. ASSUME NEW q \in Runs, NEW to, RunStep(q) \/ RunFault(q), Moves(q, to)
      PROVE  Finishes(r) \/ pc'[r] = "done"
  <2>1. CASE q # r
    BY <1>1, <2>1 DEF Moves, TypeOK
  <2>2. CASE q = r /\ RunStep(r)
    BY <2>2 DEF RunStep, Acquire, Requeue, ReadProcessing, WriteProcessing, ReadCompleted,
                WriteCompleted, HookCompleted, ReadFailed, WriteFailed, HookFailed,
                ReadAndValidate, Write, AddHook, Release, Leave, Settle, Go, Finishes
  <2>3. CASE q = r /\ RunFault(r)
    BY <2>3 DEF RunFault, AcquireFails, DbError, HookError, ReleaseFails, Leave, SettleFails,
                JobTimeout, Go
  <2>4. QED
    BY <1>1, <2>1, <2>2, <2>3
<1>2. ASSUME NEW j \in Jobs, StartAttempt(j) PROVE pc'[r] = "done"
  BY <1>2, StartJobs DEF StartAttempt, Go
<1>3. QED
  BY <1>1, <1>2, PcEffects DEF PcEffect, Crash

\* A busy job was busy before, unless it has just been added.
LEMMA BusyFrom ==
  ASSUME TypeOK, RunsAreCurrent, [Next]_vars, NEW j \in Jobs, Busy(j)', ~Adds(j),
         \A kind \in {"timeout", "crash", "redisError"} : ~Spend(kind)
  PROVE  Busy(j) /\ job'[j].sid = job[j].sid
<1>1. job[j].state \in {"waiting", "active"}
  <2>1. ASSUME NEW i \in Jobs, StartAttempt(i) \/ Stalled(i)
        PROVE  job[j].state \in {"waiting", "active"}
    BY <2>1, StartJobs, StalledJobs DEF Busy, StartAttempt
  <2>2. ASSUME NEW r \in Runs, Fails(r) \/ Finishes(r)
        PROVE  job[j].state \in {"waiting", "active"}
    <3>1. Current(r)
      BY <2>2 DEF Fails, Finishes
    <3>2. CASE r[1] = j
      BY <3>1, <3>2 DEF Current, jobOf
    <3>3. CASE r[1] # j
      BY <2>2, <3>3, FailsJobs, FinishesJobs DEF Busy
    <3>4. QED
      BY <3>2, <3>3
  <2>3. ASSUME NEW k \in Jobs, Adds(k) PROVE job[j].state \in {"waiting", "active"}
    <3>1. j # k
      BY <2>3
    <3>2. QED
      BY <2>3, <3>1, AddsJobs DEF Busy
  <2>4. QED
    BY <2>1, <2>2, <2>3, JobEffects DEF JobEffect, Busy
<1>2. ASSUME NEW r \in Runs, r[1] = j, Current(r), pc[r] = "done" PROVE FALSE
  <2>1. CASE Finishes(r)
    BY <1>2, <2>1, FinishesJobs DEF Busy
  <2>2. CASE pc'[r] = "done"
    <3>1. Current(r)'
      BY <2>2, CalmRun
    <3>2. QED
      BY <1>2, <2>2, <3>1 DEF Busy, Kept
  <2>3. QED
    BY <1>2, <2>1, <2>2, AfterDone
<1>3. Busy(j)
  BY <1>1, <1>2 DEF Busy, Kept
<1>4. QED
  BY <1>3, SameJob DEF Busy, FreeJob

LEMMA CalmStep ==
  ASSUME TypeOK, Spending, WorkExists, CalmInv, [Next]_vars, Calm'
  PROVE  (RunsAreCurrent /\ OneBusyJob /\ NotYetQueued /\ ReapersIdle)'
<1>1. Calm /\ \A kind \in {"timeout", "reap", "crash", "redisError"} : ~Spend(kind)
  BY SpendingStep DEF Calm, Unspent, Kinds
<1>2. RunsAreCurrent /\ OneBusyJob /\ NotYetQueued /\ ReapersIdle
  BY <1>1 DEF CalmInv
<1>3. RunsAreCurrent'
  BY <1>1, <1>2, CalmRun DEF RunsAreCurrent
<1>4. ReapersIdle'
  <2>1. \A w \in Reapers : ~ReaperStep(w) /\ ~ReapError(w)
    <3> SUFFICES ASSUME NEW w \in Reapers PROVE ~ReaperStep(w) /\ ~ReapError(w)
      OBVIOUS
    <3>1. reaper[w] = IdleReaper /\ reaper[w].todo = {} /\ reaper[w].add = NoRow
      BY <1>2 DEF ReapersIdle, IdleReaper
    <3>2. ~ReapScan(w)
      BY <1>1 DEF ReapScan
    <3>3. QED
      BY <3>1, <3>2 DEF ReaperStep, ReapClaim, ReapAdd, ReapError
  <2>2. UNCHANGED reaper
    BY <1>1, <2>1
       DEF Next, Step, CreateRow, EnqueueRow, EnqueueFails, StartAttempt, RunStep, Acquire,
           Requeue, ReadProcessing, WriteProcessing, ReadCompleted, WriteCompleted,
           HookCompleted, ReadFailed, WriteFailed, HookFailed, ReadAndValidate, Write, AddHook,
           Release, Leave, Settle, RunFault, AcquireFails, DbError, HookError, ReleaseFails,
           SettleFails, JobTimeout, SlotExpires, BatchStep, BatchRead, BatchGroup, BatchValidate,
           BatchWrite, BatchDone, BatchError, Age, Stalled, Crash, vars, engineVars, processVars
  <2>3. QED
    BY <1>2, <2>2 DEF ReapersIdle
<1>5. ASSUME NEW s \in Settlements, CreateRow(s), NEW j \in Jobs, Busy(j) PROVE job[j].sid # s
  BY <1>5 DEF CreateRow, WorkExists, Exists, Busy, FreeJob
\* No job is added.
<1>6. CASE ~ \E k \in Jobs : Adds(k)
  <2>1. \A j \in Jobs : Busy(j)' => Busy(j) /\ job'[j].sid = job[j].sid
    BY <1>1, <1>2, <1>6, BusyFrom
  <2>2. OneBusyJob'
    BY <1>2, <2>1 DEF OneBusyJob
  <2>3. NotYetQueued'
    BY <1>2, <1>5, <2>1, CreatingFrom DEF NotYetQueued
  <2>4. QED
    BY <1>3, <1>4, <2>2, <2>3
<1>7. ASSUME NEW k \in Jobs, Adds(k)
      PROVE  OneBusyJob' /\ NotYetQueued'
  <2> DEFINE sid == job'[k].sid
  <2>1. /\ \A i \in Jobs : i # k => job'[i] = job[i]
        /\ Source(sid, job'[k].key)
        /\ job[k].state = "free" /\ job'[k].state = "waiting"
    BY <1>7, AddsJobs DEF FreeJob
  <2>2. \A j \in Jobs : Busy(j)' => j = k \/ (Busy(j) /\ job'[j].sid = job[j].sid)
    <3>1. \A j \in Jobs : Adds(j) => j = k
      BY <2>1, AddsJobs DEF FreeJob
    <3>2. QED
      BY <1>1, <1>2, <3>1, BusyFrom
  <2>3. CASE sid \in creating /\ EnqueueRow(sid)
    <3>1. \A j \in Jobs : Busy(j) => job[j].sid # sid
      BY <1>2, <2>3 DEF NotYetQueued
    <3>2. creating' = creating \ {sid}
      BY <2>3 DEF EnqueueRow
    <3>3. OneBusyJob'
      BY <1>2, <2>2, <3>1 DEF OneBusyJob
    <3>4. NotYetQueued'
      BY <1>2, <2>2, <3>2 DEF NotYetQueued
    <3>5. QED
      BY <3>3, <3>4
  <2>4. ASSUME NEW r \in Runs, Requeue(r), sid = sidOf(r)
        PROVE  OneBusyJob' /\ NotYetQueued'
    <3>1. /\ pc[r] = "acquire" /\ pc' = [pc EXCEPT ![r] = "done"] /\ UNCHANGED creating
          /\ r[1] \in Jobs
      BY <2>4 DEF Requeue, Go, processVars, Runs
    <3>2. Current(r) /\ job[r[1]].sid = sid /\ r[1] # k
      BY <1>2, <2>1, <2>4, <3>1 DEF RunsAreCurrent, sidOf, jobOf, Current
    <3>3. Busy(r[1])
      <4>1. \A q \in Runs : q[1] = r[1] /\ Current(q) => q = r
        BY <3>2, OneCurrent
      <4>2. QED
        BY <3>1, <3>2, <4>1 DEF Busy, Kept, Current, jobOf
    <3>4. ~Busy(r[1])'
      <4>1. Current(r)' /\ pc'[r] = "done"
        BY <2>1, <3>1, <3>2 DEF Current, jobOf, attemptOf, TypeOK
      <4>2. QED
        BY <4>1 DEF Busy, Kept
    <3>5. \A j \in Jobs : Busy(j)' => j = k \/ (Busy(j) /\ j # r[1] /\ job'[j].sid = job[j].sid)
      BY <2>2, <3>4
    <3>6. OneBusyJob'
      BY <1>2, <3>1, <3>2, <3>3, <3>5 DEF OneBusyJob
    <3>7. NotYetQueued'
      BY <1>2, <2>2, <3>1, <3>2, <3>3 DEF NotYetQueued
    <3>8. QED
      BY <3>6, <3>7
  <2>5. QED
    BY <1>1, <1>2, <2>1, <2>3, <2>4 DEF Source, ReapersIdle, IdleReaper, AcquireFails
<1>8. QED
  BY <1>3, <1>4, <1>6, <1>7

\* The queue never holds two jobs that are still to be run for one settlement,
\* whatever database errors and batches there are, until a run outlives its
\* attempt, a reaper adds a job, or a crash or a Redis error falls between the
\* copy of a re-queued job and the end of the original.
THEOREM OneJobPerRowAlways == Spec => []OneJobPerRow
<1>1. Init => CalmInv
  BY DEF Init, CalmInv, RunsAreCurrent, OneBusyJob, Busy, NotYetQueued, ReapersIdle
<1>2. TypeOK /\ Spending /\ WorkExists /\ CalmInv /\ [Next]_vars => CalmInv'
  BY CalmStep DEF CalmInv
<1>3. TypeOK /\ CalmInv => OneJobPerRow
  <2> SUFFICES ASSUME TypeOK, OneBusyJob PROVE \A i, j \in Jobs :
                 Working(i) /\ Working(j) /\ job[i].sid = job[j].sid => i = j
    BY DEF CalmInv, Calm, OneJobPerRow
  <2>1. ASSUME NEW j \in Jobs, Working(j) PROVE Busy(j)
    <3>1. job[j].state \in {"waiting", "active"}
      BY <2>1 DEF Working
    <3>2. ASSUME NEW r \in Runs, r[1] = j, Current(r) PROVE pc[r] # "done"
      <4>1. r = <<j, job[j].made + 1>> /\ job[j].state = "active"
        BY <3>2 DEF Current, jobOf, attemptOf, Runs
      <4>2. QED
        BY <2>1, <4>1 DEF Working
    <3>3. QED
      BY <3>1, <3>2 DEF Busy, Kept
  <2>2. QED
    BY <2>1 DEF OneBusyJob
<1>4. QED
  BY <1>1, <1>2, <1>3, TypeCorrect, SpendingAlways, WorkExistsAlways, PTL DEF Spec

-----------------------------------------------------------------------------
(* With a limit of one the semaphore keeps two runs off one row.           *)

Unscheduled == Unspent({"batch", "reap"})
OwnKeys == \A j \in Jobs : ~FreeJob(j) => job[j].key = merchantOf[job[j].sid]
KeysInv == Unscheduled => ReapersIdle /\ batch = IdleBatch /\ OwnKeys

LEMMA UnscheduledStep ==
  ASSUME TypeOK, Spending, WorkExists, KeysInv, [Next]_vars, Unscheduled'
  PROVE  (ReapersIdle /\ batch = IdleBatch /\ OwnKeys)'
<1>1. Unscheduled /\ ~Spend("batch") /\ ~Spend("reap")
  BY SpendingStep DEF Unscheduled, Unspent, Kinds
<1>2. ReapersIdle /\ batch = IdleBatch /\ OwnKeys
  BY <1>1 DEF KeysInv
<1>3. \A w \in Reapers : ~ReaperStep(w) /\ ~ReapError(w)
  <2> SUFFICES ASSUME NEW w \in Reapers PROVE ~ReaperStep(w) /\ ~ReapError(w)
    OBVIOUS
  <2>1. reaper[w] = IdleReaper /\ reaper[w].todo = {} /\ reaper[w].add = NoRow
    BY <1>2 DEF ReapersIdle, IdleReaper
  <2>2. ~ReapScan(w)
    BY <1>1 DEF ReapScan
  <2>3. QED
    BY <2>1, <2>2 DEF ReaperStep, ReapClaim, ReapAdd, ReapError
<1>4. ~BatchStep /\ ~BatchError
  <2>1. batch.pc = "idle"
    BY <1>2 DEF IdleBatch
  <2>2. QED
    BY <1>1, <2>1
       DEF BatchStep, BatchRead, BatchGroup, BatchValidate, BatchWrite, BatchDone, BatchError
<1>5. ReapersIdle' /\ batch' = IdleBatch
  <2>1. UNCHANGED <<reaper, batch>> \/ Crash
    BY <1>3, <1>4
       DEF Next, Step, CreateRow, EnqueueRow, EnqueueFails, StartAttempt, RunStep, Acquire,
           Requeue, ReadProcessing, WriteProcessing, ReadCompleted, WriteCompleted,
           HookCompleted, ReadFailed, WriteFailed, HookFailed, ReadAndValidate, Write, AddHook,
           Release, Leave, Settle, RunFault, AcquireFails, DbError, HookError, ReleaseFails,
           SettleFails, JobTimeout, SlotExpires, Age, Stalled, vars, engineVars, processVars
  <2>2. QED
    BY <1>2, <2>1 DEF ReapersIdle, Crash
<1>6. ASSUME NEW j \in Jobs, ~FreeJob(j)' PROVE job'[j].key = merchantOf[job'[j].sid]
  <2>1. CASE ~FreeJob(j)
    BY <1>2, <2>1, SameJob DEF OwnKeys
  <2>2. CASE FreeJob(j)
    <3>1. Source(job'[j].sid, job'[j].key)
      BY <1>6, <2>2, NewlyUsed
    <3>2. \A r \in Runs : pc[r] # "idle" => keyOf(r) = merchantOf[sidOf(r)]
      BY <1>2, BusyRun DEF OwnKeys, keyOf, sidOf, jobOf
    <3>3. QED
      BY <1>3, <3>1, <3>2 DEF Source, ReaperStep
  <2>3. QED
    BY <2>1, <2>2
<1>7. QED
  BY <1>5, <1>6 DEF OwnKeys

LEMMA AloneAtLimitOne ==
  ASSUME TypeOK, WorkExists, ConcurrencyLimit, MaxConcurrent = 1,
         ReapersIdle, batch = IdleBatch, OwnKeys
  PROVE  Shared = {}
<1> SUFFICES ASSUME NEW s \in Settlements,
                    \/ \E q, r \in workers(s) : q # r
                    \/ workers(s) # {} /\ (batching(s) \/ reaping(s))
                    \/ batching(s) /\ reaping(s)
             PROVE  FALSE
  BY DEF Shared
<1>1. ~batching(s) /\ ~reaping(s)
  BY EngineAssumption DEF batching, reaping, ReapersIdle, IdleReaper, IdleBatch, NoRow
<1>2. PICK q \in workers(s), r \in workers(s) : q # r
  BY <1>1
<1> DEFINE k == merchantOf[s]
           S == {x \in Critical : keyOf(x) = k}
<1>3. k \in Keys
  BY EngineAssumption DEF Keys
<1>4. q \in S /\ r \in S
  <2>1. \A x \in workers(s) : x \in Critical /\ keyOf(x) = k
    BY BusyRun DEF workers, Critical, CriticalPCs, OwnKeys, keyOf, sidOf, jobOf
  <2>2. QED
    BY <2>1
<1>5. IsFiniteSet(S)
  BY HeldFinite, FS_Subset DEF Critical
<1>6. Cardinality({q, r}) = 2
  <2>1. IsFiniteSet({r}) /\ Cardinality({r}) = 1
    BY FS_Singleton
  <2>2. Cardinality({r} \cup {q}) = Cardinality({r}) + 1
    BY <1>2, <2>1, FS_AddElement
  <2>3. {r} \cup {q} = {q, r}
    OBVIOUS
  <2>4. QED
    BY <2>1, <2>2, <2>3
<1>7. Cardinality({q, r}) <= Cardinality(S)
  BY <1>4, <1>5, FS_Subset
<1>8. Cardinality(S) <= 1
  BY <1>3 DEF ConcurrencyLimit
<1>9. Cardinality(S) \in Nat
  BY <1>5, FS_CardinalityType
<1> HIDE DEF S
<1>10. QED
  BY <1>6, <1>7, <1>8, <1>9

Alone == MaxConcurrent = 1 /\ Unscheduled => Shared = {}

LEMMA AloneAlways == Spec => []Alone
<1>1. Init => KeysInv
  BY DEF Init, KeysInv, ReapersIdle, OwnKeys, FreeJob, Runs
<1>2. TypeOK /\ Spending /\ WorkExists /\ KeysInv /\ [Next]_vars => KeysInv'
  BY UnscheduledStep DEF KeysInv
<1>3. TypeOK /\ WorkExists /\ ConcurrencyLimit /\ KeysInv => Alone
  BY AloneAtLimitOne DEF KeysInv, Alone
<1>4. QED
  BY <1>1, <1>2, <1>3, TypeCorrect, SpendingAlways, WorkExistsAlways, ConcurrencyLimitHolds, PTL
     DEF Spec

\* With a limit of one, whatever times out, crashes, stalls or loses Redis, two
\* processor runs are never at work on one row at a time, and nothing else is
\* either before the batching job or a reaper has run.
THEOREM LimitOneExcludesAlways == Spec => []LimitOneExcludes
<1>1. Init => LimitOneExcludes
  BY DEF Init, LimitOneExcludes
<1>2. TypeOK /\ Spending /\ Alone' /\ LimitOneExcludes /\ [Next]_vars => LimitOneExcludes'
  <2> SUFFICES ASSUME TypeOK, Spending, Alone', LimitOneExcludes, [Next]_vars,
                      MaxConcurrent = 1, Unscheduled'
               PROVE  overlapped' = {}
    BY DEF LimitOneExcludes, Unscheduled
  <2>1. overlapped = {}
    BY SpendingStep DEF LimitOneExcludes, Unscheduled, Unspent, Kinds
  <2>2. Shared' = {}
    BY DEF Alone
  <2>3. QED
    BY <2>1, <2>2 DEF Next, vars
<1>3. QED
  BY <1>1, <1>2, TypeCorrect, SpendingAlways, AloneAlways, PTL DEF Spec

-----------------------------------------------------------------------------
(***************************************************************************)
(* The rows that have never had two actors at work on them at a time keep  *)
(* the status machine and have one outcome.  The argument: whoever has     *)
(* validated a row and not yet written is the only one at work on it, so   *)
(* the row is still in the validated state when the UPDATE is sent; and a  *)
(* webhook is only added for the status its own run has just written.      *)
(***************************************************************************)

\* What holds of a row that one actor at most is at work on.
Validated(s) ==
    \A r \in workers(s) : pc[r] \in DOMAIN written => validateTransition(status[s], written[pc[r]])
BatchValidated(s) == batching(s) => validateTransition(status[s], "processing")
OutcomeWritten(s) ==
    \A r \in workers(s) : /\ pc[r] = "hookC" => status[s] = "completed"
                          /\ pc[r] = "hookF" => status[s] = "failed"
HooksAgree(s) == \A h \in hooks : h.sid = s => status[s] = h.event
RowInv(s) == Validated(s) /\ BatchValidated(s) /\ OutcomeWritten(s) /\ HooksAgree(s)

IInv ==
    /\ Shared \subseteq overlapped
    /\ \A s \in Settlements \ overlapped : RowInv(s)

\* A terminal status can only be "changed" to itself.
LEMMA TerminalStays ==
  ASSUME NEW x \in Terminal, NEW y, validateTransition(x, y)
  PROVE  y = x
BY DEF validateTransition, isValidTransition, SETTLEMENT_STATUS_TRANSITIONS, Terminal

\* Who a row is shared by, seen from a row that is not shared.
LEMMA NotShared ==
  ASSUME NEW s \in Settlements, s \notin Shared
  PROVE  /\ \A q, r \in workers(s) : q = r
         /\ \A r \in workers(s) : ~batching(s) /\ ~reaping(s)
         /\ ~(batching(s) /\ reaping(s))
BY DEF Shared

\* How a run comes to hold a promise: it has validated its next write, or has
\* written the status its webhook tells.
LEMMA PromiseFrom ==
  ASSUME TypeOK, [Next]_vars, NEW r \in Runs, pc'[r] \in DOMAIN written \cup {"hookC", "hookF"}
  PROVE  \/ pc'[r] = pc[r]
         \/ /\ pc'[r] \in DOMAIN written
            /\ validateTransition(status[sidOf(r)], written[pc'[r]])
            /\ UNCHANGED status
         \/ /\ pc[r] \in DOMAIN written /\ pc'[r] \notin DOMAIN written
            /\ pc'[r] = "hookC" => written[pc[r]] = "completed"
            /\ pc'[r] = "hookF" => written[pc[r]] = "failed"
            /\ status' = [status EXCEPT ![sidOf(r)] = written[pc[r]]]
<1> DEFINE Goal ==
         \/ pc'[r] = pc[r]
         \/ /\ pc'[r] \in DOMAIN written
            /\ validateTransition(status[sidOf(r)], written[pc'[r]])
            /\ UNCHANGED status
         \/ /\ pc[r] \in DOMAIN written /\ pc'[r] \notin DOMAIN written
            /\ pc'[r] = "hookC" => written[pc[r]] = "completed"
            /\ pc'[r] = "hookF" => written[pc[r]] = "failed"
            /\ status' = [status EXCEPT ![sidOf(r)] = written[pc[r]]]
<1>1. ASSUME NEW q \in Runs, NEW to, RunStep(q) \/ RunFault(q), Moves(q, to) PROVE Goal
  <2>1. CASE q # r
    BY <1>1, <2>1 DEF Moves, TypeOK
  <2>2. CASE q = r
    <3>1. pc'[r] = to
      BY <1>1, <2>2 DEF Moves, TypeOK
    <3>2. CASE ReadProcessing(r) \/ ReadCompleted(r) \/ ReadFailed(r)
      BY <3>1, <3>2 DEF ReadProcessing, ReadCompleted, ReadFailed, ReadAndValidate, Go, TypeOK,
                        written, dbVars
    <3>3. CASE WriteProcessing(r) \/ WriteCompleted(r) \/ WriteFailed(r)
      BY <3>1, <3>3 DEF WriteProcessing, WriteCompleted, WriteFailed, Write, Go, TypeOK, written
    <3>4. CASE /\ RunStep(q)
               /\ ~(ReadProcessing(r) \/ ReadCompleted(r) \/ ReadFailed(r))
               /\ ~(WriteProcessing(r) \/ WriteCompleted(r) \/ WriteFailed(r))
      BY <2>2, <3>1, <3>4
         DEF RunStep, Acquire, Requeue, HookCompleted, HookFailed, AddHook, Release, Leave, Settle,
             Go, TypeOK, written
    <3>5. CASE RunFault(q)
      BY <2>2, <3>1, <3>5
         DEF RunFault, AcquireFails, DbError, HookError, ReleaseFails, Leave, SettleFails,
             JobTimeout, Go, TypeOK, written
    <3>6. QED
      BY <1>1, <2>2, <3>2, <3>3, <3>4, <3>5
  <2>3. QED
    BY <2>1, <2>2
<1>2. ASSUME NEW j \in Jobs, StartAttempt(j) PROVE Goal
  BY <1>2, StartJobs DEF written
<1>3. Crash => Goal
  BY DEF Crash, written
<1>4. QED
  BY <1>1, <1>2, <1>3, PcEffects DEF PcEffect

\* The batching job validates a row before it writes it.
LEMMA BatchingFrom ==
  ASSUME TypeOK, [Next]_vars, NEW s \in Settlements, batching(s)'
  PROVE  \/ batching(s)
         \/ validateTransition(status[s], "processing") /\ UNCHANGED status
<1> USE DEF batching
<1>1. CASE BatchStep
  <2>1. CASE BatchGroup
    <3>1. batch'.pc # "write"
      <4> DEFINE first == CHOOSE x \in batch.ids : \A y \in batch.ids : x <= y
                 g     == {x \in batch.ids : assetOf[x] = assetOf[first]}
      <4>1. \/ batch' = [pc |-> "validate", ids |-> batch.ids \ g, group |-> g]
            \/ batch' = [batch EXCEPT !.ids = @ \ g]
        BY <2>1, Zenon DEF BatchGroup
      <4>2. batch.pc = "group"
        BY <2>1 DEF BatchGroup
      <4> HIDE DEF g
      <4>3. QED
        BY <4>1, <4>2 DEF TypeOK
    <3>2. QED
      BY <3>1
  <2>2. CASE BatchValidate
    BY <2>2 DEF BatchValidate, IdleBatch, dbVars, TypeOK
  <2>3. CASE BatchRead \/ BatchDone
    BY <2>3 DEF BatchRead, BatchDone, IdleBatch
  <2>4. CASE BatchWrite
    BY <2>4 DEF BatchWrite, TypeOK
  <2>5. QED
    BY <1>1, <2>1, <2>2, <2>3, <2>4 DEF BatchStep
<1>2. CASE BatchError \/ Crash
  BY <1>2 DEF BatchError, Crash, IdleBatch
<1>3. CASE ~(BatchStep \/ BatchError \/ Crash)
  <2>1. UNCHANGED batch
    BY <1>3
       DEF Next, Step, CreateRow, EnqueueRow, EnqueueFails, StartAttempt, RunStep, Acquire,
           Requeue, ReadProcessing, WriteProcessing, ReadCompleted, WriteCompleted,
           HookCompleted, ReadFailed, WriteFailed, HookFailed, ReadAndValidate, Write, AddHook,
           Release, Leave, Settle, RunFault, AcquireFails, DbError, HookError, ReleaseFails,
           SettleFails, JobTimeout, SlotExpires, Age, ReaperStep, ReapScan, ReapClaim, ReapAdd,
           ReapError, Stalled, vars, engineVars, processVars
  <2>2. QED
    BY <2>1
<1>4. QED
  BY <1>1, <1>2, <1>3

\* Who adds a webhook: the run that has written the status it tells.
LEMMA HookFrom ==
  ASSUME [Next]_vars, NEW h \in hooks', h \notin hooks
  PROVE  /\ UNCHANGED status
         /\ \E r \in Runs : /\ h.sid = sidOf(r)
                            /\ \/ pc[r] = "hookC" /\ h.event = "completed"
                               \/ pc[r] = "hookF" /\ h.event = "failed"
<1>1. ASSUME NEW r \in Runs, RunStep(r)
      PROVE  HookCompleted(r) \/ HookFailed(r)
  BY <1>1 DEF RunStep, Acquire, Requeue, ReadProcessing, WriteProcessing, ReadCompleted,
              WriteCompleted, ReadFailed, WriteFailed, ReadAndValidate, Write, Release, Leave,
              Settle, queueVars
<1>2. ASSUME NEW r \in Runs, RunFault(r)
      PROVE  HookError(r)
  BY <1>2 DEF RunFault, AcquireFails, DbError, ReleaseFails, Leave, SettleFails, JobTimeout,
              queueVars
<1>3. ASSUME NEW r \in Runs, HookCompleted(r) \/ HookFailed(r) \/ HookError(r)
      PROVE  /\ UNCHANGED status
             /\ h.sid = sidOf(r)
             /\ \/ pc[r] = "hookC" /\ h.event = "completed"
                \/ pc[r] = "hookF" /\ h.event = "failed"
  BY <1>3 DEF HookCompleted, HookFailed, HookError, AddHook, Go, dbVars
<1>4. \E r \in Runs : RunStep(r) \/ RunFault(r)
  BY DEF Next, Step, CreateRow, EnqueueRow, EnqueueFails, StartAttempt, SlotExpires, BatchStep,
         BatchRead, BatchGroup, BatchValidate, BatchWrite, BatchDone, BatchError, Age, ReaperStep,
         ReapScan, ReapClaim, ReapAdd, ReapError, Crash, Stalled, vars, engineVars, queueVars
<1>5. QED
  BY <1>1, <1>2, <1>3, <1>4

\* The runs at work on a row after a step, but for those that have just entered.
LEMMA WorkerFrom ==
  ASSUME TypeOK, [Next]_vars, NEW s \in Settlements, NEW r \in workers(s)', pc[r] \in CriticalPCs
  PROVE  r \in workers(s) /\ sidOf(r) = s /\ r \in Runs
BY SameRun DEF workers, Critical, CriticalPCs

LEMMA WrittenCritical == DOMAIN written \cup {"hookC", "hookF"} \subseteq CriticalPCs
BY DEF written, CriticalPCs

\* A row whose status a step leaves alone.
LEMMA KeptRow ==
  ASSUME TypeOK, IInv, [Next]_vars, NEW s \in Settlements \ overlapped, status'[s] = status[s]
  PROVE  RowInv(s)'
<1>0. RowInv(s) /\ s \in Settlements
  BY DEF IInv
<1>1. ASSUME NEW r \in workers(s)', pc'[r] \in DOMAIN written
      PROVE  validateTransition(status'[s], written[pc'[r]])
  <2>0. r \in Runs /\ sidOf(r)' = s
    BY DEF workers, Critical
  <2>1. CASE pc'[r] = pc[r]
    <3>1. r \in workers(s)
      BY <1>1, <2>1, WorkerFrom, WrittenCritical
    <3>2. QED
      BY <1>0, <1>1, <2>1, <3>1 DEF RowInv, Validated
  <2>2. CASE validateTransition(status[sidOf(r)], written[pc'[r]])
    <3>1. pc[r] # "idle"
      BY <1>1, <2>0, PcEffects, StartJobs, WrittenCritical
         DEF PcEffect, Crash, Moves, TypeOK, CriticalPCs
    <3>2. sidOf(r) = s
      BY <2>0, <3>1, SameRun
    <3>3. QED
      BY <2>2, <3>2
  <2>3. QED
    BY <1>1, <2>0, <2>1, <2>2, PromiseFrom
<1>2. ASSUME NEW r \in workers(s)', pc'[r] \in {"hookC", "hookF"}
      PROVE  /\ pc'[r] = "hookC" => status'[s] = "completed"
             /\ pc'[r] = "hookF" => status'[s] = "failed"
  <2>0. r \in Runs
    BY DEF workers, Critical
  <2>1. CASE pc'[r] = pc[r]
    <3>1. r \in workers(s)
      BY <1>2, <2>1, WorkerFrom, WrittenCritical
    <3>2. QED
      BY <1>0, <1>2, <2>1, <3>1 DEF RowInv, OutcomeWritten
  <2>2. CASE /\ pc[r] \in DOMAIN written
             /\ pc'[r] = "hookC" => written[pc[r]] = "completed"
             /\ pc'[r] = "hookF" => written[pc[r]] = "failed"
             /\ status' = [status EXCEPT ![sidOf(r)] = written[pc[r]]]
    <3>1. sidOf(r) = s
      BY <2>2, WorkerFrom, WrittenCritical
    <3>2. status'[s] = written[pc[r]]
      BY <2>2, <3>1 DEF TypeOK
    <3>3. QED
      BY <1>2, <2>2, <3>2
  <2>3. QED
    BY <1>2, <2>0, <2>1, <2>2, PromiseFrom DEF written
<1>3. BatchValidated(s)'
  BY <1>0, BatchingFrom DEF RowInv, BatchValidated
<1>4. ASSUME NEW h \in hooks', h.sid = s PROVE status'[s] = h.event
  <2>1. CASE h \in hooks
    BY <1>0, <1>4, <2>1 DEF RowInv, HooksAgree
  <2>2. CASE h \notin hooks
    <3>1. PICK r \in Runs : /\ s = sidOf(r)
                            /\ \/ pc[r] = "hookC" /\ h.event = "completed"
                               \/ pc[r] = "hookF" /\ h.event = "failed"
      BY <1>4, <2>2, HookFrom
    <3>2. r \in workers(s)
      BY <3>1 DEF workers, Critical, CriticalPCs
    <3>3. QED
      BY <1>0, <3>1, <3>2 DEF RowInv, OutcomeWritten
  <2>3. QED
    BY <2>1, <2>2
<1>5. Validated(s)' /\ OutcomeWritten(s)'
  BY <1>1, <1>2 DEF Validated, OutcomeWritten
<1>6. HooksAgree(s)'
  BY <1>4 DEF HooksAgree
<1>7. QED
  BY <1>3, <1>5, <1>6 DEF RowInv

\* Nobody is at work on a row that does not exist.
LEMMA AbsentRow ==
  ASSUME TypeOK, WorkExists, NEW s \in Settlements, RowInv(s), status[s] = Absent
  PROVE  workers(s) = {} /\ ~batching(s) /\ \A h \in hooks : h.sid # s
<1>1. workers(s) = {}
  BY RunExists DEF workers, Critical, CriticalPCs, Exists
<1>2. ~batching(s)
  BY DEF RowInv, BatchValidated, validateTransition, isValidTransition, Absent, Status
<1>3. \A h \in hooks : h.sid # s
  BY DEF RowInv, HooksAgree, TypeOK, Terminal, Absent
<1>4. QED
  BY <1>1, <1>2, <1>3

\* A row that nobody is at work on and no webhook is about.
LEMMA IdleRow ==
  ASSUME NEW s, workers(s)' = {}, ~batching(s)', \A h \in hooks' : h.sid # s
  PROVE  RowInv(s)'
BY DEF RowInv, Validated, BatchValidated, OutcomeWritten, HooksAgree

\* A row whose status a step changes: by an UPDATE that follows the machine, and
\* then no webhook has told an outcome.
LEMMA ChangedStatus ==
  ASSUME TypeOK, WorkExists, IInv, [Next]_vars, NEW s \in Settlements \ overlapped,
         status'[s] # status[s]
  PROVE  /\ \A h \in hooks : h.sid # s
         /\ \/ status[s] = Absent /\ status'[s] = "pending" /\ CreateRow(s)
            \/ isValidTransition(status[s], status'[s])
<1>0. RowInv(s) /\ s \in Settlements /\ s \notin Shared
  BY DEF IInv
<1>1. CASE status[s] = Absent /\ status'[s] = "pending" /\ CreateRow(s)
  BY <1>0, <1>1, AbsentRow
<1>2. ASSUME isValidTransition(status[s], status'[s])
      PROVE  \A h \in hooks : h.sid # s
  <2> SUFFICES ASSUME NEW h \in hooks, h.sid = s PROVE FALSE
    OBVIOUS
  <2>1. status[s] = h.event /\ h.event \in Terminal
    BY <1>0 DEF RowInv, HooksAgree, TypeOK
  <2>2. status'[s] = status[s]
    BY <1>2, <2>1, TerminalStays DEF validateTransition
  <2>3. QED
    BY <2>2
<1>3. ASSUME NEW t \in Settlements, CreateRow(t) PROVE t = s /\ status[s] = Absent /\ status'[s] = "pending"
  BY <1>3 DEF CreateRow, TypeOK
<1>4. ASSUME NEW r \in Runs, RunWrites(r) PROVE isValidTransition(status[s], status'[s])
  <2>1. sidOf(r) = s /\ status'[s] = written[pc[r]]
    BY <1>4 DEF RunWrites, TypeOK
  <2>2. r \in workers(s)
    BY <1>4, <2>1, WrittenCritical DEF RunWrites, workers, Critical
  <2>3. validateTransition(status[s], written[pc[r]])
    BY <1>0, <1>4, <2>2 DEF RowInv, Validated, RunWrites
  <2>4. QED
    BY <2>1, <2>3 DEF validateTransition
<1>5. ASSUME BatchWrite PROVE isValidTransition(status[s], status'[s])
  BY <1>0, <1>5 DEF BatchWrite, batching, RowInv, BatchValidated, validateTransition
<1>6. ASSUME NEW t \in Settlements, ReaperWrites(t) PROVE isValidTransition(status[s], status'[s])
  BY <1>6 DEF ReaperWrites, Stuck, TypeOK, isValidTransition, Status, SETTLEMENT_STATUS_TRANSITIONS
<1>7. QED
  BY <1>1, <1>2, <1>3, <1>4, <1>5, <1>6, StatusEffects DEF StatusEffect

LEMMA ChangedRow ==
  ASSUME TypeOK, WorkExists, IInv, [Next]_vars, NEW s \in Settlements \ overlapped,
         s \notin Shared', status'[s] # status[s]
  PROVE  RowInv(s)'
<1>0. RowInv(s) /\ s \in Settlements /\ s \notin Shared
  BY DEF IInv
<1>1. \A h \in hooks : h.sid # s
  BY ChangedStatus
<1>2. \A h \in hooks' : h.sid # s
  BY <1>1, HookFrom
<1>3. ASSUME NEW r \in Runs, RunWrites(r) PROVE RowInv(s)'
  <2>1. PICK to \in PCs \ DOMAIN written : Moves(r, to)
    BY <1>3 DEF RunWrites
  <2>2. sidOf(r) = s /\ status'[s] = written[pc[r]] /\ pc[r] \in DOMAIN written
        /\ pc'[r] = to /\ \A q \in Runs : q # r => pc'[q] = pc[q]
    BY <1>3, <2>1 DEF RunWrites, TypeOK, Moves
  <2>3. r \in workers(s) /\ ~batching(s)
    BY <1>0, <2>2, WrittenCritical, NotShared DEF workers, Critical
  <2>4. \A q \in workers(s)' : q # r => pc[q] \notin CriticalPCs
    BY <1>0, <2>3, WorkerFrom, NotShared
  <2>5. \A q \in workers(s)' : q # r => pc'[q] \notin CriticalPCs
    BY <2>2, <2>4 DEF workers, Critical
  <2>6. \A q \in workers(s)' : q = r
    BY <2>5 DEF workers, Critical
  <2>7. ~batching(s)'
    BY <1>3, <2>3 DEF RunWrites, batching
  <2>8. /\ to = "hookC" => status'[s] = "completed"
        /\ to = "hookF" => status'[s] = "failed"
    BY <2>1, <2>2, PromiseFrom
  <2>9. QED
    BY <1>2, <2>1, <2>2, <2>6, <2>7, <2>8
       DEF RowInv, Validated, BatchValidated, OutcomeWritten, HooksAgree
<1>4. ASSUME NEW t \in Settlements, CreateRow(t) PROVE RowInv(s)'
  <2>1. status[s] = Absent /\ UNCHANGED <<pc, job, batch>>
    BY <1>4 DEF CreateRow, TypeOK, queueVars
  <2>2. workers(s)' = {} /\ ~batching(s)'
    BY <1>0, <2>1, AbsentRow DEF workers, Critical, sidOf, jobOf, batching
  <2>3. QED
    BY <1>2, <2>2, IdleRow
<1>5. ASSUME BatchWrite PROVE RowInv(s)'
  <2>1. batching(s) /\ UNCHANGED <<pc, job>> /\ batch'.pc = "group"
    BY <1>5 DEF BatchWrite, batching, TypeOK, queueVars
  <2>2. workers(s) = {}
    BY <1>0, <2>1, NotShared
  <2>3. workers(s)' = {} /\ ~batching(s)'
    BY <2>1, <2>2 DEF workers, Critical, sidOf, jobOf, batching
  <2>4. QED
    BY <1>2, <2>3, IdleRow
<1>6. ASSUME NEW t \in Settlements, ReaperWrites(t) PROVE RowInv(s)'
  <2>1. t = s
    BY <1>6 DEF ReaperWrites, TypeOK
  <2>2. reaping(s)'
    BY <1>6, <2>1 DEF ReaperWrites, reaping
  <2>3. workers(s)' = {} /\ ~batching(s)'
    BY <1>0, <2>2 DEF Shared
  <2>4. QED
    BY <1>2, <2>3, IdleRow
<1>7. QED
  BY <1>3, <1>4, <1>5, <1>6, StatusEffects DEF StatusEffect

LEMMA IInvAlways == Spec => []IInv
<1>1. Init => IInv
  <2> SUFFICES ASSUME Init PROVE IInv
    OBVIOUS
  <2>1. \A s \in Settlements : workers(s) = {} /\ ~batching(s) /\ ~reaping(s)
    BY EngineAssumption
       DEF Init, workers, Critical, CriticalPCs, batching, reaping, IdleBatch, IdleReaper, NoRow
  <2>2. Shared = {}
    BY <2>1 DEF Shared
  <2>3. QED
    BY <2>1, <2>2
       DEF Init, IInv, RowInv, Validated, BatchValidated, OutcomeWritten, HooksAgree
<1>2. TypeOK /\ WorkExists /\ IInv /\ [Next]_vars => IInv'
  <2> SUFFICES ASSUME TypeOK, WorkExists, IInv, [Next]_vars PROVE IInv'
    OBVIOUS
  <2>1. overlapped \subseteq overlapped' /\ Shared' \subseteq overlapped'
    <3>1. CASE Next
      BY <3>1 DEF Next
    <3>2. CASE UNCHANGED vars
      <4>1. Shared' = Shared
        BY <3>2 DEF vars, engineVars, queueVars, processVars, Shared, workers, Critical, sidOf,
                    jobOf, batching, reaping
      <4>2. QED
        BY <3>2, <4>1 DEF vars, IInv
    <3>3. QED
      BY <3>1, <3>2
  <2>2. ASSUME NEW s \in Settlements \ overlapped' PROVE RowInv(s)'
    <3>1. s \in Settlements \ overlapped /\ s \notin Shared'
      BY <2>1
    <3>2. QED
      BY <3>1, KeptRow, ChangedRow
  <2>3. QED
    BY <2>1, <2>2 DEF IInv
<1>3. QED
  BY <1>1, <1>2, TypeCorrect, WorkExistsAlways, PTL DEF Spec

\* A merchant is never told both outcomes of a settlement that has not had two
\* actors at work on it at a time: the event of every webhook that
\* baseSettlementProcessor adds is the status its run has just written, and that
\* status stays.
THEOREM NoContradictoryWebhooksAlways == Spec => []NoContradictoryWebhooks
<1>1. ASSUME IInv, NEW s \in Settlements \ overlapped,
             \A e \in Terminal : [sid |-> s, event |-> e] \in hooks
      PROVE  FALSE
  <2>1. \A e \in Terminal : status[s] = e
    BY <1>1 DEF IInv, RowInv, HooksAgree
  <2>2. QED
    BY <2>1 DEF Terminal
<1>2. IInv => NoContradictoryWebhooks
  BY <1>1 DEF NoContradictoryWebhooks
<1>3. QED
  BY <1>2, IInvAlways, PTL

\* Both specifications take the machine from SettlementStatus.
LEMMA SameMachine ==
  ASSUME NEW s
  PROVE  /\ StateMachine(s)!Absent = Absent
         /\ StateMachine(s)!RowState = RowState
         /\ \A x, y : StateMachine(s)!isValidTransition(x, y) <=> isValidTransition(x, y)
BY DEF StateMachine!Absent, Absent, StateMachine!RowState, RowState, StateMachine!Status,
       Status, StateMachine!isValidTransition, isValidTransition,
       StateMachine!SETTLEMENT_STATUS_TRANSITIONS, SETTLEMENT_STATUS_TRANSITIONS

\* Validation and UPDATE are two statements, yet for every row that has not had
\* two actors at work on it at a time each of them (worker runs, the batching
\* job, the reapers) follows the status machine of shared/validation/schemas.ts,
\* through any number of timeouts, retries, crashes and stalls before.
THEOREM EngineImplementsStateMachine == Spec => ImplementsStateMachine
<1>1. Init => \A s \in Settlements : StateMachine(s)!Init
  BY SameMachine DEF Init, StateMachine!Init
<1>2. TypeOK /\ WorkExists /\ IInv /\ [Next]_vars
        => [\A s \in Settlements \ overlapped : [StateMachine(s)!Next]_(status[s])]_vars
  <2> SUFFICES ASSUME TypeOK, WorkExists, IInv, [Next]_vars, NEW s \in Settlements \ overlapped,
                      status'[s] # status[s]
               PROVE  StateMachine(s)!Next
    OBVIOUS
  <2>1. CASE status[s] = Absent /\ status'[s] = "pending"
    <3>1. StateMachine(s)!Insert(s)
      BY <2>1, SameMachine DEF StateMachine!Insert
    <3>2. QED
      BY <3>1 DEF StateMachine!Next
  <2>2. CASE isValidTransition(status[s], status'[s])
    <3>1. status'[s] \in RowState
      BY TypeStep DEF TypeOK
    <3>2. StateMachine(s)!Advance
      BY <2>2, <3>1, SameMachine DEF StateMachine!Advance
    <3>3. QED
      BY <3>2 DEF StateMachine!Next
  <2>3. QED
    BY <2>1, <2>2, ChangedStatus
<1>3. QED
  BY <1>1, <1>2, TypeCorrect, WorkExistsAlways, IInvAlways, PTL DEF Spec, ImplementsStateMachine
=============================================================================
