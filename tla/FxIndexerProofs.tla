--------------------------- MODULE FxIndexerProofs ---------------------------
(***************************************************************************)
(* Proofs about the two services that follow a source outside the backend: *)
(* the FX engine, for any number of instances, assets and pairs, any rates *)
(* and any faults, and the indexer, for any chain of events, any page and  *)
(* chunk sizes and any errors, crashes, replays and cleanups.  The two     *)
(* share no constant and no variable.                                      *)
(*                                                                         *)
(* FX engine: a breaker that is not closed goes with fallback mode, a      *)
(* quote accepted outside fallback mode is within its slippage of the      *)
(* verifier's base rates, and the fetch lock of a live instance is ended   *)
(* by itself or by the TTL.  The second rests on the cache of computed     *)
(* rates: an entry that is served is the quotient of the base rates of     *)
(* this moment (Fresh), because every change of the base rates clears it,  *)
(* and an instance that is down, whose base rates the warmup will replace, *)
(* has no entry and answers nobody (DownIsEmpty).                          *)
(*                                                                         *)
(* Indexer: the cursor passes no ledger of which nothing was indexed, an   *)
(* event has as many deliveries as rows at most, and a job makes no more   *)
(* POSTs than its attempts, and the one a stall repeats, allow.  A page is *)
(* a prefix of what lies from the cursor on (PageIsPrefix), so that the    *)
(* cycle which has fetched it has every event before the last ledger it    *)
(* reaches (CycleSound); each row a cycle creates is due to one delivery   *)
(* per subscription until the deliveries are there (RowsPay); and a job    *)
(* that waits has made a POST at most for each failed attempt and for the  *)
(* stalled one (JobsSound).                                                *)
(***************************************************************************)
EXTENDS FxEngine, Indexer, FiniteSetTheorems, WellFoundedInduction, TLAPS

RateTable == [Assets -> Rates]

\* The values of the variables the properties depend on.
Types ==
    /\ market \in RateTable
    /\ tick \in [Instances -> {"down", "idle", "fetch", "wait", "direct", "release"}]
    /\ serving \subseteq Instances
    /\ cache \in [Instances -> [rates : RateTable, renewed : BOOLEAN]]
    /\ pairs \in [Instances -> [Pairs -> {None} \cup (Nat \X Nat)]]
    /\ breaker \in [Instances -> [state : {"CLOSED", "OPEN", "HALF_OPEN"},
                                  failures : Nat, cooled : BOOLEAN]]
    /\ fallback \in [Instances -> BOOLEAN]
    /\ snapshot \in RateTable \cup {None}
    /\ quote \in [pair : Pairs, rate : Nat \X Nat, slippageBps : Nat, age : Nat] \cup {None}

\* A cached rate of a pair is that of the base rates.
Fresh ==
    \A i \in Instances, p \in Pairs : pairs[i][p] # None => pairs[i][p] = computeRate(i, p)

\* An instance that is down serves nobody, and has computed no rates.
DownIsEmpty ==
    \A i \in Instances : tick[i] = "down" => i \notin serving /\ pairs[i] = NoPairs

FxInv == Types /\ Fresh /\ DownIsEmpty /\ FailOpenWhileOpen /\ AcceptedWithinSlippage

-----------------------------------------------------------------------------
(* What the operators of the engine return.                                *)

\* A count of failures is a number.
LEMMA MinType == ASSUME NEW a \in Nat, NEW b \in Nat PROVE Min({a, b}) \in Nat
  <1>1. \E x \in {a, b} : \A y \in {a, b} : x <= y
    <2>1. CASE a <= b
      BY <2>1
    <2>2. CASE ~(a <= b)
      <3>1. b <= a /\ b <= b
        BY <2>2
      <3> QED  BY <3>1
    <2> QED  BY <2>1, <2>2
  <1>2. Min({a, b}) \in {a, b}
    BY <1>1 DEF Min
  <1> QED  BY <1>2

\* The guard returns a table of rates.
LEMMA GuardType ==
    ASSUME NEW known \in SUBSET Assets, NEW fetched \in [known -> Rates], NEW old \in RateTable
    PROVE  applyDeviationGuard(fetched, old) \in RateTable
  BY DEF applyDeviationGuard, RateTable

\* The rate of a pair is a pair of numbers, and depends on the base rates alone.
LEMMA RateType ==
    ASSUME Types, NEW i \in Instances, NEW p \in Pairs
    PROVE  computeRate(i, p) \in Nat \X Nat
  <1>1. p[1] \in Assets \cup {NGN} /\ p[2] \in Assets \cup {NGN}
    BY FxAssumption DEF SUPPORTED_CURRENCIES
  <1>2. cache[i].rates \in [Assets -> Rates] /\ Rates \subseteq Nat
    BY FxAssumption DEF Types, RateTable
  <1> QED  BY <1>1, <1>2 DEF computeRate, RateOf

\* Serving a rate of a pair serves the quotient of the base rates.
LEMMA ResolveRate ==
    ASSUME Fresh, NEW i \in Instances, NEW p \in Pairs
    PROVE  resolveRate(i, p) = computeRate(i, p)
  BY DEF Fresh, resolveRate

-----------------------------------------------------------------------------
\* A step that leaves rates, pairs and answers alone and does not wake a stopped
\* instance keeps the pairs fresh.
LEMMA TickStep ==
    ASSUME FxInv, NEW i \in Instances, NEW t \in {"idle", "fetch", "wait", "direct", "release"},
           tick' = [tick EXCEPT ![i] = t],
           serving' = serving \/ serving' = serving \cup {i},
           \A j \in Instances : cache'[j].rates = cache[j].rates,
           cache' \in [Instances -> [rates : RateTable, renewed : BOOLEAN]],
           UNCHANGED <<pairs, verdict, quote, market, snapshot>>,
           breaker' \in [Instances -> [state : {"CLOSED", "OPEN", "HALF_OPEN"},
                                       failures : Nat, cooled : BOOLEAN]],
           fallback' \in [Instances -> BOOLEAN],
           FailOpenWhileOpen'
    PROVE  FxInv'
  <1>1. Types'
    BY DEF FxInv, Types
  <1>2. Fresh'
    BY DEF FxInv, Fresh, computeRate, RateOf
  <1>3. DownIsEmpty'
    BY DEF FxInv, Types, DownIsEmpty, NoPairs
  <1>4. AcceptedWithinSlippage'
    BY DEF FxInv, AcceptedWithinSlippage
  <1> QED  BY <1>1, <1>2, <1>3, <1>4 DEF FxInv

\* New base rates: the computed ones are cleared.
LEMMA UpdateStep ==
    ASSUME FxInv, NEW i \in Instances, NEW rates \in RateTable, NEW stored \in BOOLEAN,
           updateBaseRates(i, rates, stored)
    PROVE  /\ cache' \in [Instances -> [rates : RateTable, renewed : BOOLEAN]]
           /\ pairs' \in [Instances -> [Pairs -> {None} \cup (Nat \X Nat)]]
           /\ snapshot' \in RateTable \cup {None}
           /\ pairs'[i] = NoPairs
           /\ \A j \in Instances : j # i => pairs'[j] = pairs[j]
           /\ Fresh'
  <1>1. cache' = [cache EXCEPT ![i] = [rates |-> rates, renewed |-> TRUE]]
        /\ pairs' = [pairs EXCEPT ![i] = NoPairs]
        /\ snapshot' = IF stored THEN rates ELSE snapshot
    BY DEF updateBaseRates
  <1>2. NoPairs \in [Pairs -> {None} \cup (Nat \X Nat)]
    BY DEF NoPairs
  <1>3. /\ cache' \in [Instances -> [rates : RateTable, renewed : BOOLEAN]]
        /\ pairs' \in [Instances -> [Pairs -> {None} \cup (Nat \X Nat)]]
        /\ snapshot' \in RateTable \cup {None}
    BY <1>1, <1>2 DEF FxInv, Types
  <1>4. /\ pairs'[i] = NoPairs
        /\ \A j \in Instances : j # i => pairs'[j] = pairs[j] /\ cache'[j] = cache[j]
    BY <1>1 DEF FxInv, Types
  <1>5. Fresh'
    <2> SUFFICES ASSUME NEW j \in Instances, NEW p \in Pairs, pairs'[j][p] # None
                 PROVE  pairs'[j][p] = computeRate(j, p)'
      BY DEF Fresh
    <2>1. j # i
      BY <1>4 DEF NoPairs
    <2> QED  BY <1>4, <2>1 DEF FxInv, Fresh, computeRate, RateOf
  <1> QED  BY <1>3, <1>4, <1>5

\* Serving the rate of a pair keeps the computed rates fresh.
LEMMA ResolveStep ==
    ASSUME FxInv, NEW i \in serving, NEW p \in Pairs, Resolve(i, p), UNCHANGED <<cache, tick, serving>>
    PROVE  /\ pairs' \in [Instances -> [Pairs -> {None} \cup (Nat \X Nat)]]
           /\ Fresh' /\ DownIsEmpty'
  <1>1. i \in Instances /\ tick[i] # "down"
    BY DEF FxInv, Types, DownIsEmpty
  <1>2. computeRate(i, p) \in Nat \X Nat
    BY <1>1, RateType DEF FxInv
  <1>3. pairs' = [pairs EXCEPT ![i][p] = computeRate(i, p)]
    BY <1>1, ResolveRate DEF FxInv, Resolve
  <1>4. pairs' \in [Instances -> [Pairs -> {None} \cup (Nat \X Nat)]]
    BY <1>1, <1>2, <1>3 DEF FxInv, Types
  <1>5. Fresh'
    <2> SUFFICES ASSUME NEW j \in Instances, NEW q \in Pairs, pairs'[j][q] # None
                 PROVE  pairs'[j][q] = computeRate(j, q)'
      BY DEF Fresh
    <2>1. computeRate(j, q)' = computeRate(j, q)
      BY DEF computeRate, RateOf
    <2>2. CASE j = i /\ q = p
      BY <1>3, <2>1, <2>2 DEF FxInv, Types
    <2>3. CASE ~(j = i /\ q = p)
      <3>1. pairs'[j][q] = pairs[j][q]
        BY <1>3, <2>3 DEF FxInv, Types
      <3> QED  BY <2>1, <3>1 DEF FxInv, Fresh
    <2> QED  BY <2>2, <2>3
  <1>6. DownIsEmpty'
    BY <1>1, <1>3 DEF FxInv, Types, DownIsEmpty, NoPairs
  <1> QED  BY <1>4, <1>5, <1>6

\* The answer to a verification: the cached rate it is judged by is the computed one.
LEMMA VerifyStep ==
    ASSUME FxInv, NEW i \in Instances, Verify(i)
    PROVE  AcceptedWithinSlippage'
  <1> DEFINE within(current) ==
          Distance(current[1] * quote.rate[2], quote.rate[1] * current[2]) * 10000
              <= quote.slippageBps * quote.rate[1] * current[2]
  <1>1. quote.pair \in Pairs
    BY DEF FxInv, Types, Verify
  <1>2. resolveRate(i, quote.pair) = computeRate(i, quote.pair)
    BY <1>1, ResolveRate DEF FxInv
  <1>3. verdict' = [valid |-> /\ quote.age = Valid
                              /\ fallback[i] \/ within(computeRate(i, quote.pair)),
                    fallbackAccepted |-> fallback[i],
                    holds |-> within(computeRate(i, quote.pair))]
    BY <1>2 DEF Verify
  <1> DEFINE holds == within(computeRate(i, quote.pair))
             young == quote.age = Valid
  <1>0. \A current : within(current) \in BOOLEAN
    OBVIOUS
  <1> HIDE DEF within
  <1>4. verdict' = [valid |-> young /\ (fallback[i] \/ holds),
                    fallbackAccepted |-> fallback[i], holds |-> holds]
    BY <1>3
  <1>5. holds \in BOOLEAN /\ young \in BOOLEAN /\ fallback[i] \in BOOLEAN
    BY <1>0 DEF FxInv, Types
  <1> HIDE DEF holds, young
  <1> QED  BY <1>4, <1>5 DEF AcceptedWithinSlippage

\* Answering with a rate changes nothing else an instance keeps.
LEMMA AnswerStep ==
    ASSUME FxInv, NEW i \in serving, NEW p \in Pairs, Resolve(i, p),
           UNCHANGED <<market, tick, serving, cache, breaker, fallback, snapshot>>,
           quote' \in [pair : Pairs, rate : Nat \X Nat, slippageBps : Nat, age : Nat] \cup {None},
           AcceptedWithinSlippage'
    PROVE  FxInv'
  <1>1. /\ pairs' \in [Instances -> [Pairs -> {None} \cup (Nat \X Nat)]]
        /\ Fresh' /\ DownIsEmpty'
    BY ResolveStep
  <1>2. Types'
    BY <1>1 DEF FxInv, Types
  <1>3. FailOpenWhileOpen'
    BY DEF FxInv, FailOpenWhileOpen
  <1> QED  BY <1>1, <1>2, <1>3 DEF FxInv

\* A fetch that ends, whatever its result: the tick goes on or is over.
LEMMA FetchEnds ==
    ASSUME NEW i \in Instances, AfterFetch(i)
    PROVE  /\ \E t \in {"release", "idle"} : tick' = [tick EXCEPT ![i] = t]
           /\ serving' = serving \/ serving' = serving \cup {i}
  BY DEF AfterFetch, EndTick

\* The instances are down and nothing has been computed or answered.
LEMMA InitFxInv == ASSUME Init PROVE FxInv
  <1> USE FxAssumption
  <1>1. NoPairs \in [Pairs -> {None} \cup (Nat \X Nat)]
    BY DEF NoPairs
  <1>2. Types
    BY <1>1 DEF Init, Types, RateTable, Closed
  <1>3. Fresh
    BY DEF Init, Fresh, NoPairs
  <1>4. DownIsEmpty /\ FailOpenWhileOpen /\ AcceptedWithinSlippage
    BY DEF Init, DownIsEmpty, FailOpenWhileOpen, AcceptedWithinSlippage, Closed
  <1> QED  BY <1>2, <1>3, <1>4 DEF FxInv

BreakerType == [state : {"CLOSED", "OPEN", "HALF_OPEN"}, failures : Nat, cooled : BOOLEAN]

\* A refresh tick, from its gate to the release of the lock.
LEMMA RefreshFxInv ==
    ASSUME FxInv, NEW i \in Instances,
           Tick(i) \/ Woken(i) \/ WaitEnds(i) \/ Fetched(i) \/ FetchFails(i) \/ Release(i)
    PROVE  FxInv'
  <1> USE FxAssumption
  <1>1. CASE Tick(i)
    <2>1. PICK b : b = [breaker[i] EXCEPT !.state = getState(i), !.cooled = FALSE]
      OBVIOUS
    <2>2. b \in BreakerType /\ (b.state # "CLOSED" => breaker[i].state # "CLOSED")
      BY ZenonT(30), <2>1 DEF FxInv, Types, BreakerType, getState
    <2>3. breaker' = [breaker EXCEPT ![i] = b]
      BY <1>1, <2>1 DEF Tick
    <2>4. breaker' \in [Instances -> BreakerType] /\ fallback' \in [Instances -> BOOLEAN]
          /\ FailOpenWhileOpen'
      <3>1. breaker' \in [Instances -> BreakerType] /\ fallback' = fallback
        BY <1>1, <2>2, <2>3 DEF Tick, FxInv, Types, BreakerType
      <3>2. breaker'[i] = b /\ \A j \in Instances : j # i => breaker'[j] = breaker[j]
        BY <2>3 DEF FxInv, Types
      <3>3. FailOpenWhileOpen'
        BY <2>2, <3>1, <3>2 DEF FxInv, FailOpenWhileOpen
      <3> QED  BY <3>1, <3>3 DEF FxInv, Types
    <2>5. /\ cache' \in [Instances -> [rates : RateTable, renewed : BOOLEAN]]
          /\ \A j \in Instances : cache'[j].rates = cache[j].rates
      <3>1. CASE cache' = cache
        BY <3>1 DEF FxInv, Types
      <3>2. CASE cache' = [cache EXCEPT ![i].renewed = FALSE]
        <4>1. PICK v : v = [cache[i] EXCEPT !.renewed = FALSE]
          OBVIOUS
        <4>2. v \in [rates : RateTable, renewed : BOOLEAN] /\ v.rates = cache[i].rates
          BY ZenonT(30), <4>1 DEF FxInv, Types
        <4>3. cache' = [cache EXCEPT ![i] = v]
          BY <3>2, <4>1
        <4>4. /\ cache'[i] = v /\ \A j \in Instances : j # i => cache'[j] = cache[j]
              /\ cache' \in [Instances -> [rates : RateTable, renewed : BOOLEAN]]
          BY <4>2, <4>3 DEF FxInv, Types
        <4> QED  BY <4>2, <4>4
      <3> QED  BY <1>1, <3>1, <3>2 DEF Tick
    <2>6. \E t \in {"fetch", "wait"} : tick' = [tick EXCEPT ![i] = t]
      BY <1>1 DEF Tick
    <2> QED  BY <1>1, <2>4, <2>5, <2>6, TickStep DEF Tick, BreakerType
  <1>2. CASE Woken(i) \/ WaitEnds(i) \/ Release(i)
    <2>1. /\ \E t \in {"idle", "direct"} : tick' = [tick EXCEPT ![i] = t]
          /\ serving' = serving \/ serving' = serving \cup {i}
          /\ UNCHANGED <<market, cache, pairs, breaker, fallback, snapshot, quote, verdict>>
      BY <1>2 DEF Woken, WaitEnds, Release, EndTick, redis
    <2>2. FailOpenWhileOpen'
      BY <2>1 DEF FxInv, FailOpenWhileOpen
    <2> QED  BY <2>1, <2>2, TickStep DEF FxInv, Types
  <1>3. CASE FetchFails(i)
    <2>1. recordFailure(i) \in BreakerType
      <3>1. breaker[i].failures + 1 \in Nat /\ breaker[i].state \in {"CLOSED", "OPEN", "HALF_OPEN"}
        BY DEF FxInv, Types
      <3>2. Min({breaker[i].failures + 1, FAILURE_THRESHOLD}) \in Nat
        BY <3>1, MinType
      <3> QED  BY <3>1, <3>2 DEF recordFailure, BreakerType
    <2>2. breaker' \in [Instances -> BreakerType] /\ fallback' \in [Instances -> BOOLEAN]
          /\ FailOpenWhileOpen'
      BY <1>3, <2>1 DEF FetchFails, FxInv, Types, FailOpenWhileOpen, BreakerType
    <2>3. UNCHANGED <<market, cache, pairs, snapshot, quote, verdict>>
      BY <1>3 DEF FetchFails, redis
    <2>4. PICK t \in {"release", "idle"} : tick' = [tick EXCEPT ![i] = t]
                                            /\ (serving' = serving \/ serving' = serving \cup {i})
      BY <1>3, FetchEnds DEF FetchFails
    <2>5. cache' \in [Instances -> [rates : RateTable, renewed : BOOLEAN]]
      BY <2>3 DEF FxInv, Types
    <2> QED  BY <2>2, <2>3, <2>4, <2>5, TickStep DEF BreakerType
  <1>4. CASE Fetched(i)
    <2>1. PICK known \in SUBSET Assets \ {{}}, stored \in BOOLEAN :
             updateBaseRates(i, applyDeviationGuard([a \in known |-> market[a]], cache[i].rates), stored)
      BY <1>4 DEF Fetched
    <2>2. [a \in known |-> market[a]] \in [known -> Rates] /\ cache[i].rates \in RateTable
      BY <2>1 DEF FxInv, Types, RateTable
    <2>3. applyDeviationGuard([a \in known |-> market[a]], cache[i].rates) \in RateTable
      BY <2>1, <2>2, GuardType
    <2>4. /\ cache' \in [Instances -> [rates : RateTable, renewed : BOOLEAN]]
          /\ pairs' \in [Instances -> [Pairs -> {None} \cup (Nat \X Nat)]]
          /\ snapshot' \in RateTable \cup {None}
          /\ pairs'[i] = NoPairs
          /\ \A j \in Instances : j # i => pairs'[j] = pairs[j]
          /\ Fresh'
      BY <2>1, <2>3, UpdateStep
    <2>5. breaker' = [breaker EXCEPT ![i] = Closed] /\ fallback' = [fallback EXCEPT ![i] = FALSE]
          /\ UNCHANGED <<market, quote, verdict>>
      BY <1>4 DEF Fetched, recordSuccess
    <2>6. Closed \in BreakerType /\ Closed.state = "CLOSED"
      BY DEF Closed, BreakerType
    <2>7. breaker' \in [Instances -> BreakerType] /\ fallback' \in [Instances -> BOOLEAN]
          /\ FailOpenWhileOpen'
      BY <2>5, <2>6 DEF FxInv, Types, FailOpenWhileOpen, BreakerType
    <2>8. PICK t \in {"release", "idle"} : tick' = [tick EXCEPT ![i] = t]
                                            /\ (serving' = serving \/ serving' = serving \cup {i})
      BY <1>4, FetchEnds DEF Fetched
    <2>9. Types'
      BY <2>4, <2>5, <2>7, <2>8 DEF FxInv, Types, BreakerType
    <2>10. DownIsEmpty'
      BY <2>4, <2>8 DEF FxInv, Types, DownIsEmpty, NoPairs
    <2>11. AcceptedWithinSlippage'
      BY <2>5 DEF FxInv, AcceptedWithinSlippage
    <2> QED  BY <2>4, <2>7, <2>9, <2>10, <2>11 DEF FxInv
  <1> QED  BY <1>1, <1>2, <1>3, <1>4

\* The other steps of an instance: it boots, crashes, cools down, is overridden,
\* quotes and verifies, and forgets a computed rate.
LEMMA OperateFxInv ==
    ASSUME FxInv, NEW i \in Instances,
           \/ Boot(i) \/ Cooldown(i) \/ Override(i) \/ Crash(i) \/ Verify(i)
           \/ \E p \in Pairs : Quote(i, p) \/ PairExpires(i, p)
    PROVE  FxInv'
  <1> USE FxAssumption
  <1>1. CASE Boot(i)
    <2>1. PICK rates \in RateTable, stored \in BOOLEAN :
            /\ cache' = [cache EXCEPT ![i] = [rates |-> rates, renewed |-> FALSE]]
            /\ snapshot' = IF stored THEN rates ELSE snapshot
      <3>1. FALLBACK_RATES \in RateTable
        BY DEF RateTable
      <3>2. PICK read \in BOOLEAN, stored \in BOOLEAN :
               LET rates == IF read /\ snapshot # None THEN snapshot ELSE FALLBACK_RATES IN
                 /\ cache' = [cache EXCEPT ![i] = [rates |-> rates, renewed |-> FALSE]]
                 /\ snapshot' = IF stored THEN rates ELSE snapshot
        BY <1>1 DEF Boot
      <3>3. (IF read /\ snapshot # None THEN snapshot ELSE FALLBACK_RATES) \in RateTable
        BY <3>1 DEF FxInv, Types
      <3> QED  BY <3>2, <3>3
    <2>2. /\ tick' = [tick EXCEPT ![i] = "idle"] /\ tick[i] = "down"
          /\ UNCHANGED <<market, serving, pairs, breaker, fallback, quote, verdict>>
      BY <1>1 DEF Boot
    <2>3. Types'
      BY <2>1, <2>2 DEF FxInv, Types
    <2>4. Fresh'
      <3> SUFFICES ASSUME NEW j \in Instances, NEW p \in Pairs, pairs'[j][p] # None
                   PROVE  pairs'[j][p] = computeRate(j, p)'
        BY DEF Fresh
      <3>1. j # i
        BY <2>2 DEF FxInv, DownIsEmpty, NoPairs
      <3>2. cache'[j] = cache[j]
        BY <2>1, <3>1 DEF FxInv, Types
      <3> QED  BY <2>2, <3>2 DEF FxInv, Fresh, computeRate, RateOf
    <2>5. DownIsEmpty' /\ FailOpenWhileOpen' /\ AcceptedWithinSlippage'
      BY <2>2 DEF FxInv, Types, DownIsEmpty, NoPairs, FailOpenWhileOpen, AcceptedWithinSlippage
    <2> QED  BY <2>3, <2>4, <2>5 DEF FxInv
  <1>2. CASE Cooldown(i)
    <2>1. PICK b : b = [breaker[i] EXCEPT !.cooled = TRUE]
      OBVIOUS
    <2>2. b \in BreakerType /\ b.state = breaker[i].state
      <3>1. breaker[i] \in BreakerType
        BY DEF FxInv, Types, BreakerType
      <3> QED  BY <2>1, <3>1, ZenonT(30) DEF BreakerType
    <2>3. breaker' = [breaker EXCEPT ![i] = b]
          /\ UNCHANGED <<market, tick, serving, cache, pairs, fallback, snapshot, quote, verdict>>
      BY <1>2, <2>1 DEF Cooldown, redis
    <2>4. breaker'[i] = b /\ \A j \in Instances : j # i => breaker'[j] = breaker[j]
      BY <2>3 DEF FxInv, Types
    <2>5. Types' /\ FailOpenWhileOpen'
      BY <2>2, <2>3, <2>4 DEF FxInv, Types, BreakerType, FailOpenWhileOpen
    <2>6. Fresh' /\ DownIsEmpty' /\ AcceptedWithinSlippage'
      BY <2>3 DEF FxInv, Fresh, computeRate, RateOf, DownIsEmpty, NoPairs, AcceptedWithinSlippage
    <2> QED  BY <2>5, <2>6 DEF FxInv
  <1>3. CASE Override(i)
    <2>1. PICK a \in Assets, rate \in Rates, stored \in BOOLEAN :
             updateBaseRates(i, [cache[i].rates EXCEPT ![a] = rate], stored)
      BY <1>3 DEF Override
    <2>2. [cache[i].rates EXCEPT ![a] = rate] \in RateTable
      BY DEF FxInv, Types, RateTable
    <2>3. /\ cache' \in [Instances -> [rates : RateTable, renewed : BOOLEAN]]
          /\ pairs' \in [Instances -> [Pairs -> {None} \cup (Nat \X Nat)]]
          /\ snapshot' \in RateTable \cup {None}
          /\ pairs'[i] = NoPairs
          /\ \A j \in Instances : j # i => pairs'[j] = pairs[j]
          /\ Fresh'
      BY <2>1, <2>2, UpdateStep
    <2>4. UNCHANGED <<market, tick, serving, breaker, fallback, quote, verdict>>
      BY <1>3 DEF Override
    <2>5. Types'
      BY <2>3, <2>4 DEF FxInv, Types
    <2>6. DownIsEmpty' /\ FailOpenWhileOpen' /\ AcceptedWithinSlippage'
      BY <2>3, <2>4 DEF FxInv, DownIsEmpty, NoPairs, FailOpenWhileOpen, AcceptedWithinSlippage
    <2> QED  BY <2>3, <2>5, <2>6 DEF FxInv
  <1>4. CASE Crash(i)
    <2>1. NoPairs \in [Pairs -> {None} \cup (Nat \X Nat)] /\ Closed \in BreakerType
          /\ Closed.state = "CLOSED"
      BY DEF NoPairs, Closed, BreakerType
    <2>2. /\ tick' = [tick EXCEPT ![i] = "down"] /\ serving' = serving \ {i}
          /\ pairs' = [pairs EXCEPT ![i] = NoPairs] /\ breaker' = [breaker EXCEPT ![i] = Closed]
          /\ fallback' = [fallback EXCEPT ![i] = FALSE]
          /\ UNCHANGED <<market, cache, snapshot, quote, verdict>>
      BY <1>4 DEF Crash
    <2>3. Types'
      BY <2>1, <2>2 DEF FxInv, Types, BreakerType
    <2>4. Fresh'
      BY <2>1, <2>2 DEF FxInv, Types, Fresh, computeRate, RateOf, NoPairs
    <2>5. DownIsEmpty'
      BY <2>2 DEF FxInv, Types, DownIsEmpty, NoPairs
    <2>6. FailOpenWhileOpen' /\ AcceptedWithinSlippage'
      BY <2>1, <2>2 DEF FxInv, Types, FailOpenWhileOpen, AcceptedWithinSlippage
    <2> QED  BY <2>3, <2>4, <2>5, <2>6 DEF FxInv
  <1>5. CASE Verify(i)
    <2>1. /\ i \in serving /\ quote.pair \in Pairs /\ Resolve(i, quote.pair)
          /\ UNCHANGED <<market, tick, serving, cache, breaker, fallback, snapshot, quote>>
      BY <1>5 DEF Verify, FxInv, Types, redis
    <2>2. AcceptedWithinSlippage'
      BY <1>5, VerifyStep
    <2> QED  BY <2>1, <2>2, AnswerStep DEF FxInv, Types
  <1>6. ASSUME NEW p \in Pairs, Quote(i, p) PROVE FxInv'
    <2>1. PICK bps \in Slippages :
             quote' = [pair |-> p, rate |-> resolveRate(i, p), slippageBps |-> bps, age |-> Young]
      BY <1>6 DEF Quote
    <2>2. resolveRate(i, p) \in Nat \X Nat /\ bps \in Nat /\ Young \in Nat
      BY ResolveRate, RateType DEF FxInv, Young
    <2>3. quote' \in [pair : Pairs, rate : Nat \X Nat, slippageBps : Nat, age : Nat] \cup {None}
      BY <2>1, <2>2
    <2>4. i \in serving /\ Resolve(i, p)
          /\ UNCHANGED <<market, tick, serving, cache, breaker, fallback, snapshot, verdict>>
      BY <1>6 DEF Quote
    <2>5. AcceptedWithinSlippage'
      BY <2>4 DEF FxInv, AcceptedWithinSlippage
    <2> QED  BY <2>3, <2>4, <2>5, AnswerStep
  <1>7. ASSUME NEW p \in Pairs, PairExpires(i, p) PROVE FxInv'
    <2>1. pairs' = [pairs EXCEPT ![i][p] = None]
          /\ UNCHANGED <<market, tick, serving, cache, breaker, fallback, snapshot, quote, verdict>>
      BY <1>7 DEF PairExpires, redis
    <2>2. Types'
      BY <2>1 DEF FxInv, Types
    <2>3. \A j \in Instances, q \in Pairs : pairs'[j][q] \in {None, pairs[j][q]}
      BY <2>1 DEF FxInv, Types
    <2>4. Fresh'
      BY <2>1, <2>3 DEF FxInv, Fresh, computeRate, RateOf
    <2>5. DownIsEmpty'
      <3> SUFFICES ASSUME NEW j \in Instances, tick[j] = "down"
                   PROVE  j \notin serving /\ pairs'[j] = NoPairs
        BY <2>1 DEF DownIsEmpty, NoPairs
      <3>1. j \notin serving /\ pairs[j] = NoPairs
        BY DEF FxInv, DownIsEmpty
      <3>2. pairs'[j] = [q \in Pairs |-> pairs'[j][q]]
        BY <2>2 DEF Types
      <3>3. \A q \in Pairs : pairs'[j][q] = None
        BY <2>3, <3>1 DEF NoPairs
      <3> QED  BY <3>1, <3>2, <3>3 DEF NoPairs
    <2>6. FailOpenWhileOpen' /\ AcceptedWithinSlippage'
      BY <2>1 DEF FxInv, FailOpenWhileOpen, AcceptedWithinSlippage
    <2> QED  BY <2>2, <2>4, <2>5, <2>6 DEF FxInv
  <1> QED  BY <1>1, <1>2, <1>3, <1>4, <1>5, <1>6, <1>7

\* Each step keeps the invariant.
LEMMA NextFxInv == ASSUME FxInv, [Next]_vars PROVE FxInv'
  <1>1. CASE \E i \in Instances :
          \/ Refresh(i) \/ FetchFails(i) \/ Cooldown(i) \/ Override(i) \/ Crash(i) \/ Verify(i)
          \/ \E p \in Pairs : Quote(i, p) \/ PairExpires(i, p)
    BY <1>1, RefreshFxInv, OperateFxInv DEF Refresh
  <1>2. CASE \/ LockExpires \/ UNCHANGED vars \/ MarketMoves
             \/ runRateHistoryCleanup \/ QuoteAges
    <2>1. /\ UNCHANGED <<tick, serving, cache, pairs, breaker, fallback, verdict>>
          /\ market' = market \/ MarketMoves
          /\ snapshot' \in {None, snapshot}
          /\ quote' \in {None, quote} \/ QuoteAges
      BY <1>2 DEF LockExpires, vars, MarketMoves, runRateHistoryCleanup, QuoteAges, local, redis
    <2>2. market' \in RateTable
      <3>1. CASE market' = market
        BY <3>1 DEF FxInv, Types
      <3>2. CASE MarketMoves
        BY <3>2 DEF MarketMoves, FxInv, Types, RateTable
      <3> QED  BY <2>1, <3>1, <3>2
    <2>3. quote' \in [pair : Pairs, rate : Nat \X Nat, slippageBps : Nat, age : Nat] \cup {None}
      <3>1. CASE quote' \in {None, quote}
        BY <3>1 DEF FxInv, Types
      <3>2. CASE QuoteAges
        BY <3>2 DEF QuoteAges, FxInv, Types
      <3> QED  BY <2>1, <3>1, <3>2
    <2>4. Types'
      BY <2>1, <2>2, <2>3 DEF FxInv, Types
    <2>5. Fresh'
      BY <2>1 DEF FxInv, Fresh, computeRate, RateOf
    <2>6. DownIsEmpty' /\ FailOpenWhileOpen' /\ AcceptedWithinSlippage'
      BY <2>1 DEF FxInv, DownIsEmpty, NoPairs, FailOpenWhileOpen, AcceptedWithinSlippage
    <2> QED  BY <2>4, <2>5, <2>6 DEF FxInv
  <1> QED  BY <1>1, <1>2 DEF Next

\* Every reachable state satisfies the invariant.
LEMMA FxInvAlways == Spec => []FxInv
  <1>1. Init => FxInv
    BY InitFxInv
  <1>2. FxInv /\ [Next]_vars => FxInv'
    BY NextFxInv
  <1> QED  BY <1>1, <1>2, PTL DEF Spec

\* Whatever two instances, overrides, fetches, crashes and the market do between a
\* quote and its verification, a quote accepted outside fallback mode is within its
\* slippage of the base rates of the instance that verifies it.
THEOREM AcceptedWithinSlippageAlways == Spec => []AcceptedWithinSlippage
  <1>1. FxInv => AcceptedWithinSlippage
    BY DEF FxInv
  <1> QED  BY <1>1, FxInvAlways, PTL

\* An instance whose breaker is not closed is in fallback mode.
THEOREM FailOpenWhileOpenAlways == Spec => []FailOpenWhileOpen
  <1>1. FxInv => FailOpenWhileOpen
    BY DEF FxInv
  <1> QED  BY <1>1, FxInvAlways, PTL

\* The lock of a running instance is ended by that instance or by its TTL: an
\* instance whose own lock has expired does not release the next holder's.
THEOREM NobodyElseReleasesAlways == Spec => NobodyElseReleases
  <1> USE FxAssumption
  <1>1. FxInv /\ [Next]_vars =>
          [\A i, j \in Instances : lock = i /\ lock' # i /\ j # i => tick'[j] = tick[j]]_vars
    <2> SUFFICES ASSUME FxInv, Next, NEW i \in Instances, NEW j \in Instances,
                        lock = i, lock' # i, j # i
                 PROVE  tick'[j] = tick[j]
      OBVIOUS
    <2>0. tick \in [Instances -> {"down", "idle", "fetch", "wait", "direct", "release"}]
      BY DEF FxInv, Types
    <2>1. ASSUME NEW k \in Instances, Release(k) \/ Crash(k) PROVE k = i
      BY <2>1 DEF Release, Crash
    <2>2. ASSUME NEW k \in Instances,
                 \/ Tick(k) \/ Boot(k) \/ Woken(k) \/ WaitEnds(k) \/ Fetched(k) \/ FetchFails(k)
                 \/ Cooldown(k) \/ Override(k) \/ Verify(k)
                 \/ \E p \in Pairs : Quote(k, p) \/ PairExpires(k, p)
          PROVE  FALSE
      BY <2>2 DEF Tick, Boot, Woken, WaitEnds, Fetched, FetchFails, Cooldown, Override, Verify,
                  Quote, PairExpires, redis
    <2>3. CASE Release(i) \/ Crash(i)
      BY <2>0, <2>3 DEF Release, Crash, EndTick
    <2>4. CASE LockExpires \/ QuoteAges \/ MarketMoves \/ runRateHistoryCleanup
      BY <2>4 DEF LockExpires, QuoteAges, MarketMoves, runRateHistoryCleanup, local, redis
    <2> QED  BY <2>1, <2>2, <2>3, <2>4 DEF Next, Refresh
  <1> QED  BY <1>1, FxInvAlways, PTL DEF Spec, NobodyElseReleases

-----------------------------------------------------------------------------
\* The indexer.

\* The locals of the loop and the cursor have their shape.
LoopShape ==
    /\ tip \in Nat
    /\ cursor = [at |-> cursor.at, from |-> cursor.from]
    /\ cursor.at \in Nat /\ cursor.from \in Nat
    /\ poll = [pc |-> poll.pc, start |-> poll.start, aborted |-> poll.aborted,
               batch |-> poll.batch, todo |-> poll.todo]

\* A cycle that has fetched a page has every valid event before the last ledger of it:
\* first in its batch, later in the table.
Ledger(e) == Chain[e].ledger
InHand(batch) ==
    /\ batch \subseteq Events
    /\ \A d \in batch, e \in Events :
         Chain[e].valid /\ Ledger(e) \in poll.start..(Ledger(d) - 1) => e \in batch
InTable(batch) ==
    \A r \in batch :
        /\ r.event \in Events /\ r.event \in indexed
        /\ \A e \in Events :
             Chain[e].valid /\ Ledger(e) \in poll.start..(Ledger(r.event) - 1) => e \in indexed

Landing == {"readback", "load", "deliver"}
CycleSound ==
    /\ poll.pc = "insert" => poll.start = cursor.at /\ InHand(poll.batch)
    /\ poll.pc \in Landing \cup {"advance"} => poll.start = cursor.at /\ InTable(poll.batch)
    /\ poll.pc \in {"dispatch", "add"} => poll.start \in Nat /\ poll.start <= cursor.at
    /\ Rows \subseteq indexed
    /\ PassedIsIndexed

\* Each row a cycle has created is good for one delivery per subscription.
DeliveriesOf(e, s) == {d \in Deliveries : d.event = e /\ d.sub = s}
Due(e) == IF poll.pc \in Landing /\ \E r \in poll.batch : r.event = e THEN 1 ELSE 0
RowsPay ==
    /\ poll.pc \in Landing => \A r, q \in poll.batch : r.event = q.event => r = q
    /\ \A e \in Events :
         /\ made[e] \in Nat
         /\ \A s \in Subscriptions :
              /\ IsFiniteSet(DeliveriesOf(e, s))
              /\ Cardinality(DeliveriesOf(e, s)) + Due(e) <= made[e]

\* The POSTs one job can make, and all of them when the queue has forgotten it n times.
PerJob == MaxAttempts + 1
Bound(n) == PerJob * n

\* A job that waits owes its POSTs to its failed attempts and to the stalled one.
JobSound(j) ==
    /\ j = [at |-> j.at, state |-> j.state, tries |-> j.tries, stalled |-> j.stalled,
            dead |-> j.dead, sent |-> j.sent, renewed |-> j.renewed]
    /\ j.tries \in Nat /\ j.stalled \in BOOLEAN /\ j.sent \in Nat /\ j.renewed \in Nat
    /\ j.state \in {"none", "waiting", "done", "failed"}
    /\ j.state = "none" => j.tries = 0 /\ ~ j.stalled /\ j.sent <= Bound(j.renewed)
    /\ j.state = "waiting" =>
         /\ j.tries < MaxAttempts
         /\ j.sent <= Bound(j.renewed) + j.tries + (IF j.stalled THEN 1 ELSE 0)
    /\ j.sent <= Bound(j.renewed) + PerJob

\* A delivery's replays are numbered: there are finitely many.
Copies(e, i, s) == {d \in DOMAIN job : d.event = e /\ d.id = i /\ d.sub = s}
FiniteCopies == \A e, i, s : IsFiniteSet(Copies(e, i, s))
JobsSound == FiniteCopies /\ \A d \in DOMAIN job : JobSound(job[d])

IndexerInv == LoopShape /\ CycleSound /\ RowsPay /\ JobsSound

-----------------------------------------------------------------------------
LEMMA ChainFacts ==
    /\ \A e \in Events : e \in Nat /\ Ledger(e) \in Nat \ {0}
    /\ \A d, e \in Events : Ledger(d) < Ledger(e) => d < e
    /\ IsFiniteSet(Events)
    /\ \A d \in Events : Ledger(d) <= Ledger(Len(Chain))
    /\ Events # {} => Len(Chain) \in Events
  <1> USE IndexerAssumption
  <1>1. Len(Chain) \in Nat /\ Events = 1..Len(Chain)
    BY DEF Events
  <1>2. \A e \in Events : e \in Nat /\ Chain[e].ledger \in Nat \ {0}
    <2> SUFFICES ASSUME NEW e \in Events PROVE e \in Nat /\ Chain[e].ledger \in Nat \ {0}
      OBVIOUS
    <2>1. e \in 1..Len(Chain)
      BY <1>1
    <2> DEFINE R == [ledger : Nat \ {0}, valid : BOOLEAN]
    <2>2. Chain \in Seq(R)
      OBVIOUS
    <2>3. Chain[e] \in R
      <3> HIDE DEF R
      <3> QED  BY <2>1, <2>2
    <2> QED  BY <2>1, <2>3
  <1>3. \A d, e \in Events : d < e => Chain[d].ledger <= Chain[e].ledger
    OBVIOUS
  <1>4. \A d, e \in Events : Chain[d].ledger < Chain[e].ledger => d < e
    <2> SUFFICES ASSUME NEW d \in Events, NEW e \in Events, Chain[d].ledger < Chain[e].ledger
                 PROVE  d < e
      OBVIOUS
    <2>1. CASE d = e
      BY <2>1, <1>2
    <2>2. CASE e < d
      BY SMTT(30), <2>2, <1>2, <1>3
    <2> QED  BY <2>1, <2>2, <1>2
  <1>5. IsFiniteSet(Events)
    BY <1>1, FS_Interval
  <1>6. \A d \in Events : Chain[d].ledger <= Chain[Len(Chain)].ledger
    <2> SUFFICES ASSUME NEW d \in Events PROVE Chain[d].ledger <= Chain[Len(Chain)].ledger
      OBVIOUS
    <2>1. Len(Chain) \in Events
      BY <1>1
    <2>2. CASE d = Len(Chain)
      BY <2>1, <2>2, <1>2
    <2>3. CASE d # Len(Chain)
      <3>1. d < Len(Chain)
        BY <2>3, <1>1
      <3> QED  BY <3>1, <2>1, <1>3
    <2> QED  BY <2>2, <2>3
  <1>7. Events # {} => Len(Chain) \in Events
    BY <1>1
  <1> QED  BY <1>2, <1>4, <1>5, <1>6, <1>7 DEF Ledger

\* A nonempty set of numbers has a least one.
LEMMA LeastNumber ==
    ASSUME NEW T, T \subseteq Nat, T # {}
    PROVE  \E n \in T : \A m \in T : n <= m
  <1> DEFINE Less == OpToRel(<, Nat)
  <1>1. IsWellFoundedOn(Less, Nat)
    BY NatLessThanWellFounded
  <1>2. Less = {ss \in Nat \X Nat : ss[1] < ss[2]}
    BY DEF OpToRel
  <1> HIDE DEF Less
  <1>3. PICK n \in T : \A m \in T : ~ (<<m, n>> \in Less)
    BY <1>1, WFMin
  <1>4. ASSUME NEW m \in T, m < n PROVE FALSE
    <2>1. <<m, n>> \in Nat \X Nat /\ <<m, n>>[1] = m /\ <<m, n>>[2] = n
      OBVIOUS
    <2>2. <<m, n>> \in Less
      BY <1>2, <1>4, <2>1
    <2> QED  BY <1>3, <2>2
  <1> QED  BY <1>3, <1>4

LEMMA MaxOfBounded ==
    ASSUME NEW T, T \subseteq Nat, T # {}, NEW b \in Nat, \A t \in T : t <= b
    PROVE  Max(T) \in T /\ \A t \in T : t <= Max(T)
  <1> DEFINE Gaps == {b - t : t \in T}
  <1>1. Gaps \subseteq Nat /\ Gaps # {}
    <2>1. ASSUME NEW t \in T PROVE b - t \in Nat
      <3>1. t \in Nat /\ t <= b
        OBVIOUS
      <3> QED  BY <3>1
    <2> QED  BY <2>1
  <1>2. PICK n \in Gaps : \A m \in Gaps : n <= m
    <2> HIDE DEF Gaps
    <2> QED  BY <1>1, LeastNumber
  <1>3. PICK x \in T : n = b - x
    OBVIOUS
  <1>4. \A t \in T : b - x <= b - t
    BY <1>2, <1>3
  <1>5. \A t \in T : x >= t
    <2> SUFFICES ASSUME NEW t \in T PROVE x >= t
      OBVIOUS
    <2>1. t \in Nat /\ x \in Nat /\ b - x <= b - t
      BY <1>4
    <2> QED  BY <2>1
  <1>6. Max(T) \in T /\ \A t \in T : Max(T) >= t
    BY <1>5 DEF Max
  <1> QED  BY <1>6

\* A page is a prefix: it holds all that lies before one of its events.
LEMMA PageIsPrefix ==
    ASSUME NEW l \in Nat, NEW n \in Nat, tip \in Nat,
           NEW d \in getEvents(l, n), NEW e \in Events, Ledger(e) \in l..(Ledger(d) - 1)
    PROVE  e \in getEvents(l, n) /\ e < d
  <1> DEFINE found == {x \in Events : Chain[x].ledger \in l..tip}
             before(x) == {y \in found : y < x}
  <1>1. d \in found /\ Cardinality(before(d)) < n
    BY DEF getEvents
  <1>2. Ledger(d) \in Nat /\ Ledger(e) \in Nat /\ d \in Nat /\ e \in Nat
    BY <1>1, ChainFacts
  <1>3. Ledger(e) < Ledger(d) /\ Ledger(d) <= tip
    BY <1>1, <1>2 DEF Ledger
  <1>4. e < d
    BY <1>1, <1>3, ChainFacts
  <1>5. e \in found
    BY <1>2, <1>3 DEF Ledger
  <1>6. before(e) \subseteq before(d)
    <2> SUFFICES ASSUME NEW x \in found, x < e PROVE x < d
      OBVIOUS
    <2>1. x \in Nat
      BY ChainFacts
    <2> QED  BY <2>1, <1>2, <1>4
  <1>7. IsFiniteSet(before(d)) /\ IsFiniteSet(before(e))
    BY ChainFacts, FS_Subset
  <1> HIDE DEF before
  <1>8. Cardinality(before(e)) <= Cardinality(before(d))
    BY <1>6, <1>7, FS_Subset
  <1>9. Cardinality(before(e)) < n
    BY <1>1, <1>7, <1>8, FS_CardinalityType
  <1> QED  BY <1>4, <1>5, <1>9 DEF getEvents, before

-----------------------------------------------------------------------------
\* The cycle goes on with what it has, in a table that only gains events.
LEMMA CycleKept ==
    ASSUME CycleSound, cursor' = cursor, indexed \subseteq indexed', Rows' \subseteq indexed',
           \/ poll' = poll
           \/ poll'.pc \in {"down", "idle"}
           \/ /\ poll.pc \in Landing /\ poll'.pc \in Landing \cup {"advance"}
              /\ poll'.batch \subseteq poll.batch /\ poll'.start = poll.start
    PROVE  CycleSound'
  <1>1. PassedIsIndexed'
    BY DEF CycleSound, PassedIsIndexed
  <1>2. ASSUME InTable(poll.batch), poll'.start = poll.start, poll'.batch \subseteq poll.batch
        PROVE  InTable(poll.batch)'
    BY <1>2 DEF InTable
  <1>3. CASE poll' = poll
    BY <1>1, <1>2, <1>3 DEF CycleSound, InHand
  <1>4. CASE poll'.pc \in {"down", "idle"}
    BY <1>1, <1>4 DEF CycleSound, Landing
  <1>5. CASE /\ poll.pc \in Landing /\ poll'.pc \in Landing \cup {"advance"}
             /\ poll'.batch \subseteq poll.batch /\ poll'.start = poll.start
    <2>1. InTable(poll.batch)' /\ poll'.start = cursor'.at
      BY <1>2, <1>5 DEF CycleSound
    <2> QED  BY <1>1, <1>5, <2>1 DEF CycleSound, Landing
  <1> QED  BY <1>3, <1>4, <1>5

\* No delivery is added, and no row becomes due.
LEMMA RowsPayKept ==
    ASSUME RowsPay, Deliveries' = Deliveries,
           \A e \in Events : made'[e] \in Nat /\ made[e] <= made'[e],
           poll'.pc \in Landing => poll.pc \in Landing /\ poll'.batch \subseteq poll.batch
    PROVE  RowsPay'
  <1>1. \A e \in Events : Due(e)' \in Nat /\ Due(e) \in Nat /\ Due(e)' <= Due(e)
    BY DEF Due
  <1>2. \A e \in Events, s \in Subscriptions : DeliveriesOf(e, s)' = DeliveriesOf(e, s)
    BY DEF DeliveriesOf
  <1>3. poll'.pc \in Landing => \A r, q \in poll'.batch : r.event = q.event => r = q
    BY DEF RowsPay
  <1>4. ASSUME NEW e \in Events, NEW s \in Subscriptions
        PROVE  Cardinality(DeliveriesOf(e, s)) + Due(e)' <= made'[e]
    <2>1. Cardinality(DeliveriesOf(e, s)) + Due(e) <= made[e] /\ made[e] \in Nat
      BY DEF RowsPay
    <2>2. Cardinality(DeliveriesOf(e, s)) \in Nat
      BY FS_CardinalityType DEF RowsPay
    <2> QED  BY <2>1, <2>2, <1>1
  <1>5. \A e \in Events, s \in Subscriptions : IsFiniteSet(DeliveriesOf(e, s))
    BY DEF RowsPay
  <1> QED  BY <1>2, <1>3, <1>4, <1>5 DEF RowsPay

\* Some jobs change.
LEMMA JobsChange ==
    ASSUME JobsSound, DOMAIN job' = DOMAIN job, \A d \in DOMAIN job : JobSound(job'[d])
    PROVE  JobsSound' /\ Deliveries' = Deliveries
  BY DEF JobsSound, FiniteCopies, Copies, Deliveries

LEMMA JobsKept == ASSUME JobsSound, job' = job PROVE JobsSound' /\ Deliveries' = Deliveries
  BY JobsChange DEF JobsSound

\* One job changes.
LEMMA JobStep ==
    ASSUME JobsSound, NEW d \in DOMAIN job, NEW j, JobSound(j), job' = [job EXCEPT ![d] = j]
    PROVE  JobsSound' /\ Deliveries' = Deliveries
  BY JobsChange DEF JobsSound

\* The bound grows by what one job can make.
LEMMA BoundGrows ==
    /\ PerJob \in Nat /\ MaxAttempts \in Nat /\ PerJob = MaxAttempts + 1 /\ Bound(0) = 0
    /\ \A n \in Nat : Bound(n) \in Nat /\ Bound(n + 1) = Bound(n) + PerJob
  <1>1. MaxAttempts \in Nat
    BY IndexerAssumption
  <1>2. PerJob \in Nat
    BY <1>1 DEF PerJob
  <1>3. ASSUME NEW p \in Nat, NEW n \in Nat PROVE p * n \in Nat /\ p * (n + 1) = p * n + p /\ p * 0 = 0
    OBVIOUS
  <1> QED  BY <1>1, <1>2, <1>3 DEF Bound, PerJob

\* A job nobody has added yet, and one that has just been added.
LEMMA FreshJob ==
    ASSUME NEW n
    PROVE  JobSound([NewJob EXCEPT !.at = n]) /\ JobSound([NewJob EXCEPT !.state = "waiting"])
  <1> DEFINE Fresh0(at, state) == [at |-> at, state |-> state, tries |-> 0, stalled |-> FALSE,
                                   dead |-> 0, sent |-> 0, renewed |-> 0]
  <1>0. PICK v, w : v = [NewJob EXCEPT !.at = n] /\ w = [NewJob EXCEPT !.state = "waiting"]
    OBVIOUS
  <1>1. v = Fresh0(n, "none") /\ w = Fresh0(0, "waiting")
    BY <1>0 DEF NewJob
  <1>3. ASSUME NEW at, NEW state \in {"none", "waiting"} PROVE JobSound(Fresh0(at, state))
    <2>1. Bound(0) = 0 /\ PerJob \in Nat /\ 0 < MaxAttempts
      BY BoundGrows, IndexerAssumption
    <2> QED  BY <2>1 DEF JobSound
  <1>4. JobSound(v) /\ JobSound(w)
    BY <1>1, <1>3
  <1> QED  BY <1>0, <1>4

\* The rows of a batch are inserted.
LEMMA InsertFacts ==
    ASSUME NEW batch, InsertRows(batch), Rows \subseteq indexed, RowsPay
    PROVE  /\ indexed \subseteq indexed' /\ batch \subseteq indexed' \cup Rows
           /\ Rows' \subseteq indexed'
           /\ \A e \in Events : made'[e] \in Nat /\ made[e] <= made'[e]
           /\ \A e \in (batch \cap Events) \ Rows : made'[e] = made[e] + 1
  <1>1. \A e \in Events : made[e] \in Nat
    BY DEF RowsPay
  <1>2. \A e \in Events : made'[e] = IF e \in batch \ Rows THEN made[e] + 1 ELSE made[e]
    BY DEF InsertRows
  <1>3. indexed' = indexed \cup (batch \ Rows)
    BY DEF InsertRows
  <1>4. \A e \in Events : e \notin batch \ Rows => row'[e] = row[e]
    BY DEF InsertRows
  <1>5. Rows' \subseteq indexed'
    BY <1>3, <1>4 DEF Rows
  <1> QED  BY <1>1, <1>2, <1>3, <1>5

\* What the steps outside the polling loop leave alone.
LEMMA AsideStep ==
    ASSUME IndexerInv, tip' \in Nat, UNCHANGED loop,
           Rows' \subseteq indexed', indexed \subseteq indexed',
           \A e \in Events : made'[e] \in Nat /\ made[e] <= made'[e],
           JobsSound', Deliveries' = Deliveries
    PROVE  IndexerInv'
  <1> USE DEF loop, IndexerInv
  <1>1. LoopShape'
    BY DEF LoopShape
  <1>2. CycleSound'
    BY CycleKept
  <1>3. RowsPay'
    BY RowsPayKept
  <1> QED  BY <1>1, <1>2, <1>3

\* ... and what the steps that leave the table alone do not change.
LEMMA SameTable ==
    ASSUME IndexerInv, UNCHANGED table
    PROVE  /\ Rows' = Rows /\ Rows' \subseteq indexed' /\ indexed \subseteq indexed'
           /\ \A e \in Events : made'[e] \in Nat /\ made[e] <= made'[e]
  <1>1. \A e \in Events : made[e] \in Nat
    BY DEF IndexerInv, RowsPay
  <1> QED  BY <1>1 DEF table, IndexerInv, CycleSound, Rows

\* A step of the loop that keeps the cursor, the table and the deliveries.
LEMMA LoopStep ==
    ASSUME IndexerInv, tip' = tip, UNCHANGED table, UNCHANGED job, cursor' = cursor,
           \/ poll'.pc \in {"down", "idle"}
           \/ /\ poll.pc \in Landing /\ poll'.pc \in Landing \cup {"advance"}
              /\ poll'.batch \subseteq poll.batch /\ poll'.start = poll.start,
           poll' = [pc |-> poll'.pc, start |-> poll'.start, aborted |-> poll'.aborted,
                    batch |-> poll'.batch, todo |-> poll'.todo]
    PROVE  IndexerInv'
  <1>1. LoopShape'
    BY DEF IndexerInv, LoopShape
  <1>2. CycleSound'
    BY SameTable, CycleKept DEF IndexerInv
  <1>3. RowsPay'
    BY SameTable, RowsPayKept, JobsKept DEF IndexerInv, Landing
  <1>4. JobsSound'
    BY JobsKept DEF IndexerInv
  <1> QED  BY <1>1, <1>2, <1>3, <1>4 DEF IndexerInv

-----------------------------------------------------------------------------
\* A page is fetched: all of it, or what lies before one of its events.
LEMMA CycleStep ==
    ASSUME IndexerInv, UNCHANGED <<tip, cursor, table, others>>,
           NEW page, page = getEvents(cursor.at, PageLimit), NEW taken, taken \subseteq page,
           \A d \in taken, e \in page : e < d => e \in taken,
           NEW aborted \in BOOLEAN, Cycle(page, taken, aborted)
    PROVE  IndexerInv'
  <1> DEFINE batch == {e \in taken : Chain[e].valid}
             pc == IF batch # {} THEN "insert" ELSE IF page = {} \/ aborted THEN "idle" ELSE "dispatch"
  <1>1. poll' = IF pc = "idle" THEN Idle
                ELSE [Idle EXCEPT !.pc = pc, !.start = cursor.at, !.aborted = aborted, !.batch = batch]
    BY DEF Cycle
  <1>2. UNCHANGED <<table, job>> /\ tip' = tip /\ cursor' = cursor
    BY DEF others
  <1>3. CASE pc = "idle"
    BY <1>1, <1>2, <1>3, LoopStep DEF Idle
  <1>4. CASE pc # "idle"
    <2>1. poll' = [pc |-> pc, start |-> cursor.at, aborted |-> aborted, batch |-> batch, todo |-> {}]
      BY <1>1, <1>4 DEF Idle
    <2>2. /\ poll'.pc = pc /\ poll'.start = cursor.at /\ poll'.batch = batch
          /\ pc \in {"insert", "dispatch"}
      BY <2>1, <1>4
    <2>3. LoopShape'
      BY <2>1, <1>2 DEF IndexerInv, LoopShape
    <2>4. ASSUME NEW d \in batch, NEW e \in Events, Chain[e].valid,
                 Ledger(e) \in cursor.at..(Ledger(d) - 1)
          PROVE  e \in batch
      <3>1. cursor.at \in Nat /\ tip \in Nat /\ PageLimit \in Nat
        BY IndexerAssumption DEF IndexerInv, LoopShape
      <3>2. d \in getEvents(cursor.at, PageLimit)
        OBVIOUS
      <3>3. e \in page /\ e < d
        BY <2>4, <3>1, <3>2, PageIsPrefix
      <3> QED  BY <2>4, <3>3
    <2>5. batch \subseteq Events
      BY DEF getEvents
    <2> HIDE DEF batch, pc
    <2>6. InHand(poll.batch)'
      BY <2>2, <2>4, <2>5, <1>2 DEF InHand
    <2>7. PassedIsIndexed' /\ Rows' \subseteq indexed'
      BY <1>2, SameTable DEF IndexerInv, CycleSound, PassedIsIndexed, table
    <2>8. cursor.at \in Nat
      BY DEF IndexerInv, LoopShape
    <2>9. CycleSound'
      BY <2>2, <2>6, <2>7, <2>8, <1>2 DEF CycleSound, Landing
    <2>10. RowsPay'
      BY <2>2, <1>2, SameTable, RowsPayKept, JobsKept DEF IndexerInv, Landing
    <2>11. JobsSound'
      BY <1>2, JobsKept DEF IndexerInv
    <2> QED  BY <2>3, <2>9, <2>10, <2>11 DEF IndexerInv
  <1> QED  BY <1>3, <1>4

LEMMA FetchStep == ASSUME IndexerInv, Fetch \/ FetchAborted PROVE IndexerInv'
  <1> DEFINE page == getEvents(cursor.at, PageLimit)
  <1>1. CASE Fetch
    <2>1. Cycle(page, page, FALSE) /\ UNCHANGED <<tip, cursor, table, others>>
      BY <1>1 DEF Fetch
    <2> HIDE DEF page
    <2> QED  BY <2>1, CycleStep DEF page
  <1>2. CASE FetchAborted
    <2>1. PICK e \in page : Cycle(page, {d \in page : d < e}, TRUE)
      BY <1>2 DEF FetchAborted
    <2>2. \A x \in page : x \in Nat
      BY ChainFacts DEF getEvents
    <2> DEFINE taken == {d \in page : d < e}
    <2>3. taken \subseteq page /\ \A x \in taken, y \in page : y < x => y \in taken
      BY <2>2
    <2>4. UNCHANGED <<tip, cursor, table, others>>
      BY <1>2 DEF FetchAborted
    <2>5. Cycle(page, taken, TRUE)
      BY <2>1
    <2> HIDE DEF page, taken
    <2> QED  BY <2>3, <2>4, <2>5, CycleStep DEF page
  <1> QED  BY <1>1, <1>2

LEMMA InsertStep == ASSUME IndexerInv, Insert PROVE IndexerInv'
  <1> DEFINE batch == {[event |-> e, id |-> row'[e]] : e \in poll.batch \ Rows}
  <1>1. /\ poll.pc = "insert" /\ InsertRows(poll.batch)
        /\ poll' = [poll EXCEPT !.pc = "readback", !.batch = batch]
        /\ tip' = tip /\ cursor' = cursor /\ job' = job
    BY DEF Insert, others
  <1>2. poll' = [pc |-> "readback", start |-> poll.start, aborted |-> poll.aborted,
                 batch |-> batch, todo |-> poll.todo]
    BY <1>1 DEF IndexerInv, LoopShape
  <1>3. poll'.pc = "readback" /\ poll'.start = poll.start /\ poll'.batch = batch
    BY <1>2
  <1>4. LoopShape'
    BY <1>1, <1>2 DEF IndexerInv, LoopShape
  <1>5. /\ poll.start = cursor.at /\ InHand(poll.batch)
        /\ Rows \subseteq indexed /\ PassedIsIndexed /\ RowsPay
    BY <1>1 DEF IndexerInv, CycleSound
  <1>6. /\ indexed \subseteq indexed' /\ poll.batch \subseteq indexed' \cup Rows
        /\ Rows' \subseteq indexed'
        /\ \A e \in Events : made'[e] \in Nat /\ made[e] <= made'[e]
        /\ \A e \in (poll.batch \cap Events) \ Rows : made'[e] = made[e] + 1
    BY <1>1, <1>5, InsertFacts
  <1>7. poll.batch \subseteq indexed' /\ poll.batch \subseteq Events
    BY <1>5, <1>6 DEF InHand
  <1>8. ASSUME NEW r \in batch
        PROVE  /\ r.event \in poll.batch
               /\ r = [event |-> r.event, id |-> row'[r.event]]
               /\ r.event \in (poll.batch \cap Events) \ Rows
    BY <1>7
  <1> HIDE DEF batch
  <1>9. InTable(poll.batch)'
    BY <1>3, <1>5, <1>7, <1>8 DEF InTable, InHand
  <1>10. PassedIsIndexed'
    BY <1>1, <1>5, <1>6 DEF PassedIsIndexed
  <1>11. CycleSound'
    BY <1>1, <1>3, <1>5, <1>6, <1>9, <1>10 DEF CycleSound, Landing
  <1>12. \A r, q \in batch : r.event = q.event => r = q
    BY <1>8
  <1>13. ASSUME NEW e \in Events, NEW s \in Subscriptions
         PROVE  /\ IsFiniteSet(DeliveriesOf(e, s))
                /\ Cardinality(DeliveriesOf(e, s)) + Due(e)' <= made'[e]
    <2>1. /\ IsFiniteSet(DeliveriesOf(e, s)) /\ made[e] \in Nat
          /\ Cardinality(DeliveriesOf(e, s)) + Due(e) <= made[e]
      BY <1>5 DEF RowsPay
    <2>2. Cardinality(DeliveriesOf(e, s)) \in Nat
      BY <2>1, FS_CardinalityType
    <2>3. Due(e) = 0
      BY <1>1 DEF Due, Landing
    <2>4. CASE \E r \in batch : r.event = e
      <3>1. made'[e] = made[e] + 1
        BY <2>4, <1>6, <1>8
      <3>2. Due(e)' = 1
        BY <2>4, <1>3 DEF Due, Landing
      <3> QED  BY <2>1, <2>2, <2>3, <3>1, <3>2
    <2>5. CASE ~ \E r \in batch : r.event = e
      <3>1. Due(e)' = 0
        BY <2>5, <1>3 DEF Due, Landing
      <3> QED  BY <2>1, <2>2, <2>3, <3>1, <1>6
    <2> QED  BY <2>4, <2>5
  <1>14. \A e \in Events, s \in Subscriptions : DeliveriesOf(e, s)' = DeliveriesOf(e, s)
    BY <1>1 DEF DeliveriesOf, Deliveries
  <1>15. RowsPay'
    BY <1>3, <1>6, <1>12, <1>13, <1>14 DEF RowsPay
  <1>16. JobsSound'
    BY <1>1, JobsKept DEF IndexerInv
  <1> QED  BY <1>4, <1>11, <1>15, <1>16 DEF IndexerInv

LEMMA ReadBackStep == ASSUME IndexerInv, ReadBack \/ LoadSubscriptions \/ PollError PROVE IndexerInv'
  <1>1. CASE ReadBack
    <2>1. PICK landed, pc : /\ landed \subseteq poll.batch /\ pc \in {"advance", "load"}
                            /\ poll' = [poll EXCEPT !.batch = landed, !.pc = pc]
      BY <1>1 DEF ReadBack
    <2>2. poll.pc = "readback" /\ tip' = tip /\ UNCHANGED table /\ UNCHANGED job /\ cursor' = cursor
      BY <1>1 DEF ReadBack, others
    <2>3. poll' = [pc |-> pc, start |-> poll.start, aborted |-> poll.aborted,
                   batch |-> landed, todo |-> poll.todo]
      BY <2>1 DEF IndexerInv, LoopShape
    <2>4. /\ poll'.pc \in Landing \cup {"advance"}
          /\ poll'.start = poll.start /\ poll'.batch \subseteq poll.batch
      BY <2>1, <2>3 DEF Landing
    <2>5. poll' = [pc |-> poll'.pc, start |-> poll'.start, aborted |-> poll'.aborted,
                   batch |-> poll'.batch, todo |-> poll'.todo]
      BY <2>3
    <2> QED  BY <2>2, <2>4, <2>5, LoopStep DEF Landing
  <1>2. CASE LoadSubscriptions
    <2>1. PICK todo : poll' = [poll EXCEPT !.pc = "deliver", !.todo = todo]
      BY <1>2 DEF LoadSubscriptions
    <2>2. poll.pc = "load" /\ tip' = tip /\ UNCHANGED table /\ UNCHANGED job /\ cursor' = cursor
      BY <1>2 DEF LoadSubscriptions, others
    <2>3. poll' = [pc |-> "deliver", start |-> poll.start, aborted |-> poll.aborted,
                   batch |-> poll.batch, todo |-> todo]
      BY <2>1 DEF IndexerInv, LoopShape
    <2>4. /\ poll'.pc \in Landing \cup {"advance"}
          /\ poll'.start = poll.start /\ poll'.batch \subseteq poll.batch
      BY <2>3 DEF Landing
    <2>5. poll' = [pc |-> poll'.pc, start |-> poll'.start, aborted |-> poll'.aborted,
                   batch |-> poll'.batch, todo |-> poll'.todo]
      BY <2>3
    <2> QED  BY <2>2, <2>4, <2>5, LoopStep DEF Landing
  <1>3. CASE PollError
    BY <1>3, LoopStep DEF PollError, Idle, others
  <1> QED  BY <1>1, <1>2, <1>3

LEMMA CreateDeliveriesStep == ASSUME IndexerInv, CreateDeliveries PROVE IndexerInv'
  <1> DEFINE new == {[event |-> r.event, id |-> r.id, sub |-> s, copy |-> 0] :
                     r \in poll.batch, s \in poll.todo}
  <1>1. /\ poll.pc = "deliver" /\ poll' = [poll EXCEPT !.pc = "advance", !.todo = {}]
        /\ job' = [d \in DOMAIN job \cup new |->
                     IF d \in DOMAIN job THEN job[d] ELSE [NewJob EXCEPT !.at = ids]]
        /\ tip' = tip /\ UNCHANGED table /\ cursor' = cursor
    BY DEF CreateDeliveries
  <1>2. poll' = [pc |-> "advance", start |-> poll.start, aborted |-> poll.aborted,
                 batch |-> poll.batch, todo |-> {}]
    BY <1>1 DEF IndexerInv, LoopShape
  <1>3. LoopShape'
    BY <1>1, <1>2 DEF IndexerInv, LoopShape
  <1>4. CycleSound'
    BY <1>1, <1>2, SameTable, CycleKept DEF IndexerInv, Landing
  <1>5. /\ \A r, q \in poll.batch : r.event = q.event => r = q
        /\ \A e \in Events : made[e] \in Nat /\ made'[e] = made[e]
    BY <1>1 DEF IndexerInv, RowsPay, Landing, table
  <1>6. ASSUME NEW e \in Events, NEW s \in Subscriptions
        PROVE  /\ IsFiniteSet(DeliveriesOf(e, s)')
               /\ Cardinality(DeliveriesOf(e, s)') + Due(e)' <= made'[e]
    <2>1. /\ IsFiniteSet(DeliveriesOf(e, s)) /\ Cardinality(DeliveriesOf(e, s)) \in Nat
          /\ Cardinality(DeliveriesOf(e, s)) + Due(e) <= made[e]
      BY FS_CardinalityType DEF IndexerInv, RowsPay
    <2>2. Due(e)' = 0
      BY <1>2 DEF Due, Landing
    <2>3. DeliveriesOf(e, s)' = DeliveriesOf(e, s) \cup {d \in new : d.event = e /\ d.sub = s}
      BY <1>1 DEF DeliveriesOf, Deliveries
    <2>4. CASE \E r \in poll.batch : r.event = e
      <3>1. PICK r \in poll.batch : r.event = e
        BY <2>4
      <3> DEFINE d == [event |-> e, id |-> r.id, sub |-> s, copy |-> 0]
      <3>2. ASSUME NEW x \in new, x.event = e, x.sub = s PROVE x = d
        BY <3>1, <3>2, <1>5
      <3>3. Due(e) = 1
        BY <2>4, <1>1 DEF Due, Landing
      <3> HIDE DEF new, d
      <3>4. DeliveriesOf(e, s)' = DeliveriesOf(e, s) \/ DeliveriesOf(e, s)' = DeliveriesOf(e, s) \cup {d}
        BY <3>2, <2>3
      <3>5. /\ IsFiniteSet(DeliveriesOf(e, s) \cup {d})
            /\ \/ Cardinality(DeliveriesOf(e, s) \cup {d}) = Cardinality(DeliveriesOf(e, s))
               \/ Cardinality(DeliveriesOf(e, s) \cup {d}) = Cardinality(DeliveriesOf(e, s)) + 1
        BY <2>1, FS_AddElement
      <3> QED  BY <2>1, <2>2, <3>3, <3>4, <3>5, <1>5
    <2>5. CASE ~ \E r \in poll.batch : r.event = e
      <3>1. DeliveriesOf(e, s)' = DeliveriesOf(e, s)
        BY <2>5, <2>3
      <3>2. Due(e) = 0
        BY <2>5 DEF Due
      <3> QED  BY <2>1, <2>2, <3>1, <3>2, <1>5
    <2> QED  BY <2>4, <2>5
  <1>7. RowsPay'
    BY <1>2, <1>5, <1>6 DEF RowsPay, Landing
  <1>8. JobsSound'
    <2>1. JobSound([NewJob EXCEPT !.at = ids])
      BY FreshJob
    <2>2. DOMAIN job' = DOMAIN job \cup new
      BY <1>1
    <2> HIDE DEF new
    <2>3. ASSUME NEW d \in DOMAIN job' PROVE JobSound(job'[d])
      BY <1>1, <2>1, <2>2 DEF IndexerInv, JobsSound
    <2>4. ASSUME NEW e, NEW i, NEW s PROVE IsFiniteSet(Copies(e, i, s)')
      <3> DEFINE d == [event |-> e, id |-> i, sub |-> s, copy |-> 0]
      <3>1. \A x \in new : x.event = e /\ x.id = i /\ x.sub = s => x = d
        BY DEF new
      <3>2. Copies(e, i, s)' \subseteq Copies(e, i, s) \cup {d}
        BY <2>2, <3>1 DEF Copies
      <3>3. IsFiniteSet(Copies(e, i, s))
        BY DEF IndexerInv, JobsSound, FiniteCopies
      <3> HIDE DEF d
      <3> QED  BY <3>2, <3>3, FS_AddElement, FS_Subset
    <2> QED  BY <2>3, <2>4 DEF JobsSound, FiniteCopies, JobSound
  <1> QED  BY <1>3, <1>4, <1>7, <1>8 DEF IndexerInv

LEMMA AdvanceStep == ASSUME IndexerInv, Advance PROVE IndexerInv'
  <1> DEFINE passed == {cursor.at} \cup {Chain[r.event].ledger + 1 : r \in poll.batch}
  <1>1. /\ poll.pc = "advance" /\ cursor' = [cursor EXCEPT !.at = Max(passed)]
        /\ poll' = IF poll.aborted THEN Idle ELSE [poll EXCEPT !.pc = "dispatch"]
        /\ tip' = tip /\ UNCHANGED <<table, job>>
    BY DEF Advance, others
  <1>2. /\ cursor.at \in Nat /\ cursor.from \in Nat /\ poll.start = cursor.at /\ InTable(poll.batch)
        /\ cursor = [at |-> cursor.at, from |-> cursor.from]
    BY <1>1 DEF IndexerInv, LoopShape, CycleSound
  <1>3. Max(passed) \in passed /\ \A t \in passed : t <= Max(passed)
    <2>1. \A r \in poll.batch : Ledger(r.event) \in Nat /\ Ledger(r.event) <= Ledger(Len(Chain))
      BY <1>2, ChainFacts DEF InTable
    <2>2. passed \subseteq Nat /\ passed # {}
      BY <1>2, <2>1 DEF Ledger
    <2> DEFINE last == IF poll.batch = {} THEN 0 ELSE Ledger(Len(Chain))
               b == IF last + 1 > cursor.at THEN last + 1 ELSE cursor.at
    <2>3. last \in Nat
      BY <1>2, ChainFacts DEF InTable
    <2>4. \A r \in poll.batch : Ledger(r.event) <= last
      BY <2>1
    <2> HIDE DEF last
    <2>5. b \in Nat /\ last + 1 <= b /\ cursor.at <= b
      BY <1>2, <2>3
    <2> HIDE DEF b
    <2>6. \A t \in passed : t <= b
      BY <1>2, <2>1, <2>3, <2>4, <2>5 DEF Ledger
    <2> HIDE DEF passed
    <2> QED  BY <2>2, <2>5, <2>6, MaxOfBounded
  <1>4. cursor.at <= Max(passed)
    BY <1>3
  <1>5. \A r \in poll.batch : Ledger(r.event) \in Nat
    BY <1>2, ChainFacts DEF InTable
  <1>6. Max(passed) \in Nat
    BY <1>2, <1>3, <1>5 DEF Ledger
  <1>7. Max(passed) = cursor.at \/ \E r \in poll.batch : Max(passed) = Ledger(r.event) + 1
    BY <1>3 DEF Ledger
  <1> HIDE DEF passed
  <1>8. cursor' = [at |-> Max(passed), from |-> cursor.from]
    BY <1>1, <1>2
  <1>9. \/ poll' = Idle
        \/ poll' = [pc |-> "dispatch", start |-> poll.start, aborted |-> poll.aborted,
                    batch |-> poll.batch, todo |-> poll.todo]
    BY <1>1 DEF IndexerInv, LoopShape
  <1>10. LoopShape'
    BY <1>1, <1>2, <1>6, <1>8, <1>9 DEF IndexerInv, LoopShape, Idle
  <1>11. PassedIsIndexed'
    <2> SUFFICES ASSUME NEW e \in Events, Chain[e].valid, Ledger(e) \in cursor.from..(Max(passed) - 1)
                 PROVE  \E d \in indexed : d = e \/ Chain[d].ledger = Chain[e].ledger
      BY <1>1, <1>8 DEF PassedIsIndexed, Ledger, table
    <2>1. Ledger(e) \in Nat
      BY ChainFacts
    <2>2. CASE Ledger(e) < cursor.at
      <3>1. Ledger(e) \in cursor.from..(cursor.at - 1)
        BY <2>1, <2>2, <1>2
      <3> QED  BY <3>1 DEF IndexerInv, CycleSound, PassedIsIndexed, Ledger
    <2>3. CASE ~ (Ledger(e) < cursor.at)
      <3>1. PICK r \in poll.batch : Max(passed) = Ledger(r.event) + 1
        BY <1>2, <1>6, <1>7, <2>1, <2>3
      <3>2. Ledger(r.event) \in Nat /\ Ledger(e) <= Ledger(r.event)
        BY <1>2, <1>5, <2>1, <3>1
      <3>3. CASE Ledger(e) = Ledger(r.event)
        BY <3>3, <1>2 DEF InTable, Ledger
      <3>4. CASE Ledger(e) # Ledger(r.event)
        <4>1. Ledger(e) \in poll.start..(Ledger(r.event) - 1)
          BY <3>2, <3>4, <2>1, <2>3, <1>2
        <4>2. e \in indexed
          BY <4>1, <1>2 DEF InTable
        <4> QED  BY <4>2
      <3> QED  BY <3>3, <3>4
    <2> QED  BY <2>2, <2>3
  <1>12. CycleSound'
    BY <1>1, <1>2, <1>4, <1>8, <1>9, <1>11, SameTable DEF CycleSound, Landing, Idle, table
  <1>13. RowsPay'
    BY <1>1, <1>9, SameTable, RowsPayKept, JobsKept DEF IndexerInv, Landing, Idle
  <1>14. JobsSound'
    BY <1>1, JobsKept DEF IndexerInv
  <1> QED  BY <1>10, <1>12, <1>13, <1>14 DEF IndexerInv

\* The dispatch pass goes on.
LEMMA PassStep ==
    ASSUME IndexerInv, poll.pc \in {"dispatch", "add"}, tip' = tip, UNCHANGED table, cursor' = cursor,
           poll' = [pc |-> "add", start |-> poll.start, aborted |-> poll.aborted,
                    batch |-> poll.batch, todo |-> poll'.todo],
           JobsSound', Deliveries' = Deliveries
    PROVE  IndexerInv'
  <1>1. LoopShape'
    BY DEF IndexerInv, LoopShape
  <1>2. PassedIsIndexed' /\ Rows' \subseteq indexed'
    BY SameTable DEF IndexerInv, CycleSound, PassedIsIndexed, table
  <1>3. CycleSound'
    BY <1>2 DEF IndexerInv, CycleSound, Landing
  <1>4. RowsPay'
    BY SameTable, RowsPayKept DEF IndexerInv, Landing
  <1> QED  BY <1>1, <1>3, <1>4 DEF IndexerInv

LEMMA DispatchStep == ASSUME IndexerInv, DispatchRead \/ DispatchAdd \/ EndCycle PROVE IndexerInv'
  <1>2. CASE DispatchRead
    <2>1. PICK todo : poll' = [poll EXCEPT !.pc = "add", !.todo = todo]
      BY <1>2 DEF DispatchRead
    <2>2. poll.pc = "dispatch" /\ tip' = tip /\ UNCHANGED table /\ cursor' = cursor /\ job' = job
      BY <1>2 DEF DispatchRead, others
    <2>3. poll' = [pc |-> "add", start |-> poll.start, aborted |-> poll.aborted,
                   batch |-> poll.batch, todo |-> todo]
      BY <2>1 DEF IndexerInv, LoopShape
    <2>4. poll' = [pc |-> "add", start |-> poll.start, aborted |-> poll.aborted,
                   batch |-> poll.batch, todo |-> poll'.todo]
      BY <2>3
    <2>5. JobsSound' /\ Deliveries' = Deliveries
      BY <2>2, JobsKept DEF IndexerInv
    <2> QED  BY <2>2, <2>4, <2>5, PassStep
  <1>3. CASE DispatchAdd
    <2>1. PICK d \in poll.todo :
            /\ job' = [job EXCEPT ![d].state = IF @ = "none" THEN "waiting" ELSE @]
            /\ poll' = [poll EXCEPT !.todo = @ \ {d}]
      BY <1>3 DEF DispatchAdd
    <2>2. JobsSound' /\ Deliveries' = Deliveries
      <3>1. CASE d \in DOMAIN job
        <4> DEFINE j == [job[d] EXCEPT !.state = IF @ = "none" THEN "waiting" ELSE @]
        <4>1. JobSound(job[d])
          BY <3>1 DEF IndexerInv, JobsSound
        <4>2. JobSound(j)
          <5>1. CASE job[d].state = "none"
            <6> DEFINE w == [at |-> job[d].at, state |-> "waiting", tries |-> job[d].tries,
                             stalled |-> job[d].stalled, dead |-> job[d].dead,
                             sent |-> job[d].sent, renewed |-> job[d].renewed]
            <6>1. j = w
              BY <4>1, <5>1 DEF JobSound
            <6>2. 0 < MaxAttempts /\ Bound(job[d].renewed) \in Nat
              <7>1. job[d].renewed \in Nat
                BY <4>1 DEF JobSound
              <7>2. Bound(job[d].renewed) \in Nat
                BY <7>1, BoundGrows
              <7> QED  BY <7>2, IndexerAssumption
            <6>3. JobSound(w)
              BY <4>1, <5>1, <6>2 DEF JobSound
            <6> HIDE DEF w, j
            <6> QED  BY <6>1, <6>3
          <5>2. CASE job[d].state # "none"
            <6>1. j = job[d]
              BY <4>1, <5>2 DEF JobSound
            <6> QED  BY <4>1, <6>1
          <5> QED  BY <5>1, <5>2
        <4>3. job' = [job EXCEPT ![d] = j]
          BY <2>1
        <4> HIDE DEF j
        <4> QED  BY <3>1, <4>2, <4>3, JobStep DEF IndexerInv
      <3>2. CASE d \notin DOMAIN job
        <4>1. DOMAIN job' = DOMAIN job /\ \A x \in DOMAIN job : job'[x] = job[x]
          BY <2>1, <3>2
        <4> QED  BY <4>1, JobsChange DEF IndexerInv, JobsSound
      <3> QED  BY <3>1, <3>2
    <2>3. poll.pc = "add" /\ tip' = tip /\ UNCHANGED table /\ cursor' = cursor
      BY <1>3 DEF DispatchAdd
    <2>4. poll' = [pc |-> "add", start |-> poll.start, aborted |-> poll.aborted,
                   batch |-> poll.batch, todo |-> poll'.todo]
      BY <2>1, <2>3 DEF IndexerInv, LoopShape
    <2> QED  BY <2>2, <2>3, <2>4, PassStep
  <1>4. CASE EndCycle
    <2>1. /\ poll.pc = "add" /\ cursor' = [cursor EXCEPT !.at = poll.start] /\ poll' = Idle
          /\ tip' = tip /\ UNCHANGED <<table, job>>
      BY <1>4 DEF EndCycle, others
    <2>2. /\ poll.start \in Nat /\ poll.start <= cursor.at
          /\ cursor.at \in Nat /\ cursor.from \in Nat
          /\ cursor = [at |-> cursor.at, from |-> cursor.from]
      BY <2>1 DEF IndexerInv, LoopShape, CycleSound
    <2>3. cursor' = [at |-> poll.start, from |-> cursor.from]
      BY <2>1, <2>2
    <2>4. LoopShape'
      BY <2>1, <2>2, <2>3 DEF IndexerInv, LoopShape, Idle
    <2>5. PassedIsIndexed'
      <3> SUFFICES ASSUME NEW e \in Events, Chain[e].valid, Ledger(e) \in cursor.from..(poll.start - 1)
                   PROVE  \E d \in indexed : d = e \/ Chain[d].ledger = Chain[e].ledger
        BY <2>1, <2>3 DEF PassedIsIndexed, Ledger, table
      <3>1. Ledger(e) \in cursor.from..(cursor.at - 1)
        BY <2>2, ChainFacts
      <3> QED  BY <3>1 DEF IndexerInv, CycleSound, PassedIsIndexed, Ledger
    <2>6. CycleSound'
      BY <2>1, <2>5, SameTable DEF CycleSound, Landing, Idle
    <2>7. RowsPay'
      BY <2>1, SameTable, RowsPayKept, JobsKept DEF IndexerInv, Landing, Idle
    <2>8. JobsSound'
      BY <2>1, JobsKept DEF IndexerInv
    <2> QED  BY <2>4, <2>6, <2>7, <2>8 DEF IndexerInv
  <1> QED  BY <1>2, <1>3, <1>4

-----------------------------------------------------------------------------
\* The queue changes a job it has.
LEMMA JobActions ==
    ASSUME IndexerInv, NEW d \in DOMAIN job, Deliver(d) \/ AttemptFails(d) \/ Stall(d) \/ Evict(d)
    PROVE  IndexerInv'
  <1>1. UNCHANGED <<tip, loop, table>>
    BY DEF Deliver, AttemptFails, Stall, Evict
  <1>2. JobSound(job[d])
    BY DEF IndexerInv, JobsSound
  <1> DEFINE Becomes(state, tries, stalled, dead, sent, renewed) ==
               [at |-> job[d].at, state |-> state, tries |-> tries, stalled |-> stalled,
                dead |-> dead, sent |-> sent, renewed |-> renewed]
  <1>3. /\ job[d].tries \in Nat /\ job[d].sent \in Nat /\ job[d].renewed \in Nat
        /\ Bound(job[d].renewed) \in Nat /\ job[d].stalled \in BOOLEAN
        /\ Bound(job[d].renewed + 1) = Bound(job[d].renewed) + PerJob
        /\ PerJob = MaxAttempts + 1 /\ MaxAttempts \in Nat
    BY <1>2, BoundGrows DEF JobSound
  <1>4. d \in Waiting => /\ job[d].tries < MaxAttempts
                         /\ job[d].sent <= Bound(job[d].renewed) + job[d].tries
                                              + (IF job[d].stalled THEN 1 ELSE 0)
    BY <1>2 DEF JobSound, Waiting
  <1>5. \E j : JobSound(j) /\ job' = [job EXCEPT ![d] = j]
    <2>1. CASE Deliver(d)
      <3> DEFINE j == Becomes("done", job[d].tries, job[d].stalled, job[d].dead, job[d].sent + 1,
                              job[d].renewed)
      <3>0. PICK v : v = [job[d] EXCEPT !.state = "done", !.sent = @ + 1]
        OBVIOUS
      <3>1. v = j
        BY <1>2, <3>0 DEF JobSound
      <3>2. job' = [job EXCEPT ![d] = v] /\ d \in Waiting
        BY <2>1, <3>0 DEF Deliver
      <3>3. JobSound(j)
        BY <3>2, <1>3, <1>4 DEF JobSound
      <3> HIDE DEF j
      <3> QED  BY <3>1, <3>2, <3>3
    <2>2. CASE AttemptFails(d)
      <3> DEFINE last == job[d].tries + 1 = MaxAttempts
      <3>1. PICK posted \in 0..1, filed \in IF last THEN 0..1 ELSE {0} :
                   job' = [job EXCEPT ![d] = [job[d] EXCEPT !.tries = @ + 1, !.sent = @ + posted,
                                                 !.state = IF last THEN "failed" ELSE @,
                                                 !.dead = @ + filed]]
        BY <2>2 DEF AttemptFails
      <3>0. PICK v : v = [job[d] EXCEPT !.tries = @ + 1, !.sent = @ + posted,
                                        !.state = IF last THEN "failed" ELSE @,
                                        !.dead = @ + filed]
        OBVIOUS
      <3> DEFINE j == Becomes(IF last THEN "failed" ELSE job[d].state, job[d].tries + 1,
                              job[d].stalled, job[d].dead + filed, job[d].sent + posted,
                              job[d].renewed)
      <3>2. v = j
        BY <1>2, <3>0 DEF JobSound
      <3>3. d \in Waiting /\ job[d].state = "waiting"
        BY <2>2 DEF AttemptFails, Waiting
      <3>4. JobSound(j)
        <4>1. /\ j.tries = job[d].tries + 1 /\ j.sent = job[d].sent + posted
              /\ j.renewed = job[d].renewed /\ j.stalled = job[d].stalled
              /\ j.state = IF last THEN "failed" ELSE "waiting"
          BY <3>3
        <4>2. /\ j.tries \in Nat /\ j.sent \in Nat
              /\ j.sent <= Bound(job[d].renewed) + j.tries + (IF j.stalled THEN 1 ELSE 0)
          BY <4>1, <3>3, <1>3, <1>4
        <4>3. j.tries <= MaxAttempts /\ (~last => j.tries < MaxAttempts)
          BY <4>1, <3>3, <1>3, <1>4
        <4>4. j.sent <= Bound(job[d].renewed) + PerJob
          BY <4>2, <4>3, <1>3
        <4>5. j = [at |-> j.at, state |-> j.state, tries |-> j.tries, stalled |-> j.stalled,
                   dead |-> j.dead, sent |-> j.sent, renewed |-> j.renewed]
          OBVIOUS
        <4> HIDE DEF j, last
        <4> QED  BY <4>1, <4>2, <4>3, <4>4, <4>5, <1>3 DEF JobSound
      <3>5. job' = [job EXCEPT ![d] = v]
        BY <3>0, <3>1
      <3> HIDE DEF j
      <3> QED  BY <3>2, <3>4, <3>5
    <2>3. CASE Stall(d)
      <3>1. PICK posted \in 0..1 :
                   job' = [job EXCEPT ![d] = [job[d] EXCEPT !.stalled = TRUE, !.sent = @ + posted,
                                                 !.state = IF job[d].stalled THEN "failed" ELSE @]]
        BY <2>3 DEF Stall
      <3>0. PICK v : v = [job[d] EXCEPT !.stalled = TRUE, !.sent = @ + posted,
                                        !.state = IF job[d].stalled THEN "failed" ELSE @]
        OBVIOUS
      <3> DEFINE j == Becomes(IF job[d].stalled THEN "failed" ELSE job[d].state, job[d].tries,
                              TRUE, job[d].dead, job[d].sent + posted, job[d].renewed)
      <3>2. v = j
        BY <1>2, <3>0 DEF JobSound
      <3>3. d \in Waiting /\ job[d].state = "waiting"
        BY <2>3 DEF Stall, Waiting
      <3>4. JobSound(j)
        BY <3>3, <1>3, <1>4 DEF JobSound
      <3>5. job' = [job EXCEPT ![d] = v]
        BY <3>0, <3>1
      <3> HIDE DEF j
      <3> QED  BY <3>2, <3>4, <3>5
    <2>4. CASE Evict(d)
      <3> DEFINE j == Becomes("none", 0, FALSE, job[d].dead, job[d].sent, job[d].renewed + 1)
      <3>0. PICK v : v = [job[d] EXCEPT !.state = "none", !.tries = 0, !.stalled = FALSE,
                                        !.renewed = @ + 1]
        OBVIOUS
      <3>1. v = j
        BY <1>2, <3>0 DEF JobSound
      <3>2. job' = [job EXCEPT ![d] = v]
        BY <2>4, <3>0 DEF Evict
      <3>3. job[d].sent <= Bound(job[d].renewed) + PerJob
        BY <1>2 DEF JobSound
      <3>4. JobSound(j)
        BY <3>3, <1>3 DEF JobSound
      <3> HIDE DEF j
      <3> QED  BY <3>1, <3>2, <3>4
    <2> QED  BY <2>1, <2>2, <2>3, <2>4
  <1>6. JobsSound' /\ Deliveries' = Deliveries
    <2>1. PICK j : JobSound(j) /\ job' = [job EXCEPT ![d] = j]
      BY <1>5
    <2> QED  BY <2>1, JobStep DEF IndexerInv
  <1>7. tip' \in Nat
    BY <1>1 DEF IndexerInv, LoopShape
  <1> QED  BY <1>1, <1>6, <1>7, SameTable, AsideStep

\* A replayed dead letter is a job of its own and no delivery.
LEMMA ReplayDeadLetterStep ==
    ASSUME IndexerInv, NEW d \in DOMAIN job, ReplayDeadLetter(d) PROVE IndexerInv'
  <1> DEFINE copies == Copies(d.event, d.id, d.sub)
             new == [d EXCEPT !.copy = Cardinality(copies)]
             added == [NewJob EXCEPT !.state = "waiting"]
  <1>1. PICK removed \in 0..1 :
          job' = [i \in DOMAIN job \cup {new} |->
                    IF i = new THEN added
                    ELSE IF i = d THEN [job[d] EXCEPT !.dead = @ - removed] ELSE job[i]]
    BY DEF ReplayDeadLetter, Copies
  <1>2. DOMAIN job' = DOMAIN job \cup {new}
    BY <1>1
  <1>3. new.copy # 0
    <2>1. IsFiniteSet(copies) /\ d \in copies
      BY DEF IndexerInv, JobsSound, FiniteCopies, Copies
    <2>2. Cardinality(copies) # 0
      <3> HIDE DEF copies
      <3> QED  BY <2>1, FS_EmptySet
    <2> QED  BY <2>2
  <1>4. JobSound(added)
    BY FreshJob
  <1>5. JobSound(job[d]) /\ JobSound([job[d] EXCEPT !.dead = @ - removed])
    <2>1. JobSound(job[d])
      BY DEF IndexerInv, JobsSound
    <2> DEFINE j == [at |-> job[d].at, state |-> job[d].state, tries |-> job[d].tries,
                     stalled |-> job[d].stalled, dead |-> job[d].dead - removed,
                     sent |-> job[d].sent, renewed |-> job[d].renewed]
    <2>2. [job[d] EXCEPT !.dead = @ - removed] = j
      BY <2>1 DEF JobSound
    <2>3. JobSound(j)
      BY <2>1 DEF JobSound
    <2> HIDE DEF j
    <2> QED  BY <2>1, <2>2, <2>3
  <1> HIDE DEF added, new
  <1>6. ASSUME NEW i \in DOMAIN job' PROVE JobSound(job'[i])
    BY <1>1, <1>2, <1>4, <1>5 DEF IndexerInv, JobsSound
  <1>7. ASSUME NEW e, NEW i, NEW s PROVE IsFiniteSet(Copies(e, i, s)')
    <2>1. Copies(e, i, s)' \subseteq Copies(e, i, s) \cup {new}
      BY <1>2 DEF Copies
    <2>2. IsFiniteSet(Copies(e, i, s))
      BY DEF IndexerInv, JobsSound, FiniteCopies
    <2> QED  BY <2>1, <2>2, FS_AddElement, FS_Subset
  <1>8. JobsSound'
    BY <1>6, <1>7 DEF JobsSound, FiniteCopies
  <1>9. Deliveries' = Deliveries
    BY <1>2, <1>3 DEF Deliveries
  <1>10. UNCHANGED <<tip, loop, table>> /\ tip' \in Nat
    BY DEF ReplayDeadLetter, IndexerInv, LoopShape
  <1> QED  BY <1>8, <1>9, <1>10, SameTable, AsideStep

\* Subscriptions, tests, the request of a replay, the end of one, cleanup's first half.
LEMMA OtherActions ==
    ASSUME IndexerInv, tip' \in Nat, UNCHANGED <<loop, table, job>>
    PROVE  IndexerInv'
  <1>1. JobsSound' /\ Deliveries' = Deliveries
    BY JobsKept DEF IndexerInv
  <1> QED  BY <1>1, SameTable, AsideStep

\* A forced replay and the cleanup delete rows.
LEMMA DeleteRows ==
    ASSUME IndexerInv, UNCHANGED <<tip, loop, indexed, made, job>>,
           \A e \in Events : row'[e] # 0 => row[e] # 0
    PROVE  IndexerInv'
  <1>1. JobsSound' /\ Deliveries' = Deliveries
    BY JobsKept DEF IndexerInv
  <1>2. Rows' \subseteq indexed'
    BY DEF IndexerInv, CycleSound, Rows
  <1>3. \A e \in Events : made'[e] \in Nat /\ made[e] <= made'[e]
    BY DEF IndexerInv, RowsPay
  <1>4. tip' \in Nat
    BY DEF IndexerInv, LoopShape
  <1> QED  BY <1>1, <1>2, <1>3, <1>4, AsideStep

LEMMA ReplayActions ==
    ASSUME IndexerInv, StartReplay \/ CreateReplayed \/ CleanupDelete PROVE IndexerInv'
  <1>1. CASE StartReplay
    <2>1. UNCHANGED <<tip, loop, indexed, made, job>> /\ \A e \in Events : row'[e] # 0 => row[e] # 0
      BY <1>1 DEF StartReplay
    <2> QED  BY <2>1, DeleteRows
  <1>2. CASE CleanupDelete
    <2>1. UNCHANGED <<tip, loop, indexed, made, job>> /\ \A e \in Events : row'[e] # 0 => row[e] # 0
      BY <1>2 DEF CleanupDelete
    <2> QED  BY <2>1, DeleteRows
  <1>3. CASE CreateReplayed
    <2>1. UNCHANGED <<tip, loop, job>> /\ tip' \in Nat
      BY <1>3 DEF CreateReplayed, IndexerInv, LoopShape
    <2>2. CASE UNCHANGED table
      BY <2>1, <2>2, OtherActions
    <2>3. CASE InsertRows({Min(replay.todo)})
      <3>1. Rows \subseteq indexed /\ RowsPay
        BY DEF IndexerInv, CycleSound
      <3>2. /\ indexed \subseteq indexed' /\ Rows' \subseteq indexed'
            /\ \A e \in Events : made'[e] \in Nat /\ made[e] <= made'[e]
        BY <2>3, <3>1, InsertFacts
      <3>3. JobsSound' /\ Deliveries' = Deliveries
        BY <2>1, JobsKept DEF IndexerInv
      <3> QED  BY <2>1, <3>2, <3>3, AsideStep
    <2> QED  BY <1>3, <2>2, <2>3 DEF CreateReplayed
  <1> QED  BY <1>1, <1>2, <1>3

LEMMA StartStep == ASSUME IndexerInv, Start PROVE IndexerInv'
  <1>1. PICK failing \in SUBSET {"database", "rpc"} :
            cursor' = [at |-> discoverStartLedger(failing), from |-> discoverStartLedger(failing)]
    BY DEF Start
  <1>2. tip \in Nat /\ INITIAL_BACKFILL_LEDGERS \in Nat /\ INDEX_FROM_LEDGER \in Nat
    BY IndexerAssumption DEF IndexerInv, LoopShape
  <1>3. Backfill \in Nat
    BY <1>2 DEF Backfill
  <1>4. Rows # {} => Max({Chain[e].ledger : e \in Rows}) \in Nat
    <2> SUFFICES ASSUME Rows # {} PROVE Max({Chain[e].ledger : e \in Rows}) \in Nat
      OBVIOUS
    <2> DEFINE ledgers == {Chain[e].ledger : e \in Rows}
    <2>1. Rows \subseteq Events
      BY DEF Rows
    <2>2. Len(Chain) \in Events
      BY <2>1, ChainFacts
    <2>3. \A e \in Rows : Ledger(e) \in Nat /\ Ledger(e) <= Ledger(Len(Chain))
      BY <2>1, ChainFacts
    <2>4. ledgers \subseteq Nat /\ ledgers # {} /\ \A l \in ledgers : l <= Ledger(Len(Chain))
      BY <2>3 DEF Ledger
    <2>5. Ledger(Len(Chain)) \in Nat
      BY <2>2, ChainFacts
    <2> HIDE DEF ledgers
    <2>6. Max(ledgers) \in ledgers
      BY <2>4, <2>5, MaxOfBounded
    <2> QED  BY <2>4, <2>6 DEF ledgers
  <1>5. discoverStartLedger(failing) \in Nat
    BY <1>2, <1>3, <1>4 DEF discoverStartLedger
  <1>6. poll' = Idle /\ tip' = tip /\ UNCHANGED <<table, job>>
    BY DEF Start, others
  <1>7. LoopShape'
    BY <1>1, <1>2, <1>5, <1>6 DEF LoopShape, Idle
  <1>8. PassedIsIndexed'
    BY <1>1, <1>5, ChainFacts DEF PassedIsIndexed, Ledger
  <1>9. CycleSound'
    BY <1>6, <1>8, SameTable DEF CycleSound, Idle, Landing
  <1>10. RowsPay'
    BY <1>6, SameTable, RowsPayKept, JobsKept DEF IndexerInv, Landing, Idle
  <1>11. JobsSound'
    BY <1>6, JobsKept DEF IndexerInv
  <1> QED  BY <1>7, <1>9, <1>10, <1>11 DEF IndexerInv

LEMMA StopStep == ASSUME IndexerInv, Stop PROVE IndexerInv'
  BY LoopStep DEF Stop, Idle

LEMMA InitIndexerInv == ASSUME IndexerInit PROVE IndexerInv
  <1>1. LoopShape
    BY DEF IndexerInit, LoopShape, Idle
  <1>2. DOMAIN job = {}
    BY DEF IndexerInit
  <1>3. \A e \in Events, s \in Subscriptions :
            DeliveriesOf(e, s) = {} /\ Due(e) = 0 /\ made[e] = 0
    BY <1>2 DEF IndexerInit, DeliveriesOf, Deliveries, Due, Idle, Landing
  <1>4. RowsPay
    <2>1. poll.pc \notin Landing
      BY DEF IndexerInit, Idle, Landing
    <2>2. IsFiniteSet({}) /\ Cardinality({}) = 0
      BY FS_EmptySet
    <2>3. \A e \in Events : made[e] = 0
      BY DEF IndexerInit
    <2>4. ASSUME NEW e \in Events, NEW s \in Subscriptions
          PROVE  /\ IsFiniteSet(DeliveriesOf(e, s))
                 /\ Cardinality(DeliveriesOf(e, s)) + Due(e) <= made[e]
      BY <1>3, <2>2
    <2> QED  BY <2>1, <2>3, <2>4 DEF RowsPay
  <1>5. JobsSound
    <2>1. \A e, i, s : Copies(e, i, s) = {}
      BY <1>2 DEF Copies
    <2>2. \A e, i, s : IsFiniteSet(Copies(e, i, s))
      BY <2>1, FS_EmptySet
    <2> QED  BY <1>2, <2>2 DEF JobsSound, FiniteCopies
  <1>6. PassedIsIndexed
    BY ChainFacts DEF IndexerInit, PassedIsIndexed, Ledger
  <1>7. CycleSound
    BY <1>6 DEF IndexerInit, CycleSound, Idle, Landing, Rows
  <1> QED  BY <1>1, <1>4, <1>5, <1>7 DEF IndexerInv

LEMMA NextIndexerInv == ASSUME IndexerInv, [IndexerNext]_indexerVars PROVE IndexerInv'
  <1>1. tip \in Nat
    BY DEF IndexerInv, LoopShape
  <1>2. CASE UNCHANGED indexerVars
    BY <1>1, <1>2, OtherActions DEF indexerVars, others
  <1>3. CASE CloseLedger
    BY <1>1, <1>3, OtherActions DEF CloseLedger, others
  <1>4. CASE PollTimeout
    <2>1. JobsSound' /\ Deliveries' = Deliveries /\ UNCHANGED <<tip, poll, cursor, table>>
      BY <1>4, JobsKept DEF PollTimeout, others, IndexerInv
    <2>2. LoopShape'
      BY <2>1 DEF IndexerInv, LoopShape
    <2>3. CycleSound' /\ RowsPay'
      BY <2>1, SameTable, CycleKept, RowsPayKept DEF IndexerInv
    <2> QED  BY <2>1, <2>2, <2>3 DEF IndexerInv
  <1>5. CASE \E s \in Subscriptions : Subscribe(s) \/ StartTest(s) \/ EndTest(s)
    BY <1>1, <1>5, OtherActions DEF Subscribe, StartTest, EndTest
  <1>6. CASE \/ \E range \in ReplayRanges : RequestReplay(range)
             \/ FetchChunk \/ ReplayFails \/ CleanupRead
    BY <1>1, <1>6, OtherActions DEF RequestReplay, FetchChunk, ReplayFails, CleanupRead
  <1>7. CASE Poll \/ EndCycle \/ FetchAborted \/ PollError
    BY <1>7, FetchStep, InsertStep, ReadBackStep, CreateDeliveriesStep, AdvanceStep, DispatchStep
       DEF Poll
  <1>8. CASE \E d \in DOMAIN job :
                Deliver(d) \/ AttemptFails(d) \/ Stall(d) \/ Evict(d) \/ ReplayDeadLetter(d)
    BY <1>8, JobActions, ReplayDeadLetterStep
  <1>9. CASE StartReplay \/ CreateReplayed \/ CleanupDelete
    BY <1>9, ReplayActions
  <1>10. CASE Stop \/ Start
    BY <1>10, StopStep, StartStep
  <1> QED  BY <1>2, <1>3, <1>4, <1>5, <1>6, <1>7, <1>8, <1>9, <1>10 DEF IndexerNext

LEMMA IndexerInvAlways == IndexerSpec => []IndexerInv
  BY InitIndexerInv, NextIndexerInv, PTL DEF IndexerSpec

\* Every page is fetched again in the next cycle, and replays, restarts and errors come in
\* between; an event still has at most as many deliveries to a subscription as rows were
\* created for it.
THEOREM DeliveriesMatchRowsAlways == IndexerSpec => []DeliveriesMatchRows
  <1>1. IndexerInv => DeliveriesMatchRows
    <2> SUFFICES ASSUME IndexerInv, NEW e \in Events, NEW s \in Subscriptions
                 PROVE  Cardinality({d \in Deliveries : d.event = e /\ d.sub = s}) <= made[e]
      BY DEF DeliveriesMatchRows
    <2>1. /\ Cardinality(DeliveriesOf(e, s)) \in Nat /\ made[e] \in Nat
          /\ Cardinality(DeliveriesOf(e, s)) + Due(e) <= made[e]
      BY FS_CardinalityType DEF IndexerInv, RowsPay
    <2>2. Due(e) \in Nat
      BY DEF Due
    <2>3. Cardinality(DeliveriesOf(e, s)) <= made[e]
      BY <2>1, <2>2
    <2> QED  BY <2>3 DEF DeliveriesOf
  <1> QED  BY <1>1, IndexerInvAlways, PTL

\* A delivery stays pending for ever and every cycle dispatches it again, attempts fail when
\* the merchant has got the POST, and the job of a dead worker is run again; still the POSTs
\* of a job, whatever is forgotten, replayed or restarted, are bounded by its attempts.
THEOREM BoundedPostsAlways == IndexerSpec => []BoundedPosts
  <1>1. IndexerInv => BoundedPosts
    <2> SUFFICES ASSUME IndexerInv, NEW d \in DOMAIN job
                 PROVE  job[d].sent <= (MaxAttempts + 1) * (1 + job[d].renewed)
      BY DEF BoundedPosts
    <2>1. /\ job[d].renewed \in Nat /\ job[d].sent \in Nat
          /\ job[d].sent <= Bound(job[d].renewed) + PerJob
      BY DEF IndexerInv, JobsSound, JobSound
    <2>2. Bound(job[d].renewed + 1) = Bound(job[d].renewed) + PerJob
      BY <2>1, BoundGrows
    <2>3. job[d].renewed + 1 = 1 + job[d].renewed
      BY <2>1
    <2> QED  BY <2>1, <2>2, <2>3 DEF Bound, PerJob
  <1> QED  BY <1>1, IndexerInvAlways, PTL

\* Whatever fails, and however the page cuts the ledgers, the cursor never passes a ledger
\* of which no valid event was indexed.
THEOREM PassedIsIndexedAlways == IndexerSpec => []PassedIsIndexed
  <1>1. IndexerInv => PassedIsIndexed
    BY DEF IndexerInv, CycleSound
  <1> QED  BY <1>1, IndexerInvAlways, PTL

==============================================================================
