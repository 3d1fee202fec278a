-------------------------------- MODULE FxEngine -------------------------------
(***************************************************************************)
(* Instances of the FX engine: the refresh tick behind its circuit         *)
(* breaker, the fetch lock they share in Redis, the deviation guard, the   *)
(* rate caches, warmup from the shared snapshots, overrides, and quotes    *)
(* that one instance issues and another may verify.                        *)
(***************************************************************************)
EXTENDS Integers, FiniteSets, FiniteSetsExt

CONSTANTS
    Instances,
    Assets,              \* the currencies the rates API knows
    NGN,                 \* the base currency, whose rate is 1
    Pairs,               \* the currency pairs that are quoted
    Rates,               \* possible rates of an asset in NGN
    FALLBACK_RATES,
    MAX_DEVIATION_BPS,
    Slippages,           \* slippage tolerances of quotes, in basis points
    FAILURE_THRESHOLD,
    None, Lost,          \* Lost: a lock whose token no running tick has
    Budget,              \* kind of occurrence -> how many may happen
    MaxOccurrences       \* bound on all of them together

SUPPORTED_CURRENCIES == Assets \cup {NGN}
Kinds == {"error", "market", "override", "crash", "quote", "purge"}
\* A quote's age: before QUOTE_MIN_AGE_MS, before QUOTE_TTL_MS, expired, beyond
\* QUOTE_MAX_LIFETIME_MS; after that Redis drops it.
Young == 1
Valid == 2
Expired == 3
TooOld == 4

ASSUME FxAssumption ==
    /\ {None, Lost} \cap Instances = {}
    /\ Rates \subseteq Nat \ {0} /\ IsFiniteSet(Rates)
    /\ FALLBACK_RATES \in [Assets -> Rates]
    /\ Pairs \subseteq SUPPORTED_CURRENCIES \X SUPPORTED_CURRENCIES
    /\ Slippages \subseteq Nat /\ MAX_DEVIATION_BPS \in Nat
    /\ FAILURE_THRESHOLD \in Nat \ {0}
    /\ Budget \in [Kinds -> Nat] /\ MaxOccurrences \in Nat

VARIABLES
    market,      \* the rates the API has
    tick,        \* instance -> where its refresh is
    serving,     \* instances that have begun to listen
    cache,       \* instance -> [rates, renewed]: renewed since a refresh began to wait
    pairs,       \* instance -> pair -> cached rate as <<numerator, denominator>>, or None
    breaker,     \* instance -> [state, failures, cooled]
    fallback,    \* instance -> whether fallbackStartTime is set
    lock,        \* Redis: the token of the fetch lock
    snapshot,    \* Redis: the newest rate snapshot
    quote,       \* Redis: a stored quote
    verdict,     \* the last answer to a verification: history
    budget

local == <<tick, serving, cache, pairs, breaker, fallback>>
redis == <<lock, snapshot, quote>>
vars == <<market, local, redis, verdict, budget>>

Spend(kind) ==
    /\ budget[kind] > 0
    /\ MapThenSumSet(LAMBDA k : Budget[k] - budget[k], Kinds) < MaxOccurrences
    /\ budget' = [budget EXCEPT ![kind] = @ - 1]

Distance(a, b) == IF a > b THEN a - b ELSE b - a

-----------------------------------------------------------------------------
\* getState lets an OPEN breaker whose cooldown is over become HALF_OPEN.
\* Mutant: nothing moves it out of OPEN.
getStateNever(i) == breaker[i].state
getState(i) ==
    IF breaker[i].state = "OPEN" /\ breaker[i].cooled THEN "HALF_OPEN" ELSE breaker[i].state

Closed == [state |-> "CLOSED", failures |-> 0, cooled |-> FALSE]

\* Mutant: the probe's success resets the count only.
recordSuccessCount(i) == [breaker[i] EXCEPT !.failures = 0]
recordSuccess(i) == Closed

recordFailure(i) ==
    LET failures == breaker[i].failures + 1
        opens == \/ breaker[i].state = "HALF_OPEN"
                 \/ breaker[i].state = "CLOSED" /\ failures >= FAILURE_THRESHOLD
    IN  [state |-> IF opens THEN "OPEN" ELSE breaker[i].state,
         failures |-> Min({failures, FAILURE_THRESHOLD}),
         cooled |-> FALSE]

Cooldown(i) ==
    /\ breaker[i].state = "OPEN" /\ ~breaker[i].cooled
    /\ breaker' = [breaker EXCEPT ![i].cooled = TRUE]
    /\ UNCHANGED <<market, tick, serving, cache, pairs, fallback, redis, verdict, budget>>

-----------------------------------------------------------------------------
Deviates(new, old, bps) == Distance(new, old) * 10000 > bps * old

\* applyDeviationGuard: each fetched rate that does not move too far replaces the old one.
applyDeviationGuard(fetched, old) ==
    [a \in Assets |-> IF a \in DOMAIN fetched /\ ~Deviates(fetched[a], old[a], MAX_DEVIATION_BPS)
                      THEN fetched[a] ELSE old[a]]

NoPairs == [p \in Pairs |-> None]

\* Mutant: the computed pair rates outlive the base rates.
updateBaseRatesOnly(i, rates, stored) ==
    /\ cache' = [cache EXCEPT ![i] = [rates |-> rates, renewed |-> TRUE]]
    /\ UNCHANGED pairs
    /\ snapshot' = IF stored THEN rates ELSE snapshot

\* updateBaseRates clears the computed rates and stores a snapshot, if Redis answers.
updateBaseRates(i, rates, stored) ==
    /\ cache' = [cache EXCEPT ![i] = [rates |-> rates, renewed |-> TRUE]]
    /\ pairs' = [pairs EXCEPT ![i] = NoPairs]
    /\ snapshot' = IF stored THEN rates ELSE snapshot

EndTick(i) == tick' = [tick EXCEPT ![i] = "idle"] /\ serving' = serving \cup {i}

\* refreshTick: the gate, then SET NX.  Without the lock (or without Redis, which may have
\* set the key although its answer was lost) it waits.
Tick(i) ==
    /\ tick[i] = "idle"
    /\ breaker' = [breaker EXCEPT ![i] = [@ EXCEPT !.state = getState(i), !.cooled = FALSE]]
    /\ \/ /\ getState(i) # "OPEN" /\ lock = None
          /\ lock' = i
          /\ tick' = [tick EXCEPT ![i] = "fetch"]
          /\ UNCHANGED <<cache, budget>>
       \/ /\ getState(i) # "OPEN"
          /\ IF lock = None THEN Spend("error") /\ lock' \in {None, Lost}
             ELSE UNCHANGED <<lock, budget>>
          /\ tick' = [tick EXCEPT ![i] = "wait"]
          /\ cache' = [cache EXCEPT ![i].renewed = FALSE]
    /\ UNCHANGED <<market, serving, pairs, fallback, snapshot, quote, verdict>>

\* Wait polls this process's own cache, which only an override can renew meanwhile.
Woken(i) ==
    /\ tick[i] = "wait" /\ cache[i].renewed
    /\ EndTick(i)
    /\ UNCHANGED <<market, cache, pairs, breaker, fallback, redis, verdict, budget>>

WaitEnds(i) ==
    /\ tick[i] = "wait" /\ ~cache[i].renewed
    /\ tick' = [tick EXCEPT ![i] = "direct"]
    /\ UNCHANGED <<market, serving, cache, pairs, breaker, fallback, redis, verdict, budget>>

AfterFetch(i) ==
    IF tick[i] = "fetch" THEN tick' = [tick EXCEPT ![i] = "release"] /\ UNCHANGED serving
    ELSE EndTick(i)

\* fetchBaseRates answers with all assets, or with some; the guard decides what is taken.
Fetched(i) ==
    /\ tick[i] \in {"fetch", "direct"}
    /\ \E known \in SUBSET Assets \ {{}}, stored \in BOOLEAN :
          /\ IF known = Assets /\ stored THEN UNCHANGED budget ELSE Spend("error")
          /\ LET fetched == [a \in known |-> market[a]] IN
             updateBaseRates(i, applyDeviationGuard(fetched, cache[i].rates), stored)
    /\ breaker' = [breaker EXCEPT ![i] = recordSuccess(i)]
    /\ fallback' = [fallback EXCEPT ![i] = FALSE]
    /\ AfterFetch(i)
    /\ UNCHANGED <<market, lock, quote, verdict>>

FetchFails(i) ==
    /\ tick[i] \in {"fetch", "direct"}
    /\ Spend("error")
    /\ breaker' = [breaker EXCEPT ![i] = recordFailure(i)]
    /\ fallback' = [fallback EXCEPT ![i] = TRUE]
    /\ AfterFetch(i)
    /\ UNCHANGED <<market, cache, pairs, redis, verdict>>

\* Mutant: DEL without comparing the token.
ReleaseAny(i) ==
    /\ tick[i] = "release"
    /\ lock' = None
    /\ EndTick(i)
    /\ UNCHANGED <<market, cache, pairs, breaker, fallback, snapshot, quote, verdict, budget>>

\* releaseRateFetchLock; a Redis error leaves the lock to its TTL.
Release(i) ==
    /\ tick[i] = "release"
    /\ \/ lock' = (IF lock = i THEN None ELSE lock) /\ UNCHANGED budget
       \/ lock = i /\ Spend("error") /\ UNCHANGED lock
    /\ EndTick(i)
    /\ UNCHANGED <<market, cache, pairs, breaker, fallback, snapshot, quote, verdict>>

\* The lock lives for 5 s, a fetch for up to 10 s.
LockExpires ==
    /\ lock # None
    /\ lock' = None
    /\ UNCHANGED <<market, local, snapshot, quote, verdict, budget>>

-----------------------------------------------------------------------------
\* POST /api/admin/rates/override passes the guard by.
Override(i) ==
    /\ i \in serving
    /\ Spend("override")
    /\ \E a \in Assets, rate \in Rates, stored \in BOOLEAN :
          updateBaseRates(i, [cache[i].rates EXCEPT ![a] = rate], stored)
    /\ UNCHANGED <<market, tick, serving, breaker, fallback, lock, quote, verdict>>

\* warmupCacheFromRedis takes the newest snapshot, unless there is none or Redis fails;
\* the rates it starts with are then stored as the newest snapshot.
Boot(i) ==
    /\ tick[i] = "down"
    /\ \E read, stored \in BOOLEAN :
          /\ IF read /\ stored THEN UNCHANGED budget ELSE Spend("error")
          /\ LET rates == IF read /\ snapshot # None THEN snapshot ELSE FALLBACK_RATES IN
             /\ cache' = [cache EXCEPT ![i] = [rates |-> rates, renewed |-> FALSE]]
             /\ snapshot' = IF stored THEN rates ELSE snapshot
    /\ tick' = [tick EXCEPT ![i] = "idle"]
    /\ UNCHANGED <<market, serving, pairs, breaker, fallback, lock, quote, verdict>>

Crash(i) ==
    /\ tick[i] # "down"
    /\ Spend("crash")
    /\ tick' = [tick EXCEPT ![i] = "down"]
    /\ serving' = serving \ {i}
    /\ pairs' = [pairs EXCEPT ![i] = NoPairs]
    /\ breaker' = [breaker EXCEPT ![i] = Closed]
    /\ fallback' = [fallback EXCEPT ![i] = FALSE]
    /\ lock' = IF lock = i THEN Lost ELSE lock
    /\ UNCHANGED <<market, cache, snapshot, quote, verdict>>

\* The retention job purges old snapshots.
runRateHistoryCleanup ==
    /\ snapshot # None
    /\ Spend("purge")
    /\ snapshot' = None
    /\ UNCHANGED <<market, local, lock, quote, verdict>>

MarketMoves ==
    /\ Spend("market")
    /\ \E a \in Assets, rate \in Rates : market' = [market EXCEPT ![a] = rate]
    /\ UNCHANGED <<local, redis, verdict>>

-----------------------------------------------------------------------------
RateOf(i, currency) == IF currency = NGN THEN 1 ELSE cache[i].rates[currency]
computeRate(i, p) == <<RateOf(i, p[1]), RateOf(i, p[2])>>

\* resolveRate: the cached rate if there is one, else a computed one, which is cached.
resolveRate(i, p) == IF pairs[i][p] # None THEN pairs[i][p] ELSE computeRate(i, p)
Resolve(i, p) == pairs' = [pairs EXCEPT ![i][p] = resolveRate(i, p)]

\* RATE_TTL_MS of a computed rate is over (it is not served, and pruned by the next tick).
PairExpires(i, p) ==
    /\ pairs[i][p] # None
    /\ pairs' = [pairs EXCEPT ![i][p] = None]
    /\ UNCHANGED <<market, tick, serving, cache, breaker, fallback, redis, verdict, budget>>

\* GET /api/quote
Quote(i, p) ==
    /\ i \in serving
    /\ Spend("quote")
    /\ Resolve(i, p)
    /\ \E bps \in Slippages :
          quote' = [pair |-> p, rate |-> resolveRate(i, p), slippageBps |-> bps, age |-> Young]
    /\ UNCHANGED <<market, tick, serving, cache, breaker, fallback, lock, snapshot, verdict>>

QuoteAges ==
    /\ quote # None
    /\ quote' = IF quote.age = TooOld THEN None ELSE [quote EXCEPT !.age = @ + 1]
    /\ UNCHANGED <<market, local, lock, snapshot, verdict, budget>>

\* POST /api/quote/verify: in fallback mode the expiry decides alone.
Verify(i) ==
    /\ i \in serving
    /\ quote # None /\ quote.age \in {Valid, Expired}
    /\ Resolve(i, quote.pair)
    /\ LET within(current) ==
             Distance(current[1] * quote.rate[2], quote.rate[1] * current[2]) * 10000
                 <= quote.slippageBps * quote.rate[1] * current[2]
       IN  verdict' = [valid |-> /\ quote.age = Valid
                                 /\ fallback[i] \/ within(resolveRate(i, quote.pair)),
                       fallbackAccepted |-> fallback[i],
                       holds |-> within(computeRate(i, quote.pair))]
    /\ UNCHANGED <<market, tick, serving, cache, breaker, fallback, redis, budget>>

-----------------------------------------------------------------------------
Init ==
    /\ market \in [Assets -> Rates]
    /\ tick = [i \in Instances |-> "down"] /\ serving = {}
    /\ cache = [i \in Instances |-> [rates |-> FALLBACK_RATES, renewed |-> FALSE]]
    /\ pairs = [i \in Instances |-> NoPairs]
    /\ breaker = [i \in Instances |-> Closed]
    /\ fallback = [i \in Instances |-> FALSE]
    /\ lock = None /\ snapshot = None /\ quote = None /\ verdict = None
    /\ budget = Budget

Refresh(i) == Boot(i) \/ Tick(i) \/ Woken(i) \/ WaitEnds(i) \/ Fetched(i) \/ Release(i)

Next ==
    \/ \E i \in Instances :
          \/ Refresh(i) \/ FetchFails(i) \/ Cooldown(i) \/ Override(i) \/ Crash(i) \/ Verify(i)
          \/ \E p \in Pairs : Quote(i, p) \/ PairExpires(i, p)
    \/ LockExpires \/ QuoteAges \/ MarketMoves \/ runRateHistoryCleanup

Spec == Init /\ [][Next]_vars

\* Instances are started, their timer ticks, a cooldown ends, and a fetch ends.
FairSpec == Spec /\ \A i \in Instances : WF_vars(Refresh(i)) /\ WF_vars(Cooldown(i))

-----------------------------------------------------------------------------
\* A quote accepted outside fallback mode is within its slippage of the base rates of
\* the instance that verifies it, although rates pass through a second cache and
\* another instance, an override or a restart may have come in between.
AcceptedWithinSlippage ==
    verdict # None => (verdict.valid /\ ~verdict.fallbackAccepted => verdict.holds)

\* Quotes are accepted on trust only while fetching fails: a breaker that is not
\* closed goes with fallback mode, so that an instance that has stopped fetching never
\* judges a quote by its old rates.
FailOpenWhileOpen == \A i \in Instances : breaker[i].state # "CLOSED" => fallback[i]

\* A lock that expired during a slow fetch and was taken by another instance is not
\* released by the first: only its holder, or its TTL, ends it.
NobodyElseReleases ==
    [][\A i, j \in Instances :
          lock = i /\ lock' # i /\ j # i => tick'[j] = tick[j]]_vars

\* Again and again an instance has the market's rate of an asset, or one that the guard
\* will not let it leave: breakers, locks, faults and restarts delay it only.
Follows(i, a) ==
    LET rate == cache[i].rates[a] IN
    market[a] = rate \/ Deviates(market[a], rate, MAX_DEVIATION_BPS)
RatesFollowMarket == \A i \in Instances, a \in Assets : []<>Follows(i, a)
===============================================================================
