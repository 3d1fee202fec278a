----------------------------- MODULE GatewayAuth -----------------------------
(***************************************************************************)
(* Authentication in the API gateway: wallet challenges and their lockout, *)
(* Google login, JWTs with sessions and a revocation list in Redis, token  *)
(* refresh, logout, and the per-merchant concurrency counter.  Requests    *)
(* interleave at every await.  There is one wallet address, one Google     *)
(* account and one client IP: every Redis key is per address, account,     *)
(* merchant or IP.  The wallet owns merchant "wallet", the account "google".*)
(* Tokens are numbered as they are created and stand for their jti.        *)
(***************************************************************************)
EXTENDS Integers, Sequences, FiniteSets, SequencesExt

CONSTANTS
    Slots,          \* requests in progress at the same time
    MaxRequests,    \* bound on the requests received
    OldTokens,      \* tokens of merchant "wallet" issued earlier, their sessions live
    SessionLimit,   \* SESSION_LIMIT_PER_MERCHANT
    MaxFailures,    \* DEFAULT_WALLET_AUTH_MAX_FAILURES, env.AUTH_MAX_FAILED_ATTEMPTS
    IpThreshold,    \* AUTH_IP_THRESHOLD
    RefreshMax,     \* REFRESH_RATE_LIMIT_MAX
    MaxConcurrency, \* env.MERCHANT_MAX_CONCURRENCY
    MaxEvents       \* bound on Redis errors, aborted requests and expiries (of keys
                    \* other than wallet_fail and of tokens), together

ASSUME AuthAssumption ==
    /\ {OldTokens, MaxRequests, MaxEvents} \subseteq Nat
    /\ {SessionLimit, MaxFailures, IpThreshold, RefreshMax, MaxConcurrency} \subseteq Nat \ {0}
    /\ OldTokens <= SessionLimit
    /\ IsFiniteSet(Slots)

VARIABLES
    req,        \* slot -> the request it serves
    received,   \* requests received so far
    challenge,  \* wallet_challenge:<address>: the outstanding challenge, 0 if none
    overdue,    \* its deadline has passed and Redis has not reaped it yet
    claims,     \* the claims made on each challenge issued so far: history
    fails,      \* wallet_fail:<address>
    failTtl,    \* that key has a TTL
    gfails,     \* auth_fail:google:<email>
    score,      \* auth_ip_score:<ip>
    refreshes,  \* auth_refresh_rate:<merchant>
    exists,     \* the merchants that have a row
    tokens,     \* the tokens signed so far: [merchant, jti]
    delivered,  \* tokens that reached their client
    expired,    \* tokens past their exp
    revoked,    \* revoked_jti:<jti>
    sessions,   \* session:<jti>
    index,      \* merchant -> sessions:<merchant>, the least recently used first
    retired,    \* tokens that logout or refresh has revoked: history
    conc,       \* merchant -> concurrency:<merchant>
    lapses,     \* expiries so far
    faults      \* faults so far

challengeVars == <<challenge, overdue, claims>>
counterVars == <<fails, failTtl, gfails, score, refreshes>>
tokenVars == <<exists, tokens, delivered, expired, revoked, sessions, index, retired>>
vars == <<req, received, challengeVars, counterVars, tokenVars, conc, lapses, faults>>

Merchants == {"wallet", "google"}
Authenticated == {"call", "logout", "revoke"}
Kinds == Authenticated \cup {"challenge", "verify", "legacy", "google", "refresh"}
Pcs == {"idle", "issue", "ip", "locked", "consume", "failIp", "failCount", "failExpire",
        "reset", "ipRead", "ipWrite", "merchant", "card", "range", "evict", "unlist",
        "glocked", "gfail", "greset", "jwt", "session", "touch", "incr", "decr", "handler",
        "revoke", "find", "drop", "discard", "rate", "respond"}

Idle == [kind |-> "call", pc |-> "idle", token |-> 0, target |-> 0, late |-> FALSE,
         user |-> FALSE, counted |-> FALSE, n |-> 0, olds |-> <<>>]

-----------------------------------------------------------------------------
\* Slot s goes on at pc.
Goto(s, pc) == req' = [req EXCEPT ![s].pc = pc]

\* The reply is sent; onResponse is next.
Respond(s) == Goto(s, "respond")

At(s, pc) == req[s].pc = pc

\* One more expiry, one more fault.
Lapse == lapses + faults < MaxEvents /\ lapses' = lapses + 1
Fault == lapses + faults < MaxEvents /\ faults' = faults + 1

\* A request arrives.  A client uses only tokens it was given.
Receive(s, kind, t, j) ==
    /\ At(s, "idle")
    /\ received < MaxRequests
    /\ received' = received + 1
    /\ req' = [req EXCEPT ![s] = [Idle EXCEPT
                  !.kind = kind, !.token = t, !.target = j, !.late = t \in retired,
                  !.pc = CASE kind = "challenge" -> "issue"
                           [] kind \in {"verify", "refresh"} -> "ip"
                           [] kind = "legacy" -> "locked"
                           [] kind = "google" -> "glocked"
                           [] OTHER -> "jwt"]]
    /\ UNCHANGED <<challengeVars, counterVars, tokenVars, conc, lapses, faults>>

\* POST /api/auth/challenge: a fresh challenge replaces the outstanding one.
Issue(s) ==
    /\ At(s, "issue")
    /\ claims' = Append(claims, 0)
    /\ challenge' = Len(claims')
    /\ overdue' = FALSE
    /\ Respond(s)
    /\ UNCHANGED <<received, counterVars, tokenVars, conc, lapses, faults>>

\* The recorded deadline passes; Redis reaps the key then or later.
ChallengeOverdue ==
    /\ Lapse
    /\ challenge # 0
    /\ IF overdue THEN challenge' = 0 /\ overdue' = FALSE
                  ELSE overdue' = TRUE /\ UNCHANGED challenge
    /\ UNCHANGED <<req, received, claims, counterVars, tokenVars, conc, faults>>

\* enforceAuthIpReputation: a blocked IP is answered 429.  A body that does not
\* parse counts as a failure of the IP only.
CheckIp(s) ==
    /\ At(s, "ip")
    /\ \/ score >= IpThreshold /\ Respond(s)
       \/ score < IpThreshold /\ Goto(s, IF req[s].kind = "verify" THEN "locked" ELSE "jwt")
       \/ /\ score < IpThreshold /\ req[s].kind = "verify"
          /\ req' = [req EXCEPT ![s] = [@ EXCEPT !.pc = "failIp", !.n = 1]]
    /\ UNCHANGED <<received, challengeVars, counterVars, tokenVars, conc, lapses, faults>>

\* isLockedOut
CheckLocked(s) ==
    /\ At(s, "locked")
    /\ Goto(s, IF fails >= MaxFailures THEN "respond" ELSE "consume")
    /\ UNCHANGED <<received, challengeVars, counterVars, tokenVars, conc, lapses, faults>>

\* Mutant: the challenge is read and left in Redis.
ReadChallenge ==
    /\ claims' = IF challenge = 0 THEN claims ELSE [claims EXCEPT ![challenge] = @ + 1]
    /\ UNCHANGED <<challenge, overdue>>

\* WalletChallengeStore.consume reads and deletes in one script.
ClaimChallenge ==
    /\ challenge' = 0
    /\ overdue' = FALSE
    /\ claims' = IF challenge = 0 THEN claims ELSE [claims EXCEPT ![challenge] = @ + 1]

\* POST /api/auth/wallet/verify: the challenge is claimed, then found missing,
\* overdue, different from the one the client echoes, not signed by the
\* wallet, or good.
Consume(s) ==
    /\ At(s, "consume") /\ req[s].kind = "verify"
    /\ ClaimChallenge
    /\ \/ challenge # 0 /\ ~overdue /\ Goto(s, "reset")
       \/ Goto(s, "failIp")
    /\ UNCHANGED <<received, counterVars, tokenVars, conc, lapses, faults>>

\* POST /api/auth/verify: the same, without the reputation of the IP.
LegacyConsume(s) ==
    /\ At(s, "consume") /\ req[s].kind = "legacy"
    /\ ClaimChallenge
    /\ \/ challenge # 0 /\ ~overdue /\ Goto(s, "reset")
       \/ Goto(s, "failCount")
    /\ UNCHANGED <<received, counterVars, tokenVars, conc, lapses, faults>>

\* recordAuthIpFailure; with n = 1 the request ends here.
FailIp(s) ==
    /\ At(s, "failIp")
    /\ score' = score + 1
    /\ Goto(s, IF req[s].n = 1 THEN "respond" ELSE "failCount")
    /\ UNCHANGED <<received, challengeVars, fails, failTtl, gfails, refreshes, tokenVars, conc,
                   lapses, faults>>

\* recordFailure: INCR.
FailCount(s) ==
    /\ At(s, "failCount")
    /\ fails' = fails + 1
    /\ Goto(s, IF fails' = 1 THEN "failExpire" ELSE "respond")
    /\ UNCHANGED <<received, challengeVars, failTtl, gfails, score, refreshes, tokenVars, conc,
                   lapses, faults>>

\* Mutant: the counter never gets a TTL.
FailNoExpire(s) ==
    /\ At(s, "failExpire")
    /\ Respond(s)
    /\ UNCHANGED <<received, challengeVars, counterVars, tokenVars, conc, lapses, faults>>

\* recordFailure: EXPIRE, for the first failure only.  A key deleted since has none.
FailExpire(s) ==
    /\ At(s, "failExpire")
    /\ failTtl' = (fails > 0)
    /\ Respond(s)
    /\ UNCHANGED <<received, challengeVars, fails, gfails, score, refreshes, tokenVars, conc,
                   lapses, faults>>

\* resetFailures
Reset(s) ==
    /\ At(s, "reset")
    /\ fails' = 0
    /\ failTtl' = FALSE
    /\ Goto(s, IF req[s].kind = "verify" THEN "ipRead" ELSE "merchant")
    /\ UNCHANGED <<received, challengeVars, gfails, score, refreshes, tokenVars, conc, lapses, faults>>

\* recordAuthIpSuccess: GET, then SET or DEL of the value computed from it.
IpRead(s) ==
    /\ At(s, "ipRead")
    /\ req' = [req EXCEPT ![s] = [@ EXCEPT !.n = score, !.pc = "ipWrite"]]
    /\ UNCHANGED <<received, challengeVars, counterVars, tokenVars, conc, lapses, faults>>

IpWrite(s) ==
    /\ At(s, "ipWrite")
    /\ score' = IF req[s].n > 0 THEN req[s].n - 1 ELSE 0
    /\ Goto(s, "merchant")
    /\ UNCHANGED <<received, challengeVars, fails, failTtl, gfails, refreshes, tokenVars, conc,
                   lapses, faults>>

\* The TTL of wallet_fail ends, if it has one.
LockoutExpires ==
    /\ fails > 0 /\ failTtl
    /\ fails' = 0 /\ failTtl' = FALSE
    /\ UNCHANGED <<req, received, challengeVars, gfails, score, refreshes, tokenVars, conc, lapses, faults>>

\* The other counters expire: every increment renews or sets their TTL.
CountersExpire ==
    /\ Lapse
    /\ \/ gfails > 0 /\ gfails' = 0 /\ UNCHANGED <<score, refreshes>>
       \/ score > 0 /\ score' = 0 /\ UNCHANGED <<gfails, refreshes>>
       \/ refreshes > 0 /\ refreshes' = 0 /\ UNCHANGED <<gfails, score>>
    /\ UNCHANGED <<req, received, challengeVars, fails, failTtl, tokenVars, conc, faults>>

-----------------------------------------------------------------------------
\* POST /api/auth/google, once Google has verified the token: lockout, allowed
\* domain, and expiry beyond the grace period.
GoogleCheck(s) ==
    /\ At(s, "glocked")
    /\ \/ Respond(s)
       \/ gfails < MaxFailures /\ \E pc \in {"gfail", "greset"} : Goto(s, pc)
    /\ UNCHANGED <<received, challengeVars, counterVars, tokenVars, conc, lapses, faults>>

\* incrementGoogleAuthLockout, resetGoogleAuthLockout
GoogleCount(s) ==
    /\ req[s].pc \in {"gfail", "greset"}
    /\ gfails' = IF At(s, "gfail") THEN gfails + 1 ELSE 0
    /\ Goto(s, IF At(s, "gfail") THEN "respond" ELSE "merchant")
    /\ UNCHANGED <<received, challengeVars, fails, failTtl, score, refreshes, tokenVars, conc,
                   lapses, faults>>

\* Signing for merchant m a token with a jti, whose session is SET and added to
\* the index, or the legacy token without one.
Sign(s, m, jti) ==
    LET t == Len(tokens) + 1 IN
    /\ tokens' = Append(tokens, [merchant |-> m, jti |-> jti])
    /\ sessions' = IF jti THEN sessions \cup {t} ELSE sessions
    /\ index' = IF jti THEN [index EXCEPT ![m] = Append(@, t)] ELSE index
    /\ req' = [req EXCEPT ![s] = [@ EXCEPT !.target = t, !.pc = IF jti THEN "card" ELSE "respond"]]
    /\ delivered' = IF jti THEN delivered ELSE delivered \cup {t}

\* wallet/verify signs a token only for a merchant that exists.
WalletSignIn(s) ==
    /\ At(s, "merchant") /\ req[s].kind = "verify"
    /\ IF "wallet" \in exists THEN Sign(s, "wallet", TRUE)
       ELSE Respond(s) /\ UNCHANGED <<tokens, sessions, index, delivered>>
    /\ UNCHANGED <<received, challengeVars, counterVars, exists, expired, revoked, retired, conc,
                   lapses, faults>>

\* The legacy route upserts the merchant, Google login finds or creates it.
FirstSignIn(s, kind, m, jti) ==
    /\ At(s, "merchant") /\ req[s].kind = kind
    /\ exists' = exists \cup {m}
    /\ Sign(s, m, jti)
    /\ UNCHANGED <<received, challengeVars, counterVars, expired, revoked, retired, conc, lapses,
                   faults>>

LegacySignIn(s) == FirstSignIn(s, "legacy", "wallet", FALSE)
GoogleSignIn(s) == FirstSignIn(s, "google", "google", TRUE)

\* Refresh signs for the merchant of the token it has revoked.
RefreshSignIn(s) ==
    /\ At(s, "merchant") /\ req[s].kind = "refresh"
    /\ Sign(s, tokens[req[s].token].merchant, TRUE)
    /\ UNCHANGED <<received, challengeVars, counterVars, exists, expired, revoked, retired, conc,
                   lapses, faults>>

\* createAuthSession: ZCARD, then ZRANGE of the surplus it showed.
Card(s) ==
    LET n == Len(index[tokens[req[s].target].merchant]) IN
    /\ At(s, "card")
    /\ IF n > SessionLimit
         THEN /\ req' = [req EXCEPT ![s] = [@ EXCEPT !.n = n - SessionLimit, !.pc = "range"]]
              /\ UNCHANGED delivered
         ELSE Respond(s) /\ delivered' = delivered \cup {req[s].target}
    /\ UNCHANGED <<received, challengeVars, counterVars, exists, tokens, expired, revoked,
                   sessions, index, retired, conc, lapses, faults>>

Range_(s) ==
    LET old == index[tokens[req[s].target].merchant] IN
    /\ At(s, "range")
    /\ req' = [req EXCEPT ![s] = [@ EXCEPT !.pc = "evict",
                  !.olds = SubSeq(old, 1, IF req[s].n < Len(old) THEN req[s].n ELSE Len(old))]]
    /\ UNCHANGED <<received, challengeVars, counterVars, tokenVars, conc, lapses, faults>>

\* createAuthSession: DEL of each evicted session, then ZREM.
Evict(s) ==
    /\ At(s, "evict")
    /\ sessions' = sessions \ ToSet(req[s].olds)
    /\ Goto(s, "unlist")
    /\ UNCHANGED <<received, challengeVars, counterVars, exists, tokens, delivered, expired,
                   revoked, index, retired, conc, lapses, faults>>

Unlist(s) ==
    LET m == tokens[req[s].target].merchant IN
    /\ At(s, "unlist")
    /\ index' = [index EXCEPT ![m] = SelectSeq(@, LAMBDA t : t \notin ToSet(req[s].olds))]
    /\ delivered' = delivered \cup {req[s].target}
    /\ Respond(s)
    /\ UNCHANGED <<received, challengeVars, counterVars, exists, tokens, expired, revoked,
                   sessions, retired, conc, lapses, faults>>

-----------------------------------------------------------------------------
\* authenticate: jwtVerify, then the revocation list.  Whoever passes jwtVerify is
\* request.user, whatever is answered.
Jwt(s) ==
    LET t == req[s].token IN
    /\ At(s, "jwt") /\ req[s].kind \in Authenticated
    /\ req' = [req EXCEPT ![s] = [@ EXCEPT
                  !.user = t \notin expired,
                  !.pc = IF t \in expired \cup revoked THEN "respond"
                         ELSE IF tokens[t].jti THEN "session" ELSE "incr"]]
    /\ UNCHANGED <<received, challengeVars, counterVars, tokenVars, conc, lapses, faults>>

\* POST /api/auth/refresh: the same checks, and a failure counts for the IP.
RefreshJwt(s) ==
    LET t == req[s].token IN
    /\ At(s, "jwt") /\ req[s].kind = "refresh"
    /\ req' = [req EXCEPT ![s] = [@ EXCEPT
                  !.user = t \notin expired, !.n = 1,
                  !.pc = IF t \in expired \cup revoked \/ ~tokens[t].jti
                           THEN "failIp" ELSE "rate"]]
    /\ UNCHANGED <<received, challengeVars, counterVars, tokenVars, conc, lapses, faults>>

\* updateSessionLastUsed: GET, then SET and ZADD of what was read.
SessionRead(s) ==
    /\ At(s, "session")
    /\ Goto(s, IF req[s].token \in sessions THEN "touch" ELSE "respond")
    /\ UNCHANGED <<received, challengeVars, counterVars, tokenVars, conc, lapses, faults>>

SessionTouch(s) ==
    LET t == req[s].token IN
    /\ At(s, "touch")
    /\ sessions' = sessions \cup {t}
    /\ index' = [index EXCEPT ![tokens[t].merchant] =
                    Append(SelectSeq(@, LAMBDA x : x # t), t)]
    /\ Goto(s, "incr")
    /\ UNCHANGED <<received, challengeVars, counterVars, exists, tokens, delivered, expired,
                   revoked, retired, conc, lapses, faults>>

\* The concurrency preHandler: INCR (the first one sets the TTL), and DECR with
\* 429 above the limit.
Incr(s) ==
    LET m == tokens[req[s].token].merchant IN
    /\ At(s, "incr")
    /\ conc' = [conc EXCEPT ![m] = @ + 1]
    /\ req' = [req EXCEPT ![s] = [@ EXCEPT !.counted = TRUE,
                  !.pc = IF conc'[m] > MaxConcurrency THEN "decr" ELSE "handler"]]
    /\ UNCHANGED <<received, challengeVars, counterVars, tokenVars, lapses, faults>>

Decr(s) ==
    /\ At(s, "decr")
    /\ conc' = [conc EXCEPT ![tokens[req[s].token].merchant] = @ - 1]
    /\ req' = [req EXCEPT ![s] = [@ EXCEPT !.counted = FALSE, !.pc = "respond"]]
    /\ UNCHANGED <<received, challengeVars, counterVars, tokenVars, lapses, faults>>

\* A handler that reads, such as GET /api/auth/sessions.
CallHandler(s) ==
    /\ At(s, "handler") /\ req[s].kind = "call"
    /\ Respond(s)
    /\ UNCHANGED <<received, challengeVars, counterVars, tokenVars, conc, lapses, faults>>

\* DELETE /api/auth/sessions/:jti
RevokeHandler(s) ==
    /\ At(s, "handler") /\ req[s].kind = "revoke"
    /\ Goto(s, "find")
    /\ UNCHANGED <<received, challengeVars, counterVars, tokenVars, conc, lapses, faults>>

\* POST /api/auth/logout is refused for a token without jti.
LogoutHandler(s) ==
    /\ At(s, "handler") /\ req[s].kind = "logout"
    /\ req' = [req EXCEPT ![s] = [@ EXCEPT !.target = req[s].token,
                  !.pc = IF tokens[req[s].token].jti THEN "revoke" ELSE "respond"]]
    /\ UNCHANGED <<received, challengeVars, counterVars, tokenVars, conc, lapses, faults>>

\* Refresh: the per-merchant rate.
Rate(s) ==
    /\ At(s, "rate")
    /\ refreshes' = refreshes + 1
    /\ Goto(s, IF refreshes' > RefreshMax THEN "respond" ELSE "revoke")
    /\ UNCHANGED <<received, challengeVars, fails, failTtl, gfails, score, tokenVars, conc, lapses, faults>>

\* Mutant: logout drops the session only.
RevokeNothing(s) ==
    /\ At(s, "revoke")
    /\ retired' = retired \cup {req[s].token}
    /\ Goto(s, IF req[s].kind = "logout" THEN "find" ELSE "ipRead")
    /\ UNCHANGED <<received, challengeVars, counterVars, exists, tokens, delivered, expired,
                   revoked, sessions, index, conc, lapses, faults>>

\* revokeJti for the token's remaining lifetime.
Revoke(s) ==
    /\ At(s, "revoke")
    /\ revoked' = IF req[s].token \in expired THEN revoked ELSE revoked \cup {req[s].token}
    /\ retired' = retired \cup {req[s].token}
    /\ Goto(s, IF req[s].kind = "logout" THEN "find" ELSE "ipRead")
    /\ UNCHANGED <<received, challengeVars, counterVars, exists, tokens, delivered, expired,
                   sessions, index, conc, lapses, faults>>

\* revokeAuthSession: GET, then DEL and ZREM.
Find(s) ==
    /\ At(s, "find")
    /\ Goto(s, IF req[s].target \in sessions
                    /\ tokens[req[s].target].merchant = tokens[req[s].token].merchant
                 THEN "drop" ELSE IF req[s].kind = "logout" THEN "discard" ELSE "respond")
    /\ UNCHANGED <<received, challengeVars, counterVars, tokenVars, conc, lapses, faults>>

Drop(s) ==
    LET j == req[s].target IN
    /\ At(s, "drop")
    /\ sessions' = sessions \ {j}
    /\ index' = [index EXCEPT ![tokens[j].merchant] = SelectSeq(@, LAMBDA t : t # j)]
    /\ Goto(s, IF req[s].kind = "logout" THEN "discard" ELSE "respond")
    /\ UNCHANGED <<received, challengeVars, counterVars, exists, tokens, delivered, expired,
                   revoked, retired, conc, lapses, faults>>

\* Logout: the merchant's outstanding challenge is deleted and the reply sent.
Discard(s) ==
    /\ At(s, "discard")
    /\ IF tokens[req[s].token].merchant = "wallet"
         THEN challenge' = 0 /\ overdue' = FALSE ELSE UNCHANGED <<challenge, overdue>>
    /\ Respond(s)
    /\ UNCHANGED <<received, claims, counterVars, tokenVars, conc, lapses, faults>>

\* Mutant: onResponse does not decrement.
ResponseWithoutDecr(s) ==
    /\ At(s, "respond")
    /\ conc' = conc
    /\ req' = [req EXCEPT ![s] = Idle]
    /\ UNCHANGED <<received, challengeVars, counterVars, tokenVars, lapses, faults>>

\* onResponse: DECR for every request whose user is known, counted or not.
Response(s) ==
    /\ At(s, "respond")
    /\ conc' = IF req[s].user THEN [conc EXCEPT ![tokens[req[s].token].merchant] = @ - 1] ELSE conc
    /\ req' = [req EXCEPT ![s] = Idle]
    /\ UNCHANGED <<received, challengeVars, counterVars, tokenVars, lapses, faults>>

\* A concurrency key of at least 1 has a TTL of 30 seconds (an error of the EXPIRE
\* alone is left out).
ConcExpires(m) ==
    /\ Lapse
    /\ conc[m] > 0
    /\ conc' = [conc EXCEPT ![m] = 0]
    /\ UNCHANGED <<req, received, challengeVars, counterVars, tokenVars, faults>>

\* A token reaches its exp; the revocation entry lasts as long.
TokenExpires(t) ==
    /\ Lapse
    /\ t \in delivered \ expired
    /\ expired' = expired \cup {t}
    /\ revoked' = revoked \ {t}
    /\ UNCHANGED <<req, received, challengeVars, counterVars, exists, tokens, delivered, sessions,
                   index, retired, conc, faults>>

-----------------------------------------------------------------------------
\* A Redis error: the request is answered with an error; where the code catches
\* it (IP score, lockout reset of Google, concurrency limit, challenge discard)
\* the request goes on without the effect.
Ignored == [ip |-> "locked", failIp |-> "failCount", ipRead |-> "merchant",
            ipWrite |-> "merchant", greset |-> "merchant", incr |-> "handler",
            decr |-> "handler", discard |-> "respond"]

RedisError(s) ==
    LET r == req[s] IN
    /\ Fault
    /\ r.pc \notin {"idle", "merchant", "handler"}
    /\ req' = [req EXCEPT ![s] =
          IF r.pc = "respond" THEN Idle
          ELSE [r EXCEPT !.pc = IF r.pc = "ip" /\ r.kind = "refresh" THEN "jwt"
                                ELSE IF r.pc \in DOMAIN Ignored /\ ~(r.pc = "failIp" /\ r.n = 1)
                                       THEN Ignored[r.pc] ELSE "respond",
                         !.user = @ \/ (r.pc = "jwt" /\ r.token \notin expired)]]
    /\ UNCHANGED <<received, challengeVars, counterVars, tokenVars, conc, lapses>>

\* The gateway instance that serves s dies.
Abort(s) ==
    /\ Fault
    /\ ~At(s, "idle")
    /\ req' = [req EXCEPT ![s] = Idle]
    /\ UNCHANGED <<received, challengeVars, counterVars, tokenVars, conc, lapses>>

-----------------------------------------------------------------------------
Init ==
    /\ req = [s \in Slots |-> Idle]
    /\ received = 0
    /\ challenge = 0 /\ overdue = FALSE /\ claims = <<>>
    /\ fails = 0 /\ failTtl = FALSE /\ gfails = 0 /\ score = 0 /\ refreshes = 0
    /\ exists = {"wallet"}
    /\ tokens = [t \in 1..OldTokens |-> [merchant |-> "wallet", jti |-> TRUE]]
    /\ delivered = 1..OldTokens
    /\ expired = {} /\ revoked = {}
    /\ sessions = 1..OldTokens
    /\ index = [m \in Merchants |-> IF m = "wallet" THEN [t \in 1..OldTokens |-> t] ELSE <<>>]
    /\ retired = {}
    /\ conc = [m \in Merchants |-> 0]
    /\ lapses = 0 /\ faults = 0

Arrival(s) ==
    \/ \E kind \in {"challenge", "verify", "legacy", "google"} : Receive(s, kind, 0, 0)
    \/ \E kind \in {"call", "logout", "refresh"}, t \in delivered : Receive(s, kind, t, 0)
    \/ \E t, j \in delivered : Receive(s, "revoke", t, j)

Step(s) ==
    \/ Issue(s) \/ CheckIp(s) \/ CheckLocked(s) \/ Consume(s) \/ LegacyConsume(s) \/ FailIp(s) \/ FailCount(s)
    \/ FailExpire(s) \/ Reset(s) \/ IpRead(s) \/ IpWrite(s)
    \/ GoogleCheck(s) \/ GoogleCount(s)
    \/ WalletSignIn(s) \/ LegacySignIn(s) \/ GoogleSignIn(s) \/ RefreshSignIn(s)
    \/ Card(s) \/ Range_(s) \/ Evict(s) \/ Unlist(s)
    \/ Jwt(s) \/ RefreshJwt(s) \/ SessionRead(s) \/ SessionTouch(s) \/ Incr(s) \/ Decr(s)
    \/ CallHandler(s) \/ RevokeHandler(s) \/ LogoutHandler(s)
    \/ Rate(s) \/ Revoke(s) \/ Find(s) \/ Drop(s) \/ Discard(s) \/ Response(s)

Next ==
    \/ \E s \in Slots : Arrival(s) \/ Step(s) \/ RedisError(s) \/ Abort(s)
    \/ ChallengeOverdue \/ LockoutExpires \/ CountersExpire
    \/ \E m \in Merchants : ConcExpires(m)
    \/ \E t \in delivered : TokenExpires(t)

Spec == Init /\ [][Next]_vars

\* Every request in progress is served to its end, and Redis reaps a key whose
\* TTL has passed.
FairSpec == Spec /\ WF_vars(LockoutExpires) /\ \A s \in Slots : WF_vars(Step(s))

-----------------------------------------------------------------------------
\* Every variable stays in its type; a slot's token is one that was signed.
TypeOK ==
    /\ \A s \in Slots : /\ req[s].kind \in Kinds /\ req[s].pc \in Pcs
                        /\ {req[s].token, req[s].target} \subseteq 0..Len(tokens)
    /\ challenge \in 0..Len(claims) /\ overdue \in BOOLEAN /\ failTtl \in BOOLEAN
    /\ {fails, gfails, score, refreshes, received, lapses, faults} \subseteq Nat
    /\ exists \subseteq Merchants
    /\ delivered \cup expired \cup revoked \cup sessions \cup retired \subseteq DOMAIN tokens
    /\ index \in [Merchants -> Seq(DOMAIN tokens)]
    /\ conc \in [Merchants -> Int]

\* A challenge is usable exactly once (wallet-challenge-store.ts:14): whatever
\* verifications run at the same time, by either route, one at most claims it.
ChallengeUsedOnce == \A c \in DOMAIN claims : claims[c] <= 1

\* A request that begins after logout or refresh revoked its token never reaches
\* a handler, although updateSessionLastUsed of a request that was in progress
\* may have written the session back.
RevokedIsFinal == \A s \in Slots : req[s].late => req[s].pc \notin {"incr", "handler", "rate"}

\* The concurrency counter never exceeds the requests it counts, one more for
\* each fault at most: no merchant is refused for requests it does not have.
NeverOvercounted ==
    \A m \in Merchants :
        conc[m] <= faults + Cardinality({s \in Slots : req[s].counted
                                                      /\ tokens[req[s].token].merchant = m})

\* The lockout of a wallet ends as long as Redis answers: the counter always gets
\* its TTL, also when failures race a reset.
LockoutEnds == [](faults = 0) => (fails >= MaxFailures ~> fails < MaxFailures)

=============================================================================
