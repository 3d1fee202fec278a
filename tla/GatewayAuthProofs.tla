-------------------------- MODULE GatewayAuthProofs -------------------------
(***************************************************************************)
(* Proofs about the gateway's authentication, for any number of requests   *)
(* in progress, limits, Redis errors and aborted requests: a challenge is  *)
(* claimed at most once, a token that logout or refresh has revoked never  *)
(* gets another request past authentication, and the counter of concurrent *)
(* requests runs ahead of them by no more than one for each fault.         *)
(***************************************************************************)
EXTENDS GatewayAuth, FiniteSetTheorems, TLAPS

-----------------------------------------------------------------------------
(* Challenges                                                              *)

ChallengeInv ==
    /\ claims \in Seq(Nat)
    /\ challenge \in 0..Len(claims)
    /\ \A c \in 1..Len(claims) : claims[c] <= 1
    /\ challenge # 0 => claims[challenge] = 0

\* What a step can do to the outstanding challenge: leave it, replace it, claim
\* it, or forget it.
ChallengeEffect ==
    \/ UNCHANGED <<challenge, claims>>
    \/ claims' = Append(claims, 0) /\ challenge' = Len(claims')
    \/ ClaimChallenge
    \/ challenge' = 0 /\ UNCHANGED claims

LEMMA ChallengeEffects == [Next]_vars => ChallengeEffect
<1> SUFFICES ASSUME [Next]_vars PROVE ChallengeEffect
  OBVIOUS
<1> USE DEF ChallengeEffect, challengeVars
<1>1. ASSUME NEW s \in Slots, Arrival(s) PROVE ChallengeEffect
  BY <1>1 DEF Arrival, Receive
<1>2. ASSUME NEW s \in Slots, Step(s) PROVE ChallengeEffect
  <2>1. CASE Issue(s) \/ Consume(s) \/ LegacyConsume(s) \/ Discard(s)
    BY <2>1 DEF Issue, Consume, LegacyConsume, Discard
  <2>2. CASE \/ CheckIp(s) \/ CheckLocked(s) \/ FailIp(s) \/ FailCount(s) \/ FailExpire(s)
             \/ Reset(s) \/ IpRead(s) \/ IpWrite(s) \/ GoogleCheck(s) \/ GoogleCount(s)
    BY <2>2 DEF CheckIp, CheckLocked, FailIp, FailCount, FailExpire, Reset, IpRead, IpWrite,
                GoogleCheck, GoogleCount
  <2>3. CASE \/ WalletSignIn(s) \/ LegacySignIn(s) \/ GoogleSignIn(s) \/ RefreshSignIn(s)
             \/ Card(s) \/ Range_(s) \/ Evict(s) \/ Unlist(s)
    BY <2>3 DEF WalletSignIn, LegacySignIn, GoogleSignIn, FirstSignIn, RefreshSignIn, Card,
                Range_, Evict, Unlist
  <2>4. CASE \/ Jwt(s) \/ RefreshJwt(s) \/ SessionRead(s) \/ SessionTouch(s) \/ Incr(s)
             \/ Decr(s) \/ CallHandler(s) \/ RevokeHandler(s) \/ LogoutHandler(s)
    BY <2>4 DEF Jwt, RefreshJwt, SessionRead, SessionTouch, Incr, Decr, CallHandler,
                RevokeHandler, LogoutHandler
  <2>5. CASE Rate(s) \/ Revoke(s) \/ Find(s) \/ Drop(s) \/ Response(s)
    BY <2>5 DEF Rate, Revoke, Find, Drop, Response
  <2>6. QED
    BY <1>2, <2>1, <2>2, <2>3, <2>4, <2>5 DEF Step
<1>3. ASSUME NEW s \in Slots, RedisError(s) \/ Abort(s) PROVE ChallengeEffect
  BY <1>3 DEF RedisError, Abort
<1>4. ChallengeOverdue => ChallengeEffect
  BY DEF ChallengeOverdue
<1>5. LockoutExpires \/ CountersExpire => ChallengeEffect
  BY DEF LockoutExpires, CountersExpire
<1>6. \A m \in Merchants : ConcExpires(m) => ChallengeEffect
  BY DEF ConcExpires
<1>7. \A t \in delivered : TokenExpires(t) => ChallengeEffect
  BY DEF TokenExpires
<1>8. CASE UNCHANGED vars
  BY <1>8 DEF vars
<1>9. QED
  BY <1>1, <1>2, <1>3, <1>4, <1>5, <1>6, <1>7, <1>8 DEF Next

\* A fresh challenge has not been claimed, and claiming it removes it.
LEMMA ChallengeStep == ChallengeInv /\ ChallengeEffect => ChallengeInv'
<1> SUFFICES ASSUME ChallengeInv, ChallengeEffect PROVE ChallengeInv'
  OBVIOUS
<1> USE DEF ChallengeInv
<1>1. CASE UNCHANGED <<challenge, claims>>
  BY <1>1
<1>2. CASE claims' = Append(claims, 0) /\ challenge' = Len(claims')
  <2>1. /\ claims' \in Seq(Nat) /\ Len(claims') = Len(claims) + 1
        /\ \A c \in 1..Len(claims) : claims'[c] = claims[c]
        /\ claims'[Len(claims')] = 0
    BY <1>2
  <2>2. QED
    BY <1>2, <2>1
<1>3. CASE ClaimChallenge
  <2>1. CASE challenge = 0
    BY <1>3, <2>1 DEF ClaimChallenge
  <2>2. CASE challenge # 0
    <3>1. claims' = [claims EXCEPT ![challenge] = @ + 1] /\ challenge' = 0
      BY <1>3, <2>2 DEF ClaimChallenge
    <3>2. claims[challenge] + 1 = 1 /\ challenge \in 1..Len(claims)
      BY <2>2
    <3>3. /\ claims' \in Seq(Nat) /\ Len(claims') = Len(claims)
          /\ \A c \in 1..Len(claims) : c # challenge => claims'[c] = claims[c]
          /\ claims'[challenge] = 1
      BY <3>1, <3>2
    <3>4. QED
      BY <3>1, <3>3
  <2>3. QED
    BY <2>1, <2>2
<1>4. CASE challenge' = 0 /\ UNCHANGED claims
  BY <1>4
<1>5. QED
  BY <1>1, <1>2, <1>3, <1>4 DEF ChallengeEffect

\* "A challenge is usable exactly once" (wallet-challenge-store.ts:14): GET and
\* DEL in one script are enough against any overlap of the two verify routes,
\* new challenges, deadlines and logouts.
THEOREM ChallengeUsedOnceAlways == Spec => []ChallengeUsedOnce
<1>1. Init => ChallengeInv
  BY DEF Init, ChallengeInv
<1>2. ChallengeInv /\ [Next]_vars => ChallengeInv'
  BY ChallengeEffects, ChallengeStep
<1>3. ChallengeInv => ChallengeUsedOnce
  BY DEF ChallengeInv, ChallengeUsedOnce
<1>4. QED
  BY <1>1, <1>2, <1>3, PTL DEF Spec

-----------------------------------------------------------------------------
(* Revocation                                                              *)

Token == [merchant : Merchants, jti : BOOLEAN]
Presenting == Authenticated \cup {"refresh"}  \* the requests that carry a token
Signed == {"card", "range", "evict", "unlist"}

\* A request's locals are a record.
Record(r) == r = [kind |-> r.kind, pc |-> r.pc, token |-> r.token, target |-> r.target,
                  late |-> r.late, user |-> r.user, counted |-> r.counted, n |-> r.n,
                  olds |-> r.olds]

\* Where a request with a revoked token can be: before the check or refused.
Refused(r) ==
    \/ r.pc \in {"jwt", "respond"}
    \/ r.kind = "refresh" /\ (r.pc = "ip" \/ (r.pc = "failIp" /\ r.n = 1))

\* What is true of a request when n tokens have been signed and those in gone
\* have been revoked.
Good(r, n, gone) ==
    /\ r.pc # "idle" /\ r.kind \in Presenting => r.token \in 1..n
    /\ r.pc \in Signed => r.target \in 1..n
    /\ r.pc = "rate" => r.kind = "refresh"
    /\ r.pc = "revoke" => r.kind \in {"logout", "refresh"}
    /\ r.late \in BOOLEAN
    /\ r.late => r.kind \in Presenting /\ r.token \in gone /\ Refused(r)

AuthInv ==
    /\ req = [s \in Slots |-> req[s]]
    /\ \A s \in Slots : Record(req[s]) /\ Good(req[s], Len(tokens), retired)
    /\ tokens \in Seq(Token)
    /\ delivered \subseteq 1..Len(tokens)
    /\ retired \subseteq 1..Len(tokens)
    /\ retired \subseteq revoked \cup expired

\* More tokens, more revoked ones: what was true stays true.
LEMMA GoodMonotone ==
  ASSUME NEW r, NEW n \in Nat, NEW m \in Nat, n <= m, NEW g, NEW h, g \subseteq h,
         Good(r, n, g)
  PROVE  Good(r, m, h)
BY DEF Good

\* A step of one request.
LEMMA RequestStep ==
  ASSUME AuthInv, NEW s \in Slots, NEW v, Record(v), req' = [req EXCEPT ![s] = v],
         tokens' \in Seq(Token), Len(tokens) <= Len(tokens'),
         delivered' \subseteq 1..Len(tokens'),
         retired \subseteq retired', retired' \subseteq 1..Len(tokens'),
         retired' \subseteq revoked' \cup expired',
         Good(v, Len(tokens'), retired')
  PROVE  AuthInv'
<1> USE DEF AuthInv
<1>1. Len(tokens) \in Nat /\ Len(tokens') \in Nat
  OBVIOUS
<1>2. \A q \in Slots : q # s => req'[q] = req[q]
  OBVIOUS
<1>3. req'[s] = v /\ req' = [q \in Slots |-> req'[q]]
  OBVIOUS
<1>4. \A q \in Slots : Record(req'[q]) /\ Good(req'[q], Len(tokens'), retired')
  BY <1>1, <1>2, <1>3, GoodMonotone
<1>5. QED
  BY <1>3, <1>4

tokenState == <<tokens, delivered, expired, revoked, retired>>

\* A step of one request that signs, delivers and revokes nothing.
LEMMA LocalStep ==
  ASSUME AuthInv, NEW s \in Slots, NEW v, Record(v), req' = [req EXCEPT ![s] = v],
         UNCHANGED tokenState, Good(v, Len(tokens), retired)
  PROVE  AuthInv'
<1>1. UNCHANGED <<tokens, delivered, expired, revoked, retired>>
  BY DEF tokenState
<1>2. Len(tokens) \in Nat
  BY DEF AuthInv
<1>3. QED
  BY <1>1, <1>2, RequestStep DEF AuthInv

\* The same for one that only moves on, to a place no revoked token reaches.
LEMMA GotoStep ==
  ASSUME AuthInv, NEW s \in Slots, NEW pc, Goto(s, pc), UNCHANGED tokenState,
         req[s].pc # "idle",
         pc \in Signed => req[s].pc \in Signed,
         pc = "rate" => req[s].kind = "refresh",
         pc = "revoke" => req[s].kind \in {"logout", "refresh"},
         pc \in {"jwt", "respond"} \/ ~Refused(req[s])
  PROVE  AuthInv'
<1> DEFINE v == [req[s] EXCEPT !.pc = pc]
<1>1. Record(req[s]) /\ Good(req[s], Len(tokens), retired)
  BY DEF AuthInv
<1>2. v = [kind |-> req[s].kind, pc |-> pc, token |-> req[s].token, target |-> req[s].target,
           late |-> req[s].late, user |-> req[s].user, counted |-> req[s].counted,
           n |-> req[s].n, olds |-> req[s].olds]
  BY <1>1 DEF Record
<1>3. Record(v) /\ v.pc = pc /\ v.kind = req[s].kind /\ v.token = req[s].token
      /\ v.target = req[s].target /\ v.late = req[s].late
  BY <1>2 DEF Record
<1>4. req' = [req EXCEPT ![s] = v]
  BY DEF Goto
<1> HIDE DEF v
<1>5. Good(v, Len(tokens), retired)
  BY <1>1, <1>3 DEF Good, Refused
<1>6. QED
  BY <1>3, <1>4, <1>5, LocalStep

\* A request that stays itself and goes on at pc, whatever else it remembers.
Continues(v, r, pc) ==
    /\ Record(v) /\ v.kind = r.kind /\ v.token = r.token /\ v.late = r.late
    /\ v.pc = pc

\* The steps that change more of a request than its place leave it itself.
LEMMA PcOlds ==
  ASSUME NEW r, Record(r), NEW pc, NEW a, NEW v, v = [r EXCEPT !.pc = pc, !.olds = a]
  PROVE  Continues(v, r, pc) /\ v.target = r.target
BY DEF Record, Continues

LEMMA UserPc ==
  ASSUME NEW r, Record(r), NEW pc, NEW a, NEW v, v = [r EXCEPT !.user = a, !.pc = pc]
  PROVE  Continues(v, r, pc) /\ v.target = r.target
BY DEF Record, Continues

LEMMA PcUser ==
  ASSUME NEW r, Record(r), NEW pc, NEW a, NEW v, v = [r EXCEPT !.pc = pc, !.user = a]
  PROVE  Continues(v, r, pc) /\ v.target = r.target
BY DEF Record, Continues

LEMMA CountedPc ==
  ASSUME NEW r, Record(r), NEW pc, NEW a, NEW v, v = [r EXCEPT !.counted = a, !.pc = pc]
  PROVE  Continues(v, r, pc) /\ v.target = r.target
BY DEF Record, Continues

LEMMA FirstFailure ==
  ASSUME NEW r, Record(r), NEW v, v = [r EXCEPT !.pc = "failIp", !.n = 1]
  PROVE  Continues(v, r, "failIp")
BY DEF Record, Continues

LEMMA NPc ==
  ASSUME NEW r, Record(r), NEW pc, NEW a, NEW v, v = [r EXCEPT !.n = a, !.pc = pc]
  PROVE  Continues(v, r, pc) /\ v.target = r.target
BY DEF Record, Continues

LEMMA UserNPc ==
  ASSUME NEW r, Record(r), NEW pc, NEW b, NEW a, NEW v, v = [r EXCEPT !.user = b, !.n = a, !.pc = pc]
  PROVE  Continues(v, r, pc) /\ v.n = a
BY DEF Record, Continues

\* The step of such a request.
LEMMA OtherLocals ==
  ASSUME AuthInv, NEW s \in Slots, NEW v, NEW pc, req' = [req EXCEPT ![s] = v],
         UNCHANGED tokenState, req[s].pc # "idle", Continues(v, req[s], pc),
         pc \in Signed => v.target \in 1..Len(tokens),
         pc = "rate" => req[s].kind = "refresh",
         pc = "revoke" => req[s].kind \in {"logout", "refresh"},
         req[s].late => Refused(v)
  PROVE  AuthInv'
<1>1. Good(req[s], Len(tokens), retired)
  BY DEF AuthInv
<1>2. Good(v, Len(tokens), retired) /\ Record(v)
  BY <1>1 DEF Good, Continues
<1>3. QED
  BY <1>2, LocalStep

LEMMA IdleIsGood == Record(Idle) /\ \A n, gone : Good(Idle, n, gone)
BY DEF Idle, Record, Good, Signed

\* Moving on from anywhere a revoked token is not.
LEMMA SafeGoto ==
  ASSUME AuthInv, NEW s \in Slots, NEW pc, Goto(s, pc), UNCHANGED tokenState,
         req[s].pc \notin {"idle", "jwt", "ip", "failIp"},
         req[s].pc = "respond" => pc = "respond",
         pc \notin Signed \/ req[s].pc \in Signed, pc \notin {"rate", "revoke"}
  PROVE  AuthInv'
BY GotoStep DEF Refused

LEMMA SignInChecks ==
  ASSUME AuthInv, NEW s \in Slots,
         \/ Issue(s) \/ CheckIp(s) \/ CheckLocked(s) \/ Consume(s) \/ LegacyConsume(s)
         \/ FailIp(s) \/ FailCount(s) \/ FailExpire(s) \/ Reset(s) \/ IpRead(s) \/ IpWrite(s)
         \/ GoogleCheck(s) \/ GoogleCount(s)
  PROVE  AuthInv'
<1> USE DEF At, Respond
<1>0. Record(req[s])
  BY DEF AuthInv
<1>1. CASE Issue(s)
  BY <1>1, SafeGoto DEF Issue, tokenVars, tokenState, Signed
<1>2. CASE CheckIp(s)
  <2>1. req[s].pc = "ip" /\ UNCHANGED tokenState
    BY <1>2 DEF CheckIp, tokenVars, tokenState
  <2>2. CASE Goto(s, "respond") \/ Goto(s, "jwt")
    BY <2>1, <2>2, GotoStep DEF Signed
  <2>3. CASE req[s].kind = "verify" /\ Goto(s, "locked")
    BY <2>1, <2>3, GotoStep DEF Signed, Refused
  <2>4. CASE /\ req[s].kind = "verify"
             /\ req' = [req EXCEPT ![s] = [@ EXCEPT !.pc = "failIp", !.n = 1]]
    <3>0. PICK v : v = [req[s] EXCEPT !.pc = "failIp", !.n = 1]
      OBVIOUS
    <3>1. req' = [req EXCEPT ![s] = v]
      BY <2>4, <3>0
    <3>2. Continues(v, req[s], "failIp")
      BY <1>0, <3>0, FirstFailure
    <3>3. ~req[s].late
      BY <2>1, <2>4 DEF AuthInv, Good, Presenting, Authenticated
    <3>4. QED
      BY <2>1, <3>1, <3>2, <3>3, OtherLocals DEF Signed
  <2>5. QED
    BY <1>2, <2>1, <2>2, <2>3, <2>4 DEF CheckIp
<1>3. CASE CheckLocked(s)
  BY <1>3, SafeGoto DEF CheckLocked, tokenVars, tokenState, Signed
<1>4. CASE Consume(s) \/ LegacyConsume(s)
  BY <1>4, SafeGoto DEF Consume, LegacyConsume, tokenVars, tokenState, Signed
<1>5. CASE FailIp(s)
  <2>1. req[s].pc = "failIp" /\ UNCHANGED tokenState
    BY <1>5 DEF FailIp, tokenVars, tokenState
  <2>2. CASE req[s].n = 1
    BY <1>5, <2>1, <2>2, GotoStep DEF FailIp, Signed
  <2>3. CASE req[s].n # 1
    BY <1>5, <2>1, <2>3, GotoStep DEF FailIp, Signed, Refused
  <2>4. QED
    BY <2>2, <2>3
<1>6. CASE FailCount(s)
  BY <1>6, SafeGoto DEF FailCount, tokenVars, tokenState, Signed
<1>7. CASE FailExpire(s)
  BY <1>7, SafeGoto DEF FailExpire, tokenVars, tokenState, Signed
<1>8. CASE Reset(s)
  BY <1>8, SafeGoto DEF Reset, tokenVars, tokenState, Signed
<1>9. CASE IpRead(s)
  <2>0. PICK v : v = [req[s] EXCEPT !.n = score, !.pc = "ipWrite"]
    OBVIOUS
  <2>1. /\ req[s].pc = "ipRead" /\ UNCHANGED tokenState
        /\ req' = [req EXCEPT ![s] = v]
    BY <1>9, <2>0 DEF IpRead, tokenVars, tokenState
  <2>2. Continues(v, req[s], "ipWrite")
    BY <1>0, <2>0, NPc
  <2>3. ~req[s].late
    BY <2>1 DEF AuthInv, Good, Refused
  <2>4. QED
    BY <2>1, <2>2, <2>3, OtherLocals DEF Signed
<1>10. CASE IpWrite(s)
  BY <1>10, SafeGoto DEF IpWrite, tokenVars, tokenState, Signed
<1>11. CASE GoogleCheck(s)
  BY <1>11, SafeGoto DEF GoogleCheck, tokenVars, tokenState, Signed
<1>12. CASE GoogleCount(s)
  BY <1>12, SafeGoto DEF GoogleCount, tokenVars, tokenState, Signed
<1>13. QED
  BY <1>1, <1>2, <1>3, <1>4, <1>5, <1>6, <1>7, <1>8, <1>9, <1>10, <1>11, <1>12

\* Signing: the new token is nobody's yet.
LEMMA SignStep ==
  ASSUME AuthInv, NEW s \in Slots, NEW m \in Merchants, NEW jti \in BOOLEAN,
         Sign(s, m, jti), req[s].pc = "merchant", UNCHANGED <<expired, revoked, retired>>
  PROVE  AuthInv'
<1> DEFINE t == Len(tokens) + 1
           to == IF jti THEN "card" ELSE "respond"
<1>0. PICK v : v = [req[s] EXCEPT !.target = t, !.pc = to]
  OBVIOUS
<1>1. Record(req[s]) /\ Good(req[s], Len(tokens), retired) /\ Len(tokens) \in Nat
      /\ tokens \in Seq(Token)
  BY DEF AuthInv
<1>2. [merchant |-> m, jti |-> jti] \in Token
  BY DEF Token
<1>3. tokens' \in Seq(Token) /\ Len(tokens') = t
  BY <1>1, <1>2 DEF Sign
<1>4. delivered' \subseteq 1..t /\ retired \subseteq 1..t
  BY <1>1 DEF Sign, AuthInv
<1>5. req' = [req EXCEPT ![s] = v]
  BY <1>0 DEF Sign
<1>6. Continues(v, req[s], to) /\ v.target = t
  <2>0. Record(req[s])
    BY <1>1
  <2> HIDE DEF t, to
  <2>1. Continues(v, req[s], to)
    BY <1>0, <2>0 DEF Record, Continues
  <2>2. v.target = t
    BY <1>0, <1>1 DEF Record
  <2>3. QED
    BY <2>1, <2>2
<1>7. ~req[s].late
  BY <1>1 DEF Good, Refused
<1>8. Good(v, t, retired) /\ Record(v)
  BY <1>1, <1>6, <1>7 DEF Good, Continues, Signed
<1>9. QED
  BY <1>1, <1>3, <1>4, <1>5, <1>8, RequestStep, SMTT(30) DEF AuthInv

LEMMA SignIns ==
  ASSUME AuthInv, NEW s \in Slots,
         WalletSignIn(s) \/ LegacySignIn(s) \/ GoogleSignIn(s) \/ RefreshSignIn(s)
  PROVE  AuthInv'
<1> USE DEF At, Merchants
<1>1. CASE WalletSignIn(s)
  <2>1. CASE "wallet" \in exists
    BY <1>1, <2>1, SignStep DEF WalletSignIn
  <2>2. CASE "wallet" \notin exists
    BY <1>1, <2>2, SafeGoto DEF WalletSignIn, Respond, tokenState, Signed
  <2>3. QED
    BY <2>1, <2>2
<1>2. CASE LegacySignIn(s)
  BY <1>2, SignStep DEF LegacySignIn, FirstSignIn
<1>3. CASE GoogleSignIn(s)
  BY <1>3, SignStep DEF GoogleSignIn, FirstSignIn
<1>4. CASE RefreshSignIn(s)
  <2>1. req[s].token \in 1..Len(tokens) /\ tokens \in Seq(Token)
    BY <1>4 DEF RefreshSignIn, AuthInv, Good, Presenting
  <2>2. tokens[req[s].token] \in Token
    BY <2>1
  <2>3. tokens[req[s].token].merchant \in Merchants
    BY <2>2 DEF Token
  <2>4. QED
    BY <1>4, <2>3, SignStep DEF RefreshSignIn
<1>5. QED
  BY <1>1, <1>2, <1>3, <1>4

\* The client gets the token that its request has just signed.
LEMMA Deliver ==
  ASSUME AuthInv, NEW s \in Slots, req[s].pc \in Signed, Goto(s, "respond"),
         delivered' = delivered \cup {req[s].target},
         UNCHANGED <<tokens, expired, revoked, retired>>
  PROVE  AuthInv'
<1>0. PICK v : v = [req[s] EXCEPT !.pc = "respond", !.user = req[s].user]
  OBVIOUS
<1>1. Record(req[s]) /\ Good(req[s], Len(tokens), retired) /\ Len(tokens) \in Nat
  BY DEF AuthInv
<1>2. req[s].target \in 1..Len(tokens) /\ ~req[s].late
  BY <1>1 DEF Good, Refused, Signed
<1>3. Continues(v, req[s], "respond")
  BY <1>0, <1>1, PcUser
<1>4. v = [req[s] EXCEPT !.pc = "respond"]
  BY <1>0, <1>1 DEF Record
<1>5. req' = [req EXCEPT ![s] = v]
  BY <1>4 DEF Goto
<1>6. Good(v, Len(tokens), retired) /\ Record(v)
  BY <1>1, <1>2, <1>3 DEF Good, Continues, Signed
<1>7. QED
  BY <1>1, <1>2, <1>5, <1>6, RequestStep DEF AuthInv

LEMMA SessionLimits ==
  ASSUME AuthInv, NEW s \in Slots, Card(s) \/ Range_(s) \/ Evict(s) \/ Unlist(s)
  PROVE  AuthInv'
<1> USE DEF At
<1>0. Record(req[s]) /\ Good(req[s], Len(tokens), retired) /\ req[s].pc \in Signed
  BY DEF AuthInv, Card, Range_, Evict, Unlist, Signed
<1>1. req[s].target \in 1..Len(tokens) /\ ~req[s].late
  BY <1>0 DEF Good, Refused, Signed
<1>2. CASE Card(s)
  <2> DEFINE n == Len(index[tokens[req[s].target].merchant])
  <2>0. PICK v : v = [req[s] EXCEPT !.n = n - SessionLimit, !.pc = "range"]
    OBVIOUS
  <2>1. CASE n > SessionLimit
    <3>1. req' = [req EXCEPT ![s] = v] /\ UNCHANGED tokenState /\ req[s].pc = "card"
      BY <1>2, <2>0, <2>1 DEF Card, tokenState
    <3>2. Continues(v, req[s], "range") /\ v.target = req[s].target
      <4>1. Continues(v, req[s], "range")
        BY <1>0, <2>0, NPc
      <4>2. v.target = req[s].target
        BY <1>0, <2>0 DEF Record
      <4>3. QED
        BY <4>1, <4>2
    <3>3. QED
      BY <1>1, <3>1, <3>2, OtherLocals
  <2>2. CASE ~(n > SessionLimit)
    <3>1. /\ Goto(s, "respond") /\ delivered' = delivered \cup {req[s].target}
          /\ UNCHANGED <<tokens, expired, revoked, retired>>
      BY <1>2, <2>2 DEF Card, Respond
    <3>2. QED
      BY <1>0, <3>1, Deliver
  <2>3. QED
    BY <2>1, <2>2
<1>3. CASE Range_(s)
  <2> DEFINE old == index[tokens[req[s].target].merchant]
             o == SubSeq(old, 1, IF req[s].n < Len(old) THEN req[s].n ELSE Len(old))
  <2>0. PICK v : v = [req[s] EXCEPT !.pc = "evict", !.olds = o]
    OBVIOUS
  <2>1. req' = [req EXCEPT ![s] = v] /\ UNCHANGED tokenState /\ req[s].pc = "range"
    BY <1>3, <2>0 DEF Range_, tokenVars, tokenState
  <2> HIDE DEF o
  <2>2. Continues(v, req[s], "evict") /\ v.target = req[s].target
    <3>1. Continues(v, req[s], "evict")
      BY <1>0, <2>0, PcOlds
    <3>2. v.target = req[s].target
      BY <1>0, <2>0 DEF Record
    <3>3. QED
      BY <3>1, <3>2
  <2>3. QED
    BY <1>1, <2>1, <2>2, OtherLocals
<1>4. CASE Evict(s)
  BY <1>4, SafeGoto DEF Evict, tokenState, Signed
<1>5. CASE Unlist(s)
  BY <1>0, <1>5, Deliver DEF Unlist, Respond
<1>6. QED
  BY <1>2, <1>3, <1>4, <1>5

LEMMA Authentication ==
  ASSUME AuthInv, NEW s \in Slots,
         Jwt(s) \/ RefreshJwt(s) \/ SessionRead(s) \/ SessionTouch(s)
  PROVE  AuthInv'
<1> USE DEF At
<1>0. Record(req[s]) /\ Good(req[s], Len(tokens), retired) /\ retired \subseteq revoked \cup expired
  BY DEF AuthInv
<1>1. CASE Jwt(s)
  <2> DEFINE t == req[s].token
             user == t \notin expired
             to == IF t \in expired \cup revoked THEN "respond"
                   ELSE IF tokens[t].jti THEN "session" ELSE "incr"
  <2>0. PICK v : v = [req[s] EXCEPT !.user = user, !.pc = to]
    OBVIOUS
  <2>1. req' = [req EXCEPT ![s] = v] /\ UNCHANGED tokenState /\ req[s].pc = "jwt"
    BY <1>1, <2>0 DEF Jwt, tokenVars, tokenState
  <2>2. to \in {"respond", "session", "incr"}
    OBVIOUS
  <2>3. req[s].late => to = "respond"
    BY <1>0 DEF Good
  <2> HIDE DEF user, to
  <2>4. Continues(v, req[s], to)
    BY <1>0, <2>0 DEF Record, Continues
  <2>5. QED
    BY <2>1, <2>2, <2>3, <2>4, OtherLocals DEF Signed, Refused, Continues
<1>2. CASE RefreshJwt(s)
  <2> DEFINE t == req[s].token
             user == t \notin expired
             to == IF t \in expired \cup revoked \/ ~tokens[t].jti THEN "failIp" ELSE "rate"
  <2>0. PICK v : v = [req[s] EXCEPT !.user = user, !.n = 1, !.pc = to]
    OBVIOUS
  <2>1. /\ req' = [req EXCEPT ![s] = v] /\ UNCHANGED tokenState
        /\ req[s].pc = "jwt" /\ req[s].kind = "refresh"
    BY <1>2, <2>0 DEF RefreshJwt, tokenVars, tokenState
  <2>2. to \in {"failIp", "rate"}
    OBVIOUS
  <2>3. req[s].late => to = "failIp"
    BY <1>0 DEF Good
  <2> HIDE DEF user, to
  <2>4. Continues(v, req[s], to) /\ v.n = 1
    BY <1>0, <2>0 DEF Record, Continues
  <2>5. QED
    BY <2>1, <2>2, <2>3, <2>4, OtherLocals DEF Signed, Refused, Continues
<1>3. CASE SessionRead(s)
  BY <1>3, SafeGoto DEF SessionRead, tokenVars, tokenState, Signed
<1>4. CASE SessionTouch(s)
  BY <1>4, SafeGoto DEF SessionTouch, tokenState, Signed
<1>5. QED
  BY <1>1, <1>2, <1>3, <1>4

LEMMA Concurrency ==
  ASSUME AuthInv, NEW s \in Slots, Incr(s) \/ Decr(s)
  PROVE  AuthInv'
<1> USE DEF At
<1>0. Record(req[s]) /\ Good(req[s], Len(tokens), retired)
  BY DEF AuthInv
<1>1. CASE Incr(s)
  <2> DEFINE m == tokens[req[s].token].merchant
             to == IF conc'[m] > MaxConcurrency THEN "decr" ELSE "handler"
  <2>0. PICK v : v = [req[s] EXCEPT !.counted = TRUE, !.pc = to]
    OBVIOUS
  <2>1. req' = [req EXCEPT ![s] = v] /\ UNCHANGED tokenState /\ req[s].pc = "incr"
    BY <1>1, <2>0 DEF Incr, tokenVars, tokenState
  <2>2. to \in {"decr", "handler"} /\ ~req[s].late
    BY <1>0, <2>1 DEF Good, Refused
  <2> HIDE DEF to
  <2>3. Continues(v, req[s], to)
    BY <1>0, <2>0, CountedPc
  <2>4. QED
    BY <2>1, <2>2, <2>3, OtherLocals DEF Signed
<1>2. CASE Decr(s)
  <2>0. PICK v : v = [req[s] EXCEPT !.counted = FALSE, !.pc = "respond"]
    OBVIOUS
  <2>1. req' = [req EXCEPT ![s] = v] /\ UNCHANGED tokenState /\ req[s].pc = "decr"
    BY <1>2, <2>0 DEF Decr, tokenVars, tokenState
  <2>2. Continues(v, req[s], "respond")
    BY <1>0, <2>0, CountedPc
  <2>3. QED
    BY <2>1, <2>2, OtherLocals DEF Signed, Refused, Continues
<1>3. QED
  BY <1>1, <1>2

LEMMA Handlers ==
  ASSUME AuthInv, NEW s \in Slots,
         \/ CallHandler(s) \/ RevokeHandler(s) \/ LogoutHandler(s) \/ Rate(s) \/ Revoke(s)
         \/ Find(s) \/ Drop(s) \/ Discard(s) \/ Response(s)
  PROVE  AuthInv'
<1> USE DEF At, Respond
<1>0. Record(req[s]) /\ Good(req[s], Len(tokens), retired)
  BY DEF AuthInv
<1>1. CASE CallHandler(s)
  BY <1>1, SafeGoto DEF CallHandler, tokenVars, tokenState, Signed
<1>2. CASE RevokeHandler(s)
  BY <1>2, SafeGoto DEF RevokeHandler, tokenVars, tokenState, Signed
<1>3. CASE LogoutHandler(s)
  <2> DEFINE to == IF tokens[req[s].token].jti THEN "revoke" ELSE "respond"
  <2>0. PICK v : v = [req[s] EXCEPT !.target = req[s].token, !.pc = to]
    OBVIOUS
  <2>1. /\ req' = [req EXCEPT ![s] = v] /\ UNCHANGED tokenState
        /\ req[s].pc = "handler" /\ req[s].kind = "logout"
    BY <1>3, <2>0 DEF LogoutHandler, tokenVars, tokenState
  <2>2. to \in {"revoke", "respond"} /\ ~req[s].late
    BY <1>0, <2>1 DEF Good, Refused
  <2> HIDE DEF to
  <2>3. Continues(v, req[s], to)
    BY <1>0, <2>0 DEF Record, Continues
  <2>4. QED
    BY <2>1, <2>2, <2>3, OtherLocals DEF Signed
<1>4. CASE Rate(s)
  <2>1. req[s].kind = "refresh" /\ ~Refused(req[s]) /\ UNCHANGED tokenState
    BY <1>0, <1>4 DEF Rate, Good, Refused, tokenVars, tokenState
  <2>2. CASE Goto(s, "respond")
    BY <1>4, <2>1, <2>2, GotoStep DEF Rate, Signed
  <2>3. CASE Goto(s, "revoke")
    BY <1>4, <2>1, <2>3, GotoStep DEF Rate, Signed
  <2>4. QED
    BY <1>4, <2>2, <2>3 DEF Rate
<1>5. CASE Revoke(s)
  <2> DEFINE to == IF req[s].kind = "logout" THEN "find" ELSE "ipRead"
  <2>0. PICK v : v = [req[s] EXCEPT !.pc = to, !.user = req[s].user]
    OBVIOUS
  <2>1. v = [req[s] EXCEPT !.pc = to]
    BY <1>0, <2>0 DEF Record
  <2>2. /\ req' = [req EXCEPT ![s] = v] /\ req[s].pc = "revoke"
        /\ retired' = retired \cup {req[s].token} /\ UNCHANGED <<tokens, delivered, expired>>
        /\ revoked' = IF req[s].token \in expired THEN revoked ELSE revoked \cup {req[s].token}
    BY <1>5, <2>1 DEF Revoke, Goto
  <2>3. req[s].token \in 1..Len(tokens) /\ ~req[s].late /\ to \in {"find", "ipRead"}
    BY <1>0, <2>2 DEF Good, Refused, Presenting, Authenticated
  <2> HIDE DEF to
  <2>4. Continues(v, req[s], to)
    BY <1>0, <2>0, PcUser
  <2>5. Good(v, Len(tokens), retired') /\ Record(v)
    BY <1>0, <2>2, <2>3, <2>4 DEF Good, Continues, Signed
  <2>6. /\ retired \subseteq retired' /\ retired' \subseteq 1..Len(tokens)
        /\ retired' \subseteq revoked' \cup expired'
    BY <2>2, <2>3 DEF AuthInv
  <2>7. /\ tokens' \in Seq(Token) /\ Len(tokens') = Len(tokens) /\ Len(tokens) \in Nat
        /\ delivered' \subseteq 1..Len(tokens')
    BY <2>2 DEF AuthInv
  <2>8. Len(tokens) <= Len(tokens') /\ Good(v, Len(tokens'), retired')
        /\ retired' \subseteq 1..Len(tokens')
    BY <2>5, <2>6, <2>7
  <2>9. QED
    BY <2>2, <2>5, <2>6, <2>7, <2>8, RequestStep
<1>6. CASE Find(s)
  BY <1>6, SafeGoto DEF Find, tokenVars, tokenState, Signed
<1>7. CASE Drop(s)
  BY <1>7, SafeGoto DEF Drop, tokenState, Signed
<1>8. CASE Discard(s)
  BY <1>8, SafeGoto DEF Discard, tokenVars, tokenState, Signed
<1>9. CASE Response(s)
  BY <1>9, IdleIsGood, LocalStep DEF Response, tokenVars, tokenState
<1>10. QED
  BY <1>1, <1>2, <1>3, <1>4, <1>5, <1>6, <1>7, <1>8, <1>9

\* A request with a revoked token is late from the start and stands before its check.
LEMMA Arrivals ==
  ASSUME AuthInv, NEW s \in Slots, Arrival(s)
  PROVE  AuthInv'
<1>0. delivered \subseteq 1..Len(tokens) /\ retired \subseteq 1..Len(tokens) /\ Len(tokens) \in Nat
  BY DEF AuthInv
<1>1. ASSUME NEW kind \in Kinds, NEW t, NEW j, Receive(s, kind, t, j),
             \/ kind \notin Presenting /\ t = 0
             \/ kind \in Presenting /\ t \in 1..Len(tokens)
      PROVE  AuthInv'
  <2> DEFINE to == CASE kind = "challenge" -> "issue"
                     [] kind \in {"verify", "refresh"} -> "ip"
                     [] kind = "legacy" -> "locked"
                     [] kind = "google" -> "glocked"
                     [] OTHER -> "jwt"
             late == t \in retired
  <2>0. PICK v : v = [Idle EXCEPT !.kind = kind, !.token = t, !.target = j, !.late = late,
                                  !.pc = to]
    OBVIOUS
  <2>1. req' = [req EXCEPT ![s] = v] /\ UNCHANGED tokenState
    BY <1>1, <2>0 DEF Receive, tokenVars, tokenState
  <2>2. /\ to \in {"issue", "ip", "locked", "glocked", "jwt"}
        /\ kind \in Authenticated => to = "jwt"
        /\ kind = "refresh" => to = "ip"
    BY <1>1 DEF Kinds, Authenticated
  <2>3. late \in BOOLEAN /\ (late => kind \in Presenting /\ t \in retired)
    BY <1>0, <1>1
  <2> HIDE DEF to, late
  <2>4. Record(Idle)
    BY IdleIsGood
  <2>5. Record(v) /\ v.kind = kind /\ v.pc = to /\ v.token = t /\ v.late = late
    BY <2>0, <2>4 DEF Record
  <2>6. Good(v, Len(tokens), retired)
    BY <1>1, <2>2, <2>3, <2>5 DEF Good, Refused, Signed, Presenting
  <2>7. QED
    BY <2>1, <2>5, <2>6, LocalStep
<1>2. CASE \E kind \in {"challenge", "verify", "legacy", "google"} : Receive(s, kind, 0, 0)
  BY <1>1, <1>2 DEF Kinds, Presenting, Authenticated
<1>3. CASE \E kind \in {"call", "logout", "refresh"}, t \in delivered : Receive(s, kind, t, 0)
  <2>1. PICK kind \in {"call", "logout", "refresh"}, t \in delivered : Receive(s, kind, t, 0)
    BY <1>3
  <2>2. kind \in Kinds /\ kind \in Presenting /\ t \in 1..Len(tokens)
    BY <1>0 DEF Kinds, Presenting, Authenticated
  <2>3. QED
    BY <1>1, <2>1, <2>2
<1>4. CASE \E t, j \in delivered : Receive(s, "revoke", t, j)
  <2>1. PICK t \in delivered, j \in delivered : Receive(s, "revoke", t, j)
    BY <1>4
  <2>2. "revoke" \in Kinds /\ "revoke" \in Presenting /\ t \in 1..Len(tokens)
    BY <1>0 DEF Kinds, Presenting, Authenticated
  <2>3. QED
    BY <1>1, <2>1, <2>2
<1>5. QED
  BY <1>2, <1>3, <1>4 DEF Arrival

\* A Redis error ends a request or lets it go on without the effect, but the
\* revocation list is never skipped.
LEMMA Faulty ==
  ASSUME AuthInv, NEW s \in Slots, RedisError(s) \/ Abort(s)
  PROVE  AuthInv'
<1>0. Record(req[s]) /\ Good(req[s], Len(tokens), retired)
  BY DEF AuthInv
<1>1. UNCHANGED tokenState
  BY DEF RedisError, Abort, tokenVars, tokenState
<1>2. CASE req' = [req EXCEPT ![s] = Idle]
  BY <1>1, <1>2, IdleIsGood, LocalStep
<1>3. CASE RedisError(s) /\ req[s].pc # "respond"
  <2> DEFINE r == req[s]
             to == IF r.pc = "ip" /\ r.kind = "refresh" THEN "jwt"
                   ELSE IF r.pc \in DOMAIN Ignored /\ ~(r.pc = "failIp" /\ r.n = 1)
                          THEN Ignored[r.pc] ELSE "respond"
             user == r.user \/ (r.pc = "jwt" /\ r.token \notin expired)
  <2>0. PICK v : v = [r EXCEPT !.pc = to, !.user = user]
    OBVIOUS
  <2>1. req' = [req EXCEPT ![s] = v] /\ r.pc # "idle"
    BY <1>3, <2>0 DEF RedisError
  <2>2. to \in {"jwt", "respond", "locked", "failCount", "merchant", "handler"}
    BY DEF Ignored
  <2>3. r.late => to \in {"jwt", "respond"}
    <3>1. r.pc = "jwt" => to = "respond"
      BY DEF Ignored
    <3>2. r.pc = "ip" /\ r.kind = "refresh" => to = "jwt"
      OBVIOUS
    <3>3. r.pc = "failIp" /\ r.n = 1 => to = "respond"
      BY DEF Ignored
    <3>4. QED
      BY <1>0, <1>3, <3>1, <3>2, <3>3 DEF Good, Refused
  <2> HIDE DEF to, user
  <2>4. Continues(v, r, to)
    BY <1>0, <2>0, PcUser
  <2>5. QED
    BY <1>1, <2>1, <2>2, <2>3, <2>4, OtherLocals DEF Signed, Refused, Continues
<1>4. QED
  BY <1>2, <1>3 DEF RedisError, Abort

\* A revocation entry goes only when its token has expired.
LEMMA Environment ==
  ASSUME AuthInv,
         \/ ChallengeOverdue \/ LockoutExpires \/ CountersExpire
         \/ \E m \in Merchants : ConcExpires(m)
         \/ \E t \in delivered : TokenExpires(t)
         \/ UNCHANGED vars
  PROVE  AuthInv'
<1>1. CASE \E t \in delivered : TokenExpires(t)
  <2>1. /\ UNCHANGED <<req, tokens, delivered, retired>>
        /\ revoked \cup expired \subseteq revoked' \cup expired'
    BY <1>1 DEF TokenExpires
  <2>2. QED
    BY <2>1 DEF AuthInv
<1>2. CASE \/ ChallengeOverdue \/ LockoutExpires \/ CountersExpire \/ UNCHANGED vars
           \/ \E m \in Merchants : ConcExpires(m)
  <2>1. UNCHANGED <<req, tokens, delivered, expired, revoked, retired>>
    BY <1>2 DEF ChallengeOverdue, LockoutExpires, CountersExpire, ConcExpires, vars, tokenVars
  <2>2. QED
    BY <2>1 DEF AuthInv
<1>3. QED
  BY <1>1, <1>2

LEMMA AuthInitially == Init => AuthInv
<1> SUFFICES ASSUME Init PROVE AuthInv
  OBVIOUS
<1>1. req = [s \in Slots |-> Idle] /\ retired = {} /\ delivered = 1..OldTokens
  BY DEF Init
<1>2. OldTokens \in Nat
  BY AuthAssumption
<1>3. tokens \in Seq(Token) /\ Len(tokens) = OldTokens
  BY <1>2 DEF Init, Token, Merchants
<1>4. \A s \in Slots : Record(req[s]) /\ Good(req[s], Len(tokens), retired)
  BY <1>1, IdleIsGood
<1>5. QED
  BY <1>1, <1>3, <1>4 DEF AuthInv

LEMMA AuthPreserved == AuthInv /\ [Next]_vars => AuthInv'
<1> SUFFICES ASSUME AuthInv, [Next]_vars PROVE AuthInv'
  OBVIOUS
<1>1. ASSUME NEW s \in Slots, Step(s) PROVE AuthInv'
  BY <1>1, SignInChecks, SignIns, SessionLimits, Authentication, Concurrency, Handlers DEF Step
<1>2. QED
  BY <1>1, Arrivals, Faulty, Environment DEF Next

\* A request that begins after logout or refresh has revoked its token is refused
\* before the concurrency counter, the refresh quota and the handler, whatever
\* races it: session write-backs, evictions, expiries, Redis errors, aborts.
THEOREM RevokedIsFinalAlways == Spec => []RevokedIsFinal
<1>1. AuthInv => RevokedIsFinal
  BY DEF AuthInv, Good, Refused, RevokedIsFinal
<1>2. QED
  BY <1>1, AuthInitially, AuthPreserved, PTL DEF Spec

-----------------------------------------------------------------------------
(* The concurrency counter                                                 *)

Entering == {"session", "touch", "incr"}  \* past jwtVerify, not counted yet
Inside == {"decr", "handler", "revoke", "find", "drop", "discard", "respond"}

\* A counted request has passed jwtVerify and stands behind the concurrency check.
Counting(r) ==
    /\ r.counted \in BOOLEAN /\ r.user \in BOOLEAN
    /\ r.counted => r.kind \in Authenticated /\ r.user /\ r.pc \in Inside
    /\ r.pc \in Entering => r.kind \in Authenticated /\ r.user

\* The requests the counter of merchant m stands for.
Holders(m) == {s \in Slots : req[s].counted /\ tokens[req[s].token].merchant = m}

CountInv ==
    /\ faults \in Nat
    /\ conc \in [Merchants -> Int]
    /\ \A s \in Slots : Counting(req[s])
    /\ \A m \in Merchants : conc[m] <= faults + Cardinality(Holders(m))

\* What a step may do to the counter of one merchant.
Accounted(s, m) ==
    \/ conc'[m] <= conc[m] /\ faults <= faults' /\ (s \in Holders(m) => s \in Holders(m)')
    \/ conc'[m] <= conc[m] /\ faults < faults'
    \/ conc'[m] <= conc[m] + 1 /\ faults' = faults /\ s \in Holders(m)' \ Holders(m)
    \/ conc'[m] <= conc[m] - 1 /\ faults' = faults

\* Losing one element lowers a cardinality by one, gaining one raises it.
LEMMA CardinalitySteps ==
  ASSUME NEW A, NEW B, IsFiniteSet(A), IsFiniteSet(B), NEW x, A \ {x} \subseteq B
  PROVE  /\ Cardinality(A) \in Nat /\ Cardinality(B) \in Nat
         /\ Cardinality(A) - 1 <= Cardinality(B)
         /\ (x \in A => x \in B) => Cardinality(A) <= Cardinality(B)
         /\ x \in B \ A => Cardinality(A) + 1 <= Cardinality(B)
<1>1. Cardinality(A) \in Nat /\ Cardinality(B) \in Nat
  BY FS_CardinalityType
<1>2. Cardinality(A) - 1 <= Cardinality(A \ {x})
  BY <1>1, FS_RemoveElement
<1>3. Cardinality(A \ {x}) <= Cardinality(B) /\ Cardinality(A \ {x}) \in Nat
  BY FS_Subset, FS_CardinalityType, FS_RemoveElement
<1>4. (x \in A => x \in B) => Cardinality(A) <= Cardinality(B)
  BY FS_Subset
<1>5. ASSUME x \in B \ A PROVE Cardinality(A) + 1 <= Cardinality(B)
  <2>1. Cardinality(A \cup {x}) = Cardinality(A) + 1
    BY <1>5, FS_AddElement
  <2>2. A \cup {x} \in SUBSET B
    BY <1>5
  <2>3. QED
    BY <2>1, <2>2, FS_Subset
<1>6. QED
  BY <1>1, <1>2, <1>3, <1>4, <1>5

\* A step of request s that signs tokens at most: the others stand for what they
\* stood for.
LEMMA CountStep ==
  ASSUME AuthInv, CountInv, NEW s \in Slots, NEW v, req' = [req EXCEPT ![s] = v], Counting(v),
         \A t \in 1..Len(tokens) : tokens'[t] = tokens[t],
         faults' \in Nat, conc' \in [Merchants -> Int],
         \A m \in Merchants : Accounted(s, m)
  PROVE  CountInv'
<1>1. \A q \in Slots : q # s => req'[q] = req[q]
  BY DEF AuthInv
<1>2. req'[s] = v
  BY DEF AuthInv
<1>3. \A q \in Slots : Counting(req'[q])
  BY <1>1, <1>2 DEF CountInv
<1>4. ASSUME NEW m \in Merchants PROVE conc'[m] <= faults' + Cardinality(Holders(m))'
  <2>1. \A q \in Holders(m) : req[q].token \in 1..Len(tokens)
    BY DEF Holders, CountInv, Counting, AuthInv, Good, Presenting, Inside
  <2>2. Holders(m) \ {s} \subseteq Holders(m)'
    BY <1>1, <2>1 DEF Holders
  <2>3. IsFiniteSet(Slots)
    BY AuthAssumption
  <2>4. IsFiniteSet(Holders(m)) /\ IsFiniteSet(Holders(m)')
    BY <2>3, FS_Subset DEF Holders
  <2>5. /\ Cardinality(Holders(m)) \in Nat /\ Cardinality(Holders(m)') \in Nat
        /\ Cardinality(Holders(m)) - 1 <= Cardinality(Holders(m)')
        /\ (s \in Holders(m) => s \in Holders(m)')
              => Cardinality(Holders(m)) <= Cardinality(Holders(m)')
        /\ s \in Holders(m)' \ Holders(m)
              => Cardinality(Holders(m)) + 1 <= Cardinality(Holders(m)')
    BY <2>2, <2>4, CardinalitySteps
  <2>6. conc[m] <= faults + Cardinality(Holders(m)) /\ conc[m] \in Int /\ conc'[m] \in Int
        /\ faults \in Nat
    BY DEF CountInv
  <2>7. Accounted(s, m)
    OBVIOUS
  <2> DEFINE a == Cardinality(Holders(m))
             b == Cardinality(Holders(m)')
             before == s \in Holders(m)
             after == s \in Holders(m)'
  <2>8. /\ a \in Nat /\ b \in Nat /\ a - 1 <= b /\ conc[m] <= faults + a
        /\ (before => after) => a <= b
        /\ after /\ ~before => a + 1 <= b
        /\ before \in BOOLEAN /\ after \in BOOLEAN
    BY <2>5, <2>6
  <2>9. \/ conc'[m] <= conc[m] /\ faults <= faults' /\ (before => after)
        \/ conc'[m] <= conc[m] /\ faults < faults'
        \/ conc'[m] <= conc[m] + 1 /\ faults' = faults /\ after /\ ~before
        \/ conc'[m] <= conc[m] - 1 /\ faults' = faults
    BY <2>7 DEF Accounted
  <2> HIDE DEF a, b, before, after
  <2>10. conc'[m] <= faults' + b
    BY <2>6, <2>8, <2>9
  <2>11. QED
    BY <2>10 DEF b
<1>5. QED
  BY <1>3, <1>4 DEF CountInv

\* A request that keeps what is counted of it.
LEMMA UncountedStep ==
  ASSUME AuthInv, CountInv, NEW s \in Slots, NEW v, req' = [req EXCEPT ![s] = v], Counting(v),
         \A t \in 1..Len(tokens) : tokens'[t] = tokens[t],
         v.counted = req[s].counted, v.token = req[s].token,
         conc' = conc, faults' \in Nat, faults <= faults'
  PROVE  CountInv'
<1>1. req'[s] = v
  BY DEF AuthInv
<1>2. conc' \in [Merchants -> Int]
  BY DEF CountInv
<1>3. ASSUME NEW m \in Merchants PROVE Accounted(s, m)
  <2>1. s \in Holders(m) => req[s].token \in 1..Len(tokens)
    BY DEF Holders, CountInv, Counting, AuthInv, Good, Presenting, Inside
  <2>2. s \in Holders(m) => s \in Holders(m)'
    BY <1>1, <2>1 DEF Holders
  <2>3. conc'[m] <= conc[m]
    BY <1>2 DEF CountInv
  <2>4. QED
    BY <2>2, <2>3 DEF Accounted
<1>4. QED
  BY <1>2, <1>3, CountStep

\* The same when nothing else that matters changes.
LEMMA SilentStep ==
  ASSUME AuthInv, CountInv, NEW s \in Slots, NEW v, req' = [req EXCEPT ![s] = v], Counting(v),
         \A t \in 1..Len(tokens) : tokens'[t] = tokens[t], UNCHANGED <<conc, faults>>,
         v.counted = req[s].counted, v.token = req[s].token
  PROVE  CountInv'
<1>1. faults' \in Nat /\ faults <= faults' /\ conc' = conc
  BY DEF CountInv
<1>2. QED
  BY <1>1, UncountedStep

\* Moving on: inside stays inside, and nobody enters but through jwtVerify.
LEMMA CountGoto ==
  ASSUME AuthInv, CountInv, NEW s \in Slots, NEW pc, Goto(s, pc),
         \A t \in 1..Len(tokens) : tokens'[t] = tokens[t],
         UNCHANGED <<conc, faults>>,
         pc \in Inside \/ req[s].pc \notin Inside \/ req[s].kind \notin Authenticated,
         pc \in Entering => req[s].pc \in Entering
  PROVE  CountInv'
<1>0. PICK v : v = [req[s] EXCEPT !.pc = pc]
  OBVIOUS
<1>1. Record(req[s]) /\ Counting(req[s])
  BY DEF AuthInv, CountInv
<1>2. v.pc = pc /\ v.kind = req[s].kind /\ v.token = req[s].token /\ v.user = req[s].user
      /\ v.counted = req[s].counted
  BY <1>0, <1>1 DEF Record
<1>3. Counting(v)
  BY <1>1, <1>2 DEF Counting
<1>4. req' = [req EXCEPT ![s] = v]
  BY <1>0 DEF Goto
<1>5. QED
  BY <1>2, <1>3, <1>4, SilentStep

LEMMA CountSignInChecks ==
  ASSUME AuthInv, CountInv, NEW s \in Slots,
         \/ Issue(s) \/ CheckIp(s) \/ CheckLocked(s) \/ Consume(s) \/ LegacyConsume(s)
         \/ FailIp(s) \/ FailCount(s) \/ FailExpire(s) \/ Reset(s) \/ IpRead(s) \/ IpWrite(s)
         \/ GoogleCheck(s) \/ GoogleCount(s)
  PROVE  CountInv'
<1> USE DEF At, Respond
<1>0. Record(req[s]) /\ Counting(req[s])
  BY DEF AuthInv, CountInv
<1>1. UNCHANGED <<tokens, conc, faults>> /\ req[s].pc \notin Inside
  BY DEF Issue, CheckIp, CheckLocked, Consume, LegacyConsume, FailIp, FailCount, FailExpire, Reset,
         IpRead, IpWrite, GoogleCheck, GoogleCount, tokenVars, Inside
<1>2. ASSUME NEW pc, Goto(s, pc), pc \notin Entering PROVE CountInv'
  BY <1>1, <1>2, CountGoto
<1>3. ASSUME NEW pc, pc \notin Entering, NEW a,
             req' = [req EXCEPT ![s] = [@ EXCEPT !.n = a, !.pc = pc]]
      PROVE  CountInv'
  <2>0. PICK v : v = [req[s] EXCEPT !.n = a, !.pc = pc]
    OBVIOUS
  <2>1. v.pc = pc /\ v.kind = req[s].kind /\ v.token = req[s].token /\ v.user = req[s].user
        /\ v.counted = req[s].counted
    BY <1>0, <2>0 DEF Record
  <2>2. Counting(v)
    BY <1>0, <1>1, <1>3, <2>1 DEF Counting
  <2>3. req' = [req EXCEPT ![s] = v]
    BY <1>3, <2>0
  <2>4. QED
    BY <1>0, <1>1, <2>1, <2>2, <2>3, SilentStep
<1>4. CASE IpRead(s)
  BY <1>3, <1>4 DEF IpRead, Entering
<1>5. CASE CheckIp(s)
  <2>1. \/ \E pc \in {"respond", "locked", "jwt"} : Goto(s, pc)
        \/ req' = [req EXCEPT ![s] = [@ EXCEPT !.pc = "failIp", !.n = 1]]
    BY <1>5 DEF CheckIp
  <2>2. [req[s] EXCEPT !.pc = "failIp", !.n = 1] = [req[s] EXCEPT !.n = 1, !.pc = "failIp"]
    OBVIOUS
  <2>3. QED
    BY <1>2, <1>3, <2>1, <2>2 DEF Entering
<1>6. CASE \/ Issue(s) \/ CheckLocked(s) \/ Consume(s) \/ LegacyConsume(s) \/ FailIp(s)
           \/ FailCount(s) \/ FailExpire(s) \/ Reset(s) \/ IpWrite(s) \/ GoogleCheck(s)
           \/ GoogleCount(s)
  <2>1. \E pc \in {"respond", "consume", "reset", "failIp", "failCount", "failExpire", "ipRead",
                   "merchant", "gfail", "greset"} : Goto(s, pc)
    BY <1>6 DEF Issue, CheckLocked, Consume, LegacyConsume, FailIp, FailCount, FailExpire, Reset,
                IpWrite, GoogleCheck, GoogleCount
  <2>2. QED
    BY <1>2, <2>1 DEF Entering
<1>7. QED
  BY <1>4, <1>5, <1>6

LEMMA CountSignIns ==
  ASSUME AuthInv, CountInv, NEW s \in Slots,
         \/ WalletSignIn(s) \/ LegacySignIn(s) \/ GoogleSignIn(s) \/ RefreshSignIn(s)
         \/ Card(s) \/ Range_(s) \/ Evict(s) \/ Unlist(s)
  PROVE  CountInv'
<1> USE DEF At, Respond
<1>0. Record(req[s]) /\ Counting(req[s]) /\ tokens \in Seq(Token)
  BY DEF AuthInv, CountInv
<1>1. UNCHANGED <<conc, faults>> /\ req[s].pc \notin Inside
  BY DEF WalletSignIn, LegacySignIn, GoogleSignIn, FirstSignIn, RefreshSignIn, Card, Range_, Evict,
         Unlist, Inside
<1>2. ASSUME NEW pc, Goto(s, pc), pc \notin Entering, UNCHANGED tokens PROVE CountInv'
  BY <1>1, <1>2, CountGoto
<1>3. ASSUME NEW m, NEW jti \in BOOLEAN, Sign(s, m, jti) PROVE CountInv'
  <2> DEFINE t == Len(tokens) + 1
             to == IF jti THEN "card" ELSE "respond"
  <2>0. PICK v : v = [req[s] EXCEPT !.target = t, !.pc = to]
    OBVIOUS
  <2>1. req' = [req EXCEPT ![s] = v] /\ tokens' = Append(tokens, [merchant |-> m, jti |-> jti])
    BY <1>3, <2>0 DEF Sign
  <2>2. \A x \in 1..Len(tokens) : tokens'[x] = tokens[x]
    BY <1>0, <2>1
  <2>3. to \notin Entering
    BY DEF Entering
  <2> HIDE DEF t, to
  <2>4. v.pc = to /\ v.kind = req[s].kind /\ v.token = req[s].token /\ v.user = req[s].user
        /\ v.counted = req[s].counted
    BY <1>0, <2>0 DEF Record
  <2>5. Counting(v)
    BY <1>0, <1>1, <2>3, <2>4 DEF Counting
  <2>6. QED
    BY <1>0, <1>1, <2>1, <2>2, <2>4, <2>5, SilentStep
<1>4. CASE WalletSignIn(s) \/ LegacySignIn(s) \/ GoogleSignIn(s) \/ RefreshSignIn(s)
  <2>1. \/ \E m, jti : jti \in BOOLEAN /\ Sign(s, m, jti)
        \/ Goto(s, "respond") /\ UNCHANGED tokens
    BY <1>4 DEF WalletSignIn, LegacySignIn, GoogleSignIn, FirstSignIn, RefreshSignIn
  <2>2. QED
    BY <1>2, <1>3, <2>1 DEF Entering
<1>5. ASSUME UNCHANGED tokens, NEW v, req' = [req EXCEPT ![s] = v], v.pc \notin Entering,
             v.kind = req[s].kind, v.token = req[s].token, v.user = req[s].user,
             v.counted = req[s].counted
      PROVE  CountInv'
  <2>1. Counting(v)
    BY <1>0, <1>1, <1>5 DEF Counting
  <2>2. QED
    BY <1>0, <1>1, <1>5, <2>1, SilentStep
<1>6. CASE Card(s)
  <2> DEFINE n == Len(index[tokens[req[s].target].merchant]) - SessionLimit
  <2>0. PICK v : v = [req[s] EXCEPT !.n = n, !.pc = "range"]
    OBVIOUS
  <2>1. req' = [req EXCEPT ![s] = v] \/ Goto(s, "respond")
    BY <1>6, <2>0 DEF Card
  <2>2. UNCHANGED tokens
    BY <1>6 DEF Card
  <2> HIDE DEF n
  <2>3. v.pc = "range" /\ v.kind = req[s].kind /\ v.token = req[s].token /\ v.user = req[s].user
        /\ v.counted = req[s].counted
    BY <1>0, <2>0 DEF Record
  <2>4. CASE req' = [req EXCEPT ![s] = v]
    BY <1>5, <2>2, <2>3, <2>4 DEF Entering
  <2>5. QED
    BY <1>2, <2>1, <2>2, <2>4 DEF Entering
<1>7. CASE Range_(s)
  <2> DEFINE old == index[tokens[req[s].target].merchant]
             o == SubSeq(old, 1, IF req[s].n < Len(old) THEN req[s].n ELSE Len(old))
  <2>0. PICK v : v = [req[s] EXCEPT !.pc = "evict", !.olds = o]
    OBVIOUS
  <2>1. req' = [req EXCEPT ![s] = v] /\ UNCHANGED tokens
    BY <1>7, <2>0 DEF Range_, tokenVars
  <2> HIDE DEF o
  <2>2. v.pc = "evict" /\ v.kind = req[s].kind /\ v.token = req[s].token /\ v.user = req[s].user
        /\ v.counted = req[s].counted
    BY <1>0, <2>0 DEF Record
  <2>3. QED
    BY <1>5, <2>1, <2>2 DEF Entering
<1>8. CASE Evict(s) \/ Unlist(s)
  BY <1>2, <1>8 DEF Evict, Unlist, Entering
<1>9. QED
  BY <1>4, <1>6, <1>7, <1>8

\* Passing jwtVerify makes the user known; the session check keeps it.
LEMMA CountAuthentication ==
  ASSUME AuthInv, CountInv, NEW s \in Slots,
         Jwt(s) \/ RefreshJwt(s) \/ SessionRead(s) \/ SessionTouch(s)
  PROVE  CountInv'
<1> USE DEF At
<1>0. Record(req[s]) /\ Counting(req[s])
  BY DEF AuthInv, CountInv
<1>1. UNCHANGED <<tokens, conc, faults>> /\ req[s].pc \notin Inside
  BY DEF Jwt, RefreshJwt, SessionRead, SessionTouch, tokenVars, Inside
<1>2. CASE Jwt(s)
  <2> DEFINE t == req[s].token
             user == t \notin expired
             to == IF t \in expired \cup revoked THEN "respond"
                   ELSE IF tokens[t].jti THEN "session" ELSE "incr"
  <2>0. PICK v : v = [req[s] EXCEPT !.user = user, !.pc = to]
    OBVIOUS
  <2>1. req' = [req EXCEPT ![s] = v] /\ req[s].kind \in Authenticated
    BY <1>2, <2>0 DEF Jwt
  <2>2. user \in BOOLEAN /\ (to \in Entering => user)
    BY DEF Entering
  <2> HIDE DEF user, to
  <2>3. v.pc = to /\ v.kind = req[s].kind /\ v.token = req[s].token /\ v.user = user
        /\ v.counted = req[s].counted
    BY <1>0, <2>0 DEF Record
  <2>4. Counting(v)
    BY <1>0, <1>1, <2>1, <2>2, <2>3 DEF Counting
  <2>5. QED
    BY <1>0, <1>1, <2>1, <2>3, <2>4, SilentStep
<1>3. CASE RefreshJwt(s)
  <2> DEFINE t == req[s].token
             user == t \notin expired
             to == IF t \in expired \cup revoked \/ ~tokens[t].jti THEN "failIp" ELSE "rate"
  <2>0. PICK v : v = [req[s] EXCEPT !.user = user, !.n = 1, !.pc = to]
    OBVIOUS
  <2>1. req' = [req EXCEPT ![s] = v]
    BY <1>3, <2>0 DEF RefreshJwt
  <2>2. user \in BOOLEAN /\ to \notin Entering
    BY DEF Entering
  <2> HIDE DEF user, to
  <2>3. v.pc = to /\ v.kind = req[s].kind /\ v.token = req[s].token /\ v.user = user
        /\ v.counted = req[s].counted
    BY <1>0, <2>0 DEF Record
  <2>4. Counting(v)
    BY <1>0, <1>1, <2>2, <2>3 DEF Counting
  <2>5. QED
    BY <1>0, <1>1, <2>1, <2>3, <2>4, SilentStep
<1>4. CASE SessionRead(s)
  BY <1>1, <1>4, CountGoto DEF SessionRead, Entering
<1>5. CASE SessionTouch(s)
  BY <1>1, <1>5, CountGoto DEF SessionTouch, Entering
<1>6. QED
  BY <1>2, <1>3, <1>4, <1>5

LEMMA Incremented ==
  ASSUME NEW f \in [Merchants -> Int], NEW m
  PROVE  [f EXCEPT ![m] = @ + 1] \in [Merchants -> Int]
<1>1. CASE m \in Merchants
  <2>1. f[m] + 1 \in Int
    BY <1>1
  <2>2. QED
    BY <2>1
<1>2. CASE m \notin Merchants
  BY <1>2
<1>3. QED
  BY <1>1, <1>2

\* INCR makes the request a holder of its merchant's slot; DECR and the decrement
\* of onResponse take no more than it holds.
LEMMA CountCounter ==
  ASSUME AuthInv, CountInv, NEW s \in Slots, Incr(s) \/ Decr(s) \/ Response(s)
  PROVE  CountInv'
<1> USE DEF At
<1> DEFINE m == tokens[req[s].token].merchant
<1>0. Record(req[s]) /\ Counting(req[s]) /\ faults \in Nat /\ conc \in [Merchants -> Int]
  BY DEF AuthInv, CountInv
<1>1. UNCHANGED <<tokens, faults>>
  BY DEF Incr, Decr, Response, tokenVars
<1>2. CASE Incr(s)
  <2> DEFINE to == IF conc'[m] > MaxConcurrency THEN "decr" ELSE "handler"
  <2>0. PICK v : v = [req[s] EXCEPT !.counted = TRUE, !.pc = to]
    OBVIOUS
  <2>1. req' = [req EXCEPT ![s] = v] /\ conc' = [conc EXCEPT ![m] = @ + 1] /\ req[s].pc = "incr"
    BY <1>2, <2>0 DEF Incr
  <2>2. to \in Inside /\ to \notin Entering
    BY DEF Inside, Entering
  <2> HIDE DEF to
  <2>3. v.pc = to /\ v.kind = req[s].kind /\ v.token = req[s].token /\ v.user = req[s].user
        /\ v.counted = TRUE
    BY <1>0, <2>0 DEF Record
  <2>4. Counting(v) /\ ~req[s].counted
    BY <1>0, <2>1, <2>2, <2>3 DEF Counting, Inside, Entering
  <2>5. req'[s] = v /\ conc' \in [Merchants -> Int]
    <3>1. req'[s] = v
      BY <2>1 DEF AuthInv
    <3>2. conc' = [conc EXCEPT ![m] = @ + 1]
      BY <2>1
    <3>3. conc' \in [Merchants -> Int]
      BY <1>0, <3>2, Incremented
    <3>4. QED
      BY <3>1, <3>3
  <2>6. ASSUME NEW k \in Merchants PROVE Accounted(s, k)
    <3>1. s \notin Holders(k)
      BY <2>4 DEF Holders
    <3>2. CASE k = m
      <4>1. s \in Holders(k)'
        BY <1>1, <2>3, <2>5, <3>2 DEF Holders
      <4>2. conc'[k] = conc[k] + 1 /\ conc'[k] \in Int
        BY <1>0, <2>1, <3>2
      <4>3. QED
        BY <1>1, <3>1, <4>1, <4>2 DEF Accounted
    <3>3. CASE k # m
      <4>1. conc'[k] = conc[k] /\ conc[k] \in Int
        BY <1>0, <2>1, <3>3
      <4>2. QED
        BY <1>0, <1>1, <3>1, <4>1 DEF Accounted
    <3>4. QED
      BY <3>2, <3>3
  <2>7. QED
    BY <1>0, <1>1, <2>1, <2>4, <2>5, <2>6, CountStep
<1>3. ASSUME NEW v, req' = [req EXCEPT ![s] = v], Counting(v),
             \/ conc' = [conc EXCEPT ![m] = @ - 1]
             \/ conc' = conc /\ ~req[s].counted
      PROVE  CountInv'
  <2>1. conc' \in [Merchants -> Int]
    BY <1>0, <1>3
  <2>2. ASSUME NEW k \in Merchants PROVE Accounted(s, k)
    <3>1. CASE s \in Holders(k)
      <4>1. k = m /\ req[s].counted
        BY <3>1 DEF Holders
      <4>2. conc'[k] = conc[k] - 1 /\ conc[k] \in Int
        BY <1>0, <1>3, <4>1
      <4>3. QED
        BY <1>1, <4>2 DEF Accounted
    <3>2. CASE s \notin Holders(k)
      <4>1. conc'[k] <= conc[k]
        BY <1>0, <1>3, <2>1
      <4>2. QED
        BY <1>0, <1>1, <3>2, <4>1 DEF Accounted
    <3>3. QED
      BY <3>1, <3>2
  <2>3. QED
    BY <1>0, <1>1, <1>3, <2>1, <2>2, CountStep
<1>4. CASE Decr(s)
  <2>0. PICK v : v = [req[s] EXCEPT !.counted = FALSE, !.pc = "respond"]
    OBVIOUS
  <2>1. req' = [req EXCEPT ![s] = v] /\ conc' = [conc EXCEPT ![m] = @ - 1]
    BY <1>4, <2>0 DEF Decr
  <2>2. v.pc = "respond" /\ v.user = req[s].user /\ v.counted = FALSE
    BY <1>0, <2>0 DEF Record
  <2>3. Counting(v)
    BY <1>0, <2>2 DEF Counting, Entering
  <2>4. QED
    BY <1>3, <2>1, <2>3
<1>5. CASE Response(s)
  <2>1. /\ req' = [req EXCEPT ![s] = Idle]
        /\ \/ conc' = [conc EXCEPT ![m] = @ - 1]
           \/ conc' = conc /\ ~req[s].user
    BY <1>5 DEF Response
  <2>2. Counting(Idle)
    BY DEF Counting, Idle, Inside, Entering
  <2>3. ~req[s].user => ~req[s].counted
    BY <1>0 DEF Counting
  <2>4. QED
    BY <1>3, <2>1, <2>2, <2>3
<1>6. QED
  BY <1>2, <1>4, <1>5

LEMMA CountHandlers ==
  ASSUME AuthInv, CountInv, NEW s \in Slots,
         \/ CallHandler(s) \/ RevokeHandler(s) \/ LogoutHandler(s) \/ Rate(s) \/ Revoke(s)
         \/ Find(s) \/ Drop(s) \/ Discard(s)
  PROVE  CountInv'
<1> USE DEF At, Respond
<1>0. Record(req[s]) /\ Counting(req[s]) /\ Good(req[s], Len(tokens), retired)
  BY DEF AuthInv, CountInv
<1>1. UNCHANGED <<tokens, conc, faults>>
  BY DEF CallHandler, RevokeHandler, LogoutHandler, Rate, Revoke, Find, Drop, Discard, tokenVars
<1>2. ASSUME NEW pc, Goto(s, pc), pc \in Inside PROVE CountInv'
  BY <1>1, <1>2, CountGoto DEF Inside, Entering
<1>3. CASE LogoutHandler(s)
  <2> DEFINE to == IF tokens[req[s].token].jti THEN "revoke" ELSE "respond"
  <2>0. PICK v : v = [req[s] EXCEPT !.target = req[s].token, !.pc = to]
    OBVIOUS
  <2>1. req' = [req EXCEPT ![s] = v]
    BY <1>3, <2>0 DEF LogoutHandler
  <2>2. to \in Inside /\ to \notin Entering
    BY DEF Inside, Entering
  <2> HIDE DEF to
  <2>3. v.pc = to /\ v.kind = req[s].kind /\ v.token = req[s].token /\ v.user = req[s].user
        /\ v.counted = req[s].counted
    BY <1>0, <2>0 DEF Record
  <2>4. Counting(v)
    BY <1>0, <2>2, <2>3 DEF Counting
  <2>5. QED
    BY <1>1, <2>1, <2>3, <2>4, SilentStep
<1>4. CASE Revoke(s)
  <2>1. CASE req[s].kind = "logout"
    BY <1>2, <1>4, <2>1 DEF Revoke, Inside
  <2>2. CASE req[s].kind # "logout"
    <3>1. req[s].kind \notin Authenticated /\ Goto(s, "ipRead")
      BY <1>0, <1>4, <2>2 DEF Revoke, Good, Authenticated
    <3>2. QED
      BY <1>1, <3>1, CountGoto DEF Entering
  <2>3. QED
    BY <2>1, <2>2
<1>5. CASE CallHandler(s) \/ RevokeHandler(s) \/ Rate(s) \/ Find(s) \/ Drop(s) \/ Discard(s)
  <2>1. \E pc \in {"respond", "find", "revoke", "drop", "discard"} : Goto(s, pc)
    BY <1>5 DEF CallHandler, RevokeHandler, Rate, Find, Drop, Discard
  <2>2. QED
    BY <1>2, <2>1 DEF Inside
<1>6. QED
  BY <1>3, <1>4, <1>5

LEMMA CountArrivals ==
  ASSUME AuthInv, CountInv, NEW s \in Slots, Arrival(s)
  PROVE  CountInv'
<1>1. ASSUME NEW kind, NEW t, NEW j, Receive(s, kind, t, j) PROVE CountInv'
  <2> DEFINE to == CASE kind = "challenge" -> "issue"
                     [] kind \in {"verify", "refresh"} -> "ip"
                     [] kind = "legacy" -> "locked"
                     [] kind = "google" -> "glocked"
                     [] OTHER -> "jwt"
             late == t \in retired
  <2>0. PICK v : v = [Idle EXCEPT !.kind = kind, !.token = t, !.target = j, !.late = late,
                                  !.pc = to]
    OBVIOUS
  <2>1. /\ req' = [req EXCEPT ![s] = v] /\ UNCHANGED <<tokens, conc, faults>>
        /\ req[s].pc = "idle"
    BY <1>1, <2>0 DEF Receive, tokenVars, At
  <2>2. to \notin Entering
    BY DEF Entering
  <2> HIDE DEF to, late
  <2>3. v.pc = to /\ v.user = FALSE /\ v.counted = FALSE
    BY <2>0 DEF Idle
  <2>4. Counting(v)
    BY <2>2, <2>3 DEF Counting
  <2>5. ~req[s].counted
    BY <2>1 DEF CountInv, Counting, Inside
  <2>6. req'[s] = v /\ conc' \in [Merchants -> Int] /\ faults' \in Nat
    BY <2>1 DEF AuthInv, CountInv
  <2>7. ASSUME NEW m \in Merchants PROVE Accounted(s, m)
    BY <2>1, <2>5, <2>6 DEF Accounted, Holders
  <2>8. QED
    BY <2>1, <2>4, <2>6, <2>7, CountStep
<1>2. QED
  BY <1>1 DEF Arrival

\* A fault may end a counted request without its decrement, and is itself counted.
LEMMA CountFaulty ==
  ASSUME AuthInv, CountInv, NEW s \in Slots, RedisError(s) \/ Abort(s)
  PROVE  CountInv'
<1>0. Record(req[s]) /\ Counting(req[s]) /\ faults \in Nat /\ conc \in [Merchants -> Int]
  BY DEF AuthInv, CountInv
<1>1. UNCHANGED <<tokens, conc>> /\ faults' = faults + 1
  BY DEF RedisError, Abort, Fault, tokenVars
<1>2. ASSUME NEW v, req' = [req EXCEPT ![s] = v], Counting(v) PROVE CountInv'
  <2>1. conc' \in [Merchants -> Int] /\ faults' \in Nat
    BY <1>0, <1>1
  <2>2. \A m \in Merchants : Accounted(s, m)
    BY <1>0, <1>1 DEF Accounted
  <2>3. QED
    BY <1>1, <1>2, <2>1, <2>2, CountStep
<1>3. CASE req' = [req EXCEPT ![s] = Idle]
  <2>1. Counting(Idle)
    BY DEF Counting, Idle, Inside, Entering
  <2>2. QED
    BY <1>2, <1>3, <2>1
<1>4. CASE RedisError(s) /\ req[s].pc # "respond"
  <2> DEFINE r == req[s]
             to == IF r.pc = "ip" /\ r.kind = "refresh" THEN "jwt"
                   ELSE IF r.pc \in DOMAIN Ignored /\ ~(r.pc = "failIp" /\ r.n = 1)
                          THEN Ignored[r.pc] ELSE "respond"
             user == r.user \/ (r.pc = "jwt" /\ r.token \notin expired)
  <2>0. PICK v : v = [r EXCEPT !.pc = to, !.user = user]
    OBVIOUS
  <2>1. req' = [req EXCEPT ![s] = v]
    BY <1>4, <2>0 DEF RedisError
  <2>2. to \in {"jwt", "respond", "locked", "failCount", "merchant", "handler"}
    BY DEF Ignored
  <2>3. r.pc \in Inside => to \in Inside
    BY DEF Ignored, Inside
  <2>4. user \in BOOLEAN /\ (r.user => user)
    BY <1>0 DEF Counting
  <2> HIDE DEF to, user
  <2>5. v.pc = to /\ v.kind = r.kind /\ v.user = user /\ v.counted = r.counted
    BY <1>0, <2>0 DEF Record
  <2>6. Counting(v)
    BY <1>0, <2>2, <2>3, <2>4, <2>5 DEF Counting, Entering
  <2>7. QED
    BY <1>2, <2>1, <2>6
<1>5. QED
  BY <1>3, <1>4 DEF RedisError, Abort

\* A counter that expires restarts at zero.
LEMMA CountEnvironment ==
  ASSUME AuthInv, CountInv,
         \/ ChallengeOverdue \/ LockoutExpires \/ CountersExpire
         \/ \E m \in Merchants : ConcExpires(m)
         \/ \E t \in delivered : TokenExpires(t)
         \/ UNCHANGED vars
  PROVE  CountInv'
<1>1. UNCHANGED <<req, tokens, faults>>
  BY DEF ChallengeOverdue, LockoutExpires, CountersExpire, ConcExpires, TokenExpires, vars, tokenVars
<1>2. \A m \in Merchants : Holders(m)' = Holders(m)
  BY <1>1 DEF Holders
<1>3. /\ conc' \in [Merchants -> Int]
      /\ \A m \in Merchants : conc'[m] <= conc[m]
  <2>1. conc' = conc \/ \E m \in Merchants : conc[m] > 0 /\ conc' = [conc EXCEPT ![m] = 0]
    BY DEF ChallengeOverdue, LockoutExpires, CountersExpire, ConcExpires, TokenExpires, vars
  <2>2. QED
    BY <2>1 DEF CountInv
<1>4. \A m \in Merchants : Cardinality(Holders(m)) \in Nat
  BY AuthAssumption, FS_Subset, FS_CardinalityType DEF Holders
<1>5. \A m \in Merchants : conc'[m] <= faults' + Cardinality(Holders(m))'
  BY <1>1, <1>2, <1>3, <1>4 DEF CountInv
<1>6. QED
  BY <1>1, <1>3, <1>5 DEF CountInv

\* The counter of a merchant never exceeds the requests that hold it, one more
\* for each Redis error or aborted request at most: onResponse decrements for
\* every request that INCR counted, whatever ended it, and the double decrement
\* of a refused request only lowers it.
THEOREM NeverOvercountedAlways == Spec => []NeverOvercounted
<1>1. Init => AuthInv /\ CountInv
  <2> SUFFICES ASSUME Init PROVE AuthInv /\ CountInv
    OBVIOUS
  <2>1. AuthInv
    BY AuthInitially
  <2>2. /\ req = [s \in Slots |-> Idle] /\ faults = 0
        /\ conc = [m \in Merchants |-> 0] /\ conc \in [Merchants -> Int]
    BY DEF Init
  <2>3. Counting(Idle)
    BY DEF Counting, Idle, Inside, Entering
  <2>4. \A m \in Merchants : Cardinality(Holders(m)) \in Nat
    BY AuthAssumption, FS_Subset, FS_CardinalityType DEF Holders
  <2>5. \A m \in Merchants : conc[m] <= faults + Cardinality(Holders(m))
    BY <2>2, <2>4
  <2>6. QED
    BY <2>1, <2>2, <2>3, <2>5 DEF CountInv
<1>2. AuthInv /\ CountInv /\ [Next]_vars => (AuthInv /\ CountInv)'
  <2> SUFFICES ASSUME AuthInv, CountInv, [Next]_vars PROVE CountInv'
    BY AuthPreserved
  <2>1. ASSUME NEW s \in Slots, Step(s) PROVE CountInv'
    BY <2>1, CountSignInChecks, CountSignIns, CountAuthentication, CountCounter, CountHandlers
       DEF Step
  <2>2. QED
    BY <2>1, CountArrivals, CountFaulty, CountEnvironment DEF Next
<1>3. CountInv => NeverOvercounted
  BY DEF CountInv, NeverOvercounted, Holders
<1>4. QED
  BY <1>1, <1>2, <1>3, PTL DEF Spec
=============================================================================
