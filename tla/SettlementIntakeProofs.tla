----------------------- MODULE SettlementIntakeProofs -----------------------
(***************************************************************************)
(* Proofs about the engine's POST /api/settlements, for any number of      *)
(* requests, keys, days and faults.  That a key makes one settlement a day *)
(* rests on the unique index alone, the Redis claim is not needed: a row   *)
(* inserted today still has in its idempotencyKey column the key that its  *)
(* client sent (CurrentRowsKeepKey), because the cleanup only touches rows *)
(* of an earlier day, so a second insert of that key on the same day finds *)
(* a holder and is refused.  That every successful answer names that one   *)
(* rests on what each request remembers of the row it found (ReplayInv).   *)
(* Both need the key to reach the engine: the clients call it directly.    *)
(***************************************************************************)
EXTENDS SettlementIntake, TLAPS

LocalType ==
    [pc : Stages, client : Keys \cup {NoKey}, key : Keys \cup {NoKey},
     amount : Nat, claimed : BOOLEAN, target : Requests \cup {None}]

RowType == [key : Keys \cup {NoKey}, client : Keys \cup {NoKey}, amount : Nat, day : Nat]

Types ==
    /\ req \in [Requests -> LocalType]
    /\ claim \in [Keys -> Requests \cup {None}]
    /\ row \in [Requests -> RowType \cup {None}]
    /\ today \in Nat

\* The engine sees the key the client sent.
KeyReachesEngine == \A r \in Requests : req[r].key = req[r].client

\* Only a request with a key talks to Redis.
ClaimingHasKey ==
    \A r \in Requests : req[r].pc \in {"claim", "get"} => req[r].key # NoKey

\* No row is from the future, and a row of today has kept its key.
CurrentRowsKeepKey ==
    \A s \in Requests : row[s] # None =>
      /\ row[s].day <= today
      /\ row[s].day = today => row[s].key = row[s].client

IInv ==
    /\ Types
    /\ KeyReachesEngine
    /\ ClaimingHasKey
    /\ CurrentRowsKeepKey
    /\ OneSettlementPerKey

-----------------------------------------------------------------------------
\* The empty table and the idle requests satisfy the invariant.
LEMMA InitIInv == ASSUME Init PROVE IInv
  <1>1. Types
    BY DEF Init, Types, LocalType, Stages
  <1>2. KeyReachesEngine /\ ClaimingHasKey
    BY DEF Init, KeyReachesEngine, ClaimingHasKey
  <1>3. CurrentRowsKeepKey /\ OneSettlementPerKey
    BY DEF Init, CurrentRowsKeepKey, OneSettlementPerKey
  <1> QED  BY <1>1, <1>2, <1>3 DEF IInv

\* What assigning a request's local state as a whole does.
LEMMA Update ==
    ASSUME req \in [Requests -> LocalType], NEW r \in Requests, NEW v \in LocalType,
           req' = [req EXCEPT ![r] = v]
    PROVE  /\ req' \in [Requests -> LocalType]
           /\ req'[r] = v
           /\ \A q \in Requests : q # r => req'[q] = req[q]
  OBVIOUS

\* A step that leaves the table and the clock alone, and moves one request on
\* without changing its keys, keeps the invariant.
LEMMA LocalStep ==
    ASSUME IInv, UNCHANGED <<row, today>>,
           req' \in [Requests -> LocalType],
           claim' \in [Keys -> Requests \cup {None}],
           ClaimingHasKey',
           \A r \in Requests : req'[r].key = req[r].key /\ req'[r].client = req[r].client
    PROVE  IInv'
  <1>1. Types' /\ KeyReachesEngine'
    BY DEF IInv, Types, KeyReachesEngine
  <1>2. CurrentRowsKeepKey' /\ OneSettlementPerKey'
    BY DEF IInv, CurrentRowsKeepKey, OneSettlementPerKey
  <1> QED  BY <1>1, <1>2 DEF IInv

\* Inserting a row keeps the invariant: the index admits the key only when no
\* row holds it, so no row of today was asked for with the same key.
LEMMA InsertStep ==
    ASSUME IInv, NEW r \in Requests,
           req[r].key = NoKey \/ HoldersOf(req[r].key) = {},
           row' = [row EXCEPT ![r] = NewRow(r)],
           req' = [req EXCEPT ![r] = [@ EXCEPT !.pc = "enqueue", !.target = r]],
           UNCHANGED <<claim, today>>
    PROVE  IInv'
  <1>1. NewRow(r) \in RowType /\ NewRow(r).day = today
        /\ NewRow(r).key = req[r].key /\ NewRow(r).client = req[r].client
    BY DEF NewRow, RowType, IInv, Types, LocalType, Stages
  <1>2. Types'
    <2>1. row' \in [Requests -> RowType \cup {None}]
      BY <1>1 DEF IInv, Types
    <2>2. req' \in [Requests -> LocalType]
      BY ZenonT(40) DEF IInv, Types, LocalType, Stages
    <2> QED  BY <2>1, <2>2 DEF IInv, Types
  <1>3. KeyReachesEngine' /\ ClaimingHasKey'
    BY DEF IInv, Types, LocalType, Stages, KeyReachesEngine, ClaimingHasKey
  <1>4. CurrentRowsKeepKey'
    <2> SUFFICES ASSUME NEW s \in Requests, row'[s] # None
                 PROVE  row'[s].day <= today' /\ (row'[s].day = today' => row'[s].key = row'[s].client)
      BY DEF CurrentRowsKeepKey
    <2>1. CASE s = r
      BY <1>1, <2>1 DEF IInv, Types, KeyReachesEngine
    <2>2. CASE s # r
      BY <2>2 DEF IInv, Types, CurrentRowsKeepKey
    <2> QED  BY <2>1, <2>2
  <1>5. OneSettlementPerKey'
    <2>1. ASSUME NEW s \in Requests, s # r, row[s] # None, req[r].client # NoKey,
                 row[s].client = req[r].client
          PROVE  row[s].day # today
      <3>1. req[r].key = req[r].client
        BY DEF IInv, KeyReachesEngine
      <3>2. row[s].key # req[r].key
        BY <2>1, <3>1 DEF HoldersOf
      <3> QED  BY <2>1, <3>1, <3>2 DEF IInv, CurrentRowsKeepKey
    <2>2. ASSUME NEW s \in Requests, NEW t \in Requests, s # t,
                 row'[s] # None, row'[t] # None,
                 row'[s].client = row'[t].client, row'[s].client # NoKey
          PROVE  row'[s].day # row'[t].day
      <3>1. CASE s = r
        <4>1. row'[s] = NewRow(r) /\ row'[t] = row[t]
          BY <2>2, <3>1 DEF IInv, Types
        <4> QED  BY <1>1, <2>1, <2>2, <3>1, <4>1
      <3>2. CASE t = r
        <4>1. row'[t] = NewRow(r) /\ row'[s] = row[s]
          BY <2>2, <3>2 DEF IInv, Types
        <4> QED  BY <1>1, <2>1, <2>2, <3>2, <4>1
      <3>3. CASE s # r /\ t # r
        <4>1. row'[t] = row[t] /\ row'[s] = row[s]
          BY <3>3 DEF IInv, Types
        <4> QED  BY <2>2, <4>1 DEF IInv, OneSettlementPerKey
      <3> QED  BY <3>1, <3>2, <3>3
    <2> QED  BY <2>2 DEF OneSettlementPerKey
  <1> QED  BY <1>2, <1>3, <1>4, <1>5 DEF IInv

\* The cleanup changes the key column of rows of an earlier day, and nothing else.
LEMMA ReclaimStep == ASSUME IInv, ReclaimExpiredKeys PROVE IInv'
  <1>1. \A s \in Requests : row'[s] = IF row[s] # None /\ row[s].day < today
                                        THEN [row[s] EXCEPT !.key = NoKey] ELSE row[s]
    BY DEF ReclaimExpiredKeys
  <1>2. Types'
    BY DEF ReclaimExpiredKeys, IInv, Types, RowType
  <1>3. \A s \in Requests : row'[s] # None =>
          /\ row[s] # None
          /\ row'[s].day = row[s].day /\ row'[s].client = row[s].client
          /\ row[s].day = today => row'[s].key = row[s].key
    <2> SUFFICES ASSUME NEW s \in Requests, row'[s] # None
                 PROVE  /\ row[s] # None
                        /\ row'[s].day = row[s].day /\ row'[s].client = row[s].client
                        /\ row[s].day = today => row'[s].key = row[s].key
      OBVIOUS
    <2>1. CASE row[s] # None /\ row[s].day < today
      <3>1. row[s] \in RowType /\ today \in Nat
        BY <2>1 DEF IInv, Types
      <3>2. row'[s] = [row[s] EXCEPT !.key = NoKey]
        BY <1>1, <2>1
      <3> QED  BY <2>1, <3>1, <3>2 DEF RowType
    <2>2. CASE ~(row[s] # None /\ row[s].day < today)
      BY <1>1, <2>2
    <2> QED  BY <2>1, <2>2
  <1>4. KeyReachesEngine' /\ ClaimingHasKey' /\ today' = today
    BY DEF ReclaimExpiredKeys, IInv, KeyReachesEngine, ClaimingHasKey
  <1>5. CurrentRowsKeepKey'
    BY <1>3, <1>4 DEF IInv, CurrentRowsKeepKey
  <1>6. OneSettlementPerKey'
    BY <1>3 DEF IInv, OneSettlementPerKey
  <1> QED  BY <1>2, <1>4, <1>5, <1>6 DEF IInv

\* Each step of the engine called directly keeps the invariant.
LEMMA NextIInv == ASSUME ~ViaGateway, IInv, [Next]_vars PROVE IInv'
  <1> USE IntakeAssumption
  <1> DEFINE Local == /\ UNCHANGED <<row, today>>
                      /\ req' \in [Requests -> LocalType]
                      /\ claim' \in [Keys -> Requests \cup {None}]
                      /\ ClaimingHasKey'
                      /\ \A r \in Requests : /\ req'[r].key = req[r].key
                                             /\ req'[r].client = req[r].client
  <1>1. ASSUME NEW r \in Requests, NEW k \in Keys \cup {NoKey}, NEW a \in Amounts,
               Receive(r, k, a)
        PROVE  IInv'
    <2>1. Types'
      <3>1. ForwardedKey(k) \in Keys \cup {NoKey} /\ a \in Nat
        BY DEF ForwardedKey
      <3> DEFINE v == [req[r] EXCEPT !.pc = "volume", !.client = k,
                                     !.key = ForwardedKey(k), !.amount = a]
      <3>2. v \in LocalType
        BY <3>1, ZenonT(40) DEF IInv, Types, LocalType, Stages
      <3>3. req' = [req EXCEPT ![r] = v]
        BY <1>1 DEF Receive
      <3> HIDE DEF v
      <3>4. req' \in [Requests -> LocalType]
        BY <3>2, <3>3, Update DEF IInv, Types
      <3> QED  BY <1>1, <3>4 DEF Receive, IInv, Types
    <2>2. KeyReachesEngine' /\ ClaimingHasKey'
      BY <1>1 DEF Receive, ForwardedKey, IInv, Types, LocalType, Stages, KeyReachesEngine,
                  ClaimingHasKey
    <2>3. CurrentRowsKeepKey' /\ OneSettlementPerKey'
      BY <1>1 DEF Receive, IInv, CurrentRowsKeepKey, OneSettlementPerKey
    <2> QED  BY <2>1, <2>2, <2>3 DEF IInv
  <1>2. ASSUME NEW r \in Requests, Reject(r) PROVE Local
    BY <1>2 DEF Reject, Answer, Goto, IInv, Types, LocalType, Stages, ClaimingHasKey
  <1>3. ASSUME NEW r \in Requests, CheckVolume(r) PROVE Local
    BY <1>3 DEF CheckVolume, Answer, Goto, IInv, Types, LocalType, Stages, ClaimingHasKey
  <1>4. ASSUME NEW r \in Requests, Claim(r) PROVE Local
    <2> DEFINE v == [req[r] EXCEPT !.pc = "create", !.claimed = TRUE]
    <2>1. v \in LocalType /\ v.key = req[r].key /\ v.client = req[r].client /\ v.pc = "create"
      BY ZenonT(30) DEF IInv, Types, LocalType, Stages
    <2>2. CASE claim[req[r].key] = None
      <3>1. req' = [req EXCEPT ![r] = v]
        BY <1>4, <2>2 DEF Claim
      <3> HIDE DEF v
      <3>2. /\ req' \in [Requests -> LocalType]
            /\ req'[r] = v
            /\ \A q \in Requests : q # r => req'[q] = req[q]
        BY <2>1, <3>1, Update DEF IInv, Types
      <3>3. ClaimingHasKey'
        BY <2>1, <3>2 DEF IInv, ClaimingHasKey
      <3>4. claim' \in [Keys -> Requests \cup {None}]
        BY <1>4, <2>2 DEF Claim, IInv, Types
      <3> QED  BY <1>4, <2>1, <3>2, <3>3, <3>4 DEF Claim
    <2>3. CASE claim[req[r].key] # None
      BY <1>4, <2>3 DEF Claim, Goto, IInv, Types, LocalType, Stages, ClaimingHasKey
    <2> QED  BY <2>2, <2>3
  <1>5. ASSUME NEW r \in Requests, ClaimError(r) \/ GetClaimError(r) PROVE Local
    BY <1>5 DEF ClaimError, GetClaimError, Goto, IInv, Types, LocalType, Stages, ClaimingHasKey
  <1>6. ASSUME NEW r \in Requests, GetClaim(r) PROVE Local
    <2>1. CASE claim[req[r].key] = None
      BY <1>6, <2>1 DEF GetClaim, Goto, IInv, Types, LocalType, Stages, ClaimingHasKey
    <2>2. CASE claim[req[r].key] # None
      <3> DEFINE v == [req[r] EXCEPT !.pc = "find", !.target = claim[req[r].key]]
      <3>1. req[r] \in LocalType /\ req[r].key \in Keys
        BY <1>6 DEF GetClaim, IInv, Types, LocalType, ClaimingHasKey
      <3>2. claim[req[r].key] \in Requests \cup {None}
        BY <3>1 DEF IInv, Types
      <3>3. v \in LocalType /\ v.key = req[r].key /\ v.client = req[r].client /\ v.pc = "find"
        BY <3>1, <3>2 DEF LocalType, Stages
      <3>4. req' = [req EXCEPT ![r] = v]
        BY <1>6, <2>2 DEF GetClaim
      <3> HIDE DEF v
      <3>5. /\ req' \in [Requests -> LocalType]
            /\ req'[r] = v
            /\ \A q \in Requests : q # r => req'[q] = req[q]
        BY <3>3, <3>4, Update DEF IInv, Types
      <3>6. ClaimingHasKey'
        BY <3>3, <3>5 DEF IInv, ClaimingHasKey
      <3> QED  BY <1>6, <3>3, <3>5, <3>6 DEF GetClaim, IInv, Types
    <2> QED  BY <2>1, <2>2
  <1>7. ASSUME NEW r \in Requests, FindClaimed(r) PROVE Local
    BY <1>7 DEF FindClaimed, Answer, Goto, IInv, Types, LocalType, Stages, ClaimingHasKey
  <1>8. ASSUME NEW r \in Requests, Create(r) PROVE IInv'
    <2>1. CASE HoldersOf(req[r].key) = {} \/ req[r].key = NoKey
      BY <1>8, <2>1, InsertStep DEF Create
    <2>2. CASE HoldersOf(req[r].key) # {} /\ req[r].key # NoKey
      <3>1. Local
        BY <1>8, <2>2 DEF Create, Goto, IInv, Types, LocalType, Stages, ClaimingHasKey
      <3> QED  BY <3>1, LocalStep
    <2> QED  BY <2>1, <2>2
  <1>9. ASSUME NEW r \in Requests, ReadWinner(r) PROVE Local
    <2>1. ASSUME NEW s \in Requests,
                 req' = [req EXCEPT ![r] = [@ EXCEPT !.pc = "enqueue", !.target = s]]
          PROVE  Local
      <3> DEFINE v == [req[r] EXCEPT !.pc = "enqueue", !.target = s]
      <3>1. v \in LocalType /\ v.key = req[r].key /\ v.client = req[r].client /\ v.pc = "enqueue"
        BY ZenonT(40) DEF IInv, Types, LocalType, Stages
      <3>2. req' = [req EXCEPT ![r] = v]
        BY <2>1
      <3> HIDE DEF v
      <3>3. /\ req' \in [Requests -> LocalType]
            /\ req'[r] = v
            /\ \A q \in Requests : q # r => req'[q] = req[q]
        BY <3>1, <3>2, Update DEF IInv, Types
      <3>4. ClaimingHasKey'
        BY <3>1, <3>3 DEF IInv, ClaimingHasKey
      <3> QED  BY <1>9, <3>1, <3>3, <3>4 DEF ReadWinner, IInv, Types
    <2>2. CASE Answer(r, 500, None)
      <3>1. req' = [req EXCEPT ![r].pc = "done"] /\ UNCHANGED <<claim, row, today>>
        BY <1>9, <2>2 DEF ReadWinner, Answer, Goto
      <3> QED  BY <3>1 DEF IInv, Types, LocalType, Stages, ClaimingHasKey
    <2> QED  BY <1>9, <2>1, <2>2 DEF ReadWinner, HoldersOf
  <1>10. ASSUME NEW r \in Requests, Enqueue(r) \/ Fail(r) PROVE Local
    BY <1>10 DEF Enqueue, Fail, Answer, Goto, IInv, Types, LocalType, Stages, ClaimingHasKey
  <1>11. ASSUME NextDay PROVE IInv'
    <2>1. Types'
      BY <1>11 DEF NextDay, IInv, Types
    <2>2. KeyReachesEngine' /\ ClaimingHasKey' /\ OneSettlementPerKey'
      BY <1>11 DEF NextDay, IInv, KeyReachesEngine, ClaimingHasKey, OneSettlementPerKey
    <2>3. CurrentRowsKeepKey'
      BY <1>11 DEF NextDay, IInv, Types, RowType, CurrentRowsKeepKey
    <2> QED  BY <2>1, <2>2, <2>3 DEF IInv
  <1>12. ASSUME UNCHANGED vars PROVE Local
    BY <1>12 DEF vars, IInv, Types, ClaimingHasKey
  <1>13. CASE \E r \in Requests : Step(r)
    BY <1>1, <1>2, <1>3, <1>4, <1>5, <1>6, <1>7, <1>8, <1>9, <1>10, <1>13, LocalStep DEF Step
  <1>14. CASE NextDay \/ ReclaimExpiredKeys \/ Finished \/ UNCHANGED vars
    BY <1>11, <1>12, <1>14, LocalStep, ReclaimStep DEF Finished
  <1> QED  BY <1>13, <1>14 DEF Next

\* Retries with one key never create a second settlement within 24 hours, for
\* any interleaving of any number of requests and any Redis failures, when the
\* clients call the engine's POST /api/settlements directly.
THEOREM OneSettlementPerKeyAlways == ~ViaGateway /\ Spec => []OneSettlementPerKey
  <1> SUFFICES ASSUME ~ViaGateway PROVE Spec => []OneSettlementPerKey
    OBVIOUS
  <1>1. Init => IInv
    BY InitIInv
  <1>2. IInv /\ [Next]_vars => IInv'
    BY NextIInv
  <1>3. IInv => OneSettlementPerKey
    BY DEF IInv
  <1> QED  BY <1>1, <1>2, <1>3, PTL DEF Spec

-----------------------------------------------------------------------------
(* What the answers name                                                   *)

\* Settlement s exists and was asked for with the key of request r.
Names(r, s) ==
    /\ s \in Requests
    /\ row[s] # None
    /\ req[r].client # NoKey => row[s].client = req[r].client

\* A claim, and what a request has read of one, name a request with that key; a
\* row has its request's key, in the column until the cleanup takes it; what a
\* request enqueues or answers with success is a row of its key.
ReplayInv ==
    /\ answer = [r \in Requests |-> answer[r]]
    /\ \A s \in Requests : row[s] # None =>
         /\ req[s].pc # "idle"
         /\ row[s].client = req[s].client
         /\ row[s].key \in {NoKey, row[s].client}
    /\ \A k \in Keys : claim[k] # None => req[claim[k]].pc # "idle" /\ req[claim[k]].key = k
    /\ \A r \in Requests : req[r].pc = "find" =>
         /\ req[r].target \in Requests
         /\ req[req[r].target].pc # "idle"
         /\ req[req[r].target].key = req[r].key
    /\ \A r \in Requests : req[r].pc = "enqueue" => Names(r, req[r].target)
    /\ \A r \in Requests : Succeeded(r) => req[r].pc = "done" /\ Names(r, answer[r].id)

\* A step of request r, which becomes v: the rows keep their clients, so what the
\* others name stays named.
LEMMA ReplayStep ==
    ASSUME IInv, ReplayInv, NEW r \in Requests, NEW v \in LocalType,
           req' = [req EXCEPT ![r] = v], req[r].pc # "done", v.pc # "idle",
           req[r].pc # "idle" => v.key = req[r].key /\ v.client = req[r].client,
           \A s \in Requests : s # r => row'[s] = row[s],
           \/ row'[r] = row[r]
           \/ row'[r] # None /\ row'[r].client = v.client /\ row'[r].key \in {NoKey, v.client},
           \A k \in Keys : claim'[k] = claim[k] \/ (claim'[k] = r /\ v.key = k),
           v.pc = "find" => claim[v.key] = v.target /\ claim[v.key] # None /\ v.key \in Keys
                            /\ req[r].pc # "idle",
           v.pc = "enqueue" => Names(r, v.target)',
           \/ UNCHANGED answer
           \/ \E a : /\ answer' = [answer EXCEPT ![r] = a]
                     /\ a.code \in {200, 201} => v.pc = "done" /\ Names(r, a.id)'
    PROVE  ReplayInv'
  <1>1. /\ req'[r] = v
        /\ \A q \in Requests : q # r => req'[q] = req[q]
    BY Update DEF IInv, Types
  <1>2. \A q \in Requests : req[q].pc # "idle" =>
          req'[q].pc # "idle" /\ req'[q].key = req[q].key /\ req'[q].client = req[q].client
    BY <1>1
  <1>3. \A s \in Requests : row[s] # None => row'[s] # None /\ row'[s].client = row[s].client
    BY DEF ReplayInv
  <1>4. ASSUME NEW q \in Requests, q # r, NEW s, Names(q, s)
        PROVE  Names(q, s)'
    BY <1>1, <1>3, <1>4 DEF Names
  <1>5. \A s \in Requests : row'[s] # None =>
          /\ req'[s].pc # "idle"
          /\ row'[s].client = req'[s].client
          /\ row'[s].key \in {NoKey, row'[s].client}
    BY <1>1, <1>2 DEF ReplayInv
  <1>6. \A k \in Keys : claim'[k] # None => req'[claim'[k]].pc # "idle" /\ req'[claim'[k]].key = k
    <2> SUFFICES ASSUME NEW k \in Keys, claim'[k] # None
                 PROVE  req'[claim'[k]].pc # "idle" /\ req'[claim'[k]].key = k
      OBVIOUS
    <2>1. CASE claim'[k] = r /\ v.key = k
      BY <1>1, <2>1
    <2>2. CASE claim'[k] = claim[k]
      <3>1. claim[k] \in Requests
        BY <2>2 DEF IInv, Types
      <3> QED  BY <1>2, <2>2, <3>1 DEF ReplayInv
    <2> QED  BY <2>1, <2>2
  <1>7. \A q \in Requests : req'[q].pc = "find" =>
          /\ req'[q].target \in Requests
          /\ req'[req'[q].target].pc # "idle"
          /\ req'[req'[q].target].key = req'[q].key
    <2> SUFFICES ASSUME NEW q \in Requests, req'[q].pc = "find"
                 PROVE  /\ req'[q].target \in Requests
                        /\ req'[req'[q].target].pc # "idle"
                        /\ req'[req'[q].target].key = req'[q].key
      OBVIOUS
    <2>1. CASE q = r
      <3>1. /\ claim[v.key] = v.target /\ claim[v.key] \in Requests
            /\ req[v.target].pc # "idle" /\ req[v.target].key = v.key
        BY <1>1, <2>1 DEF IInv, Types, ReplayInv
      <3> QED  BY <1>1, <1>2, <2>1, <3>1
    <2>2. CASE q # r
      BY <1>1, <1>2, <2>2 DEF ReplayInv
    <2> QED  BY <2>1, <2>2
  <1>8. ASSUME NEW q \in Requests, req'[q].pc = "enqueue" PROVE Names(q, req[q].target)'
    <2>1. CASE q = r
      BY <1>1, <1>8, <2>1 DEF Names
    <2>2. CASE q # r
      <3>1. req'[q] = req[q]
        BY <1>1, <2>2
      <3>2. Names(q, req[q].target)
        BY <1>8, <3>1 DEF ReplayInv
      <3> QED  BY <1>1, <1>3, <2>2, <3>1, <3>2 DEF Names
    <2> QED  BY <2>1, <2>2
  <1>9. answer' = [q \in Requests |-> answer'[q]]
    BY DEF ReplayInv
  <1>10. ASSUME NEW q \in Requests, Succeeded(q)'
         PROVE  req'[q].pc = "done" /\ Names(q, answer[q].id)'
    <2>1. CASE q # r
      <3>1. answer'[q] = answer[q]
        BY <2>1 DEF ReplayInv
      <3>2. Succeeded(q)
        BY <1>10, <3>1 DEF Succeeded
      <3>3. req[q].pc = "done" /\ Names(q, answer[q].id)
        BY <3>2 DEF ReplayInv
      <3> QED  BY <1>1, <1>3, <2>1, <3>1, <3>3 DEF Names
    <2>2. CASE q = r
      <3>1. ~Succeeded(r)
        BY DEF ReplayInv
      <3>2. PICK a : /\ answer' = [answer EXCEPT ![r] = a]
                     /\ a.code \in {200, 201} => v.pc = "done" /\ Names(r, a.id)'
        BY <1>10, <2>2, <3>1 DEF Succeeded
      <3>3. answer'[r] = a
        BY <3>2 DEF ReplayInv
      <3> QED  BY <1>1, <1>10, <2>2, <3>2, <3>3 DEF Succeeded, Names
    <2> QED  BY <2>1, <2>2
  <1> QED  BY <1>5, <1>6, <1>7, <1>8, <1>9, <1>10 DEF ReplayInv

\* The same for a step that touches neither the table nor the claims.
LEMMA ReplayGoto ==
    ASSUME IInv, ReplayInv, NEW r \in Requests, NEW pc \in Stages \ {"idle", "find", "enqueue"},
           Goto(r, pc), req[r].pc \notin {"idle", "done"}, UNCHANGED <<row, claim>>,
           \/ UNCHANGED answer
           \/ \E a : /\ answer' = [answer EXCEPT ![r] = a]
                     /\ a.code \in {200, 201} => pc = "done" /\ Names(r, a.id)
    PROVE  ReplayInv'
  <1>0. PICK v : v = [req[r] EXCEPT !.pc = pc]
    OBVIOUS
  <1>1. v \in LocalType /\ v.pc = pc /\ v.key = req[r].key /\ v.client = req[r].client
    BY <1>0 DEF IInv, Types, LocalType
  <1>2. req' = [req EXCEPT ![r] = v]
    BY <1>0 DEF Goto
  <1>3. \A q \in Requests : req'[q].client = req[q].client
    BY <1>1, <1>2 DEF IInv, Types
  <1>4. ASSUME NEW s, Names(r, s) PROVE Names(r, s)'
    BY <1>3, <1>4 DEF Names
  <1>5. \/ UNCHANGED answer
        \/ \E a : /\ answer' = [answer EXCEPT ![r] = a]
                  /\ a.code \in {200, 201} => v.pc = "done" /\ Names(r, a.id)'
    <2>1. CASE UNCHANGED answer
      BY <2>1
    <2>2. CASE ~UNCHANGED answer
      <3>1. PICK a : /\ answer' = [answer EXCEPT ![r] = a]
                     /\ a.code \in {200, 201} => pc = "done" /\ Names(r, a.id)
        BY <2>2
      <3>2. a.code \in {200, 201} => v.pc = "done" /\ Names(r, a.id)'
        BY <1>1, <1>3, <3>1 DEF Names
      <3> QED  BY <3>1, <3>2
    <2> QED  BY <2>1, <2>2
  <1> QED  BY <1>1, <1>2, <1>5, ReplayStep

\* The answer of a request that does not succeed, or names a settlement of its key.
LEMMA Answering ==
    ASSUME IInv, ReplayInv, NEW r \in Requests, req[r].pc \notin {"idle", "done"},
           NEW code, NEW s, Answer(r, code, s), UNCHANGED <<row, claim>>,
           code \in {200, 201} => Names(r, s)
    PROVE  ReplayInv'
  <1>1. PICK a : a = [code |-> code, id |-> s, day |-> today]
    OBVIOUS
  <1>2. answer' = [answer EXCEPT ![r] = a] /\ a.code = code /\ a.id = s
    BY <1>1 DEF Answer
  <1> QED  BY <1>2, ReplayGoto DEF Answer, Stages

\* Each step of a request keeps what its answers will name.
LEMMA ReplayNext == ASSUME ~ViaGateway, IInv, ReplayInv, [Next]_vars PROVE ReplayInv'
  <1> USE IntakeAssumption
  <1>1. ASSUME NEW r \in Requests, NEW k \in Keys \cup {NoKey}, NEW a \in Amounts,
               Receive(r, k, a)
        PROVE  ReplayInv'
    <2> DEFINE v == [req[r] EXCEPT !.pc = "volume", !.client = k,
                                   !.key = ForwardedKey(k), !.amount = a]
    <2>1. ForwardedKey(k) \in Keys \cup {NoKey} /\ a \in Nat
      BY DEF ForwardedKey
    <2>2. v \in LocalType /\ v.pc = "volume"
      BY <2>1, ZenonT(40) DEF IInv, Types, LocalType, Stages
    <2>3. req' = [req EXCEPT ![r] = v] /\ UNCHANGED <<claim, row, answer>> /\ req[r].pc = "idle"
      BY <1>1 DEF Receive
    <2> HIDE DEF v
    <2> QED  BY <2>2, <2>3, ReplayStep
  <1>2. ASSUME NEW r \in Requests,
               Reject(r) \/ CheckVolume(r) \/ ClaimError(r) \/ GetClaimError(r) \/ Fail(r)
        PROVE  ReplayInv'
    <2>1. /\ req[r].pc \notin {"idle", "done"} /\ UNCHANGED <<row, claim>>
          /\ \/ \E pc \in {"create", "claim", "get"} : Goto(r, pc) /\ UNCHANGED answer
             \/ \E code \in {422, 429, 500} : Answer(r, code, None)
      BY <1>2 DEF Reject, CheckVolume, ClaimError, GetClaimError, Fail
    <2>2. CASE \E code \in {422, 429, 500} : Answer(r, code, None)
      BY <2>1, <2>2, Answering
    <2>3. CASE \E pc \in {"create", "claim", "get"} : Goto(r, pc) /\ UNCHANGED answer
      BY <2>1, <2>3, ReplayGoto DEF Stages
    <2> QED  BY <2>1, <2>2, <2>3
  <1>3. ASSUME NEW r \in Requests, Claim(r) PROVE ReplayInv'
    <2>1. req[r].key \in Keys
      BY <1>3 DEF Claim, IInv, ClaimingHasKey, Types, LocalType
    <2>2. CASE claim[req[r].key] = None
      <3>4. PICK v : v = [req[r] EXCEPT !.pc = "create", !.claimed = TRUE]
        OBVIOUS
      <3>1. v \in LocalType /\ v.key = req[r].key /\ v.client = req[r].client /\ v.pc = "create"
        BY ZenonT(30), <3>4 DEF IInv, Types, LocalType, Stages
      <3>2. /\ req' = [req EXCEPT ![r] = v] /\ UNCHANGED <<row, answer>> /\ req[r].pc = "claim"
            /\ claim' = [claim EXCEPT ![req[r].key] = r]
        BY <1>3, <2>2, <3>4 DEF Claim
      <3>3. \A k \in Keys : claim'[k] = claim[k] \/ (claim'[k] = r /\ v.key = k)
        <4> SUFFICES ASSUME NEW k \in Keys PROVE claim'[k] = claim[k] \/ (claim'[k] = r /\ v.key = k)
          OBVIOUS
        <4>1. claim \in [Keys -> Requests \cup {None}]
          BY DEF IInv, Types
        <4>2. CASE k = req[r].key
          BY <3>1, <3>2, <4>1, <4>2
        <4>3. CASE k # req[r].key
          BY <3>2, <4>1, <4>3
        <4> QED  BY <4>2, <4>3
      <3>5. req[r].pc # "done" /\ v.pc \notin {"idle", "find", "enqueue"}
        BY <3>1, <3>2
      <3>6. UNCHANGED answer /\ row'[r] = row[r] /\ \A s \in Requests : s # r => row'[s] = row[s]
        BY <3>2
      <3> HIDE IntakeAssumption
      <3> QED  BY <3>1, <3>2, <3>3, <3>5, <3>6, ReplayStep
    <2>3. CASE claim[req[r].key] # None
      BY <1>3, <2>3, ReplayGoto DEF Claim, Stages
    <2> QED  BY <2>2, <2>3
  <1>4. ASSUME NEW r \in Requests, GetClaim(r) PROVE ReplayInv'
    <2>1. CASE claim[req[r].key] = None
      BY <1>4, <2>1, ReplayGoto DEF GetClaim, Stages
    <2>2. CASE claim[req[r].key] # None
      <3> DEFINE v == [req[r] EXCEPT !.pc = "find", !.target = claim[req[r].key]]
      <3>1. req[r] \in LocalType /\ req[r].key \in Keys
        BY <1>4 DEF GetClaim, IInv, Types, LocalType, ClaimingHasKey
      <3>2. claim[req[r].key] \in Requests \cup {None}
        BY <3>1 DEF IInv, Types
      <3>3. /\ v \in LocalType /\ v.key = req[r].key /\ v.client = req[r].client /\ v.pc = "find"
            /\ v.target = claim[req[r].key]
        BY <3>1, <3>2 DEF LocalType, Stages
      <3>4. req' = [req EXCEPT ![r] = v] /\ UNCHANGED <<row, claim, answer>> /\ req[r].pc = "get"
        BY <1>4, <2>2 DEF GetClaim
      <3> HIDE DEF v
      <3> QED  BY <2>2, <3>1, <3>3, <3>4, ReplayStep
    <2> QED  BY <2>1, <2>2
  <1>5. ASSUME NEW r \in Requests, FindClaimed(r) PROVE ReplayInv'
    <2>1. CASE row[req[r].target] # None /\ Answer(r, 200, req[r].target)
      <3>1. /\ req[r].target \in Requests
            /\ req[req[r].target].key = req[r].key
            /\ row[req[r].target].client = req[req[r].target].client
        BY <1>5, <2>1 DEF FindClaimed, ReplayInv
      <3>2. Names(r, req[r].target)
        BY <2>1, <3>1 DEF IInv, KeyReachesEngine, Names
      <3> QED  BY <1>5, <2>1, <3>2, Answering DEF FindClaimed
    <2>2. CASE Goto(r, "create") /\ UNCHANGED answer
      BY <1>5, <2>2, ReplayGoto DEF FindClaimed, Stages
    <2> QED  BY <1>5, <2>1, <2>2 DEF FindClaimed
  <1>6. ASSUME NEW r \in Requests, Create(r) PROVE ReplayInv'
    <2>1. CASE row' = [row EXCEPT ![r] = NewRow(r)]
               /\ req' = [req EXCEPT ![r] = [@ EXCEPT !.pc = "enqueue", !.target = r]]
      <3>5. PICK v : v = [req[r] EXCEPT !.pc = "enqueue", !.target = r]
        OBVIOUS
      <3>1. /\ v \in LocalType /\ v.key = req[r].key /\ v.client = req[r].client
            /\ v.pc = "enqueue" /\ v.target = r
        BY <3>5, ZenonT(40) DEF IInv, Types, LocalType, Stages
      <3>2. /\ req' = [req EXCEPT ![r] = v] /\ UNCHANGED <<claim, answer>>
            /\ req[r].pc = "create"
        BY <1>6, <2>1, <3>5 DEF Create
      <3>3. /\ row'[r] = NewRow(r) /\ NewRow(r) # None /\ NewRow(r).client = req[r].client
            /\ NewRow(r).key = req[r].key /\ req[r].key = req[r].client
            /\ \A s \in Requests : s # r => row'[s] = row[s]
        <4>1. NewRow(r).client = req[r].client /\ NewRow(r).key = req[r].key
          BY DEF NewRow
        <4>2. row'[r] = NewRow(r) /\ \A s \in Requests : s # r => row'[s] = row[s]
          BY <2>1 DEF IInv, Types
        <4>3. NewRow(r) # None
          <5>1. NewRow(r) \in RowType
            BY DEF NewRow, RowType, IInv, Types, LocalType
          <5> QED  BY <5>1 DEF RowType
        <4> QED  BY <4>1, <4>2, <4>3 DEF IInv, KeyReachesEngine
      <3>4. Names(r, v.target)'
        <4>1. req'[r] = v
          BY <3>1, <3>2, Update DEF IInv, Types
        <4> QED  BY <3>1, <3>3, <4>1 DEF Names
      <3> QED  BY <3>1, <3>2, <3>3, <3>4, ReplayStep
    <2>2. CASE Goto(r, "conflict") /\ UNCHANGED row
      BY <1>6, <2>2, ReplayGoto DEF Create, Stages
    <2> QED  BY <1>6, <2>1, <2>2 DEF Create
  <1>7. ASSUME NEW r \in Requests, ReadWinner(r) PROVE ReplayInv'
    <2>1. ASSUME NEW s \in HoldersOf(req[r].key), UNCHANGED answer,
                 req' = [req EXCEPT ![r] = [@ EXCEPT !.pc = "enqueue", !.target = s]]
          PROVE  ReplayInv'
      <3>5. PICK v : v = [req[r] EXCEPT !.pc = "enqueue", !.target = s]
        OBVIOUS
      <3>0. s \in Requests /\ row[s] # None /\ row[s].key = req[r].key
        BY <2>1 DEF HoldersOf
      <3>1. /\ v \in LocalType /\ v.key = req[r].key /\ v.client = req[r].client
            /\ v.pc = "enqueue" /\ v.target = s
        BY <3>0, <3>5, ZenonT(40) DEF IInv, Types, LocalType, Stages
      <3>2. /\ req' = [req EXCEPT ![r] = v] /\ UNCHANGED <<row, claim, answer>>
            /\ req[r].pc = "conflict"
        BY <1>7, <2>1, <3>5 DEF ReadWinner
      <3>3. req[r].client # NoKey => row[s].client = req[r].client
        BY <3>0 DEF IInv, KeyReachesEngine, ReplayInv
      <3>4. Names(r, v.target)'
        <4>1. req'[r] = v
          BY <3>1, <3>2, Update DEF IInv, Types
        <4> QED  BY <3>0, <3>1, <3>2, <3>3, <4>1 DEF Names
      <3> QED  BY <3>1, <3>2, <3>4, ReplayStep
    <2>2. CASE Answer(r, 500, None)
      <3>1. req[r].pc = "conflict" /\ UNCHANGED <<row, claim>>
        BY <1>7 DEF ReadWinner
      <3>2. 500 \in {200, 201} => Names(r, None)
        OBVIOUS
      <3> QED  BY <2>2, <3>1, <3>2, Answering
    <2> QED  BY <1>7, <2>1, <2>2 DEF ReadWinner
  <1>8. ASSUME NEW r \in Requests, Enqueue(r) PROVE ReplayInv'
    <2>1. Names(r, req[r].target)
      BY <1>8 DEF Enqueue, ReplayInv
    <2> QED  BY <1>8, <2>1, Answering DEF Enqueue
  <1>9. ASSUME NextDay PROVE ReplayInv'
    BY <1>9 DEF NextDay, ReplayInv, Names, Succeeded
  <1>10. ASSUME ReclaimExpiredKeys PROVE ReplayInv'
    <2>1. \A s \in Requests : row'[s] # None =>
            row[s] # None /\ row'[s].client = row[s].client /\ row'[s].key \in {NoKey, row[s].key}
      <3> SUFFICES ASSUME NEW s \in Requests, row'[s] # None
                   PROVE  /\ row[s] # None /\ row'[s].client = row[s].client
                          /\ row'[s].key \in {NoKey, row[s].key}
        OBVIOUS
      <3>1. CASE row[s] # None /\ row'[s] = [row[s] EXCEPT !.key = NoKey]
        <4>1. row[s] \in RowType
          BY <3>1 DEF IInv, Types
        <4> QED  BY <3>1, <4>1 DEF RowType
      <3>2. CASE row'[s] = row[s]
        BY <3>2
      <3> QED  BY <1>10, <3>1, <3>2 DEF ReclaimExpiredKeys
    <2>2. \A s \in Requests : row[s] # None => row'[s] # None
      <3> SUFFICES ASSUME NEW s \in Requests, row[s] # None PROVE row'[s] # None
        OBVIOUS
      <3>1. CASE row'[s] = [row[s] EXCEPT !.key = NoKey]
        <4>1. row[s] \in RowType
          BY DEF IInv, Types
        <4>2. row'[s] \in RowType
          BY <3>1, <4>1 DEF RowType
        <4> QED  BY <4>2 DEF RowType
      <3>2. CASE row'[s] = row[s]
        BY <3>2
      <3> QED  BY <1>10, <3>1, <3>2 DEF ReclaimExpiredKeys
    <2>3. UNCHANGED <<req, claim, answer>>
      BY <1>10 DEF ReclaimExpiredKeys
    <2> QED  BY <2>1, <2>2, <2>3 DEF ReplayInv, Names, Succeeded
  <1>11. ASSUME UNCHANGED vars PROVE ReplayInv'
    BY <1>11 DEF vars, ReplayInv, Names, Succeeded
  <1> QED  BY <1>1, <1>2, <1>3, <1>4, <1>5, <1>6, <1>7, <1>8, <1>9, <1>10, <1>11
           DEF Next, Step, Finished

\* The clients that call the engine and retry with one key are answered with one
\* settlement: every success names a settlement asked for with that key, and two
\* that are of one day are the same settlement.
THEOREM RetriesSeeOneSettlementAlways == ~ViaGateway /\ Spec => []RetriesSeeOneSettlement
  <1> SUFFICES ASSUME ~ViaGateway PROVE Spec => []RetriesSeeOneSettlement
    OBVIOUS
  <1>1. Init => IInv /\ ReplayInv
    <2>1. ASSUME Init PROVE ReplayInv
      BY <2>1 DEF Init, ReplayInv, Succeeded
    <2> QED  BY <2>1, InitIInv
  <1>2. IInv /\ ReplayInv /\ [Next]_vars => (IInv /\ ReplayInv)'
    BY NextIInv, ReplayNext
  <1>3. IInv /\ ReplayInv => RetriesSeeOneSettlement
    <2> SUFFICES ASSUME IInv, ReplayInv, NEW r \in Requests, NEW q \in Requests,
                        Succeeded(r), Succeeded(q),
                        req[r].client = req[q].client, req[r].client # NoKey
                 PROVE  /\ Answered(r).client = req[r].client
                        /\ Answered(r).day = Answered(q).day => answer[r].id = answer[q].id
      BY DEF RetriesSeeOneSettlement
    <2>1. Names(r, answer[r].id) /\ Names(q, answer[q].id)
      BY DEF ReplayInv
    <2> QED  BY <2>1 DEF Names, Answered, IInv, OneSettlementPerKey
  <1> QED  BY <1>1, <1>2, <1>3, PTL DEF Spec
=============================================================================
