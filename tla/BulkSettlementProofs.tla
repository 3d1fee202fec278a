------------------------ MODULE BulkSettlementProofs ------------------------
(***************************************************************************)
(* Proofs about POST /api/settlements/bulk, for any number of requests,    *)
(* keys and payloads.  Idempotency: as long as Redis answers, the request  *)
(* that went past the claim owns its key, the stored hash is that of its   *)
(* payload, and a key never gets a second owner.  Validation: the loop's   *)
(* running total is the sum of the items accepted so far, so that an item  *)
(* is accepted exactly if it fits after those before it.                   *)
(***************************************************************************)
EXTENDS BulkSettlement, FiniteSetTheorems, WellFoundedInduction, TLAPS

\* The variables are functions, and a request's locals are a record.
Shape ==
    /\ req = [r \in Requests |-> [pc |-> req[r].pc, key |-> req[r].key,
                                  payload |-> req[r].payload,
                                  accepted |-> req[r].accepted, seen |-> req[r].seen,
                                  feeValid |-> req[r].feeValid]]
    /\ hash = [k \in Keys |-> hash[k]]
    /\ result = [k \in Keys |-> result[k]]
    /\ batch = [r \in Requests |-> batch[r]]
    /\ answer = [r \in Requests |-> answer[r]]
    /\ redisFaults \in Nat

\* A request that has arrived has a payload, and one that talks to Redis a key.
Received ==
    \A r \in Requests :
      /\ req[r].key \in Keys \cup {NoKey}
      /\ req[r].pc = "idle" => batch[r] = None /\ answer[r] = None
      /\ req[r].pc # "idle" => req[r].payload \in Payloads
      /\ req[r].pc \in {"claim", "lost"} => req[r].key # NoKey

Working == {"validate", "volume", "commit", "enqueue", "save"}

\* The requests that hold their key: they are past the claim, or have left
\* something behind that a replay would see.
Owns(r) ==
    /\ req[r].key \in Keys
    /\ req[r].pc \in Working \/ batch[r] # None \/ result[req[r].key] = r

Owners ==
    /\ \A r \in Requests : Owns(r) => hash[req[r].key] = req[r].payload
                                      /\ req[r].payload \in Payloads
    /\ \A r, q \in Requests : Owns(r) /\ Owns(q) /\ req[r].key = req[q].key => r = q

\* A stored response is that of a request that has been answered.
Results ==
    \A k \in Keys : result[k] # None =>
      result[k] \in Requests /\ req[result[k]].key = k /\ req[result[k]].pc = "done"

IInv ==
    /\ Shape
    /\ Received
    /\ RedisAnswered => Owners /\ Results
    /\ ReplayIsSamePayload

-----------------------------------------------------------------------------
LEMMA InitIInv == Init => IInv
<1> SUFFICES ASSUME Init PROVE IInv
  OBVIOUS
<1>1. Shape
  BY DEF Init, Shape
<1>2. Received /\ ReplayIsSamePayload
  BY DEF Init, Received, ReplayIsSamePayload
<1>3. Owners /\ Results
  BY BulkAssumption DEF Init, Owners, Owns, Results, Working
<1>4. QED
  BY <1>1, <1>2, <1>3 DEF IInv

\* What moving a request on does.
LEMMA Moved ==
  ASSUME Shape, NEW r \in Requests, NEW pc, Goto(r, pc)
  PROVE  /\ req' = [q \in Requests |-> [pc |-> req'[q].pc, key |-> req'[q].key,
                                        payload |-> req'[q].payload,
                                        accepted |-> req'[q].accepted, seen |-> req'[q].seen,
                                        feeValid |-> req'[q].feeValid]]
         /\ req'[r].pc = pc /\ req'[r].key = req[r].key /\ req'[r].payload = req[r].payload
         /\ req'[r].accepted = req[r].accepted /\ req'[r].seen = req[r].seen
         /\ req'[r].feeValid = req[r].feeValid
         /\ \A q \in Requests : q # r => req'[q] = req[q]
<1>1. req[r] = [pc |-> req[r].pc, key |-> req[r].key, payload |-> req[r].payload,
                accepted |-> req[r].accepted, seen |-> req[r].seen,
                feeValid |-> req[r].feeValid]
  BY DEF Shape
<1>2. req' = [req EXCEPT ![r] = [@ EXCEPT !.pc = pc]]
  BY DEF Goto
<1>3. /\ req'[r] = [pc |-> pc, key |-> req[r].key, payload |-> req[r].payload,
                    accepted |-> req[r].accepted, seen |-> req[r].seen,
                    feeValid |-> req[r].feeValid]
      /\ \A q \in Requests : q # r => req'[q] = req[q]
      /\ DOMAIN req' = Requests /\ req' = [q \in Requests |-> req'[q]]
  BY <1>1, <1>2 DEF Shape
<1>4. \A q \in Requests : req'[q] = [pc |-> req'[q].pc, key |-> req'[q].key,
                                     payload |-> req'[q].payload,
                                     accepted |-> req'[q].accepted, seen |-> req'[q].seen,
                                     feeValid |-> req'[q].feeValid]
  BY <1>3 DEF Shape
<1>5. QED
  BY <1>3, <1>4

\* A replay is answered from the stored response of the key's owner.
FromStored(r, a) ==
    /\ req[r].key \in Keys
    /\ hash[req[r].key] = req[r].payload
    /\ result[req[r].key] # None
    /\ a.batch = result[req[r].key]

\* A step of a request that is past the claim or was refused there: it may
\* commit its own batch, store its own response and be answered, but if it does
\* one of the first two it was the owner already.
LEMMA MoveStep ==
  ASSUME IInv, NEW r \in Requests, NEW pc, Goto(r, pc),
         req[r].pc \notin {"idle", "done"}, pc \notin {"idle", "claim"},
         pc = "lost" => req[r].key # NoKey,
         UNCHANGED hash,
         redisFaults' \in Nat, redisFaults' = 0 => redisFaults = 0,
         batch' = [q \in Requests |-> batch'[q]],
         result' = [k \in Keys |-> result'[k]],
         answer' = [q \in Requests |-> answer'[q]],
         \A q \in Requests : q # r => batch'[q] = batch[q] /\ answer'[q] = answer[q],
         \A k \in Keys : \/ result'[k] = result[k]
                         \/ k = req[r].key /\ result'[k] = r /\ pc = "done",
         RedisAnswered' /\ req[r].key \in Keys
           /\ (pc \in Working \/ batch'[r] # None \/ result'[req[r].key] = r) => Owns(r),
         RedisAnswered' /\ answer'[r] # answer[r] /\ answer'[r].kind = "replay"
           => FromStored(r, answer'[r])
  PROVE  IInv'
<1> USE DEF IInv
<1>1. /\ req'[r].pc = pc /\ req'[r].key = req[r].key /\ req'[r].payload = req[r].payload
      /\ \A q \in Requests : q # r => req'[q] = req[q]
  BY Moved
<1>2. Shape'
  BY <1>1, Moved DEF Shape
<1>3. Received'
  BY <1>1 DEF Received
<1>4. \A q \in Requests : RedisAnswered' /\ Owns(q)' => Owns(q)
  <2> SUFFICES ASSUME NEW q \in Requests, RedisAnswered', Owns(q)' PROVE Owns(q)
    OBVIOUS
  <2>1. CASE q = r
    BY <1>1, <2>1 DEF Owns
  <2>2. CASE q # r
    BY <1>1, <2>2 DEF Owns
  <2>3. QED
    BY <2>1, <2>2
<1>5. ASSUME RedisAnswered' PROVE Owners'
  <2>1. Owners
    BY <1>5 DEF RedisAnswered
  <2>2. \A q \in Requests : req'[q].key = req[q].key /\ req'[q].payload = req[q].payload
    BY <1>1
  <2>3. QED
    BY <1>4, <1>5, <2>1, <2>2 DEF Owners
<1>6. ASSUME RedisAnswered' PROVE Results'
  <2>1. Results
    BY <1>6 DEF RedisAnswered
  <2>2. QED
    BY <1>1, <2>1 DEF Results
<1>7. ReplayIsSamePayload'
  <2> SUFFICES ASSUME NEW q \in Requests, RedisAnswered', answer'[q] # None,
                      answer'[q].kind = "replay"
               PROVE  /\ req'[answer'[q].batch].payload = req'[q].payload
                      /\ req'[answer'[q].batch].pc = "done"
    BY DEF ReplayIsSamePayload
  <2>1. RedisAnswered /\ Owners /\ Results
    BY DEF RedisAnswered
  <2>2. CASE answer'[q] = answer[q]
    <3>1. /\ req[answer[q].batch].payload = req[q].payload
          /\ req[answer[q].batch].pc = "done"
      BY <2>1, <2>2 DEF ReplayIsSamePayload
    <3>2. req' = [req EXCEPT ![r].pc = pc]
      BY DEF Goto
    <3>3. answer[q].batch # r => req'[answer[q].batch] = req[answer[q].batch]
      BY <3>1, <3>2 DEF Shape
    <3>4. QED
      BY <1>1, <2>2, <3>1, <3>3
  <2>3. CASE answer'[q] # answer[q]
    <3>1. q = r /\ FromStored(r, answer'[r])
      BY <2>3
    <3> DEFINE b == result[req[r].key]
    <3>2. b \in Requests /\ req[b].key = req[r].key /\ req[b].pc = "done"
      BY <2>1, <3>1 DEF FromStored, Results
    <3>3. Owns(b)
      BY <3>1, <3>2 DEF FromStored, Owns
    <3>4. hash[req[r].key] = req[b].payload
      BY <2>1, <3>2, <3>3 DEF Owners
    <3>5. QED
      BY <1>1, <3>1, <3>2, <3>4 DEF FromStored
  <2>4. QED
    BY <2>2, <2>3
<1>8. QED
  BY <1>2, <1>3, <1>5, <1>6, <1>7

LEMMA ReceiveStep ==
  ASSUME IInv, NEW r \in Requests, NEW k \in Keys \cup {NoKey}, NEW p \in Payloads,
         Receive(r, k, p)
  PROVE  IInv'
<1> USE DEF IInv
<1> DEFINE pc == IF k = NoKey THEN "validate" ELSE "claim"
           v == [pc |-> pc, key |-> k, payload |-> p, accepted |-> req[r].accepted,
                 seen |-> req[r].seen, feeValid |-> req[r].feeValid]
<1>1. /\ req[r].pc = "idle" /\ UNCHANGED <<hash, result, batch, jobs, answer, redisFaults>>
      /\ req' = [req EXCEPT ![r] = [@ EXCEPT !.pc = pc, !.key = k, !.payload = p]]
  BY DEF Receive, NoFault
<1>2. req[r] = [pc |-> req[r].pc, key |-> req[r].key, payload |-> req[r].payload,
                accepted |-> req[r].accepted, seen |-> req[r].seen,
                feeValid |-> req[r].feeValid]
  BY DEF Shape
<1>3. req'[r] = v /\ \A q \in Requests : q # r => req'[q] = req[q]
  BY <1>1, <1>2 DEF Shape
<1>4. Shape'
  BY <1>1, <1>3 DEF Shape
<1>5. batch[r] = None /\ answer[r] = None
  BY <1>1 DEF Received
<1>6. Received'
  BY <1>1, <1>3, <1>5 DEF Received
<1>7. ASSUME RedisAnswered' PROVE Owners' /\ Results'
  <2>1. Owners /\ Results
    BY <1>1, <1>7 DEF RedisAnswered
  <2>2. Results'
    BY <1>1, <1>3, <2>1 DEF Results
  <2>3. ~Owns(r)'
    <3>1. k \in Keys => result[k] # r
      BY <1>1, <2>1, BulkAssumption DEF Results
    <3>2. k \in Keys => pc = "claim"
      BY BulkAssumption
    <3>3. QED
      BY <1>1, <1>3, <1>5, <3>1, <3>2 DEF Owns, Working
  <2>4. \A q \in Requests : Owns(q)' => Owns(q) /\ q # r
    BY <1>1, <1>3, <2>3 DEF Owns
  <2>5. Owners'
    BY <1>1, <1>3, <2>1, <2>4 DEF Owners
  <2>6. QED
    BY <2>2, <2>5
<1>8. ReplayIsSamePayload'
  BY <1>1, <1>3, <1>5 DEF ReplayIsSamePayload, RedisAnswered
<1>9. QED
  BY <1>4, <1>6, <1>7, <1>8

\* SET NX: either the key had no owner and gets one, or the request is refused.
LEMMA ClaimStep ==
  ASSUME IInv, NEW r \in Requests, Claim(r)
  PROVE  IInv'
<1> USE DEF IInv
<1> DEFINE k == req[r].key
<1>1. req[r].pc = "claim" /\ UNCHANGED <<result, batch, jobs, answer, redisFaults>>
  BY DEF Claim, NoFault
<1>2. k \in Keys /\ req[r].payload \in Payloads
  BY <1>1 DEF Received
<1>3. CASE hash[k] # None /\ Goto(r, "lost") /\ UNCHANGED hash
  BY <1>1, <1>2, <1>3, MoveStep, BulkAssumption DEF Shape, RedisAnswered, Working, Owns
<1>4. CASE /\ hash[k] = None
           /\ hash' = [hash EXCEPT ![k] = req[r].payload]
           /\ Goto(r, "validate")
  <2>1. /\ req'[r].pc = "validate" /\ req'[r].key = k /\ req'[r].payload = req[r].payload
        /\ \A q \in Requests : q # r => req'[q] = req[q]
    BY <1>4, Moved
  <2>2. Shape'
    BY <1>1, <1>4, <2>1, Moved DEF Shape
  <2>3. hash'[k] = req[r].payload /\ \A x \in Keys : x # k => hash'[x] = hash[x]
    BY <1>2, <1>4 DEF Shape
  <2>4. Received'
    BY <1>1, <2>1 DEF Received
  <2>5. ASSUME RedisAnswered' PROVE Owners' /\ Results'
    <3>1. Owners /\ Results
      BY <1>1, <2>5 DEF RedisAnswered
    <3>2. \A q \in Requests : Owns(q) => req[q].key # k
      BY <1>4, <3>1, BulkAssumption DEF Owners
    <3>3. \A q \in Requests : Owns(q)' => q = r \/ (Owns(q) /\ q # r)
      BY <1>1, <2>1 DEF Owns
    <3>4. Owners'
      BY <1>2, <2>1, <2>3, <3>1, <3>2, <3>3 DEF Owners, Owns
    <3>5. Results'
      BY <1>1, <2>1, <3>1 DEF Results
    <3>6. QED
      BY <3>4, <3>5
  <2>6. ReplayIsSamePayload'
    <3> SUFFICES ASSUME NEW q \in Requests, RedisAnswered', answer'[q] # None,
                        answer'[q].kind = "replay"
                 PROVE  /\ req'[answer'[q].batch].payload = req'[q].payload
                        /\ req'[answer'[q].batch].pc = "done"
      BY DEF ReplayIsSamePayload
    <3>1. req[answer[q].batch].payload = req[q].payload /\ req[answer[q].batch].pc = "done"
      BY <1>1 DEF ReplayIsSamePayload, RedisAnswered
    <3>2. req' = [req EXCEPT ![r].pc = "validate"]
      BY <1>4 DEF Goto
    <3>3. answer[q].batch # r => req'[answer[q].batch] = req[answer[q].batch]
      BY <3>1, <3>2 DEF Shape
    <3>4. QED
      BY <1>1, <2>1, <3>1, <3>3
  <2>7. QED
    BY <2>2, <2>4, <2>5, <2>6
<1>5. QED
  BY <1>3, <1>4 DEF Claim

\* The validation loop changes only what the request has accepted.
LEMMA ValidateItemsStep ==
  ASSUME IInv, NEW r \in Requests, ValidateItems(r)
  PROVE  IInv'
<1> USE DEF IInv
<1>0. PICK pc \in {"save", "commit"} :
        \E a, d, f : req' = [req EXCEPT ![r] = [@ EXCEPT !.pc = pc, !.accepted = a,
                                             !.seen = d, !.feeValid = f]]
  BY DEF ValidateItems
<1>1. PICK a, d, f : req' = [req EXCEPT ![r] = [@ EXCEPT !.pc = pc, !.accepted = a,
                                             !.seen = d, !.feeValid = f]]
  BY <1>0
<1>2. /\ req[r].pc = "volume"
      /\ UNCHANGED <<hash, result, batch, jobs, answer, redisFaults>>
  BY DEF ValidateItems, NoFault
<1>3. req[r] = [pc |-> req[r].pc, key |-> req[r].key, payload |-> req[r].payload,
                accepted |-> req[r].accepted, seen |-> req[r].seen,
                feeValid |-> req[r].feeValid]
  BY DEF Shape
<1>4. /\ req'[r] = [pc |-> pc, key |-> req[r].key, payload |-> req[r].payload,
                    accepted |-> a, seen |-> d, feeValid |-> f]
      /\ \A q \in Requests : q # r => req'[q] = req[q]
  BY <1>1, <1>3 DEF Shape
<1>5. Shape'
  BY <1>1, <1>2, <1>4 DEF Shape
<1>6. Received'
  BY <1>2, <1>4 DEF Received
<1>7. \A q \in Requests : /\ req'[q].key = req[q].key /\ req'[q].payload = req[q].payload
                          /\ Owns(q)' <=> Owns(q)
                          /\ req[q].pc = "done" => req'[q].pc = "done"
  BY <1>2, <1>4 DEF Owns, Working
<1>8. RedisAnswered' => Owners' /\ Results'
  BY <1>2, <1>7 DEF RedisAnswered, Owners, Results
<1>9. ReplayIsSamePayload'
  <2> SUFFICES ASSUME NEW q \in Requests, RedisAnswered', answer'[q] # None,
                      answer'[q].kind = "replay"
               PROVE  /\ req'[answer'[q].batch].payload = req'[q].payload
                      /\ req'[answer'[q].batch].pc = "done"
    BY DEF ReplayIsSamePayload
  <2>1. req[answer[q].batch].payload = req[q].payload /\ req[answer[q].batch].pc = "done"
    BY <1>2 DEF ReplayIsSamePayload, RedisAnswered
  <2>2. answer[q].batch # r => req'[answer[q].batch] = req[answer[q].batch]
    BY <1>1, <2>1 DEF Shape
  <2>3. QED
    BY <1>2, <1>4, <1>7, <2>1, <2>2
<1>10. QED
  BY <1>5, <1>6, <1>8, <1>9

\* A step that only moves the request on.
LEMMA GotoStep ==
  ASSUME IInv, NEW r \in Requests, NEW pc \in Working, Goto(r, pc),
         req[r].pc \notin {"idle", "done"},
         UNCHANGED <<hash, result, batch, answer>>,
         redisFaults' \in Nat, redisFaults' = 0 => redisFaults = 0,
         RedisAnswered' => req[r].pc \in Working
  PROVE  IInv'
BY MoveStep DEF IInv, Shape, Working, Owns

\* A step that answers the request.
LEMMA AnswerStep ==
  ASSUME IInv, NEW r \in Requests, NEW kind, NEW b, Answer(r, kind, b),
         req[r].pc \notin {"idle", "done"},
         UNCHANGED <<hash, batch>>,
         redisFaults' \in Nat, redisFaults' = 0 => redisFaults = 0,
         \/ UNCHANGED result
         \/ /\ result' = [result EXCEPT ![req[r].key] = r]
            /\ req[r].pc = "save",
         RedisAnswered' /\ kind = "replay" =>
           FromStored(r, [kind |-> kind, batch |-> b])
  PROVE  IInv'
<1> USE DEF IInv
<1> DEFINE a == [kind |-> kind, batch |-> b]
<1>1. Goto(r, "done") /\ answer' = [answer EXCEPT ![r] = a]
  BY DEF Answer
<1>2. /\ answer' = [q \in Requests |-> answer'[q]] /\ answer'[r] = a
      /\ \A q \in Requests : q # r => answer'[q] = answer[q]
      /\ batch' = [q \in Requests |-> batch'[q]]
  BY <1>1 DEF Shape
<1>3. /\ result' = [k \in Keys |-> result'[k]]
      /\ \A k \in Keys : result'[k] = result[k] \/ (k = req[r].key /\ result'[k] = r)
  BY DEF Shape
<1>4. req[r].key \in Keys /\ (batch'[r] # None \/ result'[req[r].key] = r) => Owns(r)
  BY <1>3 DEF Owns, Working
<1>5. a.kind = kind
  OBVIOUS
<1> HIDE DEF a
<1>6. "done" \notin Working
  BY DEF Working
<1>7. RedisAnswered' /\ answer'[r].kind = "replay" => FromStored(r, answer'[r])
  BY <1>2, <1>5 DEF a
<1>8. QED
  BY <1>1, <1>2, <1>3, <1>4, <1>6, <1>7, MoveStep

LEMMA NextIInv == IInv /\ [Next]_vars => IInv'
<1> SUFFICES ASSUME IInv, [Next]_vars PROVE IInv'
  OBVIOUS
<1> USE DEF IInv
<1>0. redisFaults \in Nat /\ (RedisFault => redisFaults' = redisFaults + 1)
  BY DEF Shape, RedisFault
<1>1. ASSUME NEW r \in Requests, NEW k \in Keys \cup {NoKey}, NEW p \in Payloads,
             Receive(r, k, p)
      PROVE  IInv'
  BY <1>1, ReceiveStep
<1>2. ASSUME NEW r \in Requests, Claim(r) PROVE IInv'
  BY <1>2, ClaimStep
<1>3. ASSUME NEW r \in Requests, Lose(r) PROVE IInv'
  <2>1. req[r].pc = "lost" /\ UNCHANGED <<hash, result, batch, redisFaults>>
    BY <1>3 DEF Lose, NoFault
  <2>2. req[r].key \in Keys
    BY <2>1 DEF Received
  <2>3. PICK kind, b : /\ Answer(r, kind, b)
                       /\ kind = "replay" => /\ hash[req[r].key] = req[r].payload
                                             /\ result[req[r].key] # None
                                             /\ b = result[req[r].key]
    BY <1>3 DEF Lose
  <2>4. kind = "replay" => FromStored(r, [kind |-> kind, batch |-> b])
    BY <2>2, <2>3 DEF FromStored
  <2>5. QED
    BY <1>0, <2>1, <2>3, <2>4, AnswerStep
<1>4. ASSUME NEW r \in Requests, ProceedUnclaimed(r) PROVE IInv'
  BY <1>0, <1>4, GotoStep DEF ProceedUnclaimed, Working, RedisAnswered
<1>5. ASSUME NEW r \in Requests, Reject(r) PROVE IInv'
  BY <1>0, <1>5, AnswerStep DEF Reject, NoFault
<1>6. ASSUME NEW r \in Requests, Validate(r) PROVE IInv'
  BY <1>0, <1>6, GotoStep DEF Validate, NoFault, Working
<1>7. ASSUME NEW r \in Requests, ValidateItems(r) PROVE IInv'
  BY <1>7, ValidateItemsStep
<1>8. ASSUME NEW r \in Requests, Commit(r) PROVE IInv'
  <2>1. /\ req[r].pc = "commit" /\ Goto(r, "enqueue")
        /\ batch' = [batch EXCEPT ![r] = req[r].accepted]
        /\ UNCHANGED <<hash, result, answer, redisFaults>>
    BY <1>8 DEF Commit, NoFault
  <2>2. /\ batch' = [q \in Requests |-> batch'[q]]
        /\ \A q \in Requests : q # r => batch'[q] = batch[q]
    BY <2>1 DEF Shape
  <2>3. req[r].key \in Keys => Owns(r)
    BY <2>1 DEF Owns, Working
  <2>4. QED
    BY <1>0, <2>1, <2>2, <2>3, MoveStep DEF Shape
<1>9. ASSUME NEW r \in Requests, Enqueue(r) PROVE IInv'
  BY <1>0, <1>9, GotoStep DEF Enqueue, NoFault, Working
<1>10. ASSUME NEW r \in Requests, EnqueueError(r) PROVE IInv'
  BY <1>0, <1>10, GotoStep DEF EnqueueError, Fault, Working
<1>11. ASSUME NEW r \in Requests, Save(r) PROVE IInv'
  BY <1>0, <1>11, AnswerStep DEF Save, NoFault
<1>12. ASSUME NEW r \in Requests, SaveError(r) PROVE IInv'
  <2>1. /\ Answer(r, "created", r) /\ req[r].pc = "save"
        /\ UNCHANGED <<hash, result, batch>> /\ redisFaults' = redisFaults + 1
    BY <1>0, <1>12 DEF SaveError
  <2>2. redisFaults' \in Nat /\ redisFaults' # 0
    BY <1>0, <2>1
  <2>3. QED
    BY <2>1, <2>2, AnswerStep
<1>13. ASSUME NEW r \in Requests, Fail(r) PROVE IInv'
  BY <1>0, <1>13, AnswerStep DEF Fail, Fault
<1>14. CASE UNCHANGED vars
  BY <1>14 DEF vars, Shape, Received, RedisAnswered, Owners, Owns, Results,
               ReplayIsSamePayload
<1>15. QED
  BY <1>1, <1>2, <1>3, <1>4, <1>5, <1>6, <1>7, <1>8, <1>9, <1>10, <1>11, <1>12, <1>13, <1>14
     DEF Next, Finished

LEMMA Invariance == Spec => []IInv
<1>1. QED
  BY InitIInv, NextIInv, PTL DEF Spec

-----------------------------------------------------------------------------
\* SET NX of the bulk route is enough: as long as Redis answers, the requests
\* with one key commit at most one batch, whatever queries, enqueueing or
\* processes fail after the claim.
THEOREM OneBatchPerKeyAlways == Spec => []OneBatchPerKey
<1>1. IInv => OneBatchPerKey
  BY DEF IInv, OneBatchPerKey, Owners, Owns, Received
<1>2. QED
  BY <1>1, Invariance, PTL

\* A replayed response is that of a finished request with the same payload.
THEOREM ReplayIsSamePayloadAlways == Spec => []ReplayIsSamePayload
<1>1. IInv => ReplayIsSamePayload
  BY DEF IInv
<1>2. QED
  BY <1>1, Invariance, PTL
-----------------------------------------------------------------------------
(* Sums over finite sets, by the size of the set.                           *)

LEMMA LeastNumber ==
  ASSUME NEW T, T \subseteq Nat, T # {}
  PROVE  \E n \in T : \A m \in T : n <= m
<1> DEFINE Less == OpToRel(<, Nat)
<1>1. IsWellFoundedOn(Less, Nat)
  BY NatLessThanWellFounded
<1>2. Less = {ss \in Nat \X Nat : ss[1] < ss[2]}
  BY DEF OpToRel
<1> HIDE DEF Less
<1>3. PICK n \in T : \A m \in T : ~ (<<m, n>> \in Less)
  BY <1>1, WFMin
<1>4. ASSUME NEW m \in T, m < n PROVE FALSE
  <2>1. <<m, n>> \in Nat \X Nat /\ <<m, n>>[1] = m /\ <<m, n>>[2] = n
    OBVIOUS
  <2>2. <<m, n>> \in Less
    BY <1>2, <1>4, <2>1
  <2>3. QED
    BY <1>3, <2>2
<1>5. QED
  BY <1>3, <1>4

\* SumFunctionOnSet takes one element after the other, in an order of its own.
First(s) == CHOOSE x \in s : TRUE
Summed(f, s, sum) == IF s = {} THEN 0 ELSE f[First(s)] + sum[s \ {First(s)}]
Sums(f, S, sum) == sum = [s \in SUBSET S |-> Summed(f, s, sum)]

LEMMA FirstLeaves ==
  ASSUME NEW s, IsFiniteSet(s), s # {}
  PROVE  /\ First(s) \in s
         /\ IsFiniteSet(s \ {First(s)})
         /\ Cardinality(s \ {First(s)}) \in Nat
         /\ Cardinality(s) = Cardinality(s \ {First(s)}) + 1
<1>1. First(s) \in s
  BY DEF First
<1> HIDE DEF First
<1>2. PICK x \in s : x = First(s)
  BY <1>1
<1>3. IsFiniteSet(s \ {x}) /\ Cardinality(s \ {x}) = Cardinality(s) - 1
  BY FS_RemoveElement
<1>4. Cardinality(s) \in Nat /\ Cardinality(s \ {x}) \in Nat
  BY <1>3, FS_CardinalityType
<1>5. QED
  BY <1>1, <1>2, <1>3, <1>4

\* There is a table of sums: it is extended by the sets of one more element.
LEMMA SumTable ==
  ASSUME NEW S, IsFiniteSet(S), NEW f
  PROVE  \E sum : Sums(f, S, sum)
<1> DEFINE Part(m) == {s \in SUBSET S : Cardinality(s) <= m}
           Good(m) == \E sum : sum = [s \in Part(m) |-> Summed(f, s, sum)]
           Bad == {m \in Nat : ~ Good(m)}
<1>0. \A s \in SUBSET S : IsFiniteSet(s) /\ Cardinality(s) \in Nat
  BY FS_Subset, FS_CardinalityType
<1>1. Bad = {}
  <2> SUFFICES ASSUME Bad # {} PROVE FALSE
    OBVIOUS
  <2>1. PICK n \in Bad : \A m \in Bad : n <= m
    <3> HIDE DEF Good
    <3>1. QED
      BY LeastNumber
  <2>2. n \in Nat /\ ~ Good(n)
    OBVIOUS
  <2>3. CASE n = 0
    <3> DEFINE sum == [s \in Part(0) |-> 0]
    <3>1. \A s \in Part(0) : s = {}
      BY <1>0, FS_EmptySet
    <3>2. sum = [s \in Part(0) |-> Summed(f, s, sum)]
      BY <3>1 DEF Summed
    <3>3. Good(0)
      BY <3>2
    <3>4. QED
      BY <2>2, <2>3, <3>3
  <2>4. CASE n # 0
    <3>1. n - 1 \in Nat /\ ~ (n <= n - 1)
      BY <2>2, <2>4
    <3>2. Good(n - 1)
      <4> HIDE DEF Good
      <4>1. QED
        BY <2>1, <3>1
    <3>3. PICK small : small = [s \in Part(n - 1) |-> Summed(f, s, small)]
      BY <3>2
    <3> DEFINE sum == [s \in Part(n) |-> Summed(f, s, small)]
    <3>4. \A s \in Part(n) : s # {} => s \ {First(s)} \in Part(n - 1)
      <4> SUFFICES ASSUME NEW s \in Part(n), s # {} PROVE s \ {First(s)} \in Part(n - 1)
        OBVIOUS
      <4>1. Cardinality(s) <= n /\ IsFiniteSet(s)
        BY <1>0
      <4>2. /\ Cardinality(s \ {First(s)}) \in Nat
            /\ Cardinality(s) = Cardinality(s \ {First(s)}) + 1
        BY <4>1, FirstLeaves
      <4>3. QED
        BY <2>2, <4>1, <4>2
    <3>5. Part(n - 1) \subseteq Part(n)
      <4> SUFFICES ASSUME NEW s \in Part(n - 1) PROVE s \in Part(n)
        OBVIOUS
      <4>1. Cardinality(s) \in Nat /\ Cardinality(s) <= n - 1
        BY <1>0
      <4>2. QED
        BY <2>2, <3>1, <4>1
    <3> HIDE DEF Part
    <3>6. \A s \in Part(n - 1) : sum[s] = small[s]
      BY <3>3, <3>5
    <3>7. \A s \in Part(n) : Summed(f, s, sum) = Summed(f, s, small)
      <4> HIDE DEF sum
      <4>1. QED
        BY <3>4, <3>6 DEF Summed
    <3>8. sum = [s \in Part(n) |-> Summed(f, s, sum)]
      BY <3>7
    <3>9. Good(n)
      <4> HIDE DEF sum
      <4>1. QED
        BY <3>8
    <3>10. QED
      BY <2>2, <3>9
  <2>5. QED
    BY <2>3, <2>4
<1>2. Cardinality(S) \in Nat
  BY FS_CardinalityType
<1>3. Good(Cardinality(S))
  <2> HIDE DEF Good
  <2>1. QED
    BY <1>1, <1>2
<1>4. Part(Cardinality(S)) = SUBSET S
  BY FS_Subset, FS_CardinalityType
<1>5. PICK sum : sum = [s \in Part(Cardinality(S)) |-> Summed(f, s, sum)]
  BY <1>3
<1> HIDE DEF Part
<1>6. Sums(f, S, sum)
  BY <1>4, <1>5 DEF Sums
<1>7. QED
  BY <1>6

\* Two tables agree.
LEMMA SumUnique ==
  ASSUME NEW S, IsFiniteSet(S), NEW T \in SUBSET S, NEW f, NEW sum, NEW other,
         Sums(f, S, sum), Sums(f, T, other)
  PROVE  \A s \in SUBSET T : other[s] = sum[s]
<1> DEFINE Bad == {Cardinality(s) : s \in {x \in SUBSET T : other[x] # sum[x]}}
<1>0. \A s \in SUBSET T : IsFiniteSet(s) /\ Cardinality(s) \in Nat /\ s \in SUBSET S
  BY FS_Subset, FS_CardinalityType
<1> SUFFICES ASSUME NEW t \in SUBSET T, other[t] # sum[t] PROVE FALSE
  OBVIOUS
<1>1. Bad \subseteq Nat /\ Cardinality(t) \in Bad
  BY <1>0
<1>2. PICK n \in Bad : \A m \in Bad : n <= m
  <2> HIDE DEF Bad
  <2>1. QED
    BY <1>1, LeastNumber
<1>3. PICK s \in SUBSET T : n = Cardinality(s) /\ other[s] # sum[s]
  OBVIOUS
<1>4. s # {}
  BY <1>0, <1>3 DEF Sums, Summed
<1> DEFINE rest == s \ {First(s)}
<1>5. rest \in SUBSET T /\ Cardinality(rest) \in Nat /\ Cardinality(s) = Cardinality(rest) + 1
  BY <1>0, <1>4, FirstLeaves
<1>6. other[rest] = sum[rest]
  <2> HIDE DEF rest
  <2> SUFFICES ASSUME other[rest] # sum[rest] PROVE FALSE
    OBVIOUS
  <2>1. Cardinality(rest) \in Bad
    BY <1>5
  <2> HIDE DEF Bad
  <2>2. QED
    BY <1>2, <1>3, <1>5, <2>1
<1>7. other[s] = f[First(s)] + other[rest] /\ sum[s] = f[First(s)] + sum[rest]
  BY <1>0, <1>4 DEF Sums, Summed
<1>8. QED
  BY <1>3, <1>6, <1>7

\* What the sum of a set is in terms of a smaller one.
LEMMA SumIs ==
  ASSUME NEW S, IsFiniteSet(S), NEW f
  PROVE  \E sum : Sums(f, S, sum) /\ SumFunctionOnSet(f, S) = sum[S]
<1> DEFINE sum == CHOOSE sum : sum = [s \in SUBSET S |->
                     IF s = {} THEN 0
                     ELSE f[CHOOSE x \in s : TRUE] + sum[s \ {CHOOSE x \in s : TRUE}]]
<1>1. SumFunctionOnSet(f, S) = sum[S]
  BY DEF SumFunctionOnSet, FoldFunctionOnSet, MapThenFoldSet
<1>2. Sums(f, S, sum)
  <2>1. \E table : table = [s \in SUBSET S |->
                     IF s = {} THEN 0
                     ELSE f[CHOOSE x \in s : TRUE] + table[s \ {CHOOSE x \in s : TRUE}]]
    <3>1. PICK table : Sums(f, S, table)
      BY SumTable
    <3>2. table = [s \in SUBSET S |->
                     IF s = {} THEN 0
                     ELSE f[CHOOSE x \in s : TRUE] + table[s \ {CHOOSE x \in s : TRUE}]]
      BY <3>1, Zenon DEF Sums, Summed, First
    <3>3. QED
      BY <3>2, Zenon
  <2>2. sum = [s \in SUBSET S |->
                     IF s = {} THEN 0
                     ELSE f[CHOOSE x \in s : TRUE] + sum[s \ {CHOOSE x \in s : TRUE}]]
    BY <2>1, Zenon
  <2> HIDE DEF sum
  <2>3. QED
    BY <2>2, Zenon DEF Sums, Summed, First
<1> HIDE DEF sum
<1>3. QED
  BY <1>1, <1>2

LEMMA SumStep ==
  ASSUME NEW S, IsFiniteSet(S), NEW f
  PROVE  /\ S = {} => SumFunctionOnSet(f, S) = 0
         /\ S # {} => SumFunctionOnSet(f, S) = f[First(S)] + SumFunctionOnSet(f, S \ {First(S)})
<1>1. PICK sum : Sums(f, S, sum) /\ SumFunctionOnSet(f, S) = sum[S]
  BY SumIs
<1> DEFINE T == S \ {First(S)}
<1>2. T \in SUBSET S /\ IsFiniteSet(T)
  BY FS_Subset
<1> HIDE DEF T
<1>3. PICK other : Sums(f, T, other) /\ SumFunctionOnSet(f, T) = other[T]
  BY <1>2, SumIs
<1>4. other[T] = sum[T]
  BY <1>1, <1>2, <1>3, SumUnique
<1>5. S # {} => sum[S] = f[First(S)] + sum[T]
  BY <1>1 DEF Sums, Summed, T
<1>6. S = {} => sum[S] = 0
  BY <1>1 DEF Sums, Summed
<1>7. QED
  BY <1>1, <1>3, <1>4, <1>5, <1>6 DEF T

LEMMA SumType ==
  ASSUME NEW S, IsFiniteSet(S), NEW f, \A x \in S : f[x] \in Nat
  PROVE  SumFunctionOnSet(f, S) \in Nat
<1> DEFINE Bad == {Cardinality(s) : s \in {x \in SUBSET S : SumFunctionOnSet(f, x) \notin Nat}}
<1>0. \A s \in SUBSET S : IsFiniteSet(s) /\ Cardinality(s) \in Nat
  BY FS_Subset, FS_CardinalityType
<1> SUFFICES ASSUME Bad # {} PROVE FALSE
  OBVIOUS
<1>1. Bad \subseteq Nat
  BY <1>0
<1>2. PICK n \in Bad : \A m \in Bad : n <= m
  <2> HIDE DEF Bad
  <2>1. QED
    BY <1>1, LeastNumber
<1>3. PICK s \in SUBSET S : n = Cardinality(s) /\ SumFunctionOnSet(f, s) \notin Nat
  OBVIOUS
<1>4. s # {}
  BY <1>0, <1>3, SumStep
<1> DEFINE rest == s \ {First(s)}
<1>5. /\ rest \in SUBSET S /\ Cardinality(rest) \in Nat /\ Cardinality(s) = Cardinality(rest) + 1
      /\ First(s) \in S
  BY <1>0, <1>4, FirstLeaves
<1>6. SumFunctionOnSet(f, s) = f[First(s)] + SumFunctionOnSet(f, rest)
  BY <1>0, <1>4, SumStep
<1> HIDE DEF rest
<1>7. SumFunctionOnSet(f, rest) \notin Nat
  BY <1>3, <1>5, <1>6
<1>8. Cardinality(rest) \in Bad
  BY <1>5, <1>7
<1> HIDE DEF Bad
<1>9. QED
  BY <1>2, <1>3, <1>5, <1>8

\* The order does not matter.
LEMMA SumAdd ==
  ASSUME NEW S, IsFiniteSet(S), NEW a, a \notin S, NEW f, \A x \in S \cup {a} : f[x] \in Nat
  PROVE  SumFunctionOnSet(f, S \cup {a}) = SumFunctionOnSet(f, S) + f[a]
<1> DEFINE Fits(s, x) == SumFunctionOnSet(f, s \cup {x}) = SumFunctionOnSet(f, s) + f[x]
           Bad == {Cardinality(s) : s \in {t \in SUBSET (S \cup {a}) : \E x \in (S \cup {a}) \ t : ~ Fits(t, x)}}
<1>0. /\ IsFiniteSet(S \cup {a})
      /\ \A s \in SUBSET (S \cup {a}) : /\ IsFiniteSet(s) /\ Cardinality(s) \in Nat
                                        /\ SumFunctionOnSet(f, s) \in Nat
  <2>1. IsFiniteSet(S \cup {a})
    BY FS_AddElement
  <2>2. QED
    BY <2>1, FS_Subset, FS_CardinalityType, SumType
<1> SUFFICES ASSUME ~ Fits(S, a) PROVE FALSE
  OBVIOUS
<1>1. Bad \subseteq Nat
  BY <1>0
<1>2. Bad # {}
  <2>1. S \in SUBSET (S \cup {a}) /\ a \in (S \cup {a}) \ S
    OBVIOUS
  <2> HIDE DEF Fits
  <2>2. Cardinality(S) \in Bad
    BY <2>1
  <2>3. QED
    BY <2>2
<1>3. PICK n \in Bad : \A m \in Bad : n <= m
  <2> HIDE DEF Bad
  <2>1. QED
    BY <1>1, <1>2, LeastNumber
<1>4. PICK s \in SUBSET (S \cup {a}) : /\ n = Cardinality(s)
                                       /\ \E x \in (S \cup {a}) \ s : ~ Fits(s, x)
  <2> HIDE DEF Fits
  <2>1. QED
    OBVIOUS
<1>5. PICK x \in (S \cup {a}) \ s : ~ Fits(s, x)
  BY <1>4
<1> DEFINE all == s \cup {x}
           c == First(all)
<1>6. /\ IsFiniteSet(all) /\ all # {} /\ all \in SUBSET (S \cup {a})
      /\ c \in all
      /\ SumFunctionOnSet(f, all) = f[c] + SumFunctionOnSet(f, all \ {c})
  BY <1>0, FirstLeaves, SumStep
<1>7. /\ SumFunctionOnSet(f, s) \in Nat /\ f[x] \in Nat /\ f[c] \in Nat /\ IsFiniteSet(s)
  BY <1>0, <1>6
<1>8. CASE c = x
  <2>1. all \ {c} = s
    BY <1>8
  <2> HIDE DEF all, c
  <2>2. SumFunctionOnSet(f, all) = f[x] + SumFunctionOnSet(f, s)
    BY <1>6, <1>8, <2>1
  <2>3. SumFunctionOnSet(f, all) = SumFunctionOnSet(f, s) + f[x]
    BY <1>7, <2>2
  <2>4. QED
    BY <1>5, <2>3 DEF all
<1>9. CASE c # x
  <2> DEFINE rest == s \ {c}
  <2>1. c \in s /\ all \ {c} = rest \cup {x} /\ rest \cup {c} = s
    BY <1>6, <1>9
  <2>2. /\ rest \in SUBSET (S \cup {a}) /\ x \in (S \cup {a}) \ rest /\ c \in (S \cup {a}) \ rest
        /\ IsFiniteSet(rest) /\ Cardinality(rest) \in Nat /\ SumFunctionOnSet(f, rest) \in Nat
    BY <1>0, <1>6
  <2>3. Cardinality(s) = Cardinality(rest) + 1
    <3>1. Cardinality(rest) = Cardinality(s) - 1
      BY <1>7, <2>1, FS_RemoveElement
    <3>2. Cardinality(s) \in Nat
      BY <1>0
    <3> HIDE DEF rest
    <3>3. QED
      BY <2>2, <3>1, <3>2
  <2>4. ASSUME NEW y \in (S \cup {a}) \ rest PROVE Fits(rest, y)
    <3> HIDE DEF rest, Fits
    <3> SUFFICES ASSUME ~ Fits(rest, y) PROVE FALSE
      OBVIOUS
    <3>1. Cardinality(rest) \in Bad
      BY <2>2
    <3> HIDE DEF Bad
    <3>2. n <= Cardinality(rest) /\ n = Cardinality(rest) + 1
      BY <1>3, <1>4, <2>3, <3>1
    <3>3. QED
      BY <2>2, <3>2
  <2>5. Fits(rest, x) /\ Fits(rest, c)
    <3> HIDE DEF rest, Fits
    <3>1. QED
      BY <2>2, <2>4
  <2> HIDE DEF rest, all, c
  <2>6. SumFunctionOnSet(f, rest \cup {x}) = SumFunctionOnSet(f, rest) + f[x]
    BY <2>5
  <2>7. SumFunctionOnSet(f, s) = SumFunctionOnSet(f, rest) + f[c]
    BY <2>1, <2>5
  <2>8. SumFunctionOnSet(f, all) = f[c] + (SumFunctionOnSet(f, rest) + f[x])
    BY <1>6, <2>1, <2>6
  <2>9. SumFunctionOnSet(f, all) = SumFunctionOnSet(f, s) + f[x]
    BY <1>7, <2>2, <2>7, <2>8
  <2>10. QED
    BY <1>5, <2>9 DEF all
<1>10. QED
  BY <1>8, <1>9

-----------------------------------------------------------------------------
(* The validation loop.                                                     *)

\* What the turn for item i leaves behind.
Turn(p, d, f, loop, i) ==
    IF i = 0 THEN [items |-> {}, total |-> 0]
    ELSE IF \/ p[i] = 0
            \/ p[i] < MinAmount
            \/ MaxAmount # None /\ p[i] > MaxAmount
            \/ DailyLimit # None /\ d + loop[i - 1].total + p[i] > DailyLimit
            \/ p[i] > AmountCap \/ ~ f
      THEN loop[i - 1]
      ELSE [items |-> loop[i - 1].items \cup {i}, total |-> loop[i - 1].total + p[i]]
Turns(p, d, f, n, loop) == loop = [i \in 0 .. n |-> Turn(p, d, f, loop, i)]

LEMMA LoopExists ==
  ASSUME NEW p, NEW d, NEW f, NEW len \in Nat
  PROVE  \E loop : Turns(p, d, f, len, loop)
<1> DEFINE Bad == {m \in Nat : ~ \E loop : Turns(p, d, f, m, loop)}
<1> SUFFICES ASSUME Bad # {} PROVE FALSE
  OBVIOUS
<1>1. PICK n \in Bad : \A m \in Bad : n <= m
  BY LeastNumber
<1>2. n \in Nat /\ ~ \E loop : Turns(p, d, f, n, loop)
  OBVIOUS
<1>3. n # 0
  <2> SUFFICES ASSUME n = 0 PROVE FALSE
    OBVIOUS
  <2> DEFINE loop == [i \in 0 .. 0 |-> [items |-> {}, total |-> 0]]
  <2>1. \A i \in 0 .. 0 : Turn(p, d, f, loop, i) = [items |-> {}, total |-> 0]
    BY DEF Turn
  <2>2. Turns(p, d, f, 0, loop)
    BY <2>1 DEF Turns
  <2> HIDE DEF loop
  <2>3. QED
    BY <1>2, <2>2
<1>4. n - 1 \in Nat /\ ~ (n <= n - 1)
  BY <1>2, <1>3
<1>5. PICK small : Turns(p, d, f, n - 1, small)
  BY <1>1, <1>4
<1> DEFINE loop == [i \in 0 .. n |-> Turn(p, d, f, small, i)]
<1>6. \A i \in 0 .. (n - 1) : loop[i] = small[i]
  <2>1. \A i \in 0 .. (n - 1) : i \in 0 .. n
    BY <1>2
  <2>2. QED
    BY <1>5, <2>1 DEF Turns
<1>7. \A i \in 0 .. n : i # 0 => i - 1 \in 0 .. (n - 1)
  BY <1>2
<1> HIDE DEF loop
<1>8. \A i \in 0 .. n : Turn(p, d, f, loop, i) = Turn(p, d, f, small, i)
  BY <1>6, <1>7 DEF Turn
<1>9. Turns(p, d, f, n, loop)
  BY <1>8 DEF Turns, loop
<1>10. QED
  BY <1>2, <1>9

LEMMA AcceptedIs ==
  ASSUME NEW p, NEW d, NEW f, Len(p) \in Nat
  PROVE  \E loop : Turns(p, d, f, Len(p), loop) /\ Accepted(p, d, f) = loop[Len(p)].items
<1> DEFINE loop == CHOOSE loop : loop = [i \in 0 .. Len(p) |->
                     IF i = 0 THEN [items |-> {}, total |-> 0]
                     ELSE IF \/ p[i] = 0
                             \/ p[i] < MinAmount
                             \/ MaxAmount # None /\ p[i] > MaxAmount
                             \/ DailyLimit # None /\ d + loop[i - 1].total + p[i] > DailyLimit
                             \/ p[i] > AmountCap \/ ~ f
                       THEN loop[i - 1]
                       ELSE [items |-> loop[i - 1].items \cup {i},
                             total |-> loop[i - 1].total + p[i]]]
<1>1. Accepted(p, d, f) = loop[Len(p)].items
  BY DEF Accepted
<1>2. Turns(p, d, f, Len(p), loop)
  <2>1. PICK found : Turns(p, d, f, Len(p), found)
    BY LoopExists
  <2>2. found = [i \in 0 .. Len(p) |->
                     IF i = 0 THEN [items |-> {}, total |-> 0]
                     ELSE IF \/ p[i] = 0
                             \/ p[i] < MinAmount
                             \/ MaxAmount # None /\ p[i] > MaxAmount
                             \/ DailyLimit # None /\ d + found[i - 1].total + p[i] > DailyLimit
                             \/ p[i] > AmountCap \/ ~ f
                       THEN found[i - 1]
                       ELSE [items |-> found[i - 1].items \cup {i},
                             total |-> found[i - 1].total + p[i]]]
    BY <2>1, Zenon DEF Turns, Turn
  <2>3. loop = [i \in 0 .. Len(p) |->
                     IF i = 0 THEN [items |-> {}, total |-> 0]
                     ELSE IF \/ p[i] = 0
                             \/ p[i] < MinAmount
                             \/ MaxAmount # None /\ p[i] > MaxAmount
                             \/ DailyLimit # None /\ d + loop[i - 1].total + p[i] > DailyLimit
                             \/ p[i] > AmountCap \/ ~ f
                       THEN loop[i - 1]
                       ELSE [items |-> loop[i - 1].items \cup {i},
                             total |-> loop[i - 1].total + p[i]]]
    BY <2>2, Zenon
  <2> HIDE DEF loop
  <2>4. QED
    BY <2>3, Zenon DEF Turns, Turn
<1> HIDE DEF loop
<1>3. QED
  BY <1>1, <1>2

\* After i turns: the accepted items are among the first i, their sum is the
\* running total, and the items of an earlier turn are those up to it.
SoundAt(p, loop, i) ==
    /\ loop[i].items \subseteq 1 .. i
    /\ loop[i].total = SumFunctionOnSet(p, loop[i].items)
    /\ loop[i].total \in Nat
    /\ \A m \in 0 .. i : loop[m].items = loop[i].items \cap (1 .. m)

\* The amounts of a payload are numbers.
LEMMA AmountsType ==
  ASSUME NEW p \in Seq(0 .. AmountCap)
  PROVE  /\ Len(p) \in Nat /\ DOMAIN p = 1 .. Len(p)
         /\ \A i \in DOMAIN p : p[i] \in 0 .. AmountCap /\ p[i] \in Nat
<1> DEFINE amounts == 0 .. AmountCap
<1>1. \A a \in amounts : a \in Nat
  BY BulkAssumption
<1>2. p \in Seq(amounts)
  OBVIOUS
<1> HIDE DEF amounts
<1>3. /\ Len(p) \in Nat /\ DOMAIN p = 1 .. Len(p)
      /\ \A i \in DOMAIN p : p[i] \in amounts
  BY <1>2
<1>4. QED
  BY <1>1, <1>3 DEF amounts

LEMMA TurnsSound ==
  ASSUME NEW p \in Seq(0 .. AmountCap), NEW d \in Nat, NEW f, NEW loop, Turns(p, d, f, Len(p), loop)
  PROVE  \A i \in 0 .. Len(p) : SoundAt(p, loop, i)
<1> DEFINE Bad == {m \in 0 .. Len(p) : ~ SoundAt(p, loop, m)}
<1>0. Len(p) \in Nat
  OBVIOUS
<1> SUFFICES ASSUME Bad # {} PROVE FALSE
  OBVIOUS
<1>1. PICK n \in Bad : \A m \in Bad : n <= m
  <2>1. Bad \subseteq Nat
    OBVIOUS
  <2> HIDE DEF Bad
  <2>2. QED
    BY <2>1, LeastNumber
<1>2. n \in 0 .. Len(p) /\ ~ SoundAt(p, loop, n)
  OBVIOUS
<1>3. loop[n] = Turn(p, d, f, loop, n)
  BY <1>2 DEF Turns
<1>4. n # 0
  <2> SUFFICES ASSUME n = 0 PROVE FALSE
    OBVIOUS
  <2>1. loop[n].items = {} /\ loop[n].total = 0
    BY <1>3 DEF Turn
  <2>2. SumFunctionOnSet(p, {}) = 0
    BY SumStep, FS_EmptySet
  <2>3. QED
    BY <1>2, <2>1, <2>2 DEF SoundAt
<1> DEFINE k == n - 1
<1>5. k \in 0 .. Len(p) /\ ~ (n <= k) /\ k \in Nat /\ n = k + 1 /\ n \in DOMAIN p
  BY <1>0, <1>2, <1>4
<1>6. SoundAt(p, loop, k)
  <2> HIDE DEF k
  <2>1. QED
    BY <1>1, <1>5
<1>7. /\ loop[k].items \subseteq 1 .. k /\ loop[k].items \subseteq 1 .. n
      /\ loop[k].total = SumFunctionOnSet(p, loop[k].items) /\ loop[k].total \in Nat
      /\ \A m \in 0 .. k : loop[m].items = loop[k].items \cap (1 .. m)
      /\ n \notin loop[k].items
  BY <1>5, <1>6 DEF SoundAt
<1>8. \A m \in 0 .. n : m \in 0 .. k \/ m = n
  BY <1>5
<1>9. CASE loop[n] = loop[k]
  <2>1. \A m \in 0 .. n : loop[m].items = loop[n].items \cap (1 .. m)
    BY <1>7, <1>8, <1>9
  <2>2. QED
    BY <1>2, <1>7, <1>9, <2>1 DEF SoundAt
<1>10. CASE loop[n] = [items |-> loop[k].items \cup {n}, total |-> loop[k].total + p[n]]
  <2>1. loop[n].items = loop[k].items \cup {n} /\ loop[n].total = loop[k].total + p[n]
    BY <1>10
  <2>2. loop[n].items \subseteq 1 .. n
    BY <1>5, <1>7, <2>1
  <2>3. \A m \in 0 .. k : n \notin 1 .. m
    BY <1>5
  <2>4. \A m \in 0 .. n : loop[m].items = loop[n].items \cap (1 .. m)
    BY <1>7, <1>8, <2>1, <2>2, <2>3
  <2>5. p[n] \in Nat
    BY <1>5, AmountsType
  <2>6. IsFiniteSet(loop[k].items)
    <3>1. IsFiniteSet(1 .. k)
      BY <1>5, FS_Interval
    <3>2. QED
      BY <1>7, <3>1, FS_Subset
  <2>7. \A x \in loop[k].items \cup {n} : p[x] \in Nat
    BY <1>5, <1>7, AmountsType
  <2>8. SumFunctionOnSet(p, loop[k].items \cup {n}) = SumFunctionOnSet(p, loop[k].items) + p[n]
    BY <1>7, <2>6, <2>7, SumAdd
  <2>9. loop[n].total = SumFunctionOnSet(p, loop[n].items) /\ loop[n].total \in Nat
    BY <1>7, <2>1, <2>5, <2>8
  <2>10. QED
    BY <1>2, <2>2, <2>4, <2>9 DEF SoundAt
<1>11. QED
  BY <1>3, <1>4, <1>9, <1>10 DEF Turn

\* An amount within the merchant's bounds; and one that the day leaves room for.
Within(a) == a > 0 /\ a >= MinAmount /\ (MaxAmount # None => a <= MaxAmount)
Room(total) == DailyLimit # None => total <= DailyLimit

\* The items the loop accepts are those that fit, each after the ones before it.
LEMMA AcceptedFits ==
  ASSUME NEW p \in Seq(0 .. AmountCap), NEW d \in Nat, NEW f \in BOOLEAN
  PROVE  /\ Accepted(p, d, f) \subseteq DOMAIN p
         /\ \A i \in DOMAIN p :
              i \in Accepted(p, d, f) <=>
                /\ f /\ Within(p[i])
                /\ Room(d + SumFunctionOnSet(p, {j \in Accepted(p, d, f) : j < i}) + p[i])
<1>0. /\ Len(p) \in Nat /\ DOMAIN p = 1 .. Len(p)
      /\ \A i \in DOMAIN p : p[i] \in 0 .. AmountCap
  BY AmountsType
<1> DEFINE all == Accepted(p, d, f)
<1>1. PICK loop : Turns(p, d, f, Len(p), loop) /\ all = loop[Len(p)].items
  BY <1>0, AcceptedIs
<1>2. \A i \in 0 .. Len(p) : SoundAt(p, loop, i)
  BY <1>1, TurnsSound
<1> HIDE DEF all
<1>3. all \subseteq DOMAIN p /\ \A m \in 0 .. Len(p) : loop[m].items = all \cap (1 .. m)
  BY <1>0, <1>1, <1>2 DEF SoundAt
<1>4. ASSUME NEW i \in DOMAIN p
      PROVE  i \in all <=> /\ f /\ Within(p[i])
                           /\ Room(d + SumFunctionOnSet(p, {j \in all : j < i}) + p[i])
  <2> DEFINE k == i - 1
  <2>1. k \in 0 .. Len(p) /\ i \in 0 .. Len(p) /\ i \in Nat /\ i # 0 /\ i \notin 1 .. k
        /\ i \in 1 .. i
    BY <1>0
  <2>2. \A j \in 1 .. Len(p) : j \in 1 .. k <=> j < i
    BY <1>0
  <2> HIDE DEF k
  <2>3. loop[k].items = {j \in all : j < i}
    BY <1>0, <1>3, <2>1, <2>2
  <2>4. loop[k].total = SumFunctionOnSet(p, {j \in all : j < i}) /\ loop[k].total \in Nat
    BY <1>2, <2>1, <2>3 DEF SoundAt
  <2>5. i \in all <=> i \in loop[i].items
    BY <1>3, <2>1
  <2>6. i \notin loop[k].items
    BY <1>3, <2>1
  <2>7. loop[i] = IF \/ p[i] = 0
                     \/ p[i] < MinAmount
                     \/ MaxAmount # None /\ p[i] > MaxAmount
                     \/ DailyLimit # None /\ d + loop[k].total + p[i] > DailyLimit
                     \/ p[i] > AmountCap \/ ~ f
                    THEN loop[k]
                    ELSE [items |-> loop[k].items \cup {i}, total |-> loop[k].total + p[i]]
    BY <1>1, <2>1 DEF Turns, Turn, k
  <2> DEFINE fits == f /\ Within(p[i]) /\ Room(d + loop[k].total + p[i])
             refused == \/ p[i] = 0 \/ p[i] < MinAmount
                        \/ MaxAmount # None /\ p[i] > MaxAmount
                        \/ DailyLimit # None /\ d + loop[k].total + p[i] > DailyLimit
                        \/ p[i] > AmountCap \/ ~ f
  <2>8. fits <=> ~ refused
    <3>1. /\ p[i] \in Nat /\ ~ (p[i] > AmountCap) /\ MinAmount \in Nat
          /\ d + loop[k].total + p[i] \in Nat
      BY <1>0, <2>4, BulkAssumption
    <3>2. p[i] > 0 /\ p[i] >= MinAmount <=> ~ (p[i] = 0) /\ ~ (p[i] < MinAmount)
      BY <3>1
    <3>3. MaxAmount # None => (p[i] <= MaxAmount <=> ~ (p[i] > MaxAmount))
      BY <3>1, BulkAssumption
    <3>4. DailyLimit # None =>
            (d + loop[k].total + p[i] <= DailyLimit <=> ~ (d + loop[k].total + p[i] > DailyLimit))
      BY <3>1, BulkAssumption
    <3>5. QED
      BY <3>1, <3>2, <3>3, <3>4 DEF Within, Room
  <2>9. CASE fits
    <3>1. loop[i] = [items |-> loop[k].items \cup {i}, total |-> loop[k].total + p[i]]
      BY <2>7, <2>8, <2>9
    <3>2. loop[i].items = loop[k].items \cup {i}
      BY <3>1
    <3>3. QED
      BY <2>4, <2>5, <2>9, <3>2
  <2>10. CASE ~ fits
    <3>1. loop[i] = loop[k]
      BY <2>7, <2>8, <2>10
    <3>2. QED
      BY <2>4, <2>5, <2>6, <2>10, <3>1
  <2>11. QED
    BY <2>9, <2>10
<1>5. QED
  BY <1>3, <1>4 DEF all

-----------------------------------------------------------------------------
(* The batch stays within what the loop has accepted.                       *)

\* Where a request is once its items have been chosen.
Chosen == {"commit", "enqueue", "save"}

\* What is accepted and what is committed are items of the payload.
Fitting ==
    \A r \in Requests :
      /\ req[r].pc \in Chosen => req[r].accepted \subseteq DOMAIN req[r].payload
      /\ batch[r] # None => batch[r] \subseteq DOMAIN req[r].payload

LEMMA PayloadType ==
  ASSUME IInv
  PROVE  \A r \in Requests : req[r].pc # "idle" =>
           /\ req[r].payload \in Seq(0 .. AmountCap)
           /\ Len(req[r].payload) \in Nat
           /\ DOMAIN req[r].payload = 1 .. Len(req[r].payload)
           /\ \A i \in DOMAIN req[r].payload : req[r].payload[i] \in Nat
<1> SUFFICES ASSUME NEW r \in Requests, req[r].pc # "idle"
             PROVE  /\ req[r].payload \in Seq(0 .. AmountCap)
                    /\ Len(req[r].payload) \in Nat
                    /\ DOMAIN req[r].payload = 1 .. Len(req[r].payload)
                    /\ \A i \in DOMAIN req[r].payload : req[r].payload[i] \in Nat
  OBVIOUS
<1>1. req[r].payload \in Seq(0 .. AmountCap)
  BY BulkAssumption DEF IInv, Received
<1>2. QED
  BY <1>1, AmountsType

\* The day's total is a number: finitely many requests have committed items.
LEMMA DailyTotalType ==
  ASSUME IInv, Fitting
  PROVE  DailyTotal \in Nat
<1> DEFINE done == {q \in Requests : batch[q] # None}
           sums == [r \in done |-> SumFunctionOnSet(req[r].payload, batch[r])]
<1>1. IsFiniteSet(done)
  BY BulkAssumption, FS_Subset
<1>2. ASSUME NEW r \in done PROVE sums[r] \in Nat
  <2>1. req[r].pc # "idle" /\ batch[r] \subseteq DOMAIN req[r].payload
    BY DEF IInv, Received, Fitting
  <2>2. /\ Len(req[r].payload) \in Nat /\ DOMAIN req[r].payload = 1 .. Len(req[r].payload)
        /\ \A i \in batch[r] : req[r].payload[i] \in Nat
    BY <2>1, PayloadType
  <2>3. IsFiniteSet(batch[r])
    <3>1. IsFiniteSet(1 .. Len(req[r].payload))
      BY <2>2, FS_Interval
    <3>2. QED
      BY <2>1, <2>2, <3>1, FS_Subset
  <2>4. QED
    BY <2>2, <2>3, SumType
<1>3. DailyTotal = SumFunctionOnSet(sums, done)
  BY DEF DailyTotal, SumFunction
<1> HIDE DEF done, sums
<1>4. QED
  BY <1>1, <1>2, <1>3, SumType

\* A step of r that leaves its payload and what it has accepted alone.
LEMMA FitsKept ==
  ASSUME IInv, Fitting, AcceptsGreedily, NEW r \in Requests,
         \A q \in Requests : q # r => req'[q] = req[q],
         /\ req'[r].payload = req[r].payload
         /\ req'[r].accepted = req[r].accepted /\ req'[r].seen = req[r].seen
         /\ req'[r].feeValid = req[r].feeValid
         /\ req'[r].pc \in Chosen => req[r].pc \in Chosen,
         \A q \in Requests : \/ batch'[q] = batch[q]
                             \/ /\ q = r /\ req[r].pc = "commit"
                                /\ batch'[r] = req[r].accepted
  PROVE  Fitting' /\ AcceptsGreedily'
<1>1. \A q \in Requests : /\ req'[q].payload = req[q].payload
                          /\ req'[q].accepted = req[q].accepted /\ req'[q].seen = req[q].seen
                          /\ req'[q].feeValid = req[q].feeValid
                          /\ req'[q].pc \in Chosen => req[q].pc \in Chosen
  OBVIOUS
<1>2. Fitting'
  BY <1>1 DEF Fitting, Chosen
<1>3. AcceptsGreedily'
  BY <1>1 DEF AcceptsGreedily, Amount, Chosen
<1>4. QED
  BY <1>2, <1>3

LEMMA FitsReceived ==
  ASSUME IInv, Fitting, AcceptsGreedily, NEW r \in Requests, NEW k \in Keys \cup {NoKey},
         NEW p \in Payloads, Receive(r, k, p)
  PROVE  Fitting' /\ AcceptsGreedily'
<1> DEFINE pc == IF k = NoKey THEN "validate" ELSE "claim"
<1>1. /\ req[r].pc = "idle" /\ batch' = batch
      /\ req' = [req EXCEPT ![r] = [@ EXCEPT !.pc = pc, !.key = k, !.payload = p]]
  BY DEF Receive
<1>2. req[r] = [pc |-> req[r].pc, key |-> req[r].key, payload |-> req[r].payload,
                accepted |-> req[r].accepted, seen |-> req[r].seen,
                feeValid |-> req[r].feeValid]
  BY DEF IInv, Shape
<1>3. req'[r].pc = pc /\ \A q \in Requests : q # r => req'[q] = req[q]
  BY <1>1, <1>2 DEF IInv, Shape
<1>4. batch[r] = None /\ pc \notin Chosen
  BY <1>1 DEF IInv, Received, Chosen
<1> HIDE DEF pc
<1>5. Fitting'
  BY <1>1, <1>3, <1>4 DEF Fitting
<1>6. AcceptsGreedily'
  BY <1>3, <1>4 DEF AcceptsGreedily, Amount, Chosen
<1>7. QED
  BY <1>5, <1>6

LEMMA FitsValidated ==
  ASSUME IInv, Fitting, AcceptsGreedily, NEW r \in Requests, ValidateItems(r)
  PROVE  Fitting' /\ AcceptsGreedily'
<1> DEFINE p == req[r].payload
           d == DailyTotal
<1>0. PICK f \in BOOLEAN :
        LET a == Accepted(p, d, f)
        IN  req' = [req EXCEPT ![r] = [@ EXCEPT !.pc = IF a = {} THEN "save" ELSE "commit",
                                                !.accepted = a, !.seen = d, !.feeValid = f]]
  BY DEF ValidateItems
<1> DEFINE a == Accepted(p, d, f)
           pc == IF a = {} THEN "save" ELSE "commit"
<1>1. /\ req[r].pc = "volume" /\ batch' = batch
      /\ req' = [req EXCEPT ![r] = [@ EXCEPT !.pc = pc, !.accepted = a,
                                             !.seen = d, !.feeValid = f]]
  BY <1>0 DEF ValidateItems
<1>2. p \in Seq(0 .. AmountCap) /\ d \in Nat
  BY <1>1, PayloadType, DailyTotalType
<1>3. /\ a \subseteq DOMAIN p
      /\ \A i \in DOMAIN p :
           i \in a <=> /\ f /\ Within(p[i])
                       /\ Room(d + SumFunctionOnSet(p, {j \in a : j < i}) + p[i])
  BY <1>2, AcceptedFits
<1>4. req[r] = [pc |-> req[r].pc, key |-> req[r].key, payload |-> req[r].payload,
                accepted |-> req[r].accepted, seen |-> req[r].seen,
                feeValid |-> req[r].feeValid]
  BY DEF IInv, Shape
<1> HIDE DEF a, d, pc
<1>5. /\ req'[r] = [pc |-> pc, key |-> req[r].key, payload |-> p,
                    accepted |-> a, seen |-> d, feeValid |-> f]
      /\ \A q \in Requests : q # r => req'[q] = req[q]
  BY <1>1, <1>4 DEF IInv, Shape
<1>6. req'[r].payload = p /\ req'[r].accepted = a /\ req'[r].seen = d /\ req'[r].feeValid = f
  BY <1>5
<1> HIDE DEF p
<1>7. Fitting'
  BY <1>1, <1>3, <1>5, <1>6 DEF Fitting, p
<1>8. AcceptsGreedily'
  <2> SUFFICES ASSUME NEW q \in Requests, req'[q].pc \in Chosen,
                      NEW i \in DOMAIN req'[q].payload
               PROVE  i \in req'[q].accepted <=>
                        /\ req'[q].feeValid /\ Within(req'[q].payload[i])
                        /\ Room(req'[q].seen
                             + SumFunctionOnSet(req'[q].payload, {j \in req'[q].accepted : j < i})
                             + req'[q].payload[i])
    BY DEF AcceptsGreedily, Amount, Within, Room, Chosen
  <2>1. CASE q = r
    BY <1>3, <1>6, <2>1
  <2>2. CASE q # r
    BY <1>5, <2>2 DEF AcceptsGreedily, Amount, Within, Room, Chosen
  <2>3. QED
    BY <2>1, <2>2
<1>9. QED
  BY <1>7, <1>8

LEMMA FitsPreserved ==
  IInv /\ Fitting /\ AcceptsGreedily /\ [Next]_vars => Fitting' /\ AcceptsGreedily'
<1> SUFFICES ASSUME IInv, Fitting, AcceptsGreedily, [Next]_vars
             PROVE  Fitting' /\ AcceptsGreedily'
  OBVIOUS
<1>1. ASSUME NEW r \in Requests, NEW pc, Goto(r, pc),
             pc \in Chosen => req[r].pc \in Chosen,
             \/ UNCHANGED batch
             \/ req[r].pc = "commit" /\ batch' = [batch EXCEPT ![r] = req[r].accepted]
      PROVE  Fitting' /\ AcceptsGreedily'
  <2>1. /\ req'[r].pc = pc /\ req'[r].payload = req[r].payload
        /\ req'[r].accepted = req[r].accepted /\ req'[r].seen = req[r].seen
         /\ req'[r].feeValid = req[r].feeValid
        /\ \A q \in Requests : q # r => req'[q] = req[q]
    BY <1>1, Moved DEF IInv
  <2>2. \A q \in Requests : \/ batch'[q] = batch[q]
                            \/ /\ q = r /\ req[r].pc = "commit"
                               /\ batch'[r] = req[r].accepted
    BY <1>1 DEF IInv, Shape
  <2>3. QED
    BY <1>1, <2>1, <2>2, FitsKept
<1>2. ASSUME NEW r \in Requests, NEW k \in Keys \cup {NoKey}, NEW p \in Payloads,
             Receive(r, k, p)
      PROVE  Fitting' /\ AcceptsGreedily'
  BY <1>2, FitsReceived
<1>3. ASSUME NEW r \in Requests, ValidateItems(r) PROVE Fitting' /\ AcceptsGreedily'
  BY <1>3, FitsValidated
<1>4. ASSUME NEW r \in Requests,
             Claim(r) \/ Lose(r) \/ ProceedUnclaimed(r) \/ Reject(r) \/ Validate(r)
      PROVE  Fitting' /\ AcceptsGreedily'
  <2>1. UNCHANGED batch /\ \E pc \in {"validate", "lost", "volume", "done"} : Goto(r, pc)
    BY <1>4 DEF Claim, Lose, ProceedUnclaimed, Reject, Validate, Answer
  <2>2. QED
    BY <1>1, <2>1 DEF Chosen
<1>5. ASSUME NEW r \in Requests, Commit(r) PROVE Fitting' /\ AcceptsGreedily'
  BY <1>1, <1>5 DEF Commit, Chosen
<1>6. ASSUME NEW r \in Requests,
             Enqueue(r) \/ EnqueueError(r) \/ Save(r) \/ SaveError(r) \/ Fail(r)
      PROVE  Fitting' /\ AcceptsGreedily'
  <2>1. /\ UNCHANGED batch
        /\ \E pc \in {"save", "done"} : Goto(r, pc) /\ (pc = "save" => req[r].pc = "enqueue")
    BY <1>6 DEF Enqueue, EnqueueError, Save, SaveError, Fail, Answer
  <2>2. QED
    BY <1>1, <2>1 DEF Chosen
<1>7. CASE UNCHANGED vars
  BY <1>7 DEF vars, Fitting, AcceptsGreedily, Amount
<1>8. QED
  BY <1>2, <1>3, <1>4, <1>5, <1>6, <1>7 DEF Next, Finished

\* The validation loop is exact for every payload the schema lets through and
\* every setting, set or not: an item is accepted if and only if the fee is
\* valid, the amount is positive and within the merchant's bounds, and fits, with
\* the day's total that was read and the items accepted before it, under the
\* daily limit; the cap of computeSettlementAmounts never decides.
THEOREM AcceptsGreedilyAlways == Spec => []AcceptsGreedily
<1>1. Init => Fitting /\ AcceptsGreedily
  BY DEF Init, Fitting, AcceptsGreedily, Chosen
<1>2. QED
  BY <1>1, Invariance, FitsPreserved, PTL DEF Spec
=============================================================================
