------------------------ MODULE SettlementTableProofs -------------------------
(***************************************************************************)
(* Proofs about the settlement table: the retry route for any number of    *)
(* settlements and overlapping requests (SettlementRetry), and the writers *)
(* and the reconciliations of the table for any number of merchants, rows, *)
(* tiers and amounts (SettlementLedger).  The two share no constant and no *)
(* variable; they are in one module because both are about these rows.     *)
(***************************************************************************)
EXTENDS SettlementRetry, SettlementLedger, FiniteSetTheorems, WellFoundedInduction, TLAPS

-----------------------------------------------------------------------------
(* Retries.                                                                  *)

\* The optimistic lock: the version a request has read is never ahead of the
\* row's, and behind it once the request has won.
VersionsGrow ==
    \A q \in Requests :
      /\ req[q].pc \in {"up", "down", "create", "link"} => req[q].ver <= version[req[q].id]
      /\ req[q].pc = "add" => req[q].ver < version[req[q].id]

\* What has not been inserted, nobody knows of.
AbsentUntouched ==
    \A s \in Rows : status[s] = Absent =>
      /\ been[s] = {} /\ s \notin overtaken /\ sup[s] = NoRow
      /\ \A q \in Requests : req[q].id # s /\ req[q].clone # s

\* A request works on a settlement that has failed for good, as long as its
\* writers do not overtake each other.
OriginalsFailed ==
    \A q \in Requests : req[q] # Idle =>
      req[q].id \in Rows /\ (status[req[q].id] = "failed" \/ req[q].id \in overtaken)

\* Nothing leads on from a clone that is about to be linked, unless it has been
\* retried early.
FreshClones ==
    \A q \in Requests : req[q].pc = "link" /\ req[q].clone \notin early =>
      /\ sup[req[q].clone] = NoRow
      /\ \A p \in Requests : req[p].id # req[q].clone

ClonesAtEnd ==
    \A q \in Requests : /\ (req[q].pc \in {"link", "add"}) <=> (req[q].clone # NoRow)
                        /\ (req[q].pc = "idle") <=> (req[q] = Idle)

\* The first loop stands on a row.
CursorOnRow == \A q \in Requests : req[q].pc = "up" => req[q].cur \in Rows

RetryInv ==
    /\ TypeOK
    /\ CursorOnRow
    /\ VersionsGrow
    /\ AbsentUntouched
    /\ OriginalsFailed
    /\ FreshClones
    /\ ClonesAtEnd
    /\ SupersededIsFailed
    /\ OneWinnerPerVersion

-----------------------------------------------------------------------------
RequestLocal == [pc      : {"idle", "up", "down", "create", "link", "add"},
          id      : Rows \cup {NoRow}, ver : Nat,
          cur     : Rows \cup {NoRow}, visited : SUBSET Rows,
          front   : SUBSET Rows, count : Nat, clone : Rows \cup {NoRow}]

LEMMA IdleIsLocal ==
  /\ Idle \in RequestLocal /\ NoRow \notin Rows
  /\ Idle.pc = "idle" /\ Idle.id = NoRow /\ Idle.clone = NoRow
  /\ Absent \notin Status
BY RetryAssumption DEF Idle, RequestLocal, NoRow, Absent, Status

LEMMA RetryInit == Init => RetryInv
<1> SUFFICES ASSUME Init PROVE RetryInv
  OBVIOUS
<1>1. TypeOK
  BY RetryAssumption, IdleIsLocal DEF Init, TypeOK, RequestLocal, NoRow, RowState, Status, Absent
<1>2. CursorOnRow /\ VersionsGrow /\ OriginalsFailed /\ FreshClones /\ ClonesAtEnd
  BY IdleIsLocal
     DEF Init, CursorOnRow, VersionsGrow, OriginalsFailed, FreshClones, ClonesAtEnd
<1>3. AbsentUntouched /\ SupersededIsFailed /\ OneWinnerPerVersion
  BY RetryAssumption, IdleIsLocal
     DEF Init, AbsentUntouched, SupersededIsFailed, OneWinnerPerVersion, Absent
<1>4. QED
  BY <1>1, <1>2, <1>3 DEF RetryInv

\* What giving a request's locals a new value does.
LEMMA GoLocal ==
  ASSUME TypeOK, NEW q \in Requests, NEW v \in RequestLocal, Go(q, v)
  PROVE  /\ req' \in [Requests -> RequestLocal]
         /\ req'[q] = v
         /\ \A p \in Requests : p # q => req'[p] = req[p]
BY DEF TypeOK, RequestLocal, Go

\* A status update: a failed row stays so, or has had its writers overtaken.
LEMMA UpdateEffect ==
  ASSUME RetryInv, NEW s \in Rows, NEW from \in Status, NEW to \in Status \ {"pending"},
         UpdateStatus(s, from, to)
  PROVE  /\ status[s] # Absent /\ status'[s] = to /\ to # Absent
         /\ \A t \in Rows : t # s => status'[t] = status[t] /\ been'[t] = been[t]
         /\ overtaken \subseteq overtaken' /\ overtaken' \subseteq overtaken \cup {s}
         /\ status[s] = "failed" => to = "failed" \/ s \in overtaken'
         /\ status' \in [Rows -> RowState] /\ been' \in [Rows -> SUBSET Status]
         /\ UNCHANGED <<version, sup, req, early>>
<1>1. /\ from \in been[s] /\ validateTransition(from, to)
      /\ status' = [status EXCEPT ![s] = to]
      /\ been' = [been EXCEPT ![s] = @ \cup {to}]
      /\ IF from = status[s] THEN UNCHANGED overtaken ELSE overtaken' = overtaken \cup {s}
      /\ UNCHANGED <<version, sup, req, early>>
  BY DEF UpdateStatus, linkVars
<1>2. status[s] # Absent
  BY <1>1 DEF RetryInv, AbsentUntouched
<1>3. to # Absent
  BY IdleIsLocal
<1>4. status \in [Rows -> RowState] /\ been \in [Rows -> SUBSET Status]
  BY DEF RetryInv, TypeOK
<1>5. /\ status' \in [Rows -> RowState] /\ been' \in [Rows -> SUBSET Status]
      /\ status'[s] = to
      /\ \A t \in Rows : t # s => status'[t] = status[t] /\ been'[t] = been[t]
  BY <1>1, <1>4 DEF RowState
<1>6. from = "failed" => to = "failed"
  BY <1>1 DEF validateTransition, isValidTransition, SETTLEMENT_STATUS_TRANSITIONS
<1>7. overtaken \subseteq overtaken' /\ overtaken' \subseteq overtaken \cup {s}
      /\ (from # status[s] => s \in overtaken')
  BY <1>1
<1>8. QED
  BY <1>1, <1>2, <1>3, <1>5, <1>6, <1>7

\* A step of one request that changes no row: it ends, or goes on with the
\* settlement and the version it has; or it begins with a failed settlement, of
\* which the history remembers whether it is still to be linked.
LEMMA ReadOnlyStep ==
  ASSUME RetryInv, NEW q \in Requests, NEW v \in RequestLocal, Go(q, v),
         UNCHANGED <<statusVars, linkVars>>,
         early \subseteq early', early' \subseteq Rows,
         v = Idle \/ /\ v.id \in Rows
                     /\ status[v.id] = "failed" \/ v.id \in overtaken
                     /\ status[v.id] # Absent
                     /\ v.ver <= version[v.id] /\ v.clone = NoRow
                     /\ v.pc \in {"up", "down", "create"}
                     /\ v.pc = "up" => v.cur \in Rows
                     /\ \/ v.id = req[q].id
                        \/ \A p \in Requests :
                             req[p].pc = "link" /\ req[p].clone = v.id => v.id \in early'
  PROVE  RetryInv'
<1> USE DEF RetryInv
<1>1. /\ req' \in [Requests -> RequestLocal] /\ req'[q] = v
      /\ \A p \in Requests : p # q => req'[p] = req[p]
      /\ UNCHANGED <<status, been, overtaken, version, sup>>
  BY GoLocal DEF statusVars, linkVars
<1>2. TypeOK'
  BY <1>1 DEF TypeOK, RequestLocal
<1>3. VersionsGrow' /\ CursorOnRow'
  BY <1>1, IdleIsLocal DEF VersionsGrow, CursorOnRow
<1>4. SupersededIsFailed' /\ OneWinnerPerVersion'
  BY <1>1, IdleIsLocal DEF SupersededIsFailed, OneWinnerPerVersion
<1>5. v.clone = NoRow /\ v.pc \notin {"link", "add"} /\ (v.pc = "idle" <=> v = Idle)
  BY IdleIsLocal
<1>6. OriginalsFailed'
  BY <1>1, <1>5 DEF OriginalsFailed
<1>7. ClonesAtEnd'
  BY <1>1, <1>5 DEF ClonesAtEnd
<1>8. AbsentUntouched'
  <2>1. v.id = NoRow \/ status[v.id] # Absent
    BY IdleIsLocal
  <2>2. QED
    BY <1>1, <1>5, <2>1, IdleIsLocal DEF AbsentUntouched
<1>9. FreshClones'
  <2> SUFFICES ASSUME NEW r \in Requests, req'[r].pc = "link", req'[r].clone \notin early'
               PROVE  /\ sup'[req'[r].clone] = NoRow
                      /\ \A p \in Requests : req'[p].id # req'[r].clone
    BY DEF FreshClones
  <2>1. r # q /\ req'[r] = req[r]
    BY <1>1, <1>5
  <2>2. req[r].clone \notin early
    BY <2>1
  <2>3. sup[req[r].clone] = NoRow /\ \A p \in Requests : req[p].id # req[r].clone
    BY <2>1, <2>2 DEF FreshClones
  <2>4. req[r].clone # NoRow
    BY <2>1 DEF ClonesAtEnd
  <2>5. v.id # req[r].clone
    BY <2>1, <2>3, <2>4, IdleIsLocal
  <2>6. QED
    BY <1>1, <2>1, <2>3, <2>5
<1>10. QED
  BY <1>2, <1>3, <1>4, <1>6, <1>7, <1>8, <1>9

LEMMA RetrySteps == RetryInv /\ [Next]_vars => RetryInv'
<1> SUFFICES ASSUME RetryInv, [Next]_vars PROVE RetryInv'
  OBVIOUS
<1> USE DEF RetryInv
<1>0. /\ NoRow \notin Rows /\ Idle.clone = NoRow /\ Idle.pc = "idle" /\ Idle.id = NoRow
      /\ req \in [Requests -> RequestLocal]
  BY IdleIsLocal DEF TypeOK, RequestLocal
<1>1. ASSUME NEW s \in Rows, NEW from \in Status, NEW to \in Status \ {"pending"},
             UpdateStatus(s, from, to)
      PROVE  RetryInv'
  <2>1. /\ status[s] # Absent /\ status'[s] = to /\ to # Absent
        /\ \A t \in Rows : t # s => status'[t] = status[t] /\ been'[t] = been[t]
        /\ overtaken \subseteq overtaken' /\ overtaken' \subseteq overtaken \cup {s}
        /\ status[s] = "failed" => to = "failed" \/ s \in overtaken'
        /\ status' \in [Rows -> RowState] /\ been' \in [Rows -> SUBSET Status]
        /\ UNCHANGED <<version, sup, req, early>>
    BY <1>1, UpdateEffect
  <2>2. TypeOK'
    BY <2>1 DEF TypeOK
  <2>3. VersionsGrow' /\ ClonesAtEnd' /\ CursorOnRow' /\ OneWinnerPerVersion' /\ FreshClones'
    BY <2>1 DEF VersionsGrow, ClonesAtEnd, CursorOnRow, OneWinnerPerVersion, FreshClones
  <2>4. AbsentUntouched'
    BY <2>1 DEF AbsentUntouched
  <2>5. \A t \in Rows : status[t] = "failed" \/ t \in overtaken
                          => status'[t] = "failed" \/ t \in overtaken'
    BY <2>1
  <2>6. SupersededIsFailed' /\ OriginalsFailed'
    BY <2>1, <2>5 DEF SupersededIsFailed, OriginalsFailed
  <2>7. QED
    BY <2>2, <2>3, <2>4, <2>6
<1>3. ASSUME NEW q \in Requests, NEW s \in Rows, ReadOriginal(q, s) PROVE RetryInv'
  <2> DEFINE v == [Idle EXCEPT !.pc = "up", !.id = s, !.ver = version[s], !.cur = s]
  <2>1. /\ v \in RequestLocal /\ v.id = s /\ v.ver = version[s] /\ v.clone = NoRow /\ v.pc = "up"
        /\ v.cur \in Rows
    BY DEF Idle, RequestLocal, TypeOK
  <2>2. v.ver <= version[v.id]
    BY <2>1 DEF TypeOK
  <2>3. /\ Go(q, v) /\ status[s] = "failed" /\ UNCHANGED <<statusVars, linkVars>>
        /\ early' = IF \E p \in Requests : req[p].pc = "link" /\ req[p].clone = s
                      THEN early \cup {s} ELSE early
    BY <1>3 DEF ReadOriginal
  <2>4. /\ early \subseteq early' /\ early' \subseteq Rows
        /\ \A p \in Requests : req[p].pc = "link" /\ req[p].clone = s => s \in early'
    BY <2>3 DEF TypeOK
  <2>5. status[s] # Absent
    BY <2>3 DEF Absent
  <2> HIDE DEF v
  <2>6. QED
    BY <2>1, <2>2, <2>3, <2>4, <2>5, ReadOnlyStep
<1>4. ASSUME NEW q \in Requests, req[q].pc \in {"up", "down", "create"}
      PROVE  /\ req[q] \in RequestLocal /\ req[q].id \in Rows
             /\ status[req[q].id] = "failed" \/ req[q].id \in overtaken
             /\ status[req[q].id] # Absent
             /\ req[q].ver <= version[req[q].id] /\ req[q].clone = NoRow
             /\ req[q].ver \in Nat /\ version[req[q].id] \in Nat
  <2>1. req[q] # Idle
    BY <1>0, <1>4
  <2>2. req[q].id \in Rows /\ status[req[q].id] # Absent
    BY <2>1 DEF OriginalsFailed, AbsentUntouched
  <2>3. QED
    BY <1>0, <1>4, <2>1, <2>2 DEF OriginalsFailed, VersionsGrow, ClonesAtEnd, TypeOK, RequestLocal
<1>14. UNCHANGED early => early \subseteq early' /\ early' \subseteq Rows
  BY DEF TypeOK
<1>5. ASSUME NEW q \in Requests, WalkUp(q) PROVE RetryInv'
  <2> DEFINE nx == sup[req[q].cur]
             visited == req[q].visited \cup {req[q].cur}
             counted == [req[q] EXCEPT !.visited = visited, !.cur = nx, !.count = @ + 1]
             down(n) == [req[q] EXCEPT !.pc = "down", !.front = {req[q].id}, !.count = n,
                                       !.visited = {}, !.cur = NoRow]
             v == IF nx = NoRow THEN down(req[q].count)
                  ELSE IF nx \in visited THEN down(req[q].count + 1)
                  ELSE counted
  <2>1. req[q].pc = "up" /\ Go(q, v) /\ UNCHANGED <<statusVars, linkVars, early>>
    BY <1>5 DEF WalkUp
  <2>2. req[q].cur \in Rows /\ sup[req[q].cur] \in Rows \cup {NoRow}
    BY <2>1 DEF CursorOnRow, TypeOK
  <2>3. visited \in SUBSET Rows /\ req[q] \in RequestLocal /\ req[q].id \in Rows
        /\ req[q].count \in Nat /\ req[q].count + 1 \in Nat
    BY <1>4, <2>1, <2>2 DEF RequestLocal
  <2>4. ASSUME NEW n \in Nat
        PROVE  /\ down(n) \in RequestLocal /\ down(n).id = req[q].id /\ down(n).ver = req[q].ver
               /\ down(n).clone = req[q].clone /\ down(n).pc = "down"
    BY <2>3 DEF RequestLocal
  <2>5. nx # NoRow =>
          /\ counted \in RequestLocal /\ counted.id = req[q].id /\ counted.ver = req[q].ver
          /\ counted.clone = req[q].clone /\ counted.pc = "up" /\ counted.cur \in Rows
    <3>1. nx \in Rows \cup {NoRow}
      BY <2>2
    <3> HIDE DEF nx, visited
    <3>2. QED
      BY <2>1, <2>3, <3>1 DEF RequestLocal
  <2> HIDE DEF nx, visited, counted, down
  <2>6. /\ v \in RequestLocal /\ v.id = req[q].id /\ v.ver = req[q].ver /\ v.clone = req[q].clone
        /\ v.pc \in {"up", "down"} /\ (v.pc = "up" => v.cur \in Rows)
    BY <2>3, <2>4, <2>5
  <2> HIDE DEF v
  <2>7. QED
    BY <1>4, <1>14, <2>1, <2>6, ReadOnlyStep
<1>6. ASSUME NEW q \in Requests, WalkDown(q) PROVE RetryInv'
  <2> DEFINE children == {s \in Rows : sup[s] \in req[q].front}
             v == IF children # {}
                    THEN [req[q] EXCEPT !.front = children, !.count = @ + Cardinality(children)]
                  ELSE IF req[q].count >= MaxRetries THEN Idle
                  ELSE [Idle EXCEPT !.pc = "create", !.id = req[q].id, !.ver = req[q].ver]
  <2>1. req[q].pc = "down" /\ Go(q, v) /\ UNCHANGED <<statusVars, linkVars, early>>
    BY <1>6 DEF WalkDown
  <2>2. children \in SUBSET Rows /\ Cardinality(children) \in Nat
    BY RetryAssumption, FS_Subset, FS_CardinalityType
  <2>3. req[q] \in RequestLocal /\ req[q].clone = NoRow
    BY <1>4, <2>1
  <2> HIDE DEF children
  <2>4. v = Idle \/ /\ v \in RequestLocal /\ v.id = req[q].id /\ v.ver = req[q].ver
                    /\ v.clone = req[q].clone /\ v.pc \in {"down", "create"}
    <3>1. CASE children # {}
      <4>1. v = [req[q] EXCEPT !.front = children, !.count = @ + Cardinality(children)]
        BY <3>1
      <4>2. req[q].count + Cardinality(children) \in Nat
        BY <2>2, <2>3 DEF RequestLocal
      <4>3. QED
        BY <2>1, <2>2, <2>3, <4>1, <4>2 DEF RequestLocal
    <3>2. CASE children = {}
      <4> DEFINE w == [Idle EXCEPT !.pc = "create", !.id = req[q].id, !.ver = req[q].ver]
      <4>1. req[q].id \in Rows \cup {NoRow} /\ req[q].ver \in Nat
        BY <2>3 DEF RequestLocal
      <4>2. /\ w \in RequestLocal /\ w.id = req[q].id /\ w.ver = req[q].ver
            /\ w.clone = NoRow /\ w.pc = "create"
        BY <4>1 DEF RequestLocal, Idle
      <4>3. v = Idle \/ v = w
        BY <3>2
      <4> HIDE DEF v, w
      <4>4. QED
        BY <2>3, <4>2, <4>3
    <3>3. QED
      BY <3>1, <3>2
  <2> HIDE DEF v
  <2>5. QED
    BY <1>4, <1>14, <2>1, <2>4, IdleIsLocal, ReadOnlyStep
<1>7. ASSUME NEW q \in Requests, CreateClone(q) PROVE RetryInv'
  <2> DEFINE v(c) == [req[q] EXCEPT !.pc = "link", !.clone = c]
  <2>1. PICK c \in Rows :
          /\ status[c] = Absent
          /\ status' = [status EXCEPT ![c] = "pending"]
          /\ been' = [been EXCEPT ![c] = {"pending"}]
          /\ Go(q, v(c))
    BY <1>7 DEF CreateClone, Absent
  <2>2. req[q].pc = "create" /\ UNCHANGED <<version, sup, overtaken, early>>
    BY <1>7 DEF CreateClone, linkVars
  <2>3. /\ v(c) \in RequestLocal /\ v(c).pc = "link" /\ v(c).clone = c
        /\ v(c).id = req[q].id /\ v(c).ver = req[q].ver
    BY <1>4, <2>2 DEF RequestLocal
  <2> HIDE DEF v
  <2>4. /\ req' \in [Requests -> RequestLocal] /\ req'[q] = v(c)
        /\ \A p \in Requests : p # q => req'[p] = req[p]
    BY <2>1, <2>3, GoLocal
  <2>5. /\ \A t \in Rows : t # c => status'[t] = status[t] /\ been'[t] = been[t]
        /\ status'[c] = "pending" /\ "pending" # Absent
        /\ status' \in [Rows -> RowState] /\ been' \in [Rows -> SUBSET Status]
    BY <2>1 DEF TypeOK, RowState, Status, Absent
  <2>6. TypeOK'
    BY <2>2, <2>4, <2>5 DEF TypeOK, RequestLocal
  <2>7. VersionsGrow' /\ ClonesAtEnd' /\ CursorOnRow' /\ OneWinnerPerVersion'
    BY <1>0, <1>4, <2>2, <2>3, <2>4 DEF VersionsGrow, ClonesAtEnd, CursorOnRow, OneWinnerPerVersion
  <2>8. /\ c \notin overtaken /\ sup[c] = NoRow /\ c # NoRow
        /\ \A p \in Requests : req[p].id # c /\ req[p].clone # c
    BY <1>0, <2>1 DEF AbsentUntouched
  <2>9. SupersededIsFailed'
    BY <2>2, <2>5, <2>8 DEF SupersededIsFailed
  <2>10. AbsentUntouched'
    BY <2>2, <2>3, <2>4, <2>5, <2>8 DEF AbsentUntouched
  <2>11. OriginalsFailed'
    <3>1. ASSUME NEW p \in Requests, req'[p] # Idle
          PROVE  /\ req'[p].id = req[p].id /\ req[p] # Idle
      BY <1>0, <2>2, <2>3, <2>4, <3>1
    <3>2. QED
      BY <2>2, <2>5, <2>8, <3>1 DEF OriginalsFailed
  <2>12. FreshClones'
    <3>1. \A p \in Requests : req'[p].id = req[p].id
      BY <2>3, <2>4
    <3>2. QED
      BY <2>2, <2>3, <2>4, <2>8, <3>1 DEF FreshClones
  <2>13. QED
    BY <2>6, <2>7, <2>9, <2>10, <2>11, <2>12
<1>8. ASSUME NEW q \in Requests, Link(q) PROVE RetryInv'
  <2> DEFINE v == [req[q] EXCEPT !.pc = "add"]
             o == req[q].id
  <2>1. /\ req[q].pc = "link" /\ version[o] = req[q].ver /\ Go(q, v)
        /\ sup' = [sup EXCEPT ![o] = req[q].clone]
        /\ version' = [version EXCEPT ![o] = @ + 1]
        /\ UNCHANGED <<status, been, overtaken, early>>
    BY <1>8 DEF Link, statusVars
  <2>2. /\ req[q] \in RequestLocal /\ req[q] # Idle /\ o \in Rows
        /\ status[o] = "failed" \/ o \in overtaken
        /\ status[o] # Absent
        /\ req[q].clone \in Rows /\ version[o] \in Nat
    <3>1. req[q] # Idle /\ req[q] \in RequestLocal
      BY <1>0, <2>1
    <3>2. o \in Rows /\ (status[o] = "failed" \/ o \in overtaken)
      BY <3>1 DEF OriginalsFailed
    <3>3. status[o] # Absent
      BY <3>2 DEF AbsentUntouched
    <3>4. req[q].clone # NoRow /\ req[q].clone \in Rows \cup {NoRow}
      BY <2>1, <3>1 DEF ClonesAtEnd, RequestLocal
    <3>5. QED
      BY <3>1, <3>2, <3>3, <3>4 DEF TypeOK
  <2>3. v \in RequestLocal /\ v.pc = "add" /\ v.id = o /\ v.ver = req[q].ver /\ v.clone = req[q].clone
    BY <2>2 DEF RequestLocal
  <2> HIDE DEF v
  <2>4. /\ req' \in [Requests -> RequestLocal] /\ req'[q] = v
        /\ \A p \in Requests : p # q => req'[p] = req[p]
    BY <2>1, <2>3, GoLocal
  <2>5. TypeOK'
    BY <2>1, <2>2, <2>4 DEF TypeOK, RequestLocal
  <2>6. /\ version'[o] = version[o] + 1
        /\ \A s \in Rows : version[s] \in Nat /\ (s # o => version'[s] = version[s])
    BY <2>1, <2>2 DEF TypeOK
  <2>7. VersionsGrow'
    <3> SUFFICES ASSUME NEW p \in Requests
                 PROVE  /\ req'[p].pc \in {"up", "down", "create", "link"}
                             => req'[p].ver <= version'[req'[p].id]
                        /\ req'[p].pc = "add" => req'[p].ver < version'[req'[p].id]
      BY DEF VersionsGrow
    <3>1. CASE p = q
      BY <2>1, <2>2, <2>3, <2>4, <2>6, <3>1
    <3>2. CASE p # q /\ req[p] # Idle
      <4>1. req[p].id \in Rows /\ req[p].ver \in Nat
        BY <3>2 DEF OriginalsFailed, TypeOK, RequestLocal
      <4>2. QED
        BY <2>4, <2>6, <3>2, <4>1 DEF VersionsGrow
    <3>3. CASE p # q /\ req[p] = Idle
      BY <1>0, <2>4, <3>3
    <3>4. QED
      BY <3>1, <3>2, <3>3
  <2>8. ClonesAtEnd' /\ CursorOnRow'
    BY <1>0, <2>1, <2>3, <2>4 DEF ClonesAtEnd, CursorOnRow
  <2>9. \A s \in Rows : s # o => sup'[s] = sup[s]
    BY <2>1, <2>2 DEF TypeOK
  <2>10. SupersededIsFailed'
    BY <2>1, <2>2, <2>9 DEF SupersededIsFailed
  <2>11. \A p \in Requests : req'[p].id = req[p].id /\ req'[p].clone = req[p].clone
    BY <2>3, <2>4
  <2>12. OriginalsFailed'
    BY <2>1, <2>2, <2>3, <2>4 DEF OriginalsFailed
  <2>13. AbsentUntouched'
    BY <2>1, <2>2, <2>9, <2>11 DEF AbsentUntouched
  <2>14. FreshClones'
    <3> SUFFICES ASSUME NEW r \in Requests, req'[r].pc = "link", req'[r].clone \notin early
                 PROVE  /\ sup'[req[r].clone] = NoRow
                        /\ \A p \in Requests : req[p].id # req[r].clone
      BY <2>1, <2>11 DEF FreshClones
    <3>1. r # q /\ req'[r] = req[r]
      BY <2>3, <2>4
    <3>2. sup[req[r].clone] = NoRow /\ \A p \in Requests : req[p].id # req[r].clone
      BY <3>1 DEF FreshClones
    <3>3. req[r].clone \in Rows
      BY <1>0, <3>1 DEF ClonesAtEnd, RequestLocal
    <3>4. QED
      BY <2>9, <3>2, <3>3
  <2>15. OneWinnerPerVersion'
    <3>1. \A p \in Requests : req[p].pc = "add" => req[p].id # o \/ req[p].ver # version[o]
      BY <2>2 DEF VersionsGrow, TypeOK, RequestLocal
    <3>2. QED
      BY <2>1, <2>3, <2>4, <3>1 DEF OneWinnerPerVersion
  <2>16. QED
    BY <2>5, <2>7, <2>8, <2>10, <2>12, <2>13, <2>14, <2>15
<1>9. ASSUME NEW q \in Requests, LinkConflict(q) \/ AddJob(q) \/ RequestFails(q) PROVE RetryInv'
  <2>1. Go(q, Idle) /\ UNCHANGED <<statusVars, linkVars, early>>
    BY <1>9 DEF LinkConflict, AddJob, RequestFails
  <2>2. QED
    BY <1>14, <2>1, IdleIsLocal, ReadOnlyStep
<1>11. CASE UNCHANGED vars
  BY <1>11 DEF vars, TypeOK, CursorOnRow, VersionsGrow, AbsentUntouched, OriginalsFailed,
               FreshClones, ClonesAtEnd, SupersededIsFailed, OneWinnerPerVersion
<1>12. QED
  BY <1>1, <1>3, <1>5, <1>6, <1>7, <1>8, <1>9, <1>11 DEF Next

LEMMA RetryInvariance == Spec => []RetryInv
<1>1. QED
  BY RetryInit, RetrySteps, PTL DEF Spec

-----------------------------------------------------------------------------
\* The optimistic lock of updateSettlementWithOptimisticLock, for any number of
\* overlapping retries of any settlements: of those that read the same version
\* of a row at most one gets to enqueue its clone.
THEOREM OneWinnerPerVersionAlways == Spec => []OneWinnerPerVersion
<1>1. RetryInv => OneWinnerPerVersion
  BY DEF RetryInv
<1>2. QED
  BY <1>1, RetryInvariance, PTL

\* A settlement that a clone replaces has failed and stays so, although status
\* updates neither check nor change the version and runs may be at work on it,
\* unless some writer of its status has been overtaken by another.
THEOREM SupersededIsFailedAlways == Spec => []SupersededIsFailed
<1>1. RetryInv => SupersededIsFailed
  BY DEF RetryInv
<1>2. QED
  BY <1>1, RetryInvariance, PTL

\* The rows and the requests' locals are always well typed.
THEOREM RetryTypeCorrect == Spec => []TypeOK
<1>1. RetryInv => TypeOK
  BY DEF RetryInv
<1>2. QED
  BY <1>1, RetryInvariance, PTL

-----------------------------------------------------------------------------
(* The chains of supersededById links.                                       *)

\* The rows along n links that end in s, none of them retried early.
ChainsTo(n, s) ==
    {c \in [0..n -> Rows \ early] : c[n] = s /\ \A i \in 0..n - 1 : sup[c[i]] = c[i + 1]}

\* The second loop has counted at least one row for each link it has gone down,
\* and its front holds every row that is as far away; a request that is let
\* through has found no chain of MaxRetries links to its settlement.
ChainInv ==
    /\ ChainWithinLimit
    /\ \A q \in Requests : req[q].pc = "down" =>
         \E k \in Nat : /\ k <= req[q].count
                        /\ \A c \in ChainsTo(k, req[q].id) : c[0] \in req[q].front
    /\ \A q \in Requests :
         req[q].pc \in {"create", "link"} => ChainsTo(MaxRetries, req[q].id) = {}

LEMMA Suffix ==
    ASSUME NEW n \in Nat, NEW k \in Nat, k < n, NEW s, NEW c \in ChainsTo(n, s)
    PROVE  /\ [i \in 0..k |-> c[i + (n - k)]] \in ChainsTo(k, s)
           /\ c[n - k - 1] \in Rows /\ sup[c[n - k - 1]] = c[n - k]
  <1>1. /\ c \in [0..n -> Rows \ early] /\ c[n] = s
        /\ \A i \in 0..n - 1 : sup[c[i]] = c[i + 1]
    BY DEF ChainsTo
  <1>2. c[n - k - 1] \in Rows /\ sup[c[n - k - 1]] = c[n - k]
    <2>1. n - k - 1 \in 0..n - 1 /\ n - k - 1 \in 0..n /\ n - k - 1 + 1 = n - k
      OBVIOUS
    <2> QED  BY <1>1, <2>1
  <1> DEFINE d == [i \in 0..k |-> c[i + (n - k)]]
  <1>3. d \in [0..k -> Rows \ early]
    <2>1. \A i \in 0..k : i + (n - k) \in 0..n
      OBVIOUS
    <2> QED  BY <1>1, <2>1
  <1>4. d[k] = s
    <2>1. k + (n - k) = n /\ k \in 0..k
      OBVIOUS
    <2> QED  BY <1>1, <2>1
  <1>5. ASSUME NEW i \in 0..k - 1 PROVE sup[d[i]] = d[i + 1]
    <2>1. /\ i + (n - k) \in 0..n - 1 /\ i \in 0..k /\ i + 1 \in 0..k
          /\ (i + 1) + (n - k) = (i + (n - k)) + 1
      OBVIOUS
    <2> QED  BY <1>1, <2>1
  <1> HIDE DEF d
  <1>6. d \in ChainsTo(k, s)
    BY <1>3, <1>4, <1>5 DEF ChainsTo
  <1> QED  BY <1>2, <1>6 DEF d

\* What is true of a request that links its clone.
LEMMA Linking ==
    ASSUME RetryInv, NEW q \in Requests, Link(q)
    PROVE  /\ req[q].id \in Rows /\ req[q].clone \in Rows /\ NoRow \notin Rows
           /\ req[q].clone \notin early =>
                sup[req[q].clone] = NoRow /\ \A p \in Requests : req[p].id # req[q].clone
           /\ sup \in [Rows -> Rows \cup {NoRow}]
           /\ sup' = [sup EXCEPT ![req[q].id] = req[q].clone]
           /\ early' = early
  <1>1. /\ req[q].pc = "link" /\ sup' = [sup EXCEPT ![req[q].id] = req[q].clone]
        /\ early' = early
    BY DEF Link
  <1>2. req[q].clone # NoRow /\ req[q] # Idle /\ req[q] \in RequestLocal
    BY <1>1, IdleIsLocal DEF RetryInv, ClonesAtEnd, TypeOK, RequestLocal
  <1>3. req[q].id \in Rows /\ req[q].clone \in Rows
    BY <1>2 DEF RetryInv, OriginalsFailed, RequestLocal
  <1>4. req[q].clone \notin early =>
          sup[req[q].clone] = NoRow /\ \A p \in Requests : req[p].id # req[q].clone
    BY <1>1 DEF RetryInv, FreshClones
  <1> QED  BY <1>1, <1>3, <1>4, IdleIsLocal DEF RetryInv, TypeOK

\* A new link makes no chain to a settlement that some request is about.
LEMMA LinkAddsNoChain ==
    ASSUME RetryInv, NEW q \in Requests, Link(q), NEW n \in Nat, NEW p \in Requests
    PROVE  ChainsTo(n, req[p].id)' \subseteq ChainsTo(n, req'[p].id)
  <1> DEFINE s == req'[p].id
  <1>0. s = req[p].id
    BY DEF Link, Go, RetryInv, TypeOK
  <1> HIDE DEF s
  <1>1. SUFFICES ASSUME NEW c \in [0..n -> Rows \ early], c[n] = s,
                        \A i \in 0..n - 1 : sup'[c[i]] = c[i + 1]
                 PROVE  \A i \in 0..n - 1 : sup[c[i]] = c[i + 1]
    BY Linking DEF ChainsTo, s
  <1>2. ASSUME NEW i \in 0..n - 1, c[i] = req[q].id PROVE FALSE
    <2>1. i \in 0..n /\ i + 1 \in 0..n
      OBVIOUS
    <2>2. c[i + 1] = req[q].clone
      BY <1>1, <1>2, <2>1, Linking
    <2>5. req[q].clone \notin early
      BY <2>1, <2>2
    <2>3. CASE i + 1 = n
      BY <2>2, <2>3, <2>5, <1>0, <1>1, Linking
    <2>4. CASE i + 1 # n
      <3>1. i + 1 \in 0..n - 1 /\ i + 1 + 1 \in 0..n
        BY <2>4
      <3>2. sup'[req[q].clone] \in Rows
        BY <1>1, <2>2, <3>1
      <3>3. req[q].clone # req[q].id
        BY <2>5, Linking
      <3> QED  BY <3>2, <3>3, <2>5, Linking
    <2> QED  BY <2>3, <2>4
  <1>3. ASSUME NEW i \in 0..n - 1 PROVE sup[c[i]] = c[i + 1]
    <2>1. c[i] # req[q].id /\ c[i] \in Rows
      BY <1>2
    <2> QED  BY <2>1, <1>1, Linking
  <1> QED  BY <1>3

\* A link within the limit leaves every chain within it.
LEMMA LinkWithinLimit ==
    ASSUME RetryInv, ChainInv, NEW q \in Requests, Link(q)
    PROVE  ChainWithinLimit'
  <1>1. SUFFICES ASSUME NEW c \in [0..MaxRetries -> {s \in Rows : sup'[s] # NoRow} \ early],
                        \A i \in 0..MaxRetries - 1 : sup'[c[i]] = c[i + 1]
                 PROVE  FALSE
    BY Linking DEF ChainWithinLimit
  <1>2. MaxRetries \in Nat
    BY RetryAssumption
  <1>3. \A i \in 0..MaxRetries : c[i] # req[q].clone /\ c[i] \in Rows /\ c[i] \notin early
    <2> TAKE i \in 0..MaxRetries
    <2>1. c[i] \in Rows /\ c[i] \notin early /\ sup'[c[i]] # NoRow
      OBVIOUS
    <2>2. CASE c[i] = req[q].clone
      <3>1. sup[c[i]] = NoRow /\ c[i] # req[q].id
        BY <2>1, <2>2, Linking
      <3> QED  BY <3>1, <2>1, Linking
    <2> QED  BY <2>1, <2>2
  <1>4. ASSUME NEW i \in 0..MaxRetries - 1 PROVE c[i] # req[q].id /\ sup[c[i]] = c[i + 1]
    <2>1. i \in 0..MaxRetries /\ i + 1 \in 0..MaxRetries
      BY <1>2
    <2>2. c[i] # req[q].id
      BY <2>1, <1>1, <1>3, Linking
    <2> QED  BY <2>1, <2>2, <1>1, <1>3, Linking
  <1>5. c[MaxRetries] # req[q].id
    <2>1. ChainsTo(MaxRetries, req[q].id) = {}
      BY DEF ChainInv, Link
    <2>2. c \in [0..MaxRetries -> Rows \ early]
      OBVIOUS
    <2> QED  BY <2>1, <2>2, <1>4 DEF ChainsTo
  <1>6. ASSUME NEW i \in 0..MaxRetries PROVE sup[c[i]] # NoRow
    <2>1. c[i] # req[q].id
      BY <1>2, <1>4, <1>5
    <2>2. sup'[c[i]] # NoRow /\ c[i] \in Rows
      OBVIOUS
    <2> QED  BY <2>1, <2>2, Linking
  <1>7. c \in [0..MaxRetries -> {s \in Rows : sup[s] # NoRow} \ early]
    BY <1>3, <1>6
  <1> QED  BY <1>4, <1>7 DEF ChainInv, ChainWithinLimit

\* What a request finds when it goes on going down.
LEMMA DownStep ==
    ASSUME RetryInv, ChainInv, NEW q \in Requests, WalkDown(q)
    PROVE  /\ req'[q].pc = "down" =>
                \E k \in Nat : /\ k <= req'[q].count
                               /\ \A c \in ChainsTo(k, req'[q].id) : c[0] \in req'[q].front
           /\ req'[q].pc \in {"create", "link"} => ChainsTo(MaxRetries, req'[q].id) = {}
  <1> DEFINE children == {s \in Rows : sup[s] \in req[q].front}
  <1>1. /\ req[q].pc = "down" /\ req[q] \in RequestLocal /\ DOMAIN req = Requests
        /\ Go(q, IF children # {}
                   THEN [req[q] EXCEPT !.front = children, !.count = @ + Cardinality(children)]
                 ELSE IF req[q].count >= MaxRetries THEN Idle
                 ELSE [Idle EXCEPT !.pc = "create", !.id = req[q].id, !.ver = req[q].ver])
    BY DEF WalkDown, RetryInv, TypeOK, RequestLocal
  <1>2. PICK k \in Nat : /\ k <= req[q].count
                         /\ \A c \in ChainsTo(k, req[q].id) : c[0] \in req[q].front
    BY <1>1 DEF ChainInv
  \* A longer chain starts above the front.
  <1>3. ASSUME NEW n \in Nat, k < n, NEW c \in ChainsTo(n, req[q].id)
        PROVE  c[n - k - 1] \in children
    <2> DEFINE d == [i \in 0..k |-> c[i + (n - k)]]
    <2>1. d \in ChainsTo(k, req[q].id) /\ c[n - k - 1] \in Rows /\ sup[c[n - k - 1]] = c[n - k]
      BY <1>3, Suffix
    <2>2. d[0] = c[n - k]
      BY <1>3
    <2> HIDE DEF d
    <2> QED  BY <2>1, <2>2, <1>2
  <1>4. req[q].count \in Nat /\ MaxRetries \in Nat
    BY <1>1, RetryAssumption DEF RequestLocal
  <1>5. CASE children # {}
    <2>1. Cardinality(children) \in Nat /\ Cardinality(children) # 0
      <3>1. children \in SUBSET Rows /\ IsFiniteSet(Rows)
        BY RetryAssumption
      <3>2. IsFiniteSet(children)
        BY <3>1, FS_Subset
      <3> QED  BY <3>2, <1>5, FS_EmptySet, FS_CardinalityType
    <2>2. /\ req'[q].pc = "down" /\ req'[q].id = req[q].id /\ req'[q].front = children
          /\ req'[q].count = req[q].count + Cardinality(children)
      BY <1>1, <1>5 DEF Go, RequestLocal
    <2>3. \A c \in ChainsTo(k + 1, req[q].id) : c[0] \in children
      <3>1. k + 1 \in Nat /\ k < k + 1 /\ (k + 1) - k - 1 = 0
        OBVIOUS
      <3> HIDE DEF children
      <3> QED  BY <3>1, <1>3
    <2> HIDE DEF children
    <2>4. k + 1 \in Nat /\ k + 1 <= req'[q].count
      BY <2>1, <2>2, <1>2, <1>4
    <2> QED  BY <2>2, <2>3, <2>4
  <1>6. CASE children = {} /\ req[q].count >= MaxRetries
    <2>1. req'[q].pc = "idle"
      BY <1>1, <1>6 DEF Go, Idle
    <2> QED  BY <2>1
  <1>7. CASE children = {} /\ ~ (req[q].count >= MaxRetries)
    <2>1. req'[q].pc = "create" /\ req'[q].id = req[q].id
      BY <1>1, <1>7 DEF Go, RequestLocal, Idle
    <2>2. k < MaxRetries
      BY <1>2, <1>4, <1>7
    <2>3. ChainsTo(MaxRetries, req[q].id) = {}
      BY <1>3, <1>4, <1>7, <2>2
    <2> QED  BY <2>1, <2>3
  <1> QED  BY <1>5, <1>6, <1>7

\* A step that changes no link, and no request's search.
LEMMA LinksStay ==
    ASSUME ChainInv, UNCHANGED sup, early \subseteq early',
           \A q \in Requests :
             \/ req'[q] = req[q]
             \/ /\ req'[q].pc = "down" =>
                     \E k \in Nat : /\ k <= req'[q].count
                                    /\ \A c \in ChainsTo(k, req'[q].id) : c[0] \in req'[q].front
                /\ req'[q].pc \in {"create", "link"} => ChainsTo(MaxRetries, req'[q].id) = {}
    PROVE  ChainInv'
  <1>1. ChainWithinLimit'
    <2> SUFFICES ASSUME NEW c \in [0..MaxRetries -> {s \in Rows : sup[s] # NoRow} \ early']
                 PROVE  \E i \in 0..MaxRetries - 1 : sup[c[i]] # c[i + 1]
      BY DEF ChainWithinLimit
    <2>1. c \in [0..MaxRetries -> {s \in Rows : sup[s] # NoRow} \ early]
      OBVIOUS
    <2> QED  BY <2>1 DEF ChainInv, ChainWithinLimit
  <1>2. ASSUME NEW n \in Nat, NEW s,
               NEW d \in [0..n -> Rows \ early'], d[n] = s,
               \A i \in 0..n - 1 : sup'[d[i]] = d[i + 1]
        PROVE  d \in ChainsTo(n, s)
    <2>1. d \in [0..n -> Rows \ early]
      OBVIOUS
    <2> QED  BY <2>1, <1>2 DEF ChainsTo
  <1>3. ASSUME NEW q \in Requests, req'[q].pc = "down"
        PROVE  \E k \in Nat : /\ k <= req'[q].count
                              /\ \A c \in {d \in [0..k -> Rows \ early'] :
                                    d[k] = req'[q].id /\ \A i \in 0..k - 1 : sup'[d[i]] = d[i + 1]} :
                                      c[0] \in req'[q].front
    <2>1. PICK k \in Nat : /\ k <= req'[q].count
                           /\ \A c \in ChainsTo(k, req'[q].id) : c[0] \in req'[q].front
      <3>1. CASE req'[q] = req[q]
        BY <3>1, <1>3 DEF ChainInv
      <3>2. CASE req'[q] # req[q]
        BY <3>2, <1>3
      <3> QED  BY <3>1, <3>2
    <2> QED  BY <2>1, <1>2
  <1>4. ASSUME NEW q \in Requests, req'[q].pc \in {"create", "link"}
        PROVE  {d \in [0..MaxRetries -> Rows \ early'] :
                   d[MaxRetries] = req'[q].id
                   /\ \A i \in 0..MaxRetries - 1 : sup'[d[i]] = d[i + 1]} = {}
    <2>1. ChainsTo(MaxRetries, req'[q].id) = {}
      BY <1>4 DEF ChainInv
    <2> QED  BY <2>1, <1>2, RetryAssumption
  <1> QED  BY <1>1, <1>3, <1>4 DEF ChainInv, ChainsTo

LEMMA ChainStep ==
    ASSUME RetryInv, ChainInv, NEW q \in Requests, Link(q)
    PROVE  ChainInv'
  <1>1. ChainWithinLimit'
    BY LinkWithinLimit
  <1>2. /\ req'[q].pc = "add" /\ \A p \in Requests : p # q => req'[p] = req[p]
    BY DEF Link, Go, RetryInv, TypeOK
  <1>3. ASSUME NEW p \in Requests, p # q, req[p].pc \in {"down", "create", "link"}, NEW n \in Nat
        PROVE  ChainsTo(n, req[p].id)' \subseteq ChainsTo(n, req[p].id)
    BY <1>2, <1>3, LinkAddsNoChain
  <1>4. ASSUME NEW p \in Requests, req'[p].pc = "down"
        PROVE  (\E k \in Nat : /\ k <= req[p].count
                              /\ \A c \in ChainsTo(k, req[p].id) : c[0] \in req[p].front)'
    <2>1. p # q /\ req'[p] = req[p] /\ req[p].pc = "down"
      BY <1>2, <1>4
    <2>2. PICK k \in Nat : /\ k <= req[p].count
                           /\ \A c \in ChainsTo(k, req[p].id) : c[0] \in req[p].front
      BY <2>1 DEF ChainInv
    <2>3. ChainsTo(k, req[p].id)' \subseteq ChainsTo(k, req[p].id)
      BY <2>1, <1>3
    <2>4. \A c \in ChainsTo(k, req[p].id)' : c[0] \in req'[p].front
      BY <2>1, <2>2, <2>3
    <2> QED  BY <2>1, <2>2, <2>4
  <1>5. ASSUME NEW p \in Requests, req'[p].pc \in {"create", "link"}
        PROVE  ChainsTo(MaxRetries, req[p].id)' = {}
    <2>1. p # q /\ req'[p] = req[p] /\ req[p].pc \in {"create", "link"}
      BY <1>2, <1>5
    <2>2. ChainsTo(MaxRetries, req[p].id) = {}
      BY <2>1 DEF ChainInv
    <2> QED  BY <2>1, <2>2, <1>3, RetryAssumption
  <1> QED  BY <1>1, <1>4, <1>5 DEF ChainInv

LEMMA ChainSteps == RetryInv /\ ChainInv /\ [Next]_vars => ChainInv'
  <1> SUFFICES ASSUME RetryInv, ChainInv, [Next]_vars PROVE ChainInv'
    OBVIOUS
  <1>0. req \in [Requests -> RequestLocal]
    BY DEF RetryInv, TypeOK, RequestLocal
  <1>1. CASE UNCHANGED <<sup, req, early>>
    BY <1>1, LinksStay
  <1>2. ASSUME NEW q \in Requests, NEW l, UNCHANGED sup, early \subseteq early', Go(q, l),
               l.pc \in {"idle", "up", "add"}
        PROVE  ChainInv'
    <2>1. req'[q] = l /\ \A p \in Requests : p # q => req'[p] = req[p]
      BY <1>0, <1>2 DEF Go
    <2>2. req'[q].pc \notin {"down", "create", "link"}
      BY <1>2, <2>1
    <2> QED  BY <1>2, <2>1, <2>2, LinksStay
  <1>3. ASSUME NEW q \in Requests, NEW s \in Rows, ReadOriginal(q, s) PROVE ChainInv'
    <2>1. PICK l : l.pc = "up" /\ Go(q, l) /\ UNCHANGED sup /\ early \subseteq early'
      BY <1>3 DEF ReadOriginal, linkVars, Idle
    <2> QED  BY <2>1, <1>2
  <1>4. ASSUME NEW q \in Requests, WalkUp(q) PROVE ChainInv'
    <2>1. /\ UNCHANGED <<sup, early>> /\ \A p \in Requests : p # q => req'[p] = req[p]
          /\ \/ req'[q].pc = "up"
             \/ /\ req'[q].pc = "down" /\ req'[q].front = {req'[q].id} /\ req'[q].count \in Nat
      BY <1>0, <1>4 DEF WalkUp, Go, linkVars, RequestLocal
    <2>2. \A c \in ChainsTo(0, req'[q].id) : c[0] \in {req'[q].id}
      BY DEF ChainsTo
    <2>3. CASE req'[q].pc = "down"
      <3>1. 0 \in Nat /\ 0 <= req'[q].count
        BY <2>1, <2>3
      <3> QED  BY <2>1, <2>2, <2>3, <3>1, LinksStay
    <2>4. CASE req'[q].pc = "up"
      BY <2>1, <2>4, LinksStay
    <2> QED  BY <2>1, <2>3, <2>4
  <1>5. ASSUME NEW q \in Requests, WalkDown(q) PROVE ChainInv'
    <2>1. UNCHANGED <<sup, early>> /\ \A p \in Requests : p # q => req'[p] = req[p]
      BY <1>0, <1>5 DEF WalkDown, Go, linkVars
    <2> QED  BY <2>1, <1>5, DownStep, LinksStay
  <1>6. ASSUME NEW q \in Requests, CreateClone(q) PROVE ChainInv'
    <2>1. /\ UNCHANGED <<sup, early>> /\ \A p \in Requests : p # q => req'[p] = req[p]
          /\ req'[q].pc = "link" /\ req'[q].id = req[q].id /\ req[q].pc = "create"
      BY <1>0, <1>6 DEF CreateClone, Go, linkVars, RequestLocal
    <2>2. ChainsTo(MaxRetries, req'[q].id) = {}
      BY <2>1 DEF ChainInv
    <2> QED  BY <2>1, <2>2, LinksStay
  <1>7. ASSUME NEW q \in Requests, LinkConflict(q) \/ AddJob(q) \/ RequestFails(q)
        PROVE  ChainInv'
    <2>1. Go(q, Idle) /\ UNCHANGED <<sup, early>> /\ Idle.pc = "idle"
      BY <1>7 DEF LinkConflict, AddJob, RequestFails, linkVars, Idle
    <2> QED  BY <2>1, <1>2
  <1>8. ASSUME NEW s \in Rows, NEW from \in Status, NEW to \in Status \ {"pending"},
               UpdateStatus(s, from, to)
        PROVE  ChainInv'
    BY <1>1, <1>8 DEF UpdateStatus, linkVars
  <1>9. CASE UNCHANGED vars
    BY <1>1, <1>9 DEF vars
  <1> QED
    BY <1>3, <1>4, <1>5, <1>6, <1>7, <1>8, <1>9, ChainStep DEF Next

\* However requests overlap, MaxRetries + 1 settlements are never superseded each
\* by the next, although nothing locks the chain while getSettlementRetryCount
\* walks it; except through a clone retried before its own creator linked it.
THEOREM ChainWithinLimitAlways == Spec => []ChainWithinLimit
<1>1. Init => ChainInv
  <2>1. Init => ChainWithinLimit
    BY RetryAssumption DEF Init, ChainWithinLimit
  <2> QED  BY <2>1 DEF Init, ChainInv, Idle
<1>2. ChainInv => ChainWithinLimit
  BY DEF ChainInv
<1>3. QED
  BY <1>1, <1>2, ChainSteps, RetryInvariance, PTL DEF Spec

-----------------------------------------------------------------------------
(* The ledger: numbers and amounts.                                          *)

\* A set of numbers has a least one.
LEMMA LeastNumber ==
    ASSUME NEW T, T \subseteq Nat, T # {}
    PROVE  \E n \in T : \A m \in T : n <= m
  <1> DEFINE Less == OpToRel(<, Nat)
  <1>1. IsWellFoundedOn(Less, Nat)
    BY NatLessThanWellFounded
  <1>2. Less = {ss \in Nat \X Nat : ss[1] < ss[2]}
    BY DEF OpToRel
  <1> HIDE DEF Less
  <1>3. PICK n \in T : \A m \in T : ~ (<<m, n>> \in Less)
    BY <1>1, WFMin
  <1>4. ASSUME NEW m \in T, m < n PROVE FALSE
    <2>1. <<m, n>> \in Nat \X Nat /\ <<m, n>>[1] = m /\ <<m, n>>[2] = n
      OBVIOUS
    <2>2. <<m, n>> \in Less
      BY <1>2, <1>4, <2>1
    <2> QED  BY <1>3, <2>2
  <1> QED  BY <1>3, <1>4

\* A function to the numbers is largest somewhere on a finite set.
LEMMA LargestValue ==
    ASSUME NEW S, IsFiniteSet(S), S # {}, NEW f \in [S -> Nat]
    PROVE  \E x \in S : \A y \in S : f[y] <= f[x]
  <1> DEFINE Above(x) == {y \in S : f[y] > f[x]}
             Counts == {Cardinality(Above(x)) : x \in S}
  <1>1. \A x \in S : IsFiniteSet(Above(x)) /\ Cardinality(Above(x)) \in Nat
    BY FS_Subset, FS_CardinalityType
  <1>2. Counts \subseteq Nat /\ Counts # {}
    BY <1>1
  <1>3. PICK n \in Counts : \A m \in Counts : n <= m
    BY <1>2, LeastNumber
  <1>4. PICK x \in S : n = Cardinality(Above(x))
    BY <1>3
  <1>5. ASSUME NEW y \in S, f[y] > f[x] PROVE FALSE
    <2>1. Above(y) \subseteq Above(x)
      BY <1>5
    <2>2. y \in Above(x) /\ y \notin Above(y)
      BY <1>5
    <2>3. Cardinality(Above(y)) \in Counts
      OBVIOUS
    <2> HIDE DEF Above, Counts
    <2>4. Cardinality(Above(y)) <= Cardinality(Above(x)) /\ Cardinality(Above(y)) # Cardinality(Above(x))
      BY <2>1, <2>2, <1>1, FS_Subset
    <2> QED  BY <2>4, <2>3, <1>1, <1>2, <1>3, <1>4
  <1>6. \A y \in S : f[y] <= f[x]
    BY <1>5
  <1> QED  BY <1>6

LEMMA MaxIsLargest ==
    ASSUME NEW T, T \subseteq Nat, T # {}, IsFiniteSet(T)
    PROVE  Max(T) \in T /\ \A m \in T : m <= Max(T)
  <1>1. PICK x \in T : \A y \in T : [z \in T |-> z][y] <= [z \in T |-> z][x]
    BY LargestValue
  <1>2. \A y \in T : x >= y
    BY <1>1
  <1>3. Max(T) \in T /\ \A y \in T : Max(T) >= y
    BY <1>2 DEF Max
  <1> QED  BY <1>3

LEMMA MinOfTwo ==
    ASSUME NEW a \in Nat, NEW b \in Nat
    PROVE  Min({a, b}) \in Nat /\ Min({a, b}) <= b /\ (Min({a, b}) = a \/ Min({a, b}) = b)
  <1>1. \E x \in {a, b} : \A y \in {a, b} : x <= y
    <2>1. CASE a <= b
      BY <2>1
    <2>2. CASE ~(a <= b)
      <3>1. b <= a /\ b <= b
        BY <2>2
      <3> QED  BY <3>1
    <2> QED  BY <2>1, <2>2
  <1>2. Min({a, b}) \in {a, b} /\ \A y \in {a, b} : Min({a, b}) <= y
    BY <1>1 DEF Min
  <1> QED  BY <1>2

\* The tiers give a discount, whatever the volume is.
LEMMA DiscountType ==
    ASSUME NEW volume PROVE resolveVolumeDiscount(volume) \in Nat
  <1> DEFINE reached == {t \in Tiers : volume > 0 /\ volume >= t.volumeUsd}
             highest == {u \in reached : \A v \in reached : v.volumeUsd <= u.volumeUsd}
             discounts == {t.discountBps : t \in highest}
  <1>1. CASE reached = {}
    BY <1>1 DEF resolveVolumeDiscount
  <1>2. CASE reached # {}
    <2>1. IsFiniteSet(reached)
      BY LedgerAssumption, FS_Subset
    <2>2. PICK u \in reached : \A v \in reached :
              [t \in reached |-> t.volumeUsd][v] <= [t \in reached |-> t.volumeUsd][u]
      <3>1. [t \in reached |-> t.volumeUsd] \in [reached -> Nat]
        BY LedgerAssumption
      <3> QED  BY <3>1, <2>1, <1>2, LargestValue
    <2>3. u \in highest
      BY <2>2
    <2>4. IsFiniteSet(highest)
      BY <2>1, FS_Subset
    <2>5. PICK t \in highest : \A v \in highest :
              [x \in highest |-> x.discountBps][v] <= [x \in highest |-> x.discountBps][t]
      <3>1. [x \in highest |-> x.discountBps] \in [highest -> Nat]
        BY LedgerAssumption
      <3> QED  BY <3>1, <2>3, <2>4, LargestValue
    <2>6. \A v \in highest : v.discountBps <= t.discountBps
      BY <2>5
    <2>7. discounts \subseteq Nat /\ t.discountBps \in discounts
      BY SMTT(30), <2>5, LedgerAssumption
    <2>8. Max(discounts) \in discounts
      <3>1. \A d \in discounts : t.discountBps >= d
        BY <2>6, LedgerAssumption
      <3> QED  BY <3>1, <2>7 DEF Max
    <2>9. resolveVolumeDiscount(volume) = Max(discounts)
      BY <1>2 DEF resolveVolumeDiscount
    <2> QED  BY <2>7, <2>8, <2>9
  <1> QED  BY <1>1, <1>2

\* What div leaves.
LEMMA Division ==
    ASSUME NEW x \in Nat, NEW d \in Nat \ {0}
    PROVE  /\ x \div d \in Nat
           /\ d * (x \div d) <= x
           /\ x < d * (x \div d) + d
OBVIOUS

\* A rate of basis points of the amount x, rounded down to the unit.
RoundedTo(x, unit) == (x \div (10000 * unit)) * unit

LEMMA Rounding ==
    ASSUME NEW x \in Nat, NEW unit \in 1..Whole
    PROVE  /\ RoundedTo(x, unit) \in Nat
           /\ 10000 * RoundedTo(x, unit) <= x
           /\ x < 10000 * RoundedTo(x, unit) + 10000 * Whole
  <1> DEFINE d == 10000 * unit
             q == x \div d
  <1>1. Whole \in Nat /\ d \in Nat \ {0} /\ d <= 10000 * Whole
    BY LedgerAssumption
  <1> HIDE DEF d
  <1>2. q \in Nat /\ d * q <= x /\ x < d * q + d
    BY <1>1, Division
  <1> HIDE DEF q
  <1>3. d * q = 10000 * (q * unit) /\ q * unit \in Nat
    BY <1>2 DEF d
  <1>4. RoundedTo(x, unit) = q * unit
    BY DEF RoundedTo, d, q
  <1> QED  BY <1>1, <1>2, <1>3, <1>4

\* Two roundings of one amount differ by less than a whole unit.
LEMMA RoundingsAgree ==
    ASSUME NEW x \in Nat, NEW unit \in 1..Whole
    PROVE  /\ RoundedTo(x, Whole) - RoundedTo(x, unit) <= Whole
           /\ RoundedTo(x, unit) - RoundedTo(x, Whole) <= Whole
  <1>1. Whole \in Nat /\ Whole \in 1..Whole
    BY LedgerAssumption
  <1>2. /\ RoundedTo(x, unit) \in Nat
        /\ 10000 * RoundedTo(x, unit) <= x
        /\ x < 10000 * RoundedTo(x, unit) + 10000 * Whole
    BY Rounding
  <1>3. /\ RoundedTo(x, Whole) \in Nat
        /\ 10000 * RoundedTo(x, Whole) <= x
        /\ x < 10000 * RoundedTo(x, Whole) + 10000 * Whole
    BY <1>1, Rounding
  <1> QED  BY <1>1, <1>2, <1>3

-----------------------------------------------------------------------------
(* The invariant.                                                            *)

\* A row has the columns of the table.
Shaped(r) ==
    r = [merchant |-> r.merchant, gross |-> r.gross, fee |-> r.fee, net |-> r.net,
         feeBps |-> r.feeBps, route |-> r.route, discount |-> r.discount,
         volume |-> r.volume, volumeMonth |-> r.volumeMonth,
         status |-> r.status, month |-> r.month, created |-> r.created]

\* What no writer changes once the row is there, and a retry copies.
Same(r, q) ==
    /\ q.merchant = r.merchant /\ q.gross = r.gross /\ q.fee = r.fee /\ q.net = r.net
    /\ q.feeBps = r.feeBps /\ q.route = r.route /\ q.discount = r.discount
    /\ q.volume = r.volume /\ q.volumeMonth = r.volumeMonth

\* The local checks pass, or the single route gave a discount.
Priced(r) ==
    /\ ~ (r.gross - r.fee # r.net)
    /\ \/ r.route = "single" /\ r.discount > 0
       \/ /\ ~ (RoundedTo(r.gross * r.feeBps, Whole) - r.fee > Whole)
          /\ ~ (r.fee - RoundedTo(r.gross * r.feeBps, Whole) > Whole)

Seen(m, k) == seen[m][k] \cup {0}

RowsStored ==
    /\ Existing \subseteq Ids
    /\ \A id \in Existing :
         /\ Shaped(rows[id]) /\ Priced(rows[id])
         /\ rows[id].merchant \in Merchants /\ rows[id].volumeMonth \in Months
         /\ rows[id].volume \in Seen(rows[id].merchant, rows[id].volumeMonth)

\* What the table, its cache and a request that read them hold has been seen.
VolumesSeen ==
    /\ DOMAIN monthlyVol = Merchants
    /\ \A m \in Merchants :
         /\ DOMAIN monthlyVol[m] = Months
         /\ \A k \in Months :
              /\ VolumeOf(rows, m, k) \in seen[m][k]
              /\ monthlyVol[m][k] \in Seen(m, k) \cup {None}

RequestsSeen ==
    /\ month \in Months
    /\ DOMAIN client = Clients
    /\ \A c \in Clients : client[c].at # "idle" =>
         /\ client[c] = [at |-> client[c].at, merchant |-> client[c].merchant,
                         ask |-> client[c].ask, route |-> client[c].route,
                         month |-> client[c].month, volume |-> client[c].volume]
         /\ client[c].merchant \in Merchants /\ client[c].month \in Months
         /\ client[c].ask \in Asks /\ client[c].route \in {"single", "bulk"}
         /\ client[c].volume \in Seen(client[c].merchant, client[c].month)

WritesValidated ==
    /\ worker # None => validateTransition(worker.from, worker.to)
    /\ patch # None => isValidTransition(patch.from, patch.to)

\* The engine's side holds rows of the merchant as they still are but for their
\* status, and all that were there at first, as far as it has paged.
LocalSide(a) ==
    /\ a.before \subseteq Existing
    /\ DOMAIN a.local \subseteq Local(a.merchant)
    /\ \A id \in DOMAIN a.local : Same(a.local[id], rows[id])
AllRead(a) == a.before \cap Local(a.merchant) \subseteq DOMAIN a.local
ReadSoFar(a) == {id \in a.before \cap Local(a.merchant) : id <= a.cursor} \subseteq DOMAIN a.local

AuditSound ==
    /\ audit.at = "page" =>
         /\ audit = [at |-> "page", route |-> "report", merchant |-> audit.merchant,
                     before |-> audit.before, cursor |-> audit.cursor, local |-> audit.local]
         /\ audit.cursor \in Int
         /\ LocalSide(audit) /\ ReadSoFar(audit)
    /\ audit.at = "fetch" =>
         /\ audit.route \in {"reconcile", "report"}
         /\ LocalSide(audit) /\ AllRead(audit)
    /\ DifferencesExplained
    /\ FlaggedFeeWasDiscounted

LedgerInv == RowsStored /\ VolumesSeen /\ RequestsSeen /\ WritesValidated /\ AuditSound
-----------------------------------------------------------------------------
(* The rows.                                                                 *)

\* It still does, whatever its status becomes.
LEMMA SamePriced == ASSUME NEW r, NEW q, Same(r, q), Priced(r) PROVE Priced(q)
BY DEF Same, Priced

\* A row passes the local checks when it is priced.
LEMMA PricedOnce ==
    ASSUME NEW ask \in Asks, NEW volume, NEW route \in {"single", "bulk"}, NEW r,
           r.gross = computeSettlementAmounts(ask, volume).gross,
           r.fee = computeSettlementAmounts(ask, volume).fee,
           r.net = computeSettlementAmounts(ask, volume).net,
           r.discount = computeSettlementAmounts(ask, volume).discount,
           r.feeBps = StoredFeeBps(route, computeSettlementAmounts(ask, volume)),
           r.route = route
    PROVE  Priced(r)
  <1> DEFINE amounts == computeSettlementAmounts(ask, volume)
             discount == Min({resolveVolumeDiscount(volume), FeeBps})
             x == ask.gross * (FeeBps - discount)
  <1>1. ask.gross \in Nat /\ ask.unit \in 1..Whole /\ FeeBps \in Nat
    <2>1. ask.gross \in Nat \ {0} /\ ask.unit \in 1..Whole
      BY LedgerAssumption
    <2>2. FeeBps \in 0..10000
      BY LedgerAssumption
    <2> QED  BY <2>1, <2>2
  <1>2. discount \in Nat /\ discount <= FeeBps
    BY <1>1, DiscountType, MinOfTwo
  <1> HIDE DEF discount
  <1>3. FeeBps - discount \in Nat
    BY <1>1, <1>2
  <1>4. x \in Nat
    BY <1>1, <1>3
  <1>5. /\ amounts.gross = ask.gross /\ amounts.fee = RoundedTo(x, ask.unit)
        /\ amounts.net = ask.gross - RoundedTo(x, ask.unit)
        /\ amounts.feeBpsApplied = FeeBps - discount /\ amounts.discount = discount
    BY DEF computeSettlementAmounts, RoundedTo, discount
  <1>6. /\ RoundedTo(x, ask.unit) \in Nat /\ RoundedTo(x, Whole) \in Nat /\ Whole \in Nat
        /\ ~ (RoundedTo(x, Whole) - RoundedTo(x, ask.unit) > Whole)
        /\ ~ (RoundedTo(x, ask.unit) - RoundedTo(x, Whole) > Whole)
    <2> HIDE DEF x
    <2>1. Whole \in Nat /\ Whole \in 1..Whole
      BY LedgerAssumption
    <2>2. RoundedTo(x, ask.unit) \in Nat
      BY <1>1, <1>4, Rounding
    <2>3. RoundedTo(x, Whole) \in Nat
      BY <1>4, <2>1, Rounding
    <2>4. /\ RoundedTo(x, Whole) - RoundedTo(x, ask.unit) <= Whole
          /\ RoundedTo(x, ask.unit) - RoundedTo(x, Whole) <= Whole
      BY <1>1, <1>4, RoundingsAgree
    <2> QED  BY <2>1, <2>2, <2>3, <2>4
  <1>7. (r.route = "single" /\ r.discount > 0) \/ r.gross * r.feeBps = x
    <2>1. CASE route = "single" /\ discount > 0
      BY <2>1, <1>5
    <2>2. CASE ~ (route = "single" /\ discount > 0)
      <3>1. r.feeBps = FeeBps - discount
        BY <2>2, <1>1, <1>2, <1>5 DEF StoredFeeBps
      <3> QED  BY <3>1, <1>5
    <2> QED  BY <2>1, <2>2
  <1> HIDE DEF x, amounts
  <1>8. r.gross - r.fee = r.net
    BY <1>5 DEF amounts
  <1>9. r.fee = RoundedTo(x, ask.unit)
    BY <1>5 DEF amounts
  <1> QED  BY <1>6, <1>7, <1>8, <1>9 DEF Priced

\* Nothing is lost from the table or from its histories.
TableGrows ==
    /\ \A id \in Existing : id \in DOMAIN rows' /\ Same(rows[id], rows'[id])
    /\ \A m \in Merchants, k \in Months : seen[m][k] \subseteq seen'[m][k]

\* A row is added.
LEMMA AddRow ==
    ASSUME LedgerInv, NEW id \in Ids \ Existing, NEW row, Store(Added(id, row)),
           Shaped(row), Priced(row), row.merchant \in Merchants, row.volumeMonth \in Months,
           row.volume \in Seen(row.merchant, row.volumeMonth)
    PROVE  /\ TableGrows /\ RowsStored' /\ DOMAIN rows' = Existing \cup {id}
           /\ Same(row, rows'[id]) /\ \A x \in Existing : rows'[x] = rows[x]
  <1>1. /\ rows' = Added(id, row)
        /\ \A m \in Merchants, k \in Months : seen[m][k] \subseteq seen'[m][k]
    BY DEF Store
  <1>2. /\ DOMAIN rows' = Existing \cup {id}
        /\ rows'[id] = [row EXCEPT !.created = Cardinality(Existing)]
        /\ \A x \in Existing : rows'[x] = rows[x]
    BY <1>1 DEF Added
  <1>3. Same(row, rows'[id]) /\ Shaped(rows'[id])
    BY <1>2 DEF Same, Shaped
  <1>4. TableGrows
    BY <1>1, <1>2 DEF TableGrows, Same
  <1>5. RowsStored'
    <2>1. DOMAIN rows' \subseteq Ids
      BY <1>2 DEF LedgerInv, RowsStored
    <2>2. ASSUME NEW x \in DOMAIN rows'
          PROVE  /\ Shaped(rows'[x]) /\ Priced(rows'[x])
                 /\ rows'[x].merchant \in Merchants /\ rows'[x].volumeMonth \in Months
                 /\ rows'[x].volume \in seen'[rows'[x].merchant][rows'[x].volumeMonth] \cup {0}
      <3>1. CASE x = id
        <4>1. Priced(rows'[id])
          BY <1>3, SamePriced
        <4> QED  BY <3>1, <4>1, <1>1, <1>3 DEF Same, Seen
      <3>2. CASE x # id
        <4>1. x \in Existing /\ rows'[x] = rows[x]
          BY <3>2, <1>2
        <4> QED  BY <4>1, <1>1 DEF LedgerInv, RowsStored, Seen
      <3> QED  BY <3>1, <3>2
    <2> QED  BY <2>1, <2>2 DEF RowsStored, Existing, Seen
  <1> QED  BY <1>2, <1>3, <1>4, <1>5

\* Rows change their status.
LEMMA ChangeRows ==
    ASSUME LedgerInv, NEW newRows, Store(newRows), DOMAIN newRows = Existing,
           \A id \in Existing : Shaped(newRows[id]) /\ Same(rows[id], newRows[id])
    PROVE  TableGrows /\ RowsStored' /\ rows' = newRows
  <1>1. /\ rows' = newRows
        /\ \A m \in Merchants, k \in Months : seen[m][k] \subseteq seen'[m][k]
    BY DEF Store
  <1>2. TableGrows
    BY <1>1 DEF TableGrows
  <1>3. ASSUME NEW x \in Existing
        PROVE  /\ Shaped(rows'[x]) /\ Priced(rows'[x])
               /\ rows'[x].merchant \in Merchants /\ rows'[x].volumeMonth \in Months
               /\ rows'[x].volume \in seen'[rows'[x].merchant][rows'[x].volumeMonth] \cup {0}
    <2>1. Same(rows[x], rows'[x]) /\ Shaped(rows'[x])
      BY <1>1
    <2>2. Priced(rows'[x])
      BY <2>1, SamePriced DEF LedgerInv, RowsStored
    <2> QED  BY <2>1, <2>2, <1>1 DEF LedgerInv, RowsStored, Seen, Same
  <1>4. RowsStored'
    BY <1>1, <1>3 DEF RowsStored, Existing, Seen, LedgerInv
  <1> QED  BY <1>1, <1>2, <1>4

\* The status of one row is set.
LEMMA SetOne ==
    ASSUME LedgerInv, NEW id, NEW to
    PROVE  /\ DOMAIN SetStatus(id, to) = Existing
           /\ \A x \in Existing :
                /\ Shaped(SetStatus(id, to)[x]) /\ Same(rows[x], SetStatus(id, to)[x])
                /\ x # id => SetStatus(id, to)[x] = rows[x]
                /\ x = id => SetStatus(id, to)[x].status = to
  <1>1. DOMAIN SetStatus(id, to) = Existing
    BY DEF SetStatus, Existing
  <1>2. ASSUME NEW x \in Existing
        PROVE  /\ Shaped(SetStatus(id, to)[x]) /\ Same(rows[x], SetStatus(id, to)[x])
               /\ x # id => SetStatus(id, to)[x] = rows[x]
               /\ x = id => SetStatus(id, to)[x].status = to
    <2>1. Shaped(rows[x])
      BY DEF LedgerInv, RowsStored
    <2>2. CASE x = id
      <3>1. SetStatus(id, to)[x] = [rows[x] EXCEPT !.status = to]
        BY <2>2 DEF SetStatus, Existing
      <3> QED  BY <2>1, <2>2, <3>1 DEF Shaped, Same
    <2>3. CASE x # id
      <3>1. SetStatus(id, to)[x] = rows[x]
        BY <2>3 DEF SetStatus, Existing
      <3> QED  BY <2>1, <2>3, <3>1 DEF Same
    <2> QED  BY <2>2, <2>3
  <1> QED  BY <1>1, <1>2

-----------------------------------------------------------------------------
(* Steps that keep a part of the invariant.                                  *)

LEMMA KeepVolumes ==
    ASSUME LedgerInv, TableGrows, Store(rows') \/ UNCHANGED <<rows, seen>>,
           DOMAIN monthlyVol' = Merchants,
           \A m \in Merchants : DOMAIN monthlyVol'[m] = Months,
           \A m \in Merchants, k \in Months : monthlyVol'[m][k] \in seen'[m][k] \cup {0, None}
    PROVE  VolumesSeen'
  <1>1. ASSUME NEW m \in Merchants, NEW k \in Months PROVE VolumeOf(rows', m, k) \in seen'[m][k]
    <2>1. CASE Store(rows')
      BY <2>1 DEF Store
    <2>2. CASE UNCHANGED <<rows, seen>>
      <3>1. VolumeOf(rows, m, k) \in seen[m][k]
        BY DEF LedgerInv, VolumesSeen
      <3> QED  BY <2>2, <3>1
    <2> QED  BY <2>1, <2>2
  <1> QED  BY <1>1 DEF VolumesSeen, Seen

LEMMA KeepCache ==
    ASSUME LedgerInv, TableGrows, UNCHANGED monthlyVol
    PROVE  /\ DOMAIN monthlyVol' = Merchants
           /\ \A m \in Merchants : DOMAIN monthlyVol'[m] = Months
           /\ \A m \in Merchants, k \in Months : monthlyVol'[m][k] \in seen'[m][k] \cup {0, None}
BY DEF LedgerInv, VolumesSeen, TableGrows, Seen

LEMMA KeepRequests ==
    ASSUME LedgerInv, TableGrows, month' \in Months, UNCHANGED client
    PROVE  RequestsSeen'
BY DEF LedgerInv, RequestsSeen, TableGrows, Seen

\* A request goes on, or is done.
LEMMA StepRequest ==
    ASSUME LedgerInv, TableGrows, NEW c \in Clients, NEW l, ClientStep(c, l),
           l.at # "idle" =>
             /\ l = [at |-> l.at, merchant |-> l.merchant, ask |-> l.ask, route |-> l.route,
                     month |-> l.month, volume |-> l.volume]
             /\ l.merchant \in Merchants /\ l.month \in Months
             /\ l.ask \in Asks /\ l.route \in {"single", "bulk"}
             /\ l.volume \in seen'[l.merchant][l.month] \cup {0}
    PROVE  RequestsSeen'
  <1>1. /\ DOMAIN client' = Clients /\ client'[c] = l
        /\ \A d \in Clients : d # c => client'[d] = client[d]
        /\ month' = month
    BY DEF ClientStep, LedgerInv, RequestsSeen
  <1>2. ASSUME NEW d \in Clients, client'[d].at # "idle"
        PROVE  /\ client'[d] = [at |-> client'[d].at, merchant |-> client'[d].merchant,
                         ask |-> client'[d].ask, route |-> client'[d].route,
                         month |-> client'[d].month, volume |-> client'[d].volume]
               /\ client'[d].merchant \in Merchants /\ client'[d].month \in Months
               /\ client'[d].ask \in Asks /\ client'[d].route \in {"single", "bulk"}
               /\ client'[d].volume \in seen'[client'[d].merchant][client'[d].month] \cup {0}
    <2>1. CASE d = c
      BY <2>1, <1>1, <1>2
    <2>2. CASE d # c
      BY <2>2, <1>1, <1>2 DEF LedgerInv, RequestsSeen, TableGrows, Seen
    <2> QED  BY <2>1, <2>2
  <1> QED  BY <1>1, <1>2 DEF LedgerInv, RequestsSeen, Seen

LEMMA KeepWrites ==
    ASSUME LedgerInv, UNCHANGED <<worker, patch>>
    PROVE  WritesValidated'
BY DEF LedgerInv, WritesValidated

\* What a merchant's rows are stays as it is.
LEMMA LocalGrows ==
    ASSUME TableGrows, NEW merchant, NEW id \in Existing
    PROVE  id \in Local(merchant) <=> id \in Local(merchant)'
BY DEF TableGrows, Local, Of, Same, Existing

LEMMA KeepAudit ==
    ASSUME LedgerInv, TableGrows, UNCHANGED audit
    PROVE  AuditSound'
  <1>1. ASSUME LocalSide(audit) PROVE LocalSide(audit)'
    <2>1. audit'.before \subseteq DOMAIN rows' /\ DOMAIN audit'.local \subseteq Local(audit.merchant)'
      BY <1>1, LocalGrows DEF LocalSide, TableGrows, Local
    <2>2. \A id \in DOMAIN audit'.local : Same(audit'.local[id], rows'[id])
      BY <1>1 DEF LocalSide, TableGrows, Same, Local
    <2> QED  BY <2>1, <2>2 DEF LocalSide, Existing
  <1>2. ASSUME LocalSide(audit), AllRead(audit) PROVE AllRead(audit)'
    BY <1>2, LocalGrows DEF AllRead, LocalSide
  <1>3. ASSUME LocalSide(audit), ReadSoFar(audit) PROVE ReadSoFar(audit)'
    BY <1>3, LocalGrows DEF ReadSoFar, LocalSide
  <1>4. DifferencesExplained' /\ FlaggedFeeWasDiscounted'
    <2>1. DifferencesExplained /\ FlaggedFeeWasDiscounted
      BY DEF LedgerInv, AuditSound
    <2>2. DifferencesExplained'
      BY <2>1 DEF DifferencesExplained, MissingExplained, ExtraExplained, MismatchExplained,
           GrossTotal, Missing, Extra, Mismatched, InLocal, InGateway,
           computeReconciliationDiff, FieldDiffs
    <2>3. FlaggedFeeWasDiscounted'
      BY <2>1 DEF FlaggedFeeWasDiscounted, Flagged, InLocal
    <2> QED  BY <2>2, <2>3
  <1> QED  BY <1>1, <1>2, <1>3, <1>4 DEF LedgerInv, AuditSound

-----------------------------------------------------------------------------
(* The report's pages.                                                       *)

\* The rows of the next page, of those after the cursor.
Page(after) == {id \in after : Cardinality({x \in after : x <= id}) <= ReportPage}

LEMMA PageFinite ==
    ASSUME NEW after \in SUBSET Nat, IsFiniteSet(after)
    PROVE  /\ IsFiniteSet(Page(after)) /\ Cardinality(Page(after)) \in Nat
           /\ Page(after) \subseteq after
           /\ \A n \in Nat : /\ IsFiniteSet({x \in after : x <= n})
                             /\ Cardinality({x \in after : x <= n}) \in Nat
  <1>1. Page(after) \subseteq after
    BY DEF Page
  <1>2. ASSUME NEW n \in Nat
        PROVE  /\ IsFiniteSet({x \in after : x <= n})
               /\ Cardinality({x \in after : x <= n}) \in Nat
    <2>1. {x \in after : x <= n} \in SUBSET after
      OBVIOUS
    <2> QED  BY <2>1, FS_Subset, FS_CardinalityType
  <1> QED  BY <1>1, <1>2, FS_Subset, FS_CardinalityType

\* A page that is not full is the last.
LEMMA ShortPageIsLast ==
    ASSUME NEW after \in SUBSET Nat, IsFiniteSet(after), Cardinality(Page(after)) < ReportPage
    PROVE  Page(after) = after
  <1> DEFINE rest == after \ Page(after)
  <1>1. SUFFICES ASSUME rest # {} PROVE FALSE
    BY DEF Page
  <1>2. PICK n \in rest : \A m \in rest : n <= m
    BY <1>1, LeastNumber
  <1> DEFINE upTo == {x \in after : x <= n}
  <1>3. n \in after /\ n \in Nat /\ ~ (Cardinality(upTo) <= ReportPage)
    BY <1>2 DEF Page
  <1>4. upTo \subseteq Page(after) \cup {n}
    <2>1. ASSUME NEW x \in after, x <= n, x \notin Page(after) PROVE x = n
      <3>1. n <= x /\ x \in Nat
        BY <1>2, <2>1
      <3> QED  BY <3>1, <2>1, <1>3
    <2> QED  BY <2>1
  <1> HIDE DEF upTo, rest
  <1>5. /\ IsFiniteSet(Page(after) \cup {n})
        /\ Cardinality(Page(after) \cup {n}) <= Cardinality(Page(after)) + 1
    <2>1. IsFiniteSet(Page(after)) /\ Cardinality(Page(after)) \in Nat
      BY PageFinite
    <2>2. /\ IsFiniteSet(Page(after) \cup {n})
          /\ Cardinality(Page(after) \cup {n}) =
               IF n \in Page(after) THEN Cardinality(Page(after)) ELSE Cardinality(Page(after)) + 1
      BY <2>1, FS_AddElement
    <2> QED  BY <2>1, <2>2
  <1>6. Cardinality(upTo) <= Cardinality(Page(after) \cup {n})
    BY <1>4, <1>5, FS_Subset
  <1>7. Cardinality(upTo) \in Nat /\ Cardinality(Page(after)) \in Nat /\ ReportPage \in Nat
    <2>1. Cardinality(upTo) \in Nat
      BY <1>3, PageFinite DEF upTo
    <2> QED  BY <2>1, PageFinite, LedgerAssumption
  <1>8. Cardinality(Page(after) \cup {n}) \in Nat
    BY <1>5, FS_CardinalityType
  <1> QED  BY <1>3, <1>5, <1>6, <1>7, <1>8

\* A full page leaves out nothing below its last row.
LEMMA FullPageIsPrefix ==
    ASSUME NEW after \in SUBSET Nat, IsFiniteSet(after), ~ (Cardinality(Page(after)) < ReportPage)
    PROVE  /\ Max(Page(after)) \in Nat
           /\ \A id \in after : id <= Max(Page(after)) => id \in Page(after)
  <1>1. /\ IsFiniteSet(Page(after)) /\ Cardinality(Page(after)) \in Nat
        /\ Page(after) \subseteq after /\ ReportPage \in Nat \ {0}
    BY PageFinite, LedgerAssumption
  <1>2. Page(after) # {}
    <2>1. Cardinality(Page(after)) # 0
      BY <1>1
    <2> QED  BY <2>1, FS_EmptySet
  <1>3. Max(Page(after)) \in Page(after)
    BY <1>1, <1>2, MaxIsLargest
  <1> DEFINE last == Max(Page(after))
  <1> HIDE DEF last
  <1>4. last \in Nat /\ last \in Page(after)
    BY <1>1, <1>3 DEF last
  <1>5. ASSUME NEW id \in after, id <= last PROVE id \in Page(after)
    <2>1. {x \in after : x <= id} \in SUBSET {x \in after : x <= last}
      <3>1. ASSUME NEW x \in after, x <= id PROVE x <= last
        <4>1. x \in Nat /\ id \in Nat
          OBVIOUS
        <4> QED  BY <4>1, <3>1, <1>4, <1>5
      <3> QED  BY <3>1
    <2>2. Cardinality({x \in after : x <= last}) <= ReportPage
      BY <1>4 DEF Page
    <2>3. /\ IsFiniteSet({x \in after : x <= last})
          /\ Cardinality({x \in after : x <= last}) \in Nat
          /\ Cardinality({x \in after : x <= id}) \in Nat
      BY <1>4, PageFinite
    <2>4. Cardinality({x \in after : x <= id}) <= Cardinality({x \in after : x <= last})
      BY <2>1, <2>3, FS_Subset
    <2>5. Cardinality({x \in after : x <= id}) <= ReportPage
      BY <2>2, <2>3, <2>4, <1>1
    <2> QED  BY <2>5 DEF Page
  <1> QED  BY <1>4, <1>5 DEF last

-----------------------------------------------------------------------------
(* The steps.                                                                *)

LEMMA NoWrite ==
    ASSUME LedgerInv, UNCHANGED table
    PROVE  TableGrows /\ RowsStored' /\ UNCHANGED <<rows, seen>>
  <1>1. UNCHANGED <<rows, seen>>
    BY DEF table
  <1>2. TableGrows
    BY <1>1 DEF TableGrows, Same, Existing
  <1>3. RowsStored'
    BY <1>1 DEF LedgerInv, RowsStored, Existing, Seen
  <1> QED  BY <1>1, <1>2, <1>3

\* A request reads or fills the cache, or asks the database.
LEMMA PriceStep ==
    ASSUME LedgerInv, NEW c \in Clients,
           \/ GetCached(c) \/ GetMisses(c) \/ QueryVolume(c) \/ QueryFails(c) \/ FillCache(c)
    PROVE  LedgerInv'
  <1>1. TableGrows /\ RowsStored' /\ UNCHANGED <<rows, seen>>
    <2>1. UNCHANGED table
      BY DEF GetCached, GetMisses, QueryVolume, QueryFails, FillCache
    <2> QED  BY <2>1, NoWrite
  <1>2. \E l : ClientStep(c, l)
    BY DEF GetCached, GetMisses, QueryVolume, QueryFails, FillCache
  <1>3. UNCHANGED <<month, deleted, worker, patch, audit>>
    BY <1>2 DEF ClientStep
  <1>4. WritesValidated' /\ AuditSound'
    BY <1>1, <1>3, KeepWrites, KeepAudit
  <1> DEFINE m == client[c].merchant
             k == client[c].month
  <1>5. /\ client[c] = [at |-> client[c].at, merchant |-> client[c].merchant,
                         ask |-> client[c].ask, route |-> client[c].route,
                         month |-> client[c].month, volume |-> client[c].volume]
        /\ m \in Merchants /\ k \in Months
        /\ client[c].ask \in Asks /\ client[c].route \in {"single", "bulk"}
        /\ client[c].volume \in seen[m][k] \cup {0}
    BY DEF GetCached, GetMisses, QueryVolume, QueryFails, FillCache, LedgerInv, RequestsSeen, Seen
  <1>6. ASSUME NEW at, NEW volume \in seen[m][k] \cup {0},
               ClientStep(c, [client[c] EXCEPT !.at = at, !.volume = volume])
        PROVE  RequestsSeen'
    <2>1. PICK l : l = [client[c] EXCEPT !.at = at, !.volume = volume]
      OBVIOUS
    <2>2. /\ l = [at |-> l.at, merchant |-> l.merchant, ask |-> l.ask, route |-> l.route,
                     month |-> l.month, volume |-> l.volume]
          /\ l.merchant \in Merchants /\ l.month \in Months
          /\ l.ask \in Asks /\ l.route \in {"single", "bulk"}
          /\ l.volume \in seen'[l.merchant][l.month] \cup {0}
      BY <2>1, <1>5, <1>1
    <2> QED  BY <2>1, <2>2, <1>1, <1>6, StepRequest
  <1>7. ASSUME NEW at, ClientStep(c, [client[c] EXCEPT !.at = at])
        PROVE  RequestsSeen'
    <2>1. [client[c] EXCEPT !.at = at] = [client[c] EXCEPT !.at = at, !.volume = client[c].volume]
      BY <1>5
    <2> QED  BY <2>1, <1>5, <1>6, <1>7
  <1>8. RequestsSeen'
    <2>1. CASE GetCached(c)
      <3>1. PICK volume \in Cached(c) :
                 ClientStep(c, [client[c] EXCEPT !.at = "insert", !.volume = volume])
        BY <2>1 DEF GetCached
      <3>2. volume \in seen[m][k] \cup {0}
        BY <1>5 DEF Cached, LedgerInv, VolumesSeen, Seen
      <3> QED  BY <3>1, <3>2, <1>6
    <2>2. CASE GetMisses(c)
      BY <2>2, <1>7 DEF GetMisses
    <2>3. CASE QueryVolume(c)
      <3>1. VolumeOf(rows, m, k) \in seen[m][k] \cup {0}
        BY <1>5 DEF LedgerInv, VolumesSeen
      <3> QED  BY <2>3, <3>1, <1>6 DEF QueryVolume
    <2>4. CASE QueryFails(c)
      BY <2>4, <1>7 DEF QueryFails
    <2>5. CASE FillCache(c)
      BY <2>5, <1>7 DEF FillCache
    <2> QED  BY <2>1, <2>2, <2>3, <2>4, <2>5
  <1>9. VolumesSeen'
    <2>1. CASE UNCHANGED monthlyVol
      BY <2>1, <1>1, KeepCache, KeepVolumes
    <2>2. CASE ~ UNCHANGED monthlyVol
      <3>1. monthlyVol' = [monthlyVol EXCEPT ![m][k] = client[c].volume]
        BY <2>2 DEF GetCached, GetMisses, QueryVolume, QueryFails, FillCache
      <3>2. /\ DOMAIN monthlyVol' = Merchants
            /\ \A n \in Merchants : DOMAIN monthlyVol'[n] = Months
            /\ \A n \in Merchants, j \in Months :
                 \/ monthlyVol'[n][j] = monthlyVol[n][j]
                 \/ n = m /\ j = k /\ monthlyVol'[n][j] = client[c].volume
        BY <3>1, <1>5 DEF LedgerInv, VolumesSeen
      <3>3. \A n \in Merchants, j \in Months : monthlyVol'[n][j] \in seen'[n][j] \cup {0, None}
        BY <3>2, <1>1, <1>5 DEF LedgerInv, VolumesSeen, Seen
      <3> QED  BY <3>2, <3>3, <1>1, KeepVolumes
    <2> QED  BY <2>1, <2>2
  <1> QED  BY <1>1, <1>4, <1>8, <1>9 DEF LedgerInv

\* A request starts with the month it is made in, or is done.
LEMMA RequestEnds ==
    ASSUME LedgerInv, NEW c \in Clients,
           \/ \E m \in Merchants, ask \in Asks, route \in {"single", "bulk"} :
                Submit(c, m, ask, route)
           \/ Refuse(c)
    PROVE  LedgerInv'
  <1>1. TableGrows /\ RowsStored' /\ UNCHANGED <<rows, seen>>
    <2>1. UNCHANGED table
      BY DEF Submit, Refuse
    <2> QED  BY <2>1, NoWrite
  <1>2. PICK l : /\ ClientStep(c, l)
                 /\ \/ l = AtRest
                    \/ \E m \in Merchants, ask \in Asks, route \in {"single", "bulk"} :
                         l = [at |-> "cache", merchant |-> m, ask |-> ask, route |-> route,
                              month |-> month, volume |-> 0]
    BY DEF Submit, Refuse
  <1>3. UNCHANGED <<month, deleted, worker, patch, audit, monthlyVol>>
    BY DEF Submit, Refuse, ClientStep
  <1>4. WritesValidated' /\ AuditSound' /\ VolumesSeen'
    BY <1>1, <1>3, KeepWrites, KeepAudit, KeepCache, KeepVolumes
  <1>5. l.at # "idle" =>
             /\ l = [at |-> l.at, merchant |-> l.merchant, ask |-> l.ask, route |-> l.route,
                     month |-> l.month, volume |-> l.volume]
             /\ l.merchant \in Merchants /\ l.month \in Months
             /\ l.ask \in Asks /\ l.route \in {"single", "bulk"}
             /\ l.volume \in seen'[l.merchant][l.month] \cup {0}
    BY <1>2 DEF AtRest, LedgerInv, RequestsSeen
  <1>6. RequestsSeen'
    BY <1>1, <1>2, <1>5, StepRequest
  <1> QED  BY <1>1, <1>4, <1>6 DEF LedgerInv

\* What an insert adds.
LEMMA InsertAdds ==
    ASSUME LedgerInv, NEW c \in Clients, Insert(c)
    PROVE  \E id \in Ids \ Existing : \E row :
             /\ Store(Added(id, row)) /\ Shaped(row) /\ Priced(row)
             /\ row.merchant \in Merchants /\ row.volumeMonth \in Months
             /\ row.volume \in Seen(row.merchant, row.volumeMonth)
  <1> DEFINE amounts == computeSettlementAmounts(client[c].ask, client[c].volume)
  <1>1. PICK row : \E id \in Ids \ Existing :
          /\ row = [merchant |-> client[c].merchant, gross |-> amounts.gross,
                     fee |-> amounts.fee, net |-> amounts.net,
                     feeBps |-> StoredFeeBps(client[c].route, amounts),
                     route |-> client[c].route, discount |-> amounts.discount,
                     volume |-> amounts.volume, volumeMonth |-> client[c].month,
                     status |-> "pending", month |-> month, created |-> 0]
          /\ Store(Added(id, row))
    BY DEF Insert
  <1>2. /\ client[c].merchant \in Merchants /\ client[c].month \in Months
        /\ client[c].ask \in Asks /\ client[c].route \in {"single", "bulk"}
        /\ client[c].volume \in Seen(client[c].merchant, client[c].month)
    BY DEF Insert, LedgerInv, RequestsSeen
  <1>3. amounts.volume = client[c].volume
    BY DEF computeSettlementAmounts
  <1>4. Priced(row)
    <2> DEFINE ask == client[c].ask
               volume == client[c].volume
               route == client[c].route
    <2>1. ask \in Asks /\ route \in {"single", "bulk"}
      BY <1>2
    <2>2. /\ row.gross = computeSettlementAmounts(ask, volume).gross
          /\ row.fee = computeSettlementAmounts(ask, volume).fee
          /\ row.net = computeSettlementAmounts(ask, volume).net
          /\ row.discount = computeSettlementAmounts(ask, volume).discount
          /\ row.feeBps = StoredFeeBps(route, computeSettlementAmounts(ask, volume))
          /\ row.route = route
      BY <1>1
    <2> HIDE DEF ask, volume, route
    <2> QED  BY <2>1, <2>2, PricedOnce
  <1> HIDE DEF amounts
  <1>5. /\ Shaped(row) /\ row.merchant \in Merchants /\ row.volumeMonth \in Months
        /\ row.volume \in Seen(row.merchant, row.volumeMonth)
    BY <1>1, <1>2, <1>3 DEF Shaped
  <1> QED  BY <1>1, <1>4, <1>5

\* What a retry adds.
LEMMA RetryAdds ==
    ASSUME LedgerInv, NEW old \in Ids, Retry(old)
    PROVE  \E id \in Ids \ Existing : \E row :
             /\ Store(Added(id, row)) /\ Shaped(row) /\ Priced(row)
             /\ row.merchant \in Merchants /\ row.volumeMonth \in Months
             /\ row.volume \in Seen(row.merchant, row.volumeMonth)
  <1>1. PICK row : \E id \in Ids \ Existing :
          /\ row = [rows[old] EXCEPT !.status = "pending", !.month = month]
          /\ Store(Added(id, row))
    BY DEF Retry
  <1>2. /\ Shaped(rows[old]) /\ Priced(rows[old])
        /\ rows[old].merchant \in Merchants /\ rows[old].volumeMonth \in Months
        /\ rows[old].volume \in Seen(rows[old].merchant, rows[old].volumeMonth)
    BY DEF Retry, LedgerInv, RowsStored
  <1>3. Same(rows[old], row) /\ Shaped(row)
    BY <1>1, <1>2 DEF Same, Shaped
  <1>4. Priced(row)
    BY <1>2, <1>3, SamePriced
  <1>5. /\ row.merchant \in Merchants /\ row.volumeMonth \in Months
        /\ row.volume \in Seen(row.merchant, row.volumeMonth)
    BY <1>2, <1>3 DEF Same
  <1> QED  BY <1>1, <1>3, <1>4, <1>5

\* A step that adds a row.
LEMMA AddStep ==
    ASSUME LedgerInv,
           \/ \E c \in Clients : Insert(c)
           \/ \E id \in Ids : Retry(id)
    PROVE  LedgerInv'
  <1>1. PICK row : \E id \in Ids \ Existing :
             /\ Store(Added(id, row)) /\ Shaped(row) /\ Priced(row)
             /\ row.merchant \in Merchants /\ row.volumeMonth \in Months
             /\ row.volume \in Seen(row.merchant, row.volumeMonth)
    BY InsertAdds, RetryAdds
  <1>2. TableGrows /\ RowsStored'
    BY <1>1, AddRow
  <1>3. Store(rows')
    BY <1>1 DEF Store
  <1>4. UNCHANGED <<month, deleted, worker, patch, audit, monthlyVol>>
    BY DEF Insert, Retry, ClientStep
  <1>5. WritesValidated' /\ AuditSound' /\ VolumesSeen'
    BY <1>2, <1>3, <1>4, KeepWrites, KeepAudit, KeepCache, KeepVolumes
  <1>6. RequestsSeen'
    <2>1. CASE \E c \in Clients : Insert(c)
      <3>1. PICK c \in Clients : ClientStep(c, AtRest)
        BY <2>1 DEF Insert
      <3>2. AtRest.at = "idle"
        BY DEF AtRest
      <3> QED  BY <3>1, <3>2, <1>2, StepRequest
    <2>2. CASE \E old \in Ids : Retry(old)
      <3>1. UNCHANGED client /\ month' \in Months
        BY <2>2 DEF Retry, LedgerInv, RequestsSeen
      <3> QED  BY <3>1, <1>2, KeepRequests
    <2> QED  BY <2>1, <2>2
  <1> QED  BY <1>2, <1>5, <1>6 DEF LedgerInv

\* A step that changes rows of the table.
LEMMA WriteStep ==
    ASSUME LedgerInv, WorkerWrite \/ PatchWrite \/ \E m \in Merchants : DeleteMerchant(m)
    PROVE  LedgerInv'
  <1>1. PICK newRows :
          /\ Store(newRows) /\ DOMAIN newRows = Existing
          /\ \A id \in Existing : Shaped(newRows[id]) /\ Same(rows[id], newRows[id])
    <2>1. CASE WorkerWrite
      BY <2>1, SetOne DEF WorkerWrite
    <2>2. CASE PatchWrite
      BY <2>2, SetOne DEF PatchWrite
    <2>3. ASSUME NEW m \in Merchants, DeleteMerchant(m)
          PROVE  \E newRows :
                   /\ Store(newRows) /\ DOMAIN newRows = Existing
                   /\ \A id \in Existing : Shaped(newRows[id]) /\ Same(rows[id], newRows[id])
      <3>1. PICK newRows :
              /\ newRows = [id \in Existing |->
                    IF rows[id].merchant = m /\ rows[id].status = "pending"
                    THEN [rows[id] EXCEPT !.status = "failed"] ELSE rows[id]]
              /\ Store(newRows)
        BY <2>3 DEF DeleteMerchant
      <3>2. ASSUME NEW id \in Existing
            PROVE  Shaped(newRows[id]) /\ Same(rows[id], newRows[id])
        <4>1. Shaped(rows[id])
          BY DEF LedgerInv, RowsStored
        <4>2. newRows[id] = [rows[id] EXCEPT !.status = "failed"] \/ newRows[id] = rows[id]
          BY <3>1
        <4> QED  BY <4>1, <4>2 DEF Shaped, Same
      <3> QED  BY <3>1, <3>2
    <2> QED  BY <2>1, <2>2, <2>3
  <1>2. TableGrows /\ RowsStored'
    BY <1>1, ChangeRows
  <1>3. Store(rows')
    BY <1>1 DEF Store
  <1>4. UNCHANGED <<month, client, audit, monthlyVol>> /\ month \in Months
    BY DEF WorkerWrite, PatchWrite, DeleteMerchant, LedgerInv, RequestsSeen
  <1>5. WritesValidated'
    BY DEF WorkerWrite, PatchWrite, DeleteMerchant, LedgerInv, WritesValidated
  <1>6. AuditSound' /\ VolumesSeen' /\ RequestsSeen'
    BY <1>2, <1>3, <1>4, KeepAudit, KeepCache, KeepVolumes, KeepRequests
  <1> QED  BY <1>2, <1>5, <1>6 DEF LedgerInv

\* Time, the cache's expiry, reads of the writers and a restored merchant.
LEMMA OtherStep ==
    ASSUME LedgerInv,
           \/ \E m \in Merchants, k \in Months : CacheExpires(m, k)
           \/ NextMonth
           \/ \E id \in Ids, to \in Status : WorkerRead(id, to) \/ PatchRead(id, to)
           \/ \E m \in Merchants : RestoreMerchant(m)
    PROVE  LedgerInv'
  <1>1. TableGrows /\ RowsStored' /\ UNCHANGED <<rows, seen>>
    <2>1. UNCHANGED table
      BY DEF CacheExpires, NextMonth, WorkerRead, WorkerReadAny, PatchRead, RestoreMerchant
    <2> QED  BY <2>1, NoWrite
  <1>2. UNCHANGED <<client, audit>>
    BY DEF CacheExpires, NextMonth, WorkerRead, WorkerReadAny, PatchRead, RestoreMerchant
  <1>3. month' \in Months
    BY SMTT(30), LedgerAssumption DEF CacheExpires, NextMonth, WorkerRead, WorkerReadAny, PatchRead,
       RestoreMerchant, LedgerInv, RequestsSeen, Months
  <1>4. AuditSound' /\ RequestsSeen'
    BY <1>1, <1>2, <1>3, KeepAudit, KeepRequests
  <1>5. VolumesSeen'
    <2>1. ASSUME NEW m \in Merchants, NEW k \in Months, CacheExpires(m, k)
          PROVE  VolumesSeen'
      <3>1. monthlyVol' = [monthlyVol EXCEPT ![m][k] = None]
        BY <2>1 DEF CacheExpires
      <3>2. /\ DOMAIN monthlyVol' = Merchants
            /\ \A n \in Merchants : DOMAIN monthlyVol'[n] = Months
            /\ \A n \in Merchants, j \in Months :
                 monthlyVol'[n][j] = monthlyVol[n][j] \/ monthlyVol'[n][j] = None
        BY <3>1 DEF LedgerInv, VolumesSeen
      <3>3. \A n \in Merchants, j \in Months : monthlyVol'[n][j] \in seen'[n][j] \cup {0, None}
        BY <3>2, <1>1 DEF LedgerInv, VolumesSeen, Seen
      <3> QED  BY <3>2, <3>3, <1>1, KeepVolumes
    <2>2. CASE UNCHANGED monthlyVol
      BY <2>2, <1>1, KeepCache, KeepVolumes
    <2> QED
      BY <2>1, <2>2 DEF NextMonth, WorkerRead, WorkerReadAny, PatchRead, RestoreMerchant
  <1>6. WritesValidated'
    <2>1. ASSUME NEW id \in Ids, NEW to \in Status, WorkerRead(id, to)
          PROVE  WritesValidated'
      BY <2>1 DEF WorkerRead, WorkerReadAny, LedgerInv, WritesValidated
    <2>2. ASSUME NEW id \in Ids, NEW to \in Status, PatchRead(id, to)
          PROVE  WritesValidated'
      BY <2>2 DEF PatchRead, LedgerInv, WritesValidated
    <2>3. CASE UNCHANGED <<worker, patch>>
      BY <2>3, KeepWrites
    <2> QED  BY <2>1, <2>2, <2>3 DEF CacheExpires, NextMonth, RestoreMerchant
  <1> QED  BY <1>1, <1>4, <1>5, <1>6 DEF LedgerInv

LEMMA RowsAreNumbered ==
    ASSUME LedgerInv, NEW merchant
    PROVE  /\ Local(merchant) \in SUBSET Nat /\ IsFiniteSet(Local(merchant))
           /\ Local(merchant) \subseteq Existing
           /\ IsFiniteSet(Existing)
  <1>1. Existing \subseteq Ids /\ Ids \subseteq Nat /\ IsFiniteSet(Ids)
    BY LedgerAssumption DEF LedgerInv, RowsStored
  <1>2. Local(merchant) \subseteq Existing
    BY DEF Local
  <1> QED  BY <1>1, <1>2, FS_Subset

\* What is left of the invariant when a reconciliation goes on.
LEMMA AuditKeeps ==
    ASSUME LedgerInv, NEW local, AuditStep(local)
    PROVE  /\ RowsStored' /\ VolumesSeen' /\ RequestsSeen' /\ WritesValidated'
           /\ rows' = rows /\ audit' = local
  <1>1. UNCHANGED <<table, month, monthlyVol, client, worker, patch>> /\ audit' = local
    BY DEF AuditStep
  <1>2. TableGrows /\ RowsStored' /\ UNCHANGED <<rows, seen>>
    BY <1>1, NoWrite
  <1>3. month' \in Months
    BY <1>1 DEF LedgerInv, RequestsSeen
  <1> QED
    BY <1>1, <1>2, <1>3, KeepWrites, KeepCache, KeepVolumes, KeepRequests

\* A reconciliation that has not answered explains itself.
LEMMA Unanswered ==
    ASSUME audit'.at \in {"idle", "page", "fetch"}
    PROVE  DifferencesExplained' /\ FlaggedFeeWasDiscounted'
BY DEF DifferencesExplained, FlaggedFeeWasDiscounted

LEMMA AuditStarts ==
    ASSUME LedgerInv,
           \/ \E m \in Merchants \cup {All} : Reconcile(m) \/ Report(m)
           \/ FetchFails \/ Answer
    PROVE  LedgerInv'
  <1>1. ASSUME NEW m \in Merchants \cup {All}, Reconcile(m) PROVE LedgerInv'
    <2>1. PICK a : /\ a = [at |-> "fetch", route |-> "reconcile", merchant |-> m,
                           before |-> Existing, local |-> [id \in Local(m) |-> rows[id]]]
                   /\ AuditStep(a)
      BY <1>1 DEF Reconcile
    <2>2. /\ RowsStored' /\ VolumesSeen' /\ RequestsSeen' /\ WritesValidated'
          /\ rows' = rows /\ audit' = a
      BY <2>1, AuditKeeps
    <2>3. Local(m)' = Local(m) /\ Existing' = Existing
      BY <2>2 DEF Local, Of, Existing
    <2>4. LocalSide(audit)' /\ AllRead(audit)'
      BY <2>1, <2>2, <2>3 DEF LocalSide, AllRead, Same
    <2>5. AuditSound'
      BY <2>1, <2>2, <2>4, Unanswered DEF AuditSound
    <2> QED  BY <2>2, <2>5 DEF LedgerInv
  <1>2. ASSUME NEW m \in Merchants \cup {All}, Report(m) PROVE LedgerInv'
    <2>1. PICK a : /\ a = [at |-> "page", route |-> "report", merchant |-> m,
                           before |-> Existing, cursor |-> -1, local |-> <<>>]
                   /\ AuditStep(a)
      BY <1>2 DEF Report
    <2>2. /\ RowsStored' /\ VolumesSeen' /\ RequestsSeen' /\ WritesValidated'
          /\ rows' = rows /\ audit' = a
      BY <2>1, AuditKeeps
    <2>3. Local(m)' = Local(m) /\ Existing' = Existing /\ Local(m) \subseteq Nat
      BY <2>2, RowsAreNumbered DEF Local, Of, Existing
    <2>4. DOMAIN a.local = {} /\ \A n \in Nat : ~ (n <= a.cursor)
      BY <2>1
    <2>5. LocalSide(audit)' /\ ReadSoFar(audit)'
      BY <2>1, <2>2, <2>3, <2>4 DEF LocalSide, ReadSoFar, Same
    <2>6. AuditSound'
      BY <2>1, <2>2, <2>5, Unanswered DEF AuditSound
    <2> QED  BY <2>2, <2>6 DEF LedgerInv
  <1>3. CASE FetchFails \/ Answer
    <2>1. AuditStep(AtRest)
      BY <1>3 DEF FetchFails, Answer
    <2>2. /\ RowsStored' /\ VolumesSeen' /\ RequestsSeen' /\ WritesValidated'
          /\ audit'.at = "idle"
      BY <2>1, AuditKeeps DEF AtRest
    <2>3. AuditSound'
      BY <2>2, Unanswered DEF AuditSound
    <2> QED  BY <2>2, <2>3 DEF LedgerInv
  <1> QED  BY <1>1, <1>2, <1>3

LEMMA Turned ==
    ASSUME NEW a, NEW c, NEW l,
           a = [at |-> "page", route |-> "report", merchant |-> a.merchant,
                before |-> a.before, cursor |-> a.cursor, local |-> a.local]
    PROVE  [a EXCEPT !.cursor = c, !.local = l] =
             [at |-> "page", route |-> "report", merchant |-> a.merchant,
              before |-> a.before, cursor |-> c, local |-> l]
  <1>1. PICK q : q = [a EXCEPT !.cursor = c]
    OBVIOUS
  <1>2. q = [at |-> "page", route |-> "report", merchant |-> a.merchant,
             before |-> a.before, cursor |-> c, local |-> a.local]
    BY <1>1
  <1>3. [a EXCEPT !.cursor = c, !.local = l] = [q EXCEPT !.local = l]
    BY <1>1, <1>2
  <1>4. [q EXCEPT !.local = l] =
             [at |-> "page", route |-> "report", merchant |-> a.merchant,
              before |-> a.before, cursor |-> c, local |-> l]
    BY <1>2
  <1> QED  BY <1>3, <1>4

LEMMA PageRead == ASSUME LedgerInv, ReadPage PROVE LedgerInv'
  <1>0. PICK merchant : merchant = audit.merchant
    OBVIOUS
  <1> DEFINE mine == Local(merchant)
             after == {id \in mine : id > audit.cursor}
             page == Page(after)
             local == [id \in DOMAIN audit.local \cup page |->
                         IF id \in page THEN rows[id] ELSE audit.local[id]]
             last == [at |-> "fetch", route |-> "report", merchant |-> audit.merchant,
                      before |-> audit.before, local |-> local]
             more == [audit EXCEPT !.cursor = Max(page), !.local = local]
  <1>1. /\ audit.at = "page" /\ audit.cursor \in Int
        /\ audit = [at |-> "page", route |-> "report", merchant |-> audit.merchant,
                     before |-> audit.before, cursor |-> audit.cursor, local |-> audit.local]
        /\ LocalSide(audit) /\ ReadSoFar(audit)
    BY DEF ReadPage, LedgerInv, AuditSound
  <1>2. AuditStep(IF Cardinality(page) < ReportPage THEN last ELSE more)
    BY <1>0 DEF ReadPage, Page
  <1>3. /\ mine \in SUBSET Nat /\ IsFiniteSet(mine) /\ mine \subseteq Existing
        /\ after \in SUBSET Nat /\ IsFiniteSet(after) /\ after \subseteq mine
        /\ page \subseteq after
    <2>1. mine \in SUBSET Nat /\ IsFiniteSet(mine) /\ mine \subseteq Existing
      BY RowsAreNumbered
    <2>2. after \in SUBSET mine /\ page \subseteq after
      BY DEF Page
    <2> QED  BY <2>1, <2>2, FS_Subset
  <1>4. ASSUME NEW a, audit' = a, rows' = rows, a.merchant = audit.merchant,
               a.before = audit.before, a.local = local
        PROVE  LocalSide(audit)'
    <2>1. Local(merchant)' = mine /\ Existing' = Existing
      BY <1>4 DEF Local, Of, Existing
    <2>2. \A id \in DOMAIN local : Same(local[id], rows[id])
      BY <1>0, <1>1 DEF LocalSide, Same
    <2>3. DOMAIN local \subseteq mine /\ audit.before \subseteq Existing
      BY <1>0, <1>1, <1>3 DEF LocalSide
    <2> HIDE DEF local, mine
    <2> QED  BY <2>1, <2>2, <2>3, <1>0, <1>4 DEF LocalSide
  <1>5. PICK a : a = (IF Cardinality(page) < ReportPage THEN last ELSE more)
    OBVIOUS
  <1>6. /\ RowsStored' /\ VolumesSeen' /\ RequestsSeen' /\ WritesValidated'
        /\ rows' = rows /\ audit' = a
    <2>1. AuditStep(a)
      BY <1>2, <1>5
    <2> QED  BY <2>1, AuditKeeps
  <1>7. Local(merchant)' = mine
    BY <1>6 DEF Local, Of, Existing
  <1>8. CASE Cardinality(page) < ReportPage
    <2>1. page = after
      BY <1>3, <1>8, ShortPageIsLast
    <2> HIDE DEF page
    <2>2. a = last
      BY <1>5, <1>8
    <2>3. LocalSide(audit)'
      BY <2>2, <1>4, <1>6
    <2>4. ASSUME NEW id \in audit.before \cap mine PROVE id \in DOMAIN audit.local \cup page
      BY <2>1, <2>4, <1>0, <1>1, <1>3 DEF ReadSoFar
    <2>5. AllRead(audit)'
      BY <2>2, <2>4, <1>0, <1>6, <1>7 DEF AllRead
    <2>6. AuditSound'
      BY <2>2, <2>3, <2>5, <1>6, Unanswered DEF AuditSound
    <2> QED  BY <2>6, <1>6 DEF LedgerInv
  <1>9. CASE ~ (Cardinality(page) < ReportPage)
    <2>1. /\ Max(page) \in Nat
          /\ \A id \in after : id <= Max(page) => id \in page
      BY <1>3, <1>9, FullPageIsPrefix
    <2> HIDE DEF page
    <2>2. a = [at |-> "page", route |-> "report", merchant |-> audit.merchant,
               before |-> audit.before, cursor |-> Max(page), local |-> local]
      <3>1. a = [audit EXCEPT !.cursor = Max(page), !.local = local]
        BY <1>5, <1>9
      <3> HIDE DEF local
      <3> QED  BY <3>1, <1>1, Turned
    <2>3. LocalSide(audit)'
      BY <2>2, <1>4, <1>6
    <2>4. ASSUME NEW id \in audit.before \cap mine, id <= Max(page)
          PROVE  id \in DOMAIN audit.local \cup page
      BY <2>1, <2>4, <1>0, <1>1, <1>3 DEF ReadSoFar
    <2>5. ReadSoFar(audit)'
      BY <2>2, <2>4, <1>0, <1>6, <1>7 DEF ReadSoFar
    <2>6. AuditSound'
      BY <2>1, <2>2, <2>3, <2>5, <1>6, Unanswered DEF AuditSound
    <2> QED  BY <2>6, <1>6 DEF LedgerInv
  <1> QED  BY <1>8, <1>9

LEMMA Answered == ASSUME LedgerInv, Fetch PROVE LedgerInv'
  <1>1. PICK b : /\ b = [at |-> "answer", route |-> audit.route, merchant |-> audit.merchant,
                         before |-> audit.before, local |-> audit.local,
                         gateway |-> [id \in Listing(audit) |-> rows[id]],
                         beyond |-> Beyond(audit), hidden |-> deleted]
                 /\ AuditStep(b)
    BY DEF Fetch
  <1>2. /\ RowsStored' /\ VolumesSeen' /\ RequestsSeen' /\ WritesValidated'
        /\ rows' = rows /\ audit' = b
    BY <1>1, AuditKeeps
  <1>3. /\ audit.route \in {"reconcile", "report"}
        /\ LocalSide(audit) /\ AllRead(audit)
    BY DEF Fetch, LedgerInv, AuditSound
  <1>4. /\ b.at = "answer" /\ b.route = audit.route /\ b.merchant = audit.merchant
        /\ b.before = audit.before /\ b.local = audit.local /\ b.beyond = Beyond(audit)
        /\ b.hidden = deleted /\ DOMAIN b.gateway = Listing(audit)
        /\ \A id \in Listing(audit) : b.gateway[id] = rows[id]
    BY <1>1
  <1>5. Listing(audit) \subseteq Listable(audit) /\ Listable(audit) \subseteq Existing
    BY DEF Listing, Listable
  \* Both sides show a row as it is in the table, but for its status.
  <1>6. ASSUME NEW id \in InLocal(b) \cap InGateway(b)
        PROVE  Same(b.local[id], b.gateway[id])
    BY <1>3, <1>4 DEF InLocal, InGateway, LocalSide
  <1>7. MissingExplained(b)
    <2>1. SUFFICES ASSUME NEW id \in Missing(b), id \in b.before
                   PROVE  b.route = "report" /\ b.gateway[id].merchant # b.merchant
      BY DEF MissingExplained
    <2>2. id \in Listable(audit) /\ id \in Existing /\ b.gateway[id] = rows[id]
      BY <1>4, <1>5 DEF Missing, InGateway
    <2>3. ~ Of(audit.merchant, id)
      BY <2>1, <2>2, <1>3, <1>4 DEF Missing, InLocal, AllRead, Local
    <2>4. audit.route # "reconcile"
      BY <2>2, <2>3 DEF Listable
    <2> QED  BY <2>2, <2>3, <2>4, <1>3, <1>4 DEF Of
  <1>8. ExtraExplained(b)
    <2>1. SUFFICES ASSUME NEW id \in Extra(b), b.local[id].merchant \notin b.hidden
                   PROVE  id \in b.beyond
      BY DEF ExtraExplained
    <2>2. /\ id \in Local(audit.merchant) /\ id \in Existing
          /\ Same(audit.local[id], rows[id]) /\ id \notin Listing(audit)
      BY <1>3, <1>4 DEF Extra, InLocal, InGateway, LocalSide, Local
    <2>3. rows[id].merchant \notin deleted
      BY <2>1, <2>2, <1>4 DEF Same
    <2>4. id \in Listable(audit)
      BY <2>2, <2>3 DEF Listable, Local, Of
    <2>5. /\ Cardinality({x \in Listable(audit) : Newer(id, x)}) \in Nat
          /\ ListLimit \in Nat
      <3>1. {x \in Listable(audit) : Newer(id, x)} \in SUBSET Existing
        BY <1>5
      <3> QED  BY <3>1, RowsAreNumbered, FS_Subset, FS_CardinalityType, LedgerAssumption
    <2>6. ~ (Cardinality({x \in Listable(audit) : Newer(id, x)}) < ListLimit)
      BY <2>2, <2>4 DEF Listing
    <2>7. id \in Beyond(audit)
      BY <2>4, <2>5, <2>6 DEF Beyond
    <2> QED  BY <2>7, <1>4
  <1>9. MismatchExplained(b)
    <2>1. ASSUME NEW id \in InLocal(b) \cap InGateway(b)
          PROVE  FieldDiffs(b, id) \subseteq {"status"}
      BY <1>6 DEF FieldDiffs, COMPARE_FIELDS, Same
    <2>2. ASSUME NEW id \in Mismatched(b)
          PROVE  b.route = "report" /\ FieldDiffs(b, id) = {"status"}
      <3>1. id \in InLocal(b) \cap InGateway(b)
        BY DEF Mismatched, computeReconciliationDiff
      <3>2. FieldDiffs(b, id) \subseteq {"status"}
        BY <2>1, <3>1
      <3>3. b.route # "reconcile"
        BY <3>2 DEF Mismatched, computeReconciliationDiff
      <3>4. FieldDiffs(b, id) # {}
        BY <3>3 DEF Mismatched
      <3> QED  BY <3>2, <3>3, <3>4, <1>3, <1>4
    <2> QED  BY <2>2 DEF MismatchExplained
  <1>10. Missing(b) \cup Extra(b) = {} => GrossTotal(b.local) = GrossTotal(b.gateway)
    <2>1. SUFFICES ASSUME Missing(b) \cup Extra(b) = {}
                   PROVE  GrossTotal(b.local) = GrossTotal(b.gateway)
      OBVIOUS
    <2>2. DOMAIN b.local = DOMAIN b.gateway
      BY <2>1 DEF Missing, Extra, InLocal, InGateway
    <2>3. \A id \in DOMAIN b.local : b.local[id].gross = b.gateway[id].gross
      BY <2>2, <1>6 DEF InLocal, InGateway, Same
    <2>4. [id \in DOMAIN b.local |-> b.local[id].gross]
            = [id \in DOMAIN b.gateway |-> b.gateway[id].gross]
      BY <2>2, <2>3
    <2> QED  BY <2>4 DEF GrossTotal
  <1>11. DifferencesExplained'
    BY <1>2, <1>7, <1>8, <1>9, <1>10 DEF DifferencesExplained
  <1>12. \A id \in DOMAIN b.local : Priced(b.local[id])
    <2>1. ASSUME NEW id \in DOMAIN b.local PROVE Priced(b.local[id])
      <3>1. id \in Existing /\ Same(b.local[id], rows[id])
        BY <1>3, <1>4 DEF LocalSide, Local
      <3>2. Same(rows[id], b.local[id]) /\ Priced(rows[id])
        BY <3>1 DEF Same, LedgerInv, RowsStored
      <3> QED  BY <3>2, SamePriced
    <2> QED  BY <2>1
  <1>13. \A id \in Flagged(b) : b.local[id].route = "single" /\ b.local[id].discount > 0
    <2>1. ASSUME NEW id \in Flagged(b)
          PROVE  b.local[id].route = "single" /\ b.local[id].discount > 0
      <3>1. Priced(b.local[id])
        BY <1>12 DEF Flagged, InLocal
      <3> QED  BY <3>1 DEF Flagged, Priced, RoundedTo
    <2> QED  BY <2>1
  <1>14. FlaggedFeeWasDiscounted'
    BY <1>2, <1>13 DEF FlaggedFeeWasDiscounted
  <1>15. AuditSound'
    BY <1>2, <1>4, <1>11, <1>14 DEF AuditSound
  <1> QED  BY <1>2, <1>15 DEF LedgerInv

LEMMA LedgerStarts == LedgerInit => LedgerInv
  <1> SUFFICES ASSUME LedgerInit PROVE LedgerInv
    OBVIOUS
  <1>1. Existing = {}
    BY DEF LedgerInit, Existing
  <1>2. RowsStored
    BY <1>1 DEF RowsStored
  <1>3. VolumesSeen
    BY DEF LedgerInit, VolumesSeen
  <1>4. RequestsSeen
    BY LedgerAssumption DEF LedgerInit, RequestsSeen, AtRest, Months
  <1>5. WritesValidated /\ AuditSound
    BY DEF LedgerInit, WritesValidated, AuditSound, AtRest, DifferencesExplained,
       FlaggedFeeWasDiscounted
  <1> QED  BY <1>2, <1>3, <1>4, <1>5 DEF LedgerInv

LEMMA LedgerSteps == LedgerInv /\ [LedgerNext]_ledgerVars => LedgerInv'
  <1> SUFFICES ASSUME LedgerInv, [LedgerNext]_ledgerVars PROVE LedgerInv'
    OBVIOUS
  <1>1. CASE LedgerNext
    BY <1>1, PriceStep, RequestEnds, AddStep, WriteStep, OtherStep, AuditStarts, PageRead, Answered
       DEF LedgerNext
  <1>2. CASE UNCHANGED ledgerVars
    <2>1. UNCHANGED <<table, month, monthlyVol, client, worker, patch, audit>>
      BY <1>2 DEF ledgerVars
    <2>2. TableGrows /\ RowsStored' /\ UNCHANGED <<rows, seen>>
      BY <2>1, NoWrite
    <2>3. month' \in Months
      BY <2>1 DEF LedgerInv, RequestsSeen
    <2> QED
      BY <2>1, <2>2, <2>3, KeepWrites, KeepCache, KeepVolumes, KeepRequests, KeepAudit DEF LedgerInv
  <1> QED  BY <1>1, <1>2

LEMMA LedgerInvariance == LedgerSpec => []LedgerInv
BY LedgerStarts, LedgerSteps, PTL DEF LedgerSpec

-----------------------------------------------------------------------------
\* Whatever GET /api/settlements/reconcile and its report find between the engine's
\* reads and the gateway's listing is explained by a newer row, another merchant, the
\* page limit, a deleted merchant or a status that moved: for any table, page size and
\* interleaving with writers, no row is lost and no amount differs.
THEOREM DifferencesExplainedAlways == LedgerSpec => []DifferencesExplained
  <1>1. LedgerInv => DifferencesExplained
    BY DEF LedgerInv, AuditSound
  <1> QED  BY <1>1, LedgerInvariance, PTL

\* The fee check of the reconciliation accuses only rows that the single route gave a
\* discount: for any amount, decimals, tiers and fee, the rounding of
\* computeSettlementAmounts and that of the check stay within one whole unit.
THEOREM FlaggedFeeWasDiscountedAlways == LedgerSpec => []FlaggedFeeWasDiscounted
  <1>1. LedgerInv => FlaggedFeeWasDiscounted
    BY DEF LedgerInv, AuditSound
  <1> QED  BY <1>1, LedgerInvariance, PTL

\* However stale the cached volume is and whenever the month turns, the volume a row is
\* priced with is one that its merchant had in the month it was asked for.
THEOREM DiscountEarnedAlways == LedgerSpec => DiscountEarned
  <1> DEFINE Earned ==
        \A id \in Existing' \ Existing :
          rows'[id].volume \in seen[rows'[id].merchant][rows'[id].volumeMonth] \cup {0}
  <1>1. LedgerInv /\ [LedgerNext]_ledgerVars => [Earned]_ledgerVars
    <2> SUFFICES ASSUME LedgerInv, LedgerNext PROVE Earned
      OBVIOUS
    <2>1. CASE UNCHANGED rows
      BY <2>1 DEF Existing
    <2>2. ASSUME NEW newRows, Store(newRows), DOMAIN newRows = Existing PROVE Earned
      BY <2>2 DEF Store, Existing
    <2>3. ASSUME \/ \E c \in Clients : Insert(c)
                 \/ \E id \in Ids : Retry(id)
          PROVE  Earned
      <3>1. PICK row : \E id \in Ids \ Existing :
             /\ Store(Added(id, row)) /\ Shaped(row) /\ Priced(row)
             /\ row.merchant \in Merchants /\ row.volumeMonth \in Months
             /\ row.volume \in Seen(row.merchant, row.volumeMonth)
        BY <2>3, InsertAdds, RetryAdds
      <3>2. PICK id \in Ids \ Existing : 
             /\ Store(Added(id, row)) /\ Shaped(row) /\ Priced(row)
             /\ row.merchant \in Merchants /\ row.volumeMonth \in Months
             /\ row.volume \in Seen(row.merchant, row.volumeMonth)
        BY <3>1
      <3>3. DOMAIN rows' = Existing \cup {id} /\ Same(row, rows'[id])
        BY <3>2, AddRow
      <3> QED  BY <3>2, <3>3 DEF Same, Seen, Existing
    <2>4. CASE WorkerWrite
      BY <2>4, <2>2, SetOne DEF WorkerWrite
    <2>5. CASE PatchWrite
      BY <2>5, <2>2, SetOne DEF PatchWrite
    <2>6. ASSUME NEW m \in Merchants, DeleteMerchant(m) PROVE Earned
      BY <2>6, <2>2 DEF DeleteMerchant
    <2> HIDE DEF Earned
    <2> QED
      BY <2>1, <2>3, <2>4, <2>5, <2>6 DEF LedgerNext, Submit, GetCached, GetMisses, QueryVolume,
         QueryFails, FillCache, Refuse, CacheExpires, NextMonth, WorkerRead, WorkerReadAny,
         PatchRead, RestoreMerchant, Reconcile, Report, ReadPage, Fetch, FetchFails, Answer,
         AuditStep, table
  <1> QED  BY <1>1, LedgerInvariance, PTL DEF LedgerSpec, DiscountEarned

\* A settled row changes its status only by the write of the worker or the patch route
\* that was validated before the row was settled.
THEOREM SettledStaysSettledAlways == LedgerSpec => SettledStaysSettled
  <1> DEFINE Settled ==
        \A id \in Existing :
          rows[id].status \in Terminal /\ rows'[id].status # rows[id].status =>
            \/ worker # None /\ worker' = None /\ worker.from \notin Terminal \ {worker.to}
            \/ patch # None /\ patch' = None /\ patch.from \notin Terminal
  <1>1. LedgerInv /\ [LedgerNext]_ledgerVars => [Settled]_ledgerVars
    <2> SUFFICES ASSUME LedgerInv, LedgerNext PROVE Settled
      OBVIOUS
    <2>1. CASE UNCHANGED rows
      BY <2>1
    <2>2. ASSUME \/ \E c \in Clients : Insert(c)
                 \/ \E id \in Ids : Retry(id)
          PROVE  Settled
      <3>1. \E row : \E id \in Ids \ Existing : Store(Added(id, row))
        BY <2>2 DEF Insert, Retry
      <3>2. \A x \in Existing : rows'[x] = rows[x]
        BY <3>1 DEF Store, Added
      <3> QED  BY <3>2
    <2>3. CASE WorkerWrite
      <3>1. validateTransition(worker.from, worker.to) /\ worker # None /\ worker' = None
        BY <2>3 DEF WorkerWrite, LedgerInv, WritesValidated
      <3>2. worker.from \notin Terminal \ {worker.to}
        BY <3>1 DEF validateTransition, isValidTransition, SETTLEMENT_STATUS_TRANSITIONS,
           Terminal, Status
      <3> QED  BY <3>1, <3>2
    <2>4. CASE PatchWrite
      <3>1. isValidTransition(patch.from, patch.to) /\ patch # None /\ patch' = None
        BY <2>4 DEF PatchWrite, LedgerInv, WritesValidated
      <3>2. patch.from \notin Terminal
        BY <3>1 DEF isValidTransition, SETTLEMENT_STATUS_TRANSITIONS, Terminal, Status
      <3> QED  BY <3>1, <3>2
    <2>5. ASSUME NEW m \in Merchants, DeleteMerchant(m) PROVE Settled
      <3>1. \A x \in Existing : rows'[x] = IF rows[x].merchant = m /\ rows[x].status = "pending"
                     THEN [rows[x] EXCEPT !.status = "failed"] ELSE rows[x]
        BY <2>5 DEF DeleteMerchant, Store
      <3> QED  BY <3>1 DEF Terminal
    <2> HIDE DEF Settled
    <2> QED
      BY <2>1, <2>2, <2>3, <2>4, <2>5 DEF LedgerNext, Submit, GetCached, GetMisses, QueryVolume,
         QueryFails, FillCache, Refuse, CacheExpires, NextMonth, WorkerRead, WorkerReadAny,
         PatchRead, RestoreMerchant, Reconcile, Report, ReadPage, Fetch, FetchFails, Answer,
         AuditStep, table
  <1> QED  BY <1>1, LedgerInvariance, PTL DEF LedgerSpec, SettledStaysSettled
===============================================================================
