---------------------------- MODULE PaymentsProofs ----------------------------
(***************************************************************************)
(* Proofs about payments and merchants in the gateway, for any number of   *)
(* overlapping requests, payments, keys and faults: the properties of      *)
(* Payments, from one inductive invariant.                                 *)
(***************************************************************************)
EXTENDS Payments, FiniteSetTheorems, TLAPS

Statuses == {"active", "suspended"}
Final == {"completed", "failed", "cancelled"}

\* A request's locals are a record.
Shape(r) == r = [kind |-> r.kind, pc |-> r.pc, arg |-> r.arg, key |-> r.key, saw |-> r.saw,
                 late |-> r.late]

\* What a request knows, when the payments in c have been cancelled and a suspension
\* is in force or not (f).
Good(r, c, f) ==
    /\ r.kind = "status" /\ r.pc # "idle" => r.arg.to \in Final
    /\ r.kind = "status" /\ r.pc = "write" => r.saw = "initiated"
    /\ r.kind \in {"suspend", "unsuspend"} /\ r.pc = "write" => r.saw \in Statuses
    /\ r.kind = "bulk" /\ r.pc = "write" => r.saw.report \subseteq c \cup r.saw.todo
    /\ r.kind = "bulk" /\ r.pc = "save" => r.saw.report \subseteq c
    /\ r.kind = "create" /\ r.pc = "fill" => r.saw \in Statuses \cup {None}
                                             /\ (f => r.saw # "active")
    /\ r.kind = "create" /\ r.late => f /\ r.pc \in {"idle", "begin", "fill"}

Locals ==
    /\ req = [s \in Slots |-> req[s]]
    /\ \A s \in Slots : Shape(req[s]) /\ Good(req[s], cancelled, inForce)

Tables == pay = [p \in PayIds |-> pay[p]] /\ answers = [k \in Keys |-> answers[k]]

Rows ==
    \A p \in PayIds : /\ pay[p] = [status |-> pay[p].status, key |-> pay[p].key,
                                   live |-> pay[p].live]
                      /\ pay[p].status \in Final \cup {"none", "initiated"}
                      /\ pay[p].status = "none" => pay[p].key = NoKey
                      /\ pay[p].status = "cancelled" => p \in cancelled

\* The unique index on the key, and answers that name only its live holder.
UniqueKey == \A p, q \in PayIds : pay[p].key = pay[q].key /\ pay[p].key # NoKey => p = q

AnswersLive ==
    \A k \in Keys : \A p \in answers[k] : p \in PayIds /\ pay[p].key = k /\ pay[p].live

Keyed == Tables /\ Rows /\ UniqueKey /\ AnswersLive

Reported ==
    /\ summary = [k \in Keys |-> summary[k]]
    /\ ReportedCancelled

Suspension ==
    /\ merchant = [status |-> merchant.status, deleted |-> merchant.deleted,
                   settings |-> merchant.settings]
    /\ merchant.status \in Statuses
    /\ cached \in Statuses \cup {None}
    /\ inForce \in BOOLEAN
    /\ inForce => merchant.status = "suspended" /\ cached # "active"

\* While the last change of the catalogue holds, the cached list and every list about
\* to be cached tell it, and a late request has arrived under it.
Listing ==
    /\ pinned \in BOOLEAN
    /\ pinned => /\ listed \in {None, asset = "active"}
                 /\ \A s \in Slots : At(s, "assets", "fill") => req[s].saw = (asset = "active")
    /\ \A s \in Slots : req[s].kind = "assets" /\ req[s].late => pinned

PInv == Locals /\ Keyed /\ Reported /\ Suspension /\ Listing

-----------------------------------------------------------------------------
(* Requests                                                                *)

\* Cancelled payments stay cancelled in the record of it.
LEMMA GoodMonotone ==
  ASSUME NEW r, NEW c, NEW d, c \subseteq d, NEW f, Good(r, c, f)
  PROVE  Good(r, d, f)
BY DEF Good

\* One request changes, and the suspension does not.
LEMMA RequestStep ==
  ASSUME Locals, NEW s \in Slots, NEW v, req' = [req EXCEPT ![s] = v], Shape(v),
         inForce' = inForce, cancelled \subseteq cancelled', Good(v, cancelled', inForce)
  PROVE  Locals'
<1> USE DEF Locals
<1>1. \A q \in Slots : q # s => req'[q] = req[q]
  OBVIOUS
<1>2. req'[s] = v /\ req' = [q \in Slots |-> req'[q]]
  OBVIOUS
<1>3. \A q \in Slots : Shape(req'[q]) /\ Good(req'[q], cancelled', inForce')
  BY <1>1, <1>2, GoodMonotone
<1>4. QED
  BY <1>2, <1>3

LEMMA IdleIsGood == Shape(Idle) /\ \A c, f : Good(Idle, c, f)
BY DEF Idle, Shape, Good

LEMMA RespondStep ==
  ASSUME Locals, NEW s \in Slots, Respond(s), inForce' = inForce,
         cancelled \subseteq cancelled'
  PROVE  Locals'
BY IdleIsGood, RequestStep DEF Respond

LEMMA GotoStep ==
  ASSUME Locals, NEW s \in Slots, NEW pc, Goto(s, pc), inForce' = inForce,
         cancelled \subseteq cancelled', req[s].pc # "idle",
         req[s].kind \in {"status", "bulk", "suspend", "unsuspend"} => pc # "write",
         req[s].kind = "bulk" /\ pc = "save" => req[s].saw.report \subseteq cancelled',
         req[s].kind = "create" => pc # "fill" /\ ~req[s].late
  PROVE  Locals'
<1>0. PICK v : v = [req[s] EXCEPT !.pc = pc]
  OBVIOUS
<1>1. Shape(req[s]) /\ Good(req[s], cancelled, inForce)
  BY DEF Locals
<1>2. /\ Shape(v) /\ v.kind = req[s].kind /\ v.pc = pc /\ v.arg = req[s].arg
      /\ v.saw = req[s].saw /\ v.late = req[s].late
  BY <1>0, <1>1 DEF Shape
<1>3. req' = [req EXCEPT ![s] = v]
  BY <1>0 DEF Goto
<1>4. Good(v, cancelled', inForce)
  BY <1>1, <1>2 DEF Good
<1>5. QED
  BY <1>2, <1>3, <1>4, RequestStep

LEMMA SawStep ==
  ASSUME Locals, NEW s \in Slots, NEW x, NEW pc, Saw(s, x, pc), inForce' = inForce,
         cancelled \subseteq cancelled', req[s].pc # "idle",
         req[s].kind = "status" => pc = "write" /\ x = "initiated",
         req[s].kind \in {"suspend", "unsuspend"} => x \in Statuses,
         req[s].kind = "bulk" /\ pc = "write" => x.report \subseteq cancelled' \cup x.todo,
         req[s].kind = "bulk" /\ pc = "save" => x.report \subseteq cancelled',
         req[s].kind = "create" /\ pc = "fill" =>
             x \in Statuses \cup {None} /\ (inForce => x # "active"),
         req[s].kind = "create" /\ req[s].late => pc = "fill"
  PROVE  Locals'
<1>0. PICK v : v = [req[s] EXCEPT !.saw = x, !.pc = pc]
  OBVIOUS
<1>1. Shape(req[s]) /\ Good(req[s], cancelled, inForce)
  BY DEF Locals
<1>2. /\ Shape(v) /\ v.kind = req[s].kind /\ v.pc = pc /\ v.arg = req[s].arg
      /\ v.saw = x /\ v.late = req[s].late
  BY <1>0, <1>1 DEF Shape
<1>3. req' = [req EXCEPT ![s] = v]
  BY <1>0 DEF Saw
<1>4. Good(v, cancelled', inForce)
  BY <1>1, <1>2 DEF Good
<1>5. QED
  BY <1>2, <1>3, <1>4, RequestStep

\* The steps of the requests, and the expiries.
LEMMA CreateLocals ==
  ASSUME Locals, Suspension, NEW s \in Slots,
         \/ ReadMerchant(s) \/ FillCache(s) \/ Lookup(s) \/ Quote(s) \/ Insert(s)
         \/ Raced(s) \/ Emit(s)
  PROVE  Locals'
<1> USE DEF At
<1>0. /\ Good(req[s], cancelled, inForce)
      /\ UNCHANGED <<cancelled, inForce>> /\ cancelled \subseteq cancelled'
  BY DEF Locals, ReadMerchant, FillCache, Lookup, Quote, Insert, Raced, Emit, history
<1>1. CASE ReadMerchant(s)
  <2>1. CASE cached # None
    <3>1. req[s].late => cached = "suspended"
      BY <1>0, <1>1, <2>1 DEF ReadMerchant, Good, Suspension, Statuses
    <3>2. QED
      BY <1>0, <1>1, <2>1, <3>1, RespondStep, GotoStep DEF ReadMerchant
  <2>2. CASE cached = None
    <3> DEFINE x == IF merchant.deleted THEN None ELSE merchant.status
    <3>1. x \in Statuses \cup {None} /\ (inForce => x # "active")
      BY PaymentsAssumption DEF Suspension
    <3>2. Saw(s, x, "fill") /\ req[s].kind = "create" /\ req[s].pc = "begin"
      BY <1>1, <2>2 DEF ReadMerchant
    <3> HIDE DEF x
    <3>3. QED
      BY <1>0, <3>1, <3>2, SawStep
  <2>3. QED
    BY <2>1, <2>2
<1>2. CASE FillCache(s)
  <2>1. req[s].saw = "active" => ~req[s].late
    BY <1>0, <1>2 DEF FillCache, Good
  <2>2. QED
    BY <1>0, <1>2, <2>1, RespondStep, GotoStep DEF FillCache
<1>3. CASE Lookup(s)
  <2>1. ~req[s].late
    BY <1>0, <1>3 DEF Lookup, Good
  <2>2. QED
    BY <1>0, <1>3, <2>1, RespondStep, GotoStep DEF Lookup
<1>4. CASE Quote(s)
  <2>1. ~req[s].late
    BY <1>0, <1>4 DEF Quote, Good
  <2>2. Respond(s) \/ Goto(s, "insert")
    BY <1>4 DEF Quote
  <2>3. QED
    BY <1>0, <1>4, <2>1, <2>2, RespondStep, GotoStep DEF Quote
<1>5. CASE Insert(s)
  <2>1. ~req[s].late
    BY <1>0, <1>5 DEF Insert, Good
  <2>2. CASE Goto(s, "raced")
    BY <1>0, <1>5, <2>1, <2>2, GotoStep DEF Insert
  <2>3. CASE \E p \in PayIds : Saw(s, p, "emit")
    BY <1>0, <1>5, <2>1, <2>3, SawStep DEF Insert
  <2>4. QED
    BY <1>5, <2>2, <2>3 DEF Insert
<1>6. CASE Raced(s)
  BY <1>0, <1>6, RespondStep DEF Raced
<1>7. CASE Emit(s)
  BY <1>0, <1>7, RespondStep DEF Emit
<1>8. QED
  BY <1>1, <1>2, <1>3, <1>4, <1>5, <1>6, <1>7

LEMMA StatusLocals ==
  ASSUME Locals, Keyed, NEW s \in Slots,
         \/ ReadStatus(s) \/ WriteStatus(s) \/ BulkReplay(s) \/ BulkRead(s) \/ BulkWrite(s)
         \/ BulkSave(s) \/ SweepRead(s) \/ SweepWrite(s) \/ SweepNotify(s)
  PROVE  Locals'
<1> USE DEF At
<1>0. /\ Good(req[s], cancelled, inForce) /\ inForce' = inForce
      /\ cancelled \subseteq cancelled'
  BY DEF Locals, ReadStatus, WriteStatus, BulkReplay, BulkRead, BulkWrite, BulkSave, SweepRead,
         SweepWrite, SweepNotify, history, SetStatus
<1>1. CASE ReadStatus(s)
  <2> DEFINE p == req[s].arg.p
  <2>1. CASE p \in Created /\ req[s].arg.to \in PAYMENT_STATUS_TRANSITIONS[pay[p].status]
    <3>1. pay[p].status = "initiated"
      <4>1. pay[p].status \in Final \cup {"initiated"}
        BY <2>1 DEF Created, Keyed, Rows
      <4>2. pay[p].status \in Final => PAYMENT_STATUS_TRANSITIONS[pay[p].status] = {}
        BY DEF Final, PAYMENT_STATUS_TRANSITIONS
      <4>3. QED
        BY <2>1, <4>1, <4>2
    <3>2. QED
      BY <1>0, <1>1, <2>1, <3>1, SawStep DEF ReadStatus
  <2>2. CASE ~(p \in Created /\ req[s].arg.to \in PAYMENT_STATUS_TRANSITIONS[pay[p].status])
    BY <1>0, <1>1, <2>2, RespondStep DEF ReadStatus
  <2>3. QED
    BY <2>1, <2>2
<1>2. CASE WriteStatus(s)
  BY <1>0, <1>2, RespondStep DEF WriteStatus
<1>3. CASE BulkReplay(s)
  BY <1>0, <1>3, RespondStep, GotoStep DEF BulkReplay
<1>4. CASE BulkRead(s)
  <2> DEFINE ids == req[s].arg \cap Created
             todo == ids \cap Initiated
             was == {p \in ids : pay[p].status = "cancelled"}
             x == [report |-> todo \cup was, todo |-> todo]
             to == IF todo # {} THEN "write" ELSE "save"
  <2>1. was \subseteq cancelled
    BY DEF Keyed, Rows, Created
  <2>2. x.report = todo \cup was /\ x.todo = todo
    OBVIOUS
  <2>3. Saw(s, x, to) /\ req[s].kind = "bulk" /\ req[s].pc = "lookup"
    BY <1>4 DEF BulkRead
  <2>4. (to = "write" \/ to = "save") /\ (to = "save" => todo = {})
    OBVIOUS
  <2> HIDE DEF x, to, was, todo
  <2>5. QED
    BY <1>0, <2>1, <2>2, <2>3, <2>4, SawStep
<1>5. CASE BulkWrite(s)
  <2>1. cancelled' = cancelled \cup req[s].saw.todo
    BY <1>5 DEF BulkWrite, SetStatus
  <2>2. req[s].saw.report \subseteq cancelled'
    BY <1>0, <1>5, <2>1 DEF BulkWrite, Good
  <2>3. QED
    BY <1>0, <1>5, <2>2, GotoStep DEF BulkWrite
<1>6. CASE BulkSave(s)
  BY <1>0, <1>6, RespondStep DEF BulkSave
<1>7. CASE SweepRead(s)
  BY <1>0, <1>7, RespondStep, SawStep DEF SweepRead
<1>8. CASE SweepWrite(s)
  BY <1>0, <1>8, GotoStep DEF SweepWrite
<1>9. CASE SweepNotify(s)
  BY <1>0, <1>9, RespondStep DEF SweepNotify
<1>10. QED
  BY <1>1, <1>2, <1>3, <1>4, <1>5, <1>6, <1>7, <1>8, <1>9

LEMMA MerchantLocals ==
  ASSUME Locals, Suspension, NEW s \in Slots,
         \/ SuspendRead(s) \/ SuspendWrite(s) \/ Invalidate(s) \/ MerchantRead(s)
         \/ DeleteWrite(s) \/ RestoreWrite(s) \/ SettingsWrite(s)
         \/ SettlementRead(s) \/ SettlementWrite(s)
  PROVE  Locals'
<1> USE DEF At
<1>0. Good(req[s], cancelled, inForce)
  BY DEF Locals
<1>1. CASE SuspendRead(s)
  <2>1. UNCHANGED <<cancelled, inForce>> /\ cancelled \subseteq cancelled'
    BY <1>1 DEF SuspendRead, history
  <2>2. CASE Respond(s)
    BY <2>1, <2>2, RespondStep
  <2>3. CASE \E to \in Statuses : Saw(s, to, "write")
    BY <1>1, <2>1, <2>3, SawStep DEF SuspendRead
  <2>4. QED
    BY <1>1, <2>2, <2>3 DEF SuspendRead, Statuses
<1>2. CASE SuspendWrite(s)
  <2>1. inForce' = FALSE /\ UNCHANGED cancelled
    BY <1>2 DEF SuspendWrite
  <2>2. req' = [x \in Slots |-> IF x = s THEN [req[x] EXCEPT !.pc = "invalidate"]
                                ELSE IF req[x].kind = "assets" THEN req[x]
                                ELSE [req[x] EXCEPT !.late = FALSE]]
    BY <1>2 DEF SuspendWrite
  <2>3. Shape(req'[s]) /\ Good(req'[s], cancelled, FALSE)
    <3>1. PICK v : v = [req[s] EXCEPT !.pc = "invalidate"]
      OBVIOUS
    <3>2. Shape(v) /\ v.kind = req[s].kind /\ v.pc = "invalidate" /\ v.arg = req[s].arg
      BY <3>1 DEF Shape, Locals
    <3>3. req[s].kind \in {"suspend", "unsuspend"}
      BY <1>2 DEF SuspendWrite
    <3>4. Good(v, cancelled, FALSE)
      BY <3>2, <3>3 DEF Good
    <3>5. req'[s] = v
      BY <2>2, <3>1
    <3>6. QED
      BY <3>2, <3>4, <3>5
  <2>4. ASSUME NEW q \in Slots, q # s
        PROVE  Shape(req'[q]) /\ Good(req'[q], cancelled, FALSE)
    <3>0. Shape(req[q])
      BY DEF Locals
    <3>1. PICK v : v = [req[q] EXCEPT !.late = FALSE]
      OBVIOUS
    <3>2. /\ Shape(v) /\ v.kind = req[q].kind /\ v.pc = req[q].pc /\ v.arg = req[q].arg
          /\ v.saw = req[q].saw /\ v.late = FALSE
      BY <3>0, <3>1 DEF Shape
    <3>3. Good(req[q], cancelled, inForce)
      BY DEF Locals
    <3>4. Good(v, cancelled, FALSE)
      BY <3>2, <3>3 DEF Good
    <3>5. req[q].kind = "assets" => Good(req[q], cancelled, FALSE)
      BY <3>3 DEF Good
    <3>6. req'[q] = IF req[q].kind = "assets" THEN req[q] ELSE v
      BY <2>2, <2>4, <3>1
    <3>7. QED
      BY <3>0, <3>2, <3>4, <3>5, <3>6
  <2>5. req' = [q \in Slots |-> req'[q]]
    BY <2>2
  <2>6. QED
    BY <2>1, <2>3, <2>4, <2>5 DEF Locals
<1>3. CASE Invalidate(s)
  <2>1. /\ req' = [req EXCEPT ![s] = Idle] /\ UNCHANGED cancelled
        /\ inForce' = Holds
    BY <1>3 DEF Invalidate, Respond
  <2>2. Holds => \A q \in Slots : req[q].kind = "create" /\ req[q].pc = "fill"
                                  => req[q].saw # "active"
    BY DEF Holds
  <2>3. inForce => Holds
    BY DEF Holds, Locals, Good, Suspension
  <2>4. ASSUME NEW q \in Slots, q # s
        PROVE  Shape(req'[q]) /\ Good(req'[q], cancelled', inForce')
    <3>1. req'[q] = req[q] /\ Shape(req[q]) /\ Good(req[q], cancelled, inForce)
      BY <2>1, <2>4 DEF Locals
    <3>2. QED
      BY <2>1, <2>2, <2>3, <3>1 DEF Good
  <2>5. req'[s] = Idle /\ req' = [q \in Slots |-> req'[q]]
    BY <2>1 DEF Locals
  <2>6. QED
    BY <2>4, <2>5, IdleIsGood DEF Locals
<1>4. CASE MerchantRead(s)
  <2>1. UNCHANGED <<cancelled, inForce>> /\ cancelled \subseteq cancelled'
    BY <1>4 DEF MerchantRead, history
  <2>2. QED
    BY <1>4, <2>1, RespondStep, SawStep DEF MerchantRead
<1>5. CASE DeleteWrite(s)
  BY <1>5, RespondStep DEF DeleteWrite, SetStatus
<1>6. CASE RestoreWrite(s)
  BY <1>6, RespondStep DEF RestoreWrite, history
<1>7. CASE SettingsWrite(s)
  BY <1>7, GotoStep DEF SettingsWrite, history
<1>8. CASE SettlementRead(s)
  BY <1>8, RespondStep, GotoStep DEF SettlementRead, history
<1>9. CASE SettlementWrite(s)
  BY <1>9, RespondStep DEF SettlementWrite, history
<1>10. QED
  BY <1>1, <1>2, <1>3, <1>4, <1>5, <1>6, <1>7, <1>8, <1>9

LEMMA ArrivalLocals ==
  ASSUME Locals, NEW s \in Slots, Arrival(s)
  PROVE  Locals'
<1>1. ASSUME NEW kind, NEW arg, NEW key, Receive(s, kind, arg, key),
             kind = "status" => arg.to \in Final
      PROVE  Locals'
  <2>0. PICK v : v = [Idle EXCEPT !.kind = kind, !.pc = "begin", !.arg = arg, !.key = key,
                                  !.late = IF kind = "assets" THEN pinned ELSE inForce]
    OBVIOUS
  <2>1. req' = [req EXCEPT ![s] = v] /\ UNCHANGED <<cancelled, inForce>>
    BY <1>1, <2>0 DEF Receive, history
  <2>2. Shape(Idle)
    BY IdleIsGood
  <2>3. /\ Shape(v) /\ v.kind = kind /\ v.pc = "begin" /\ v.arg = arg
        /\ kind # "assets" => v.late = inForce
    BY <2>0, <2>2 DEF Shape
  <2>4. Good(v, cancelled, inForce)
    BY <1>1, <2>3 DEF Good
  <2>5. QED
    BY <2>1, <2>3, <2>4, RequestStep
<1>2. ASSUME NEW p \in PayIds, NEW to \in {"completed", "failed", "cancelled"}
      PROVE  [p |-> p, to |-> to].to \in Final
  BY DEF Final
<1>3. QED
  BY <1>1, <1>2 DEF Arrival

LEMMA OtherLocals ==
  ASSUME Locals,
         \/ \E s \in Slots : Fail(s)
         \/ \E p \in PayIds : Consume(p) \/ KeyExpires(p)
         \/ CacheExpires \/ ListExpires \/ ReclaimExpiredKeys \/ UNCHANGED vars
  PROVE  Locals'
<1>1. ASSUME NEW s \in Slots, Fail(s)
      PROVE  Locals'
  <2>1. UNCHANGED <<cancelled, inForce>> /\ cancelled \subseteq cancelled'
    BY <1>1 DEF Fail, history
  <2>2. QED
    BY <1>1, <2>1, RespondStep, GotoStep DEF Fail
<1>2. CASE \/ \E p \in PayIds : Consume(p) \/ KeyExpires(p)
           \/ CacheExpires \/ ListExpires \/ ReclaimExpiredKeys \/ UNCHANGED vars
  <2>1. UNCHANGED <<req, cancelled, inForce>>
    BY <1>2 DEF Consume, KeyExpires, CacheExpires, ListExpires, ReclaimExpiredKeys, vars, history
  <2>2. QED
    BY <2>1 DEF Locals
<1>3. QED
  BY <1>1, <1>2

\* The steps of the catalogue leave everything else alone.
LEMMA CatalogueKeeps ==
  ASSUME NEW s \in Slots, CatalogueStep(s)
  PROVE  UNCHANGED <<rows, queues, history>>
BY DEF CatalogueStep, ListCached, ListRead, ListFill, CreateAsset, UpdateAsset, DeleteAsset,
   ChangeAsset, RefuseAsset, InvalidateList, InvalidateListFails

LEMMA CatalogueLocals ==
  ASSUME Locals, NEW s \in Slots, CatalogueStep(s)
  PROVE  Locals'
<1> USE DEF At
<1>0. UNCHANGED <<cancelled, inForce>> /\ cancelled \subseteq cancelled'
  BY CatalogueKeeps DEF history
<1>1. CASE ListCached(s) \/ ListRead(s) \/ ListFill(s) \/ InvalidateList(s)
         \/ InvalidateListFails(s)
  BY <1>0, <1>1, RespondStep, GotoStep, SawStep
  DEF ListCached, ListRead, ListFill, InvalidateList, InvalidateListFails
<1>2. CASE RefuseAsset(s)
  BY <1>0, <1>2, RespondStep DEF RefuseAsset
<1>3. ASSUME NEW to, ChangeAsset(s, to), req[s].kind = "asset" PROVE Locals'
  <2>1. req' = [x \in Slots |-> IF x = s THEN [req[x] EXCEPT !.pc = "invalidate"]
                                ELSE IF req[x].kind = "assets" THEN [req[x] EXCEPT !.late = FALSE]
                                ELSE req[x]]
    BY <1>3 DEF ChangeAsset
  <2>2. ASSUME NEW q \in Slots PROVE Shape(req'[q]) /\ Good(req'[q], cancelled, inForce)
    <3>1. PICK v : v = [req[q] EXCEPT !.pc = "invalidate"]
      OBVIOUS
    <3>2. PICK w : w = [req[q] EXCEPT !.late = FALSE]
      OBVIOUS
    <3>3. Shape(req[q]) /\ Good(req[q], cancelled, inForce)
      BY DEF Locals
    <3>4. Shape(v) /\ v.kind = req[q].kind
      BY <3>1, <3>3 DEF Shape
    <3>5. Shape(w) /\ w.kind = req[q].kind
      BY <3>2, <3>3 DEF Shape
    <3>6. q = s => Good(v, cancelled, inForce)
      BY <1>3, <3>4 DEF Good
    <3>7. req[q].kind = "assets" => Good(w, cancelled, inForce)
      BY <3>5 DEF Good
    <3>8. req'[q] = IF q = s THEN v ELSE IF req[q].kind = "assets" THEN w ELSE req[q]
      BY <2>1, <3>1, <3>2
    <3>9. QED
      BY <3>3, <3>4, <3>5, <3>6, <3>7, <3>8
  <2>3. QED
    BY <1>0, <2>1, <2>2 DEF Locals
<1>4. QED
  BY <1>1, <1>2, <1>3 DEF CatalogueStep, CreateAsset, UpdateAsset, DeleteAsset

LEMMA LocalsStep == PInv /\ [Next]_vars => Locals'
<1> SUFFICES ASSUME PInv, [Next]_vars PROVE Locals'
  OBVIOUS
<1> USE DEF PInv
<1>1. ASSUME NEW s \in Slots, Step(s) PROVE Locals'
  BY <1>1, CreateLocals, StatusLocals, MerchantLocals, CatalogueLocals DEF Step
<1>2. QED
  BY <1>1, ArrivalLocals, OtherLocals DEF Next

-----------------------------------------------------------------------------
(* Suspensions                                                             *)

\* A suspension holds until the status is written again: no row that is cached
\* afterwards is an active one.
LEMMA SuspensionStep == PInv /\ [Next]_vars => Suspension'
<1> SUFFICES ASSUME PInv, [Next]_vars PROVE Suspension'
  OBVIOUS
<1> USE DEF PInv, Suspension, Statuses
<1>1. CASE UNCHANGED <<merchant, cached, inForce>>
  BY <1>1
<1>2. ASSUME NEW s \in Slots, SuspendWrite(s) PROVE Suspension'
  <2>1. Good(req[s], cancelled, inForce) /\ UNCHANGED cached
    BY <1>2 DEF Locals, SuspendWrite
  <2>2. merchant' = [merchant EXCEPT !.status = req[s].saw] /\ inForce' = FALSE
    BY <1>2 DEF SuspendWrite
  <2>3. req[s].saw \in Statuses
    BY <1>2, <2>1 DEF SuspendWrite, Good
  <2>4. QED
    BY <2>1, <2>2, <2>3
<1>3. ASSUME NEW s \in Slots, Invalidate(s) PROVE Suspension'
  <2>1. cached' = None /\ UNCHANGED merchant /\ inForce' = Holds
    BY <1>3 DEF Invalidate
  <2>2. Holds \in BOOLEAN /\ (Holds => merchant.status = "suspended")
    BY DEF Holds
  <2>3. QED
    BY <2>1, <2>2, PaymentsAssumption
<1>4. ASSUME NEW s \in Slots, FillCache(s) PROVE Suspension'
  <2>1. req[s].saw \in Statuses \cup {None} /\ (inForce => req[s].saw # "active")
    BY <1>4 DEF Locals, Good, FillCache, At
  <2>2. cached' = (IF req[s].saw = None THEN cached ELSE req[s].saw)
        /\ UNCHANGED <<merchant, inForce>>
    BY <1>4 DEF FillCache, history
  <2>3. QED
    BY <2>1, <2>2
<1>5. CASE CacheExpires
  BY <1>5, PaymentsAssumption DEF CacheExpires, history
<1>6. ASSUME NEW s \in Slots, DeleteWrite(s) \/ RestoreWrite(s) \/ SettingsWrite(s)
      PROVE  Suspension'
  <2>1. UNCHANGED <<cached, inForce>>
    BY <1>6 DEF DeleteWrite, RestoreWrite, SettingsWrite, history
  <2>2. merchant'.status = merchant.status
        /\ merchant' = [status |-> merchant'.status, deleted |-> merchant'.deleted,
                        settings |-> merchant'.settings]
    BY <1>6 DEF DeleteWrite, RestoreWrite, SettingsWrite
  <2>3. QED
    BY <2>1, <2>2
<1>7. ASSUME NEW s \in Slots, Step(s) PROVE Suspension'
  <2>1. CASE \/ ReadMerchant(s) \/ Lookup(s) \/ Quote(s) \/ Insert(s) \/ Raced(s) \/ Emit(s)
             \/ ReadStatus(s) \/ WriteStatus(s) \/ BulkReplay(s) \/ BulkRead(s)
             \/ BulkWrite(s) \/ BulkSave(s)
    BY <1>1, <2>1 DEF ReadMerchant, Lookup, Quote, Insert, Raced, Emit, ReadStatus, WriteStatus,
       BulkReplay, BulkRead, BulkWrite, BulkSave, rows, history
  <2>2. CASE \/ SweepRead(s) \/ SweepWrite(s) \/ SweepNotify(s) \/ SuspendRead(s)
             \/ MerchantRead(s) \/ SettlementRead(s) \/ SettlementWrite(s)
    BY <1>1, <2>2 DEF SweepRead, SweepWrite, SweepNotify, SuspendRead, MerchantRead,
       SettlementRead, SettlementWrite, rows, history
  <2>3. CASE CatalogueStep(s)
    BY <1>1, <2>3, CatalogueKeeps DEF rows, history
  <2>4. QED
    BY <1>2, <1>3, <1>4, <1>6, <1>7, <2>1, <2>2, <2>3 DEF Step
<1>8. CASE \/ \E s \in Slots : Arrival(s) \/ Fail(s)
           \/ \E p \in PayIds : Consume(p) \/ KeyExpires(p)
           \/ ListExpires \/ ReclaimExpiredKeys \/ UNCHANGED vars
  BY <1>1, <1>8 DEF Arrival, Receive, Fail, Consume, KeyExpires, ListExpires, ReclaimExpiredKeys,
     vars, rows, history
<1>9. QED
  BY <1>5, <1>7, <1>8 DEF Next

-----------------------------------------------------------------------------
(* Keys and answers                                                        *)

\* What a step does to the payments and to the answers.
AnswerLive(k) == UNCHANGED pay /\ answers' = [answers EXCEPT ![k] = @ \cup LiveWith(k)]

InsertRow(k, p) ==
    /\ p \in PayIds \ Created
    /\ k # NoKey => Holding(k) = {}
    /\ pay' = [pay EXCEPT ![p] = [status |-> "initiated", key |-> k, live |-> TRUE]]
    /\ answers' = [x \in Keys |-> IF x = k THEN answers[x] \cup {p} ELSE answers[x]]

PaymentEffect ==
    \/ UNCHANGED <<pay, answers, cancelled>>
    \/ UNCHANGED cancelled /\ \E k : AnswerLive(k)
    \/ UNCHANGED cancelled /\ \E k, p : InsertRow(k, p)
    \/ \E ps, st : st \in Final /\ SetStatus(ps, st) /\ UNCHANGED answers
    \/ \E p \in PayIds : KeyExpires(p)
    \/ ReclaimExpiredKeys

LEMMA PaymentEffects == PInv /\ [Next]_vars => PaymentEffect
<1> SUFFICES ASSUME PInv, [Next]_vars PROVE PaymentEffect
  OBVIOUS
<1> USE DEF PInv, PaymentEffect
<1>1. ASSUME NEW s \in Slots, Step(s) PROVE PaymentEffect
  <2>1. CASE Lookup(s)
    <3>1. UNCHANGED <<pay, cancelled>>
      BY <2>1 DEF Lookup, rows
    <3>2. UNCHANGED answers \/ \E k : answers' = [answers EXCEPT ![k] = @ \cup LiveWith(k)]
      BY <2>1 DEF Lookup
    <3>3. QED
      BY <3>1, <3>2 DEF AnswerLive
  <2>2. CASE Raced(s)
    BY <2>2 DEF Raced, AnswerLive, rows
  <2>3. CASE Insert(s)
    <3>1. UNCHANGED cancelled
      BY <2>3 DEF Insert
    <3>2. \/ UNCHANGED <<pay, answers>>
          \/ \E p \in PayIds \ Created : InsertRow(req[s].key, p)
      BY <2>3 DEF Insert, InsertRow
    <3>3. QED
      BY <3>1, <3>2
  <2>4. CASE WriteStatus(s)
    <3>1. req[s].arg.to \in Final
      BY <2>4 DEF Locals, Good, WriteStatus, At
    <3>2. QED
      BY <2>4, <3>1 DEF WriteStatus
  <2>5. CASE BulkWrite(s) \/ SweepWrite(s) \/ DeleteWrite(s)
    BY <2>5 DEF BulkWrite, SweepWrite, DeleteWrite, Final
  <2>6. CASE \/ ReadMerchant(s) \/ FillCache(s) \/ Quote(s) \/ Emit(s) \/ ReadStatus(s)
             \/ BulkReplay(s) \/ BulkRead(s) \/ BulkSave(s) \/ SweepRead(s) \/ SweepNotify(s)
    BY <2>6 DEF ReadMerchant, FillCache, Quote, Emit, ReadStatus, BulkReplay, BulkRead,
       BulkSave, SweepRead, SweepNotify, rows, history
  <2>7. CASE \/ SuspendRead(s) \/ SuspendWrite(s) \/ Invalidate(s) \/ MerchantRead(s)
             \/ RestoreWrite(s) \/ SettingsWrite(s) \/ SettlementRead(s) \/ SettlementWrite(s)
    BY <2>7 DEF SuspendRead, SuspendWrite, Invalidate, MerchantRead, RestoreWrite,
       SettingsWrite, SettlementRead, SettlementWrite, rows, history
  <2>8. CASE CatalogueStep(s)
    BY <2>8, CatalogueKeeps DEF rows, history
  <2>9. QED
    BY <1>1, <2>1, <2>2, <2>3, <2>4, <2>5, <2>6, <2>7, <2>8 DEF Step
<1>2. CASE \/ \E s \in Slots : Arrival(s) \/ Fail(s)
           \/ \E p \in PayIds : Consume(p)
           \/ CacheExpires \/ ListExpires \/ UNCHANGED vars
  BY <1>2 DEF Arrival, Receive, Fail, Consume, CacheExpires, ListExpires, vars, rows, history
<1>3. QED
  BY <1>1, <1>2 DEF Next

LEMMA KeyedStep == PInv /\ PaymentEffect => Keyed'
<1> SUFFICES ASSUME Tables, Rows, UniqueKey, AnswersLive, PaymentEffect
    PROVE  Tables' /\ Rows' /\ UniqueKey' /\ AnswersLive'
  BY DEF PInv, Keyed
<1>1. CASE UNCHANGED <<pay, answers, cancelled>>
  BY <1>1 DEF Tables, Rows, UniqueKey, AnswersLive
<1>2. ASSUME NEW k, AnswerLive(k), UNCHANGED cancelled
      PROVE  Tables' /\ Rows' /\ UniqueKey' /\ AnswersLive'
  <2>1. answers' = [answers EXCEPT ![k] = @ \cup LiveWith(k)] /\ UNCHANGED pay
    BY <1>2 DEF AnswerLive
  <2>2. Tables' /\ Rows' /\ UniqueKey'
    BY <1>2, <2>1 DEF Tables, Rows, UniqueKey
  <2>3. ASSUME NEW x \in Keys, NEW p \in answers'[x]
        PROVE  p \in PayIds /\ pay[p].key = x /\ pay[p].live
    <3>1. p \in answers[x] \/ (x = k /\ p \in LiveWith(k))
      BY <2>1, <2>3 DEF Tables
    <3>2. QED
      BY <3>1 DEF LiveWith, Holding, Created, AnswersLive
  <2>4. QED
    BY <2>1, <2>2, <2>3 DEF AnswersLive
<1>3. ASSUME NEW k, NEW p, InsertRow(k, p), UNCHANGED cancelled
      PROVE  Tables' /\ Rows' /\ UniqueKey' /\ AnswersLive'
  <2>1. p \in PayIds /\ pay[p].status = "none" /\ pay[p].key = NoKey
    BY <1>3 DEF InsertRow, Created, Rows
  <2>2. /\ pay'[p] = [status |-> "initiated", key |-> k, live |-> TRUE]
        /\ \A q \in PayIds : q # p => pay'[q] = pay[q]
        /\ pay' = [q \in PayIds |-> pay'[q]]
    BY <1>3, <2>1 DEF InsertRow, Tables
  <2>3. pay'[p].status = "initiated" /\ pay'[p].key = k /\ pay'[p].live
    BY <2>2
  <2>4. \A q \in PayIds : q # p /\ k # NoKey => pay[q].key # k
    BY <1>3 DEF InsertRow, Holding, Created, Rows
  <2>5. Rows'
    BY <1>3, <2>2, <2>3 DEF Rows, Final
  <2>6. UniqueKey'
    BY <2>2, <2>3, <2>4 DEF UniqueKey
  <2>7. answers' = [x \in Keys |-> IF x = k THEN answers[x] \cup {p} ELSE answers[x]]
    BY <1>3 DEF InsertRow
  <2>8. ASSUME NEW x \in Keys, NEW q \in answers'[x]
        PROVE  q \in PayIds /\ pay'[q].key = x /\ pay'[q].live
    <3>1. CASE q \in answers[x]
      <4>1. q \in PayIds /\ pay[q].key = x /\ pay[q].live
        BY <3>1 DEF AnswersLive
      <4>2. q # p
        BY <2>1, <4>1, PaymentsAssumption
      <4>3. QED
        BY <2>2, <4>1, <4>2
    <3>2. CASE x = k /\ q = p
      BY <2>1, <2>3, <3>2
    <3>3. QED
      BY <2>7, <2>8, <3>1, <3>2
  <2>9. QED
    BY <2>2, <2>5, <2>6, <2>7, <2>8 DEF Tables, AnswersLive
<1>4. ASSUME NEW ps, NEW st, st \in Final, SetStatus(ps, st), UNCHANGED answers
      PROVE  Tables' /\ Rows' /\ UniqueKey' /\ AnswersLive'
  <2>1. pay' = [p \in PayIds |-> IF p \in ps THEN [pay[p] EXCEPT !.status = st] ELSE pay[p]]
    BY <1>4 DEF SetStatus
  <2>2. \A p \in PayIds : /\ pay'[p] = [status |-> pay'[p].status, key |-> pay'[p].key,
                                        live |-> pay'[p].live]
                          /\ pay'[p].key = pay[p].key /\ pay'[p].live = pay[p].live
                          /\ pay'[p].status = IF p \in ps THEN st ELSE pay[p].status
    <3> SUFFICES ASSUME NEW p \in PayIds
        PROVE  /\ pay'[p] = [status |-> pay'[p].status, key |-> pay'[p].key,
                             live |-> pay'[p].live]
               /\ pay'[p].key = pay[p].key /\ pay'[p].live = pay[p].live
               /\ pay'[p].status = IF p \in ps THEN st ELSE pay[p].status
      OBVIOUS
    <3>1. pay[p] = [status |-> pay[p].status, key |-> pay[p].key, live |-> pay[p].live]
      BY DEF Rows
    <3>2. PICK row : row = [pay[p] EXCEPT !.status = st]
      OBVIOUS
    <3>3. /\ row = [status |-> row.status, key |-> row.key, live |-> row.live]
          /\ row.status = st /\ row.key = pay[p].key /\ row.live = pay[p].live
      BY <3>1, <3>2
    <3>4. pay'[p] = IF p \in ps THEN row ELSE pay[p]
      BY <2>1, <3>2
    <3>5. QED
      BY <3>1, <3>3, <3>4
  <2>3. /\ cancelled \subseteq cancelled'
        /\ st = "cancelled" => ps \subseteq cancelled'
    BY <1>4 DEF SetStatus
  <2>4. Rows'
    BY <1>4, <2>2, <2>3 DEF Rows, Final
  <2>5. Tables'
    BY <1>4, <2>1 DEF Tables
  <2>6. UniqueKey'
    BY <2>2, ZenonT(40) DEF UniqueKey
  <2>7. AnswersLive'
    BY <1>4, <2>2 DEF AnswersLive
  <2>8. QED
    BY <2>4, <2>5, <2>6, <2>7
<1>5. ASSUME NEW p \in PayIds, KeyExpires(p)
      PROVE  Tables' /\ Rows' /\ UniqueKey' /\ AnswersLive'
  <2>0. PICK row : row = [pay[p] EXCEPT !.live = FALSE]
    OBVIOUS
  <2>1. /\ pay' = [pay EXCEPT ![p] = row]
        /\ answers' = [answers EXCEPT ![pay[p].key] = {}]
        /\ UNCHANGED cancelled
    BY <1>5, <2>0 DEF KeyExpires
  <2>2. pay[p] = [status |-> pay[p].status, key |-> pay[p].key, live |-> pay[p].live]
    BY DEF Rows
  <2>3. /\ row = [status |-> row.status, key |-> row.key, live |-> row.live]
        /\ row.status = pay[p].status /\ row.key = pay[p].key
    BY <2>0, <2>2
  <2>4. /\ pay'[p] = row /\ \A q \in PayIds : q # p => pay'[q] = pay[q]
        /\ pay' = [q \in PayIds |-> pay'[q]] /\ answers' = [x \in Keys |-> answers'[x]]
    BY <2>1 DEF Tables
  <2>5. Rows'
    BY <2>1, <2>3, <2>4 DEF Rows
  <2>6. \A q \in PayIds : pay'[q].key = pay[q].key
    BY <2>3, <2>4
  <2>7. UniqueKey'
    BY <2>6 DEF UniqueKey
  <2>8. ASSUME NEW x \in Keys, NEW q \in answers'[x]
        PROVE  q \in PayIds /\ pay'[q].key = x /\ pay'[q].live
    <3>1. x # pay[p].key /\ q \in answers[x]
      BY <2>1, <2>8 DEF Tables
    <3>2. q \in PayIds /\ pay[q].key = x /\ pay[q].live
      BY <3>1 DEF AnswersLive
    <3>3. QED
      BY <2>4, <3>1, <3>2
  <2>9. QED
    BY <2>4, <2>5, <2>7, <2>8 DEF Tables, AnswersLive
<1>6. CASE ReclaimExpiredKeys
  <2>1. /\ pay' = [p \in PayIds |-> IF pay[p].live THEN pay[p]
                                    ELSE [pay[p] EXCEPT !.key = NoKey, !.live = TRUE]]
        /\ UNCHANGED <<answers, cancelled>>
    BY <1>6 DEF ReclaimExpiredKeys, history
  <2>2. ASSUME NEW q \in PayIds
        PROVE  /\ pay'[q] = [status |-> pay'[q].status, key |-> pay'[q].key,
                             live |-> pay'[q].live]
               /\ pay'[q].status = pay[q].status
               /\ pay[q].live => pay'[q] = pay[q]
               /\ ~pay[q].live => pay'[q].key = NoKey
    <3>1. pay[q] = [status |-> pay[q].status, key |-> pay[q].key, live |-> pay[q].live]
      BY DEF Rows
    <3>2. CASE pay[q].live
      BY <2>1, <3>1, <3>2
    <3>3. CASE ~pay[q].live
      <4>1. PICK row : row = [pay[q] EXCEPT !.key = NoKey, !.live = TRUE]
        OBVIOUS
      <4>2. pay'[q] = row
        BY <2>1, <3>3, <4>1
      <4>3. /\ row = [status |-> row.status, key |-> row.key, live |-> row.live]
            /\ row.status = pay[q].status /\ row.key = NoKey
        BY <3>1, <4>1
      <4>4. QED
        BY <3>3, <4>2, <4>3
    <3>4. QED
      BY <3>2, <3>3
  <2>3. Rows'
    BY <2>1, <2>2 DEF Rows
  <2>4. ASSUME NEW q \in PayIds, NEW r \in PayIds,
               pay'[q].key = pay'[r].key, pay'[q].key # NoKey
        PROVE  q = r
    <3>1. pay[q].live /\ pay[r].live
      BY <2>2, <2>4
    <3>2. pay'[q] = pay[q] /\ pay'[r] = pay[r]
      BY <2>2, <3>1
    <3>3. QED
      BY <2>4, <3>2 DEF UniqueKey
  <2>5. AnswersLive'
    BY <2>1, <2>2 DEF AnswersLive
  <2>6. Tables'
    BY <2>1 DEF Tables
  <2>7. QED
    BY <2>3, <2>4, <2>5, <2>6 DEF UniqueKey
<1>7. QED
  BY <1>1, <1>2, <1>3, <1>4, <1>5, <1>6 DEF PaymentEffect

-----------------------------------------------------------------------------
(* Summaries                                                               *)

LEMMA ReportedStep == PInv /\ [Next]_vars => Reported'
<1> SUFFICES ASSUME PInv, [Next]_vars PROVE Reported'
  OBVIOUS
<1> USE DEF PInv, Reported, ReportedCancelled
<1>1. cancelled \subseteq cancelled'
  BY PaymentEffects DEF PaymentEffect, SetStatus, KeyExpires, ReclaimExpiredKeys, history
<1>2. CASE UNCHANGED summary
  BY <1>1, <1>2
<1>3. ASSUME NEW s \in Slots, BulkSave(s) PROVE Reported'
  <2>1. req[s].saw.report \subseteq cancelled
    BY <1>3 DEF BulkSave, At, Locals, Good
  <2>2. summary' = [k \in Keys |-> IF k = req[s].key THEN req[s].saw.report ELSE summary[k]]
    BY <1>3 DEF BulkSave
  <2>3. QED
    BY <1>1, <2>1, <2>2
<1>4. ASSUME NEW s \in Slots, Step(s), ~BulkSave(s) PROVE UNCHANGED summary
  <2>1. CASE \/ ReadMerchant(s) \/ FillCache(s) \/ Lookup(s) \/ Quote(s) \/ Insert(s) \/ Raced(s)
             \/ Emit(s) \/ ReadStatus(s) \/ WriteStatus(s) \/ BulkReplay(s) \/ BulkRead(s)
             \/ BulkWrite(s) \/ SweepRead(s) \/ SweepWrite(s) \/ SweepNotify(s)
    BY <2>1 DEF ReadMerchant, FillCache, Lookup, Quote, Insert, Raced, Emit, ReadStatus,
       WriteStatus, BulkReplay, BulkRead, BulkWrite, SweepRead, SweepWrite, SweepNotify, queues
  <2>2. CASE \/ SuspendRead(s) \/ SuspendWrite(s) \/ Invalidate(s) \/ MerchantRead(s)
             \/ DeleteWrite(s) \/ RestoreWrite(s) \/ SettingsWrite(s)
             \/ SettlementRead(s) \/ SettlementWrite(s)
    BY <2>2 DEF SuspendRead, SuspendWrite, Invalidate, MerchantRead, DeleteWrite, RestoreWrite,
       SettingsWrite, SettlementRead, SettlementWrite, queues
  <2>3. CASE CatalogueStep(s)
    BY <2>3, CatalogueKeeps DEF queues
  <2>4. QED
    BY <1>4, <2>1, <2>2, <2>3 DEF Step
<1>5. CASE \/ \E s \in Slots : Arrival(s) \/ Fail(s)
           \/ \E p \in PayIds : Consume(p) \/ KeyExpires(p)
           \/ CacheExpires \/ ListExpires \/ ReclaimExpiredKeys \/ UNCHANGED vars
  <2>1. UNCHANGED summary
    BY <1>5 DEF Arrival, Receive, Fail, Consume, KeyExpires, CacheExpires, ListExpires,
       ReclaimExpiredKeys, vars, queues
  <2>2. QED
    BY <1>2, <2>1
<1>6. QED
  BY <1>2, <1>3, <1>4, <1>5 DEF Next

-----------------------------------------------------------------------------
(* The list of assets                                                      *)

\* A step of another request leaves the requests for the list as they are.
Moves(s) == Respond(s) \/ (\E pc : Goto(s, pc)) \/ (\E x, pc : Saw(s, x, pc))

LEMMA OthersStep ==
  ASSUME Locals, NEW s \in Slots, req[s].kind # "assets", Moves(s)
  PROVE  \A q \in Slots : req'[q].kind = "assets" => req'[q] = req[q]
<1>1. Shape(req[s])
  BY DEF Locals
<1>2. PICK v : req' = [req EXCEPT ![s] = v] /\ v.kind # "assets"
  <2>1. CASE Respond(s)
    <3>1. req' = [req EXCEPT ![s] = Idle] /\ Idle.kind # "assets"
      BY <2>1 DEF Respond, Idle
    <3>2. QED
      BY <3>1
  <2>2. ASSUME NEW pc, Goto(s, pc)
        PROVE  \E v : req' = [req EXCEPT ![s] = v] /\ v.kind # "assets"
    <3>1. PICK v : v = [req[s] EXCEPT !.pc = pc]
      OBVIOUS
    <3>2. v.kind = req[s].kind
      BY <1>1, <3>1 DEF Shape
    <3>3. QED
      BY <2>2, <3>1, <3>2 DEF Goto
  <2>3. ASSUME NEW x, NEW pc, Saw(s, x, pc)
        PROVE  \E v : req' = [req EXCEPT ![s] = v] /\ v.kind # "assets"
    <3>1. PICK v : v = [req[s] EXCEPT !.saw = x, !.pc = pc]
      OBVIOUS
    <3>2. v.kind = req[s].kind
      BY <1>1, <3>1 DEF Shape
    <3>3. QED
      BY <2>3, <3>1, <3>2 DEF Saw
  <2>4. QED
    BY <2>1, <2>2, <2>3 DEF Moves
<1>3. QED
  BY <1>2 DEF Locals

\* If the catalogue stays, the requests for the list may only stay, leave or arrive late.
LEMMA SameList ==
  ASSUME Listing, UNCHANGED <<asset, listed, pinned>>,
         \A q \in Slots : req'[q].kind = "assets" =>
            /\ req'[q].pc = "fill" => req[q].kind = "assets" /\ req[q].pc = "fill"
                                      /\ req'[q].saw = req[q].saw
            /\ req'[q].late => pinned
  PROVE  Listing'
BY DEF Listing, At

LEMMA SameRequests ==
  ASSUME Listing, UNCHANGED <<asset, listed, pinned>>,
         \A q \in Slots : req'[q].kind = "assets" => req'[q] = req[q]
  PROVE  Listing'
<1>1. \A q \in Slots : req'[q].kind = "assets" =>
         /\ req'[q].pc = "fill" => req[q].kind = "assets" /\ req[q].pc = "fill"
                                   /\ req'[q].saw = req[q].saw
         /\ req'[q].late => pinned
  BY DEF Listing
<1>2. QED
  BY <1>1, SameList

LEMMA OtherListing ==
  ASSUME Locals, Listing, NEW s \in Slots, Step(s), ~CatalogueStep(s)
  PROVE  Listing'
<1> USE DEF At, Moves
<1>0. UNCHANGED <<asset, listed, pinned>>
  <2>1. CASE \/ ReadMerchant(s) \/ FillCache(s) \/ Lookup(s) \/ Quote(s) \/ Insert(s) \/ Raced(s)
             \/ Emit(s) \/ ReadStatus(s) \/ WriteStatus(s) \/ BulkReplay(s) \/ BulkRead(s)
             \/ BulkWrite(s) \/ BulkSave(s)
    BY <2>1 DEF ReadMerchant, FillCache, Lookup, Quote, Insert, Raced, Emit, ReadStatus,
       WriteStatus, BulkReplay, BulkRead, BulkWrite, BulkSave, catalogue
  <2>2. CASE \/ SweepRead(s) \/ SweepWrite(s) \/ SweepNotify(s) \/ SuspendRead(s)
             \/ SuspendWrite(s) \/ Invalidate(s) \/ MerchantRead(s) \/ DeleteWrite(s)
             \/ RestoreWrite(s) \/ SettingsWrite(s) \/ SettlementRead(s) \/ SettlementWrite(s)
    BY <2>2 DEF SweepRead, SweepWrite, SweepNotify, SuspendRead, SuspendWrite, Invalidate,
       MerchantRead, DeleteWrite, RestoreWrite, SettingsWrite, SettlementRead, SettlementWrite,
       catalogue
  <2>3. QED
    BY <2>1, <2>2 DEF Step
<1>1. CASE SuspendWrite(s)
  <2>1. \A q \in Slots : req'[q].kind = "assets" => req'[q] = req[q]
    <3> SUFFICES ASSUME NEW q \in Slots, req'[q].kind = "assets" PROVE req'[q] = req[q]
      OBVIOUS
    <3>1. PICK v : v = [req[q] EXCEPT !.pc = "invalidate"]
      OBVIOUS
    <3>2. PICK w : w = [req[q] EXCEPT !.late = FALSE]
      OBVIOUS
    <3>3. Shape(req[q]) /\ req[s].kind # "assets"
      BY <1>1 DEF Locals, SuspendWrite
    <3>4. v.kind = req[q].kind /\ w.kind = req[q].kind
      BY <3>1, <3>2, <3>3 DEF Shape
    <3>5. req'[q] = IF q = s THEN v ELSE IF req[q].kind = "assets" THEN req[q] ELSE w
      BY <1>1, <3>1, <3>2 DEF SuspendWrite
    <3>6. QED
      BY <3>3, <3>4, <3>5
  <2>2. QED
    BY <1>0, <2>1, SameRequests
<1>2. CASE ~SuspendWrite(s)
  <2>1. req[s].kind # "assets" /\ Moves(s)
    <3>1. CASE ReadMerchant(s) \/ FillCache(s) \/ Lookup(s) \/ Quote(s) \/ Raced(s) \/ Emit(s)
      BY <3>1 DEF ReadMerchant, FillCache, Lookup, Quote, Raced, Emit
    <3>2. CASE Insert(s)
      BY <3>2 DEF Insert
    <3>3. CASE ReadStatus(s) \/ WriteStatus(s) \/ BulkReplay(s) \/ BulkWrite(s) \/ BulkSave(s)
      BY <3>3 DEF ReadStatus, WriteStatus, BulkReplay, BulkWrite, BulkSave
    <3>4. CASE BulkRead(s) \/ SweepRead(s)
      BY <3>4 DEF BulkRead, SweepRead
    <3>5. CASE SweepWrite(s) \/ SweepNotify(s) \/ SuspendRead(s) \/ Invalidate(s)
      BY <3>5 DEF SweepWrite, SweepNotify, SuspendRead, Invalidate
    <3>6. CASE MerchantRead(s) \/ DeleteWrite(s) \/ RestoreWrite(s) \/ SettingsWrite(s)
      BY <3>6 DEF MerchantRead, DeleteWrite, RestoreWrite, SettingsWrite
    <3>7. CASE SettlementRead(s) \/ SettlementWrite(s)
      BY <3>7 DEF SettlementRead, SettlementWrite
    <3>8. QED
      BY <1>2, <3>1, <3>2, <3>3, <3>4, <3>5, <3>6, <3>7 DEF Step
  <2>2. QED
    BY <1>0, <2>1, OthersStep, SameRequests
<1>3. QED
  BY <1>1, <1>2

LEMMA CatalogueListing ==
  ASSUME Locals, Listing, NEW s \in Slots, CatalogueStep(s)
  PROVE  Listing'
<1> USE DEF At
<1>0. ASSUME NEW q \in Slots, req' = [req EXCEPT ![s] = Idle]
      PROVE  req'[q].kind = "assets" => q # s /\ req'[q] = req[q]
  BY <1>0 DEF Locals, Idle
<1>1. CASE Respond(s) /\ UNCHANGED <<asset, listed, pinned>>
  BY <1>0, <1>1, SameRequests DEF Respond
<1>2. CASE Goto(s, "lookup") /\ UNCHANGED <<asset, listed, pinned>>
  <2>1. PICK v : v = [req[s] EXCEPT !.pc = "lookup"]
    OBVIOUS
  <2>2. v.kind = req[s].kind /\ v.pc = "lookup" /\ v.late = req[s].late
    BY <2>1 DEF Locals, Shape
  <2>3. \A q \in Slots : req'[q] = IF q = s THEN v ELSE req[q]
    BY <1>2, <2>1 DEF Goto, Locals
  <2>4. \A q \in Slots : req'[q].kind = "assets" =>
            /\ req'[q].pc = "fill" => req[q].kind = "assets" /\ req[q].pc = "fill"
                                      /\ req'[q].saw = req[q].saw
            /\ req'[q].late => pinned
    BY <2>2, <2>3 DEF Listing
  <2>5. QED
    BY <1>2, <2>4, SameList
<1>3. CASE ListRead(s)
  <2>1. PICK v : v = [req[s] EXCEPT !.saw = (asset = "active"), !.pc = "fill"]
    OBVIOUS
  <2>2. v.kind = req[s].kind /\ v.saw = (asset = "active") /\ v.late = req[s].late
    BY <2>1 DEF Locals, Shape
  <2>3. \A q \in Slots : req'[q] = IF q = s THEN v ELSE req[q]
    BY <1>3, <2>1 DEF ListRead, Saw, Locals
  <2>4. UNCHANGED <<asset, listed, pinned>>
    BY <1>3 DEF ListRead, catalogue
  <2>5. QED
    BY <2>2, <2>3, <2>4 DEF Listing
<1>4. CASE ListFill(s)
  <2>1. listed' = req[s].saw /\ UNCHANGED <<asset, pinned>> /\ req' = [req EXCEPT ![s] = Idle]
    BY <1>4 DEF ListFill, Respond
  <2>2. pinned => req[s].saw = (asset = "active")
    BY <1>4 DEF ListFill, Listing
  <2>3. QED
    BY <1>0, <2>1, <2>2 DEF Listing
<1>5. CASE InvalidateList(s)
  <2>1. listed' = None /\ pinned' = ListHolds /\ UNCHANGED asset
        /\ req' = [req EXCEPT ![s] = Idle]
    BY <1>5 DEF InvalidateList, Respond
  <2>2. ListHolds \in BOOLEAN /\ (pinned => ListHolds)
    BY DEF ListHolds, Listing
  <2>3. ListHolds => \A q \in Slots : req[q].kind = "assets" /\ req[q].pc = "fill"
                                      => req[q].saw = (asset = "active")
    BY DEF ListHolds
  <2>4. QED
    BY <1>0, <2>1, <2>2, <2>3 DEF Listing
<1>6. ASSUME NEW to, ChangeAsset(s, to), req[s].kind = "asset" PROVE Listing'
  <2>1. ASSUME NEW q \in Slots, req'[q].kind = "assets" PROVE ~req'[q].late
    <3>1. PICK v : v = [req[q] EXCEPT !.pc = "invalidate"]
      OBVIOUS
    <3>2. PICK w : w = [req[q] EXCEPT !.late = FALSE]
      OBVIOUS
    <3>3. v.kind = req[q].kind /\ w.kind = req[q].kind /\ w.late = FALSE
      BY <3>1, <3>2 DEF Locals, Shape
    <3>4. req'[q] = IF q = s THEN v ELSE IF req[q].kind = "assets" THEN w ELSE req[q]
      BY <1>6, <3>1, <3>2 DEF ChangeAsset
    <3>5. QED
      BY <1>6, <2>1, <3>3, <3>4
  <2>2. pinned' = FALSE
    BY <1>6 DEF ChangeAsset
  <2>3. QED
    BY <2>1, <2>2 DEF Listing
<1>7. CASE ListCached(s) \/ RefuseAsset(s)
  BY <1>1, <1>2, <1>7 DEF ListCached, RefuseAsset, catalogue
<1>8. CASE InvalidateListFails(s)
  <2>1. listed' \in {listed, None} /\ UNCHANGED <<asset, pinned>>
        /\ req' = [req EXCEPT ![s] = Idle]
    BY <1>8 DEF InvalidateListFails, Respond
  <2>2. QED
    BY <1>0, <2>1 DEF Listing
<1>9. QED
  BY <1>3, <1>4, <1>5, <1>6, <1>7, <1>8 DEF CatalogueStep, CreateAsset, UpdateAsset, DeleteAsset

LEMMA ListingStep == PInv /\ [Next]_vars => Listing'
<1> SUFFICES ASSUME PInv, [Next]_vars PROVE Listing'
  OBVIOUS
<1> USE DEF PInv
<1>1. ASSUME NEW s \in Slots, Step(s) PROVE Listing'
  BY <1>1, OtherListing, CatalogueListing
<1>2. ASSUME NEW s \in Slots, NEW kind, NEW arg, NEW key, Receive(s, kind, arg, key)
      PROVE  Listing'
  <2>1. PICK v : v = [Idle EXCEPT !.kind = kind, !.pc = "begin", !.arg = arg, !.key = key,
                                  !.late = IF kind = "assets" THEN pinned ELSE inForce]
    OBVIOUS
  <2>2. v.kind = kind /\ v.pc = "begin" /\ (kind = "assets" => v.late = pinned)
    BY <2>1, IdleIsGood DEF Shape
  <2>3. \A q \in Slots : req'[q] = IF q = s THEN v ELSE req[q]
    BY <1>2, <2>1 DEF Receive, Locals
  <2>4. UNCHANGED <<asset, listed, pinned>>
    BY <1>2 DEF Receive, catalogue
  <2>5. QED
    BY <2>2, <2>3, <2>4 DEF Listing, At
<1>3. ASSUME NEW s \in Slots, Fail(s) PROVE Listing'
  <2>1. PICK v : v = [req[s] EXCEPT !.pc = "lookup"]
    OBVIOUS
  <2>2. v.kind = req[s].kind /\ v.pc = "lookup" /\ v.late = req[s].late
    BY <2>1 DEF Locals, Shape
  <2>3. \/ \A q \in Slots : req'[q] = IF q = s THEN v ELSE req[q]
        \/ \A q \in Slots : req'[q] = IF q = s THEN Idle ELSE req[q]
    BY <1>3, <2>1 DEF Fail, Goto, Respond, Locals
  <2>4. UNCHANGED <<asset, listed, pinned>>
    BY <1>3 DEF Fail, catalogue
  <2>5. Idle.kind = "create"
    BY DEF Idle
  <2>6. QED
    BY <2>2, <2>3, <2>4, <2>5 DEF Listing, At
<1>4. CASE ListExpires
  <2>1. listed' = None /\ pinned' = ListHolds /\ UNCHANGED <<req, asset>>
    BY <1>4 DEF ListExpires
  <2>2. ListHolds \in BOOLEAN /\ (pinned => ListHolds)
    BY DEF ListHolds, Listing
  <2>3. ListHolds => \A q \in Slots : At(q, "assets", "fill") => req[q].saw = (asset = "active")
    BY DEF ListHolds
  <2>4. QED
    BY <2>1, <2>2, <2>3 DEF Listing, At
<1>5. CASE \/ \E p \in PayIds : Consume(p) \/ KeyExpires(p)
           \/ CacheExpires \/ ReclaimExpiredKeys \/ UNCHANGED vars
  <2>1. UNCHANGED <<req, asset, listed, pinned>>
    BY <1>5 DEF Consume, KeyExpires, CacheExpires, ReclaimExpiredKeys, vars, catalogue
  <2>2. QED
    BY <2>1 DEF Listing, At
<1>6. QED
  BY <1>1, <1>2, <1>3, <1>4, <1>5 DEF Next, Arrival

-----------------------------------------------------------------------------
(* The theorems                                                            *)

LEMMA Invariance == Spec => []PInv
<1>1. Init => PInv
  <2> SUFFICES ASSUME Init PROVE PInv
    OBVIOUS
  <2>1. req = [s \in Slots |-> Idle] /\ inForce = FALSE /\ cached = None
    BY DEF Init
  <2>2. Locals
    BY <2>1, IdleIsGood DEF Locals
  <2>3. pay = [p \in PayIds |-> [status |-> IF p = Old THEN "initiated" ELSE "none",
                                 key |-> NoKey, live |-> TRUE]]
        /\ answers = [k \in Keys |-> {}]
    BY DEF Init
  <2>4. \A p \in PayIds : /\ pay[p] = [status |-> pay[p].status, key |-> pay[p].key,
                                       live |-> pay[p].live]
                          /\ pay[p].status \in {"none", "initiated"} /\ pay[p].key = NoKey
    BY <2>3
  <2>5. Keyed
    BY <2>3, <2>4 DEF Keyed, Tables, Rows, UniqueKey, AnswersLive, Final
  <2>6. Reported
    BY DEF Init, Reported, ReportedCancelled
  <2>7. Suspension
    BY <2>1, PaymentsAssumption DEF Init, Suspension, Statuses
  <2>8. Listing
    <3>1. pinned = FALSE /\ \A s \in Slots : req[s].kind = "create"
      BY <2>1 DEF Init, Idle
    <3>2. QED
      BY <3>1 DEF Listing
  <2>9. QED
    BY <2>2, <2>5, <2>6, <2>7, <2>8 DEF PInv
<1>2. PInv /\ [Next]_vars => PInv'
  BY LocalsStep, SuspensionStep, PaymentEffects, KeyedStep, ReportedStep, ListingStep DEF PInv
<1>3. QED
  BY <1>1, <1>2, PTL DEF Spec

\* All answers to one key name one payment: the unique index admits one holder, an
\* answer names a live holder only, and no step frees the key of a live holder.
THEOREM RetriesSeeOnePaymentAlways == Spec => []RetriesSeeOnePayment
<1>1. PInv => RetriesSeeOnePayment
  <2> SUFFICES ASSUME PInv, NEW k \in Keys PROVE Cardinality(answers[k]) <= 1
    BY DEF RetriesSeeOnePayment
  <2>1. \A p, q \in answers[k] : p = q
    BY PaymentsAssumption DEF PInv, Keyed, AnswersLive, UniqueKey
  <2>2. CASE answers[k] = {}
    BY <2>2, FS_EmptySet
  <2>3. CASE answers[k] # {}
    <3>1. PICK p : answers[k] = {p}
      BY <2>1, <2>3
    <3>2. Cardinality({p}) = 1
      BY FS_Singleton
    <3>3. QED
      BY <3>1, <3>2
  <2>4. QED
    BY <2>2, <2>3
<1>2. QED
  BY <1>1, Invariance, PTL

\* An answered suspension holds for every creation that arrives later; and once the
\* handler of a change of the catalogue, or the end of its five minutes, has dropped
\* the cached list, every list asked for later has the change: older content can reach
\* a cache only from a read that was under way before.
THEOREM AnsweredChangesHoldAlways == Spec => []AnsweredChangesHold
<1>1. PInv => SuspensionTakesHold
  BY DEF PInv, Locals, Good, SuspensionTakesHold
<1>2. PInv => ListingTakesHold
  BY DEF PInv, Listing, ListingTakesHold, At
<1>3. QED
  BY <1>1, <1>2, Invariance, PTL DEF AnsweredChangesHold

\* A bulk-cancel summary that can be replayed is the truth about every payment it
\* reports, although other writers run between its read, its update and its reply.
THEOREM ReportedCancelledAlways == Spec => []ReportedCancelled
<1>1. PInv => ReportedCancelled
  BY DEF PInv, Reported
<1>2. QED
  BY <1>1, Invariance, PTL

\* A final payment status is left only under a writer that was overtaken after it
\* had read the payment as initiated.
THEOREM FinalUnlessOvertakenAlways == Spec => FinalUnlessOvertaken
<1>1. ASSUME PInv, [Next]_vars, NEW p \in PayIds,
             pay[p].status \in {"completed", "failed", "cancelled"},
             pay'[p].status # pay[p].status
      PROVE  \E s \in Slots : ReadAsInitiated(s, p)
  <2> USE <1>1 DEF PInv
  <2>1. /\ pay[p] = [status |-> pay[p].status, key |-> pay[p].key, live |-> pay[p].live]
        /\ pay = [q \in PayIds |-> pay[q]]
    BY DEF Keyed, Rows, Tables
  <2>2. pay' # pay
    OBVIOUS
  <2>3. ASSUME NEW s \in Slots, Step(s) PROVE \E q \in Slots : ReadAsInitiated(q, p)
    <3>1. ASSUME NEW ps, NEW st, SetStatus(ps, st) PROVE p \in ps
      BY <3>1 DEF SetStatus
    <3>2. CASE WriteStatus(s)
      <4>1. SetStatus({req[s].arg.p}, req[s].arg.to) /\ req[s].saw = "initiated"
        BY <3>2 DEF WriteStatus, At, Locals, Good
      <4>2. QED
        BY <3>1, <3>2, <4>1 DEF WriteStatus, ReadAsInitiated
    <3>3. CASE BulkWrite(s)
      BY <3>1, <3>3 DEF BulkWrite, ReadAsInitiated
    <3>4. CASE SweepWrite(s)
      BY <3>1, <3>4 DEF SweepWrite, ReadAsInitiated
    <3>5. CASE DeleteWrite(s)
      BY <3>1, <3>5 DEF DeleteWrite, Initiated
    <3>6. CASE Insert(s)
      <4>1. PICK q \in PayIds \ Created :
               pay' = [pay EXCEPT ![q] = [status |-> "initiated", key |-> req[s].key,
                                          live |-> TRUE]]
        BY <2>2, <3>6 DEF Insert
      <4>2. p # q
        BY <4>1 DEF Created
      <4>3. QED
        BY <2>1, <4>1, <4>2
    <3>7. CASE \/ ReadMerchant(s) \/ FillCache(s) \/ Lookup(s) \/ Quote(s) \/ Raced(s) \/ Emit(s)
               \/ ReadStatus(s) \/ BulkReplay(s) \/ BulkRead(s) \/ BulkSave(s) \/ SweepRead(s)
               \/ SweepNotify(s)
      BY <2>2, <3>7 DEF ReadMerchant, FillCache, Lookup, Quote, Raced, Emit, ReadStatus,
         BulkReplay, BulkRead, BulkSave, SweepRead, SweepNotify, rows
    <3>8. CASE \/ SuspendRead(s) \/ SuspendWrite(s) \/ Invalidate(s) \/ MerchantRead(s)
               \/ RestoreWrite(s) \/ SettingsWrite(s) \/ SettlementRead(s)
               \/ SettlementWrite(s)
      BY <2>2, <3>8 DEF SuspendRead, SuspendWrite, Invalidate, MerchantRead, RestoreWrite,
         SettingsWrite, SettlementRead, SettlementWrite, rows
    <3>9. CASE CatalogueStep(s)
      BY <2>2, <3>9, CatalogueKeeps DEF rows
    <3>10. QED
      BY <2>3, <3>2, <3>3, <3>4, <3>5, <3>6, <3>7, <3>8, <3>9 DEF Step
  <2>4. CASE \E q \in PayIds : KeyExpires(q)
    <3>1. PICK q \in PayIds : pay' = [pay EXCEPT ![q].live = FALSE]
      BY <2>4 DEF KeyExpires
    <3>2. PICK row : row = [pay[q] EXCEPT !.live = FALSE]
      OBVIOUS
    <3>3. pay'[q] = row
      BY <2>1, <3>1, <3>2
    <3>4. row.status = pay[q].status
      BY <3>2 DEF Keyed, Rows
    <3>5. QED
      BY <2>1, <3>1, <3>3, <3>4
  <2>5. CASE ReclaimExpiredKeys
    <3>1. pay'[p] = IF pay[p].live THEN pay[p]
                    ELSE [pay[p] EXCEPT !.key = NoKey, !.live = TRUE]
      BY <2>5 DEF ReclaimExpiredKeys
    <3>2. PICK row : row = [pay[p] EXCEPT !.key = NoKey, !.live = TRUE]
      OBVIOUS
    <3>3. row.status = pay[p].status
      BY <2>1, <3>2
    <3>4. QED
      BY <3>1, <3>2, <3>3
  <2>6. CASE \/ \E s \in Slots : Arrival(s) \/ Fail(s)
             \/ \E q \in PayIds : Consume(q)
             \/ CacheExpires \/ ListExpires \/ UNCHANGED vars
    BY <2>2, <2>6 DEF Arrival, Receive, Fail, Consume, CacheExpires, ListExpires, vars, rows
  <2>7. QED
    BY <2>3, <2>4, <2>5, <2>6 DEF Next
<1>2. PInv /\ [Next]_vars
      => [\A p \in PayIds :
            pay[p].status \in {"completed", "failed", "cancelled"} /\ pay'[p].status # pay[p].status
            => \E s \in Slots : ReadAsInitiated(s, p)]_vars
  BY <1>1
<1>3. QED
  BY <1>2, Invariance, PTL DEF Spec, FinalUnlessOvertaken
=============================================================================
