------------------------- MODULE PaymentLedgerProofs -------------------------
(***************************************************************************)
(* The ledger's safety for any number of payments, events, refunds and     *)
(* handlers, and under every combination of the modelled failures.         *)
(*                                                                         *)
(* Exclusive is why an event is announced once: the insert into            *)
(* payment_webhook_events admits one handler per event id, and no outbox   *)
(* row exists for the id while that handler may still write one.           *)
(* Backing is why stale copies do no harm to what a status claims: a copy  *)
(* was backed when it was read, and what backs it never goes away.         *)
(***************************************************************************)
EXTENDS PaymentLedger, TLAPS

Pending(d) == job[d] \in Events /\ pc[d] \in {"read", "apply"}

Exclusive ==
  /\ \A e \in Events : outbox[e] > 0 => outbox[e] = 1 /\ IdOf[e] \in seen
  /\ \A e, f \in Events :
       outbox[e] > 0 /\ outbox[f] > 0 /\ IdOf[e] = IdOf[f] => e = f
  /\ \A d \in Slots : Pending(d) =>
       /\ IdOf[job[d]] \in seen
       /\ \A e \in Events : IdOf[e] = IdOf[job[d]] => outbox[e] = 0
  /\ \A c, d \in Slots :
       Pending(c) /\ Pending(d) /\ IdOf[job[c]] = IdOf[job[d]] => c = d

(* A slot's event has been sent, its copy of the row is backed, and a      *)
(* refund about to be recorded has been paid if it had to be.              *)
Holding(d) ==
  /\ job[d] \in Events => job[d] \in sent
  /\ pc[d] \in {"apply", "call", "record"} => Backed(Payment(d), snap[d])
  /\ pc[d] = "record" /\ gateway[Payment(d)] = "RAZORPAY" =>
       job[d] \in refunded /\ ChargedBy(Payment(d), snap[d].attempt)

Backing == StatusIsBacked /\ \A d \in Slots : Holding(d)

IInv == TypeOK /\ Exclusive /\ Backing

(* What no step takes back: events, payments of the gateway, outbox rows. *)
Grows ==
  /\ gateway' = gateway
  /\ sent \subseteq sent'
  /\ refunded \subseteq refunded'
  /\ \A c \in Causes : outbox[c] > 0 => outbox'[c] > 0

-----------------------------------------------------------------------------
LEMMA InitIInv == Init => IInv
  BY LedgerAssumption DEF Init, IInv, TypeOK, Exclusive, Backing, Holding,
     StatusIsBacked, Backed, Fresh, Row, Statuses, Pending, Causes

(* The bookkeeping of one slot: what its goroutine serves and at which step. *)
Slot(j, l, r) ==
  /\ l \in {"apply", "mark", "note"} => j \in Events
  /\ l \in {"call", "record"} => j \in r
  /\ l = "read" => j \in Events \union r

SlotsOK ==
  /\ job \in [Slots -> Causes \union {None}]
  /\ pc \in [Slots -> {"idle", "read", "apply", "mark", "note", "call", "record"}]
  /\ snap \in [Slots -> Row]
  /\ \A d \in Slots : Slot(job[d], pc[d], requested)

(* A step that ends a goroutine leaves every slot in order. *)
LEMMA FinishSlots ==
  ASSUME TypeOK, NEW d \in Slots, Finish(d), requested' = requested
  PROVE  SlotsOK'
  BY LedgerAssumption
  DEF TypeOK, Finish, Start, SlotsOK, Slot, Fresh, Row, Statuses

(* So does one that moves a goroutine on to a step that fits its job. *)
LEMMA GotoSlots ==
  ASSUME TypeOK, NEW d \in Slots, NEW l, Goto(d, l), requested' = requested,
         snap' \in [Slots -> Row],
         \/ l \in {"apply", "mark", "note"} /\ job[d] \in Events
         \/ l \in {"call", "record"} /\ job[d] \in requested
  PROVE  SlotsOK'
  BY DEF TypeOK, Goto, SlotsOK, Slot

LEMMA UpdatedRow ==
  ASSUME NEW copy \in Row, NEW e \in Events
  PROVE  Updated(copy, e) \in Row
<1>1. NextStatus(KindOf[e]) \in Statuses
  BY DEF NextStatus, Statuses
<1>2. AttemptOf[e] \in Attempts
  BY LedgerAssumption
<1> QED
  BY <1>1, <1>2 DEF Updated, Row

LEMMA RefundedRow ==
  ASSUME NEW copy \in Row, NEW r \in Refunds
  PROVE  [copy EXCEPT !.status = "REFUNDED", !.refund = r] \in Row
  BY DEF Row, Statuses

(* Every step keeps the types. *)
LEMMA TypeStep == TypeOK /\ [Next]_vars => TypeOK'
<1> SUFFICES ASSUME TypeOK, [Next]_vars PROVE TypeOK' OBVIOUS
<1>a. TypeOK' <=> /\ faults' \in Scenarios
                  /\ known' \subseteq Payments
                  /\ gateway' \in [Payments -> {"RAZORPAY", "CASHFREE"}]
                  /\ sent' \subseteq Events /\ acked' \subseteq Events
                  /\ (seen \union processed \union noted)' \subseteq {IdOf[e] : e \in Events}
                  /\ row' \in [Payments -> Row]
                  /\ outbox' \in [Causes -> Nat]
                  /\ requested' \subseteq Refunds /\ refunded' \subseteq requested'
                  /\ SlotsOK'
  BY DEF TypeOK, SlotsOK, Slot
<1>1. ASSUME NEW e \in Events, Emit(e) PROVE TypeOK'
  BY <1>1 DEF Emit, TypeOK
<1>2. ASSUME NEW d \in Slots, NEW e \in Events, Receive(d, e) PROVE TypeOK'
  <2>1. CASE IdOf[e] \in seen
    BY <1>2, <2>1 DEF Receive, MayStart, TypeOK
  <2>2. CASE IdOf[e] \notin seen
    <3>1. SlotsOK'
      BY <1>2, <2>2, LedgerAssumption DEF Receive, MayStart, TypeOK, Start, SlotsOK, Slot, Causes
    <3>2. (seen \union processed \union noted)' \subseteq {IdOf[f] : f \in Events}
      BY <1>2, <2>2 DEF Receive, MayStart, TypeOK
    <3> QED
      BY <1>a, <1>2, <2>2, <3>1, <3>2 DEF Receive, MayStart, TypeOK
  <2> QED
    BY <2>1, <2>2
<1>3. ASSUME NEW d \in Slots, NEW e \in Events, ReceiveError(d, e) PROVE TypeOK'
  BY <1>3 DEF ReceiveError, TypeOK
<1>4. ASSUME NEW d \in Slots, NEW r \in Refunds, RequestRefund(d, r) PROVE TypeOK'
  <2>1. SlotsOK'
    BY <1>4, LedgerAssumption DEF RequestRefund, MayStart, TypeOK, Start, SlotsOK, Slot, Causes
  <2> QED
    BY <1>a, <1>4, <2>1 DEF RequestRefund, MayStart, TypeOK
<1>5. ASSUME NEW d \in Slots, ReadForEvent(d) PROVE TypeOK'
  <2>1. row[Payment(d)] \in Row
    BY <1>5, LedgerAssumption DEF ReadForEvent, TypeOK, Payment, Causes
  <2>2. snap' \in [Slots -> Row]
    BY <1>5, <2>1 DEF ReadForEvent, TypeOK
  <2>3. CASE Payment(d) \in known
    <3>1. SlotsOK'
      BY <1>5, <2>2, <2>3, GotoSlots DEF ReadForEvent
    <3> QED
      BY <1>a, <1>5, <3>1 DEF ReadForEvent, TypeOK
  <2>4. CASE Payment(d) \notin known
    <3>1. SlotsOK'
      BY <1>5, <2>2, <2>4, GotoSlots DEF ReadForEvent
    <3> QED
      BY <1>a, <1>5, <3>1 DEF ReadForEvent, TypeOK
  <2> QED
    BY <2>3, <2>4
<1>6. ASSUME NEW d \in Slots, ApplyEvent(d) PROVE TypeOK'
  <2>1. job[d] \in Events /\ snap[d] \in Row
    BY <1>6 DEF ApplyEvent, TypeOK
  <2>2. Updated(snap[d], job[d]) \in Row
    BY <2>1, UpdatedRow
  <2>3. row' \in [Payments -> Row]
    BY <1>6, <2>2 DEF ApplyEvent, TypeOK
  <2>4. outbox' \in [Causes -> Nat]
    <3>1. outbox[job[d]] + 1 \in Nat
      BY <2>1 DEF TypeOK, Causes
    <3> QED
      BY <1>6, <3>1 DEF ApplyEvent, TypeOK
  <2>5. SlotsOK'
    <3>1. requested' = requested /\ snap' \in [Slots -> Row]
      BY <1>6 DEF ApplyEvent, TypeOK
    <3>2. CASE Goto(d, "mark")
      BY <2>1, <3>1, <3>2, GotoSlots
    <3>3. CASE Goto(d, "note")
      BY <2>1, <3>1, <3>3, GotoSlots
    <3> QED
      BY <1>6, <3>2, <3>3 DEF ApplyEvent
  <2> QED
    BY <1>a, <1>6, <2>3, <2>4, <2>5 DEF ApplyEvent, TypeOK
<1>7. ASSUME NEW d \in Slots, MarkProcessed(d) PROVE TypeOK'
  <2>1. SlotsOK'
    BY <1>7, FinishSlots DEF MarkProcessed
  <2>2. job[d] \in Events
    BY <1>7 DEF MarkProcessed, TypeOK
  <2>3. PICK e \in Events : e = job[d]
    BY <2>2
  <2>4. (seen \union processed \union noted)' \subseteq {IdOf[f] : f \in Events}
    <3>1. IdOf[e] \in {IdOf[f] : f \in Events}
      OBVIOUS
    <3>2. /\ seen' = seen /\ processed' \subseteq processed \union {IdOf[e]}
          /\ noted' \subseteq noted \union {IdOf[e]}
      BY <1>7, <2>3 DEF MarkProcessed
    <3> QED
      BY <3>1, <3>2 DEF TypeOK
  <2> QED
    BY <1>a, <1>7, <2>1, <2>3, <2>4 DEF MarkProcessed, TypeOK
<1>8. ASSUME NEW d \in Slots, ReadForRefund(d) PROVE TypeOK'
  <2>1. row[Payment(d)] \in Row /\ job[d] \in requested
    BY <1>8, LedgerAssumption DEF ReadForRefund, TypeOK, Payment, Causes
  <2>2. SlotsOK'
    <3>1. CASE Refundable(row[Payment(d)])
      <4>1. snap' \in [Slots -> Row]
        BY <1>8, <2>1, <3>1 DEF ReadForRefund, TypeOK
      <4> QED
        BY <1>8, <2>1, <3>1, <4>1, GotoSlots DEF ReadForRefund
    <3>2. CASE ~ Refundable(row[Payment(d)])
      BY <1>8, <3>2, FinishSlots DEF ReadForRefund
    <3> QED
      BY <3>1, <3>2
  <2> QED
    BY <1>a, <1>8, <2>2 DEF ReadForRefund, TypeOK
<1>9. ASSUME NEW d \in Slots, GatewayRefunds(d) PROVE TypeOK'
  <2>1. job[d] \in requested
    BY <1>9 DEF GatewayRefunds, TypeOK
  <2>2. SlotsOK'
    BY <1>9, <2>1, GotoSlots DEF GatewayRefunds, TypeOK
  <2> QED
    BY <1>a, <1>9, <2>1, <2>2 DEF GatewayRefunds, TypeOK
<1>10. ASSUME NEW d \in Slots, GatewayRefuses(d) PROVE TypeOK'
  BY <1>a, <1>10, FinishSlots DEF GatewayRefuses, TypeOK
<1>11. ASSUME NEW d \in Slots, RecordRefund(d) PROVE TypeOK'
  <2>1. job[d] \in Refunds /\ snap[d] \in Row
    BY <1>11 DEF RecordRefund, TypeOK
  <2>2. row' \in [Payments -> Row]
    BY <1>11, <2>1, RefundedRow DEF RecordRefund, TypeOK
  <2>3. outbox' \in [Causes -> Nat]
    <3>1. outbox[job[d]] + 1 \in Nat
      BY <2>1 DEF TypeOK, Causes
    <3> QED
      BY <1>11, <3>1 DEF RecordRefund, TypeOK
  <2>4. SlotsOK'
    BY <1>11, FinishSlots DEF RecordRefund
  <2> QED
    BY <1>a, <1>11, <2>2, <2>3, <2>4 DEF RecordRefund, TypeOK
<1>12. ASSUME NEW d \in Slots, ProcessError(d) PROVE TypeOK'
  <2>1. SlotsOK'
    BY <1>12, GotoSlots DEF ProcessError, TypeOK
  <2> QED
    BY <1>a, <1>12, <2>1 DEF ProcessError, TypeOK
<1>13. ASSUME NEW d \in Slots, GatewayTimesOut(d) PROVE TypeOK'
  <2>1. job[d] \in requested
    BY <1>13 DEF GatewayTimesOut, TypeOK
  <2> QED
    BY <1>a, <1>13, <2>1, FinishSlots DEF GatewayTimesOut, TypeOK
<1>14. ASSUME NEW d \in Slots, RefundError(d) \/ Crash(d) PROVE TypeOK'
  BY <1>a, <1>14, FinishSlots DEF RefundError, Crash, TypeOK
<1>15. CASE UNCHANGED vars
  BY <1>15 DEF vars, TypeOK
<1> QED
  BY <1>1, <1>2, <1>3, <1>4, <1>5, <1>6, <1>7, <1>8, <1>9, <1>10, <1>11,
     <1>12, <1>13, <1>14, <1>15 DEF Next, Webhook, Refund, Failure

-----------------------------------------------------------------------------
(* Exclusive needs to look only at who is pending, at the event ids seen   *)
(* and at the outbox; a step that lets go of a job or keeps it preserves   *)
(* it as long as the outbox keeps its event rows.                          *)
Quiet ==
  /\ seen \subseteq seen'
  /\ \A e \in Events : outbox'[e] = outbox[e]
  /\ \A d \in Slots : Pending(d)' => Pending(d) /\ job'[d] = job[d]

LEMMA QuietStep == Exclusive /\ Quiet => Exclusive'
<1> SUFFICES ASSUME Exclusive, Quiet PROVE Exclusive' OBVIOUS
<1>1. \A e \in Events : outbox'[e] > 0 => outbox'[e] = 1 /\ IdOf[e] \in seen'
  BY DEF Exclusive, Quiet
<1>2. \A e, f \in Events :
        outbox'[e] > 0 /\ outbox'[f] > 0 /\ IdOf[e] = IdOf[f] => e = f
  BY DEF Exclusive, Quiet
<1>3. \A d \in Slots : Pending(d)' =>
        /\ IdOf[job'[d]] \in seen'
        /\ \A e \in Events : IdOf[e] = IdOf[job'[d]] => outbox'[e] = 0
  BY DEF Exclusive, Quiet
<1>4. \A c, d \in Slots :
        Pending(c)' /\ Pending(d)' /\ IdOf[job'[c]] = IdOf[job'[d]] => c = d
  BY DEF Exclusive, Quiet
<1> QED
  BY <1>1, <1>2, <1>3, <1>4 DEF Exclusive

(* The insert admits a first handler for an id, and only a first one. *)
LEMMA ReceiveExclusive ==
  ASSUME TypeOK, Exclusive, NEW d \in Slots, NEW e \in Events, Receive(d, e)
  PROVE  Exclusive'
<1>1. CASE IdOf[e] \in seen
  <2>1. Quiet
    BY <1>1 DEF Receive, MayStart, Quiet, Pending
  <2> QED
    BY <2>1, QuietStep
<1>2. CASE IdOf[e] \notin seen
  <2>1. seen' = seen \union {IdOf[e]} /\ outbox' = outbox
    BY <1>2 DEF Receive, MayStart
  <2>2. \A c \in Slots : Pending(c)' => \/ c = d /\ job'[c] = e
                                        \/ c # d /\ Pending(c) /\ job'[c] = job[c]
    BY <1>2 DEF Receive, MayStart, Start, Pending, TypeOK
  <2>3. \A f \in Events : IdOf[f] = IdOf[e] => outbox[f] = 0
    BY <1>2 DEF Exclusive, TypeOK, Causes
  <2>4. \A c \in Slots : Pending(c) => IdOf[job[c]] # IdOf[e]
    BY <1>2 DEF Exclusive
  <2>5. \A f \in Events : outbox'[f] > 0 => outbox'[f] = 1 /\ IdOf[f] \in seen'
    BY <2>1 DEF Exclusive
  <2>6. \A f, g \in Events :
          outbox'[f] > 0 /\ outbox'[g] > 0 /\ IdOf[f] = IdOf[g] => f = g
    BY <2>1 DEF Exclusive
  <2>7. \A c \in Slots : Pending(c)' =>
          /\ IdOf[job'[c]] \in seen'
          /\ \A f \in Events : IdOf[f] = IdOf[job'[c]] => outbox'[f] = 0
    BY <2>1, <2>2, <2>3 DEF Exclusive
  <2>8. \A b, c \in Slots :
          Pending(b)' /\ Pending(c)' /\ IdOf[job'[b]] = IdOf[job'[c]] => b = c
    BY <2>2, <2>4 DEF Exclusive
  <2> QED
    BY <2>5, <2>6, <2>7, <2>8 DEF Exclusive
<1> QED
  BY <1>1, <1>2

(* The one admitted handler writes the id's one outbox row. *)
LEMMA ApplyExclusive ==
  ASSUME TypeOK, Exclusive, NEW d \in Slots, ApplyEvent(d)
  PROVE  Exclusive'
<1>1. job[d] \in Events /\ Pending(d)
  BY DEF ApplyEvent, TypeOK, Pending
<1>2. \A c \in Slots : Pending(c)' => c # d /\ Pending(c) /\ job'[c] = job[c]
  BY DEF ApplyEvent, Goto, Pending, TypeOK
<1>3. \A c \in Slots : c # d /\ Pending(c) => IdOf[job[c]] # IdOf[job[d]]
  BY <1>1 DEF Exclusive
<1>4. seen' = seen /\ outbox[job[d]] = 0
  BY <1>1 DEF ApplyEvent, Exclusive
<1>5. \A e \in Events : outbox'[e] = outbox[e] \/ (e = job[d] /\ outbox'[e] = 1)
  <2>1. CASE KindOf[job[d]] = "payment.authorized"
    BY <2>1 DEF ApplyEvent
  <2>2. CASE KindOf[job[d]] # "payment.authorized"
    <3>1. outbox' = [outbox EXCEPT ![job[d]] = 1]
      BY <1>4, <2>2 DEF ApplyEvent
    <3> QED
      BY <1>1, <3>1 DEF TypeOK, Causes
  <2> QED
    BY <2>1, <2>2
<1>6. \A e \in Events : outbox'[e] > 0 => outbox'[e] = 1 /\ IdOf[e] \in seen'
  BY <1>1, <1>4, <1>5 DEF Exclusive
<1>7. \A e, f \in Events :
        outbox'[e] > 0 /\ outbox'[f] > 0 /\ IdOf[e] = IdOf[f] => e = f
  <2> SUFFICES ASSUME NEW e \in Events, NEW f \in Events,
                      outbox'[e] > 0, outbox'[f] > 0, IdOf[e] = IdOf[f]
               PROVE  e = f
    OBVIOUS
  <2>1. CASE IdOf[e] = IdOf[job[d]]
    <3>1. outbox[e] = 0 /\ outbox[f] = 0
      BY <1>1, <2>1 DEF Exclusive
    <3> QED
      BY <1>5, <3>1
  <2>2. CASE IdOf[e] # IdOf[job[d]]
    <3>1. outbox'[e] = outbox[e] /\ outbox'[f] = outbox[f]
      BY <1>5, <2>2
    <3> QED
      BY <3>1 DEF Exclusive
  <2> QED
    BY <2>1, <2>2
<1>8. \A c \in Slots : Pending(c)' =>
        /\ IdOf[job'[c]] \in seen'
        /\ \A e \in Events : IdOf[e] = IdOf[job'[c]] => outbox'[e] = 0
  BY <1>2, <1>3, <1>4, <1>5 DEF Exclusive
<1>9. \A b, c \in Slots :
        Pending(b)' /\ Pending(c)' /\ IdOf[job'[b]] = IdOf[job'[c]] => b = c
  BY <1>2 DEF Exclusive
<1> QED
  BY <1>6, <1>7, <1>8, <1>9 DEF Exclusive

LEMMA ExclusiveStep == TypeOK /\ Exclusive /\ [Next]_vars => Exclusive'
<1> SUFFICES ASSUME TypeOK, Exclusive, [Next]_vars PROVE Exclusive' OBVIOUS
<1> USE DEF Quiet, Pending, Goto, Finish, Start, TypeOK
<1>1. ASSUME NEW e \in Events, Emit(e) PROVE Quiet
  BY <1>1 DEF Emit
<1>2. ASSUME NEW d \in Slots, NEW e \in Events, ReceiveError(d, e) PROVE Quiet
  BY <1>2 DEF ReceiveError
<1>3. ASSUME NEW d \in Slots, NEW r \in Refunds, RequestRefund(d, r) PROVE Quiet
  BY <1>3, LedgerAssumption DEF RequestRefund, MayStart
<1>4. ASSUME NEW d \in Slots, ReadForEvent(d) PROVE Quiet
  BY <1>4 DEF ReadForEvent
<1>5. ASSUME NEW d \in Slots, MarkProcessed(d) PROVE Quiet
  BY <1>5 DEF MarkProcessed
<1>6. ASSUME NEW d \in Slots, ReadForRefund(d) PROVE Quiet
  BY <1>6 DEF ReadForRefund
<1>7. ASSUME NEW d \in Slots, GatewayRefunds(d) \/ GatewayRefuses(d) PROVE Quiet
  BY <1>7 DEF GatewayRefunds, GatewayRefuses
<1>8. ASSUME NEW d \in Slots, RecordRefund(d) PROVE Quiet
  <2>1. job[d] \notin Events
    BY <1>8, LedgerAssumption DEF RecordRefund
  <2>2. \A e \in Events : outbox'[e] = outbox[e]
    BY <1>8, <2>1 DEF RecordRefund, Causes
  <2> QED
    BY <1>8, <2>2 DEF RecordRefund
<1>9. ASSUME NEW d \in Slots, Failure(d) PROVE Quiet
  BY <1>9 DEF Failure, ProcessError, GatewayTimesOut, RefundError, Crash
<1>10. CASE UNCHANGED vars
  <2>1. Quiet
    BY <1>10 DEF vars
  <2> QED
    BY <2>1, QuietStep
<1> QED
  BY <1>1, <1>2, <1>3, <1>4, <1>5, <1>6, <1>7, <1>8, <1>9, <1>10, QuietStep,
     ReceiveExclusive, ApplyExclusive DEF Next, Webhook, Refund

-----------------------------------------------------------------------------
(* What backs a row or a copy of a row never goes away. *)
LEMMA BackedGrows ==
  ASSUME TypeOK, Grows, NEW p \in Payments, NEW r \in Row, Backed(p, r)
  PROVE  Backed(p, r)'
<1>1. r.refund # None => r.refund \in Refunds
  BY DEF Row
<1>2. \A e \in Events : e \in sent /\ outbox[e] > 0 => e \in sent' /\ outbox'[e] > 0
  BY DEF Grows, Causes
<1>3. ChargedBy(p, r.attempt) => ChargedBy(p, r.attempt)'
  BY DEF ChargedBy, Grows
<1>4. sent \subseteq Events
  BY DEF TypeOK
<1> QED
  BY <1>1, <1>2, <1>3, <1>4 DEF Backed, Grows, Causes

(* A slot that a step leaves alone still holds what it held. *)
LEMMA HoldingGrows ==
  ASSUME TypeOK, Grows, NEW d \in Slots, Holding(d),
         job'[d] = job[d], pc'[d] = pc[d], snap'[d] = snap[d]
  PROVE  Holding(d)'
<1>1. pc[d] \in {"apply", "call", "record"} => Payment(d) \in Payments
  BY LedgerAssumption DEF TypeOK, Payment, Causes
<1>2. snap[d] \in Row /\ Payment(d)' = Payment(d)
  BY DEF TypeOK, Payment
<1>3. pc[d] \in {"apply", "call", "record"} => Backed(Payment(d), snap[d])'
  BY <1>1, <1>2, BackedGrows DEF Holding
<1>4. ChargedBy(Payment(d), snap[d].attempt) => ChargedBy(Payment(d), snap[d].attempt)'
  BY <1>2 DEF ChargedBy, Grows
<1> QED
  BY <1>2, <1>3, <1>4 DEF Holding, Grows

(* A step that writes no payment and moves one slot. *)
LEMMA OneSlot ==
  ASSUME TypeOK, Backing, Grows, row' = row, NEW d \in Slots, Holding(d)',
         \A c \in Slots \ {d} : job'[c] = job[c] /\ pc'[c] = pc[c] /\ snap'[c] = snap[c]
  PROVE  Backing'
<1>1. \A c \in Slots : Holding(c)'
  BY HoldingGrows DEF Backing
<1>2. StatusIsBacked'
  <2> SUFFICES ASSUME NEW p \in Payments PROVE Backed(p, row[p])'
    BY DEF StatusIsBacked
  <2>1. row[p] \in Row /\ Backed(p, row[p])
    BY DEF TypeOK, Backing, StatusIsBacked
  <2>2. \A r \in Row : Backed(p, r) => Backed(p, r)'
    BY BackedGrows
  <2> QED
    BY <2>1, <2>2
<1> QED
  BY <1>1, <1>2 DEF Backing

(* A step that writes one payment from a row that is backed afterwards. *)
LEMMA OneWrite ==
  ASSUME TypeOK, Backing, Grows, NEW d \in Slots, Holding(d)',
         NEW p \in Payments, NEW r \in Row, row' = [row EXCEPT ![p] = r], Backed(p, r)',
         \A c \in Slots \ {d} : job'[c] = job[c] /\ pc'[c] = pc[c] /\ snap'[c] = snap[c]
  PROVE  Backing'
<1>1. \A c \in Slots : Holding(c)'
  BY HoldingGrows DEF Backing
<1>2. StatusIsBacked'
  <2> SUFFICES ASSUME NEW q \in Payments PROVE Backed(q, row[q])'
    BY DEF StatusIsBacked
  <2>1. CASE q = p
    <3>1. row'[q] = r
      BY <2>1 DEF TypeOK
    <3> QED
      BY <2>1, <3>1
  <2>2. CASE q # p
    <3>1. row'[q] = row[q] /\ row[q] \in Row /\ Backed(q, row[q])
      BY <2>2 DEF TypeOK, Backing, StatusIsBacked
    <3>2. \A s \in Row : Backed(q, s) => Backed(q, s)'
      BY BackedGrows
    <3> QED
      BY <3>1, <3>2
  <2> QED
    BY <2>1, <2>2
<1> QED
  BY <1>1, <1>2 DEF Backing

(* A goroutine that has ended holds nothing. *)
LEMMA FinishHolding ==
  ASSUME TypeOK, NEW d \in Slots, Finish(d)
  PROVE  /\ Holding(d)'
         /\ \A c \in Slots \ {d} :
              job'[c] = job[c] /\ pc'[c] = pc[c] /\ snap'[c] = snap[c]
  BY LedgerAssumption DEF Finish, Start, Holding, TypeOK, Causes

LEMMA ApplyBacking ==
  ASSUME TypeOK, Backing, NEW d \in Slots, ApplyEvent(d)
  PROVE  Backing'
<1> SUFFICES ASSUME NEW e, e = job[d], NEW p, p = Payment(d),
                    NEW r, r = Updated(snap[d], e)
             PROVE  Backing'
  OBVIOUS
<1>1. e \in Events /\ e \in sent /\ p = PaymentOf[e] /\ p \in Payments
  BY LedgerAssumption DEF ApplyEvent, TypeOK, Backing, Holding, Payment, Causes
<1>2. r \in Row /\ snap[d] \in Row
  BY <1>1, UpdatedRow DEF TypeOK
<1>3. Grows
  <2>1. \A c \in Causes : outbox[c] > 0 => outbox[c] + 1 > 0
    BY DEF TypeOK
  <2> QED
    BY <1>1, <2>1 DEF ApplyEvent, Grows, TypeOK, Causes
<1>4. r.status = NextStatus(KindOf[e])
  BY <1>2 DEF Updated, Row
<1>5. KindOf[e] # "payment.failed" => r.attempt = AttemptOf[e]
  BY <1>2 DEF Updated, Row
<1>6. KindOf[e] # "payment.authorized" => outbox'[e] > 0
  <2>1. outbox[e] + 1 > 0
    BY <1>1 DEF TypeOK, Causes
  <2> QED
    BY <1>1, <2>1 DEF ApplyEvent, TypeOK, Causes
<1>7. sent' = sent
  BY DEF ApplyEvent
<1>8. Backed(p, r)'
  <2>1. r.status \in {"SUCCESS", "FAILED", "AUTHORIZED"}
    BY <1>4 DEF NextStatus
  <2>2. ASSUME r.status = "SUCCESS"
        PROVE  PaymentOf[e] = p /\ AttemptOf[e] = r.attempt /\ KindOf[e] \in Charging
    BY <1>1, <1>4, <1>5, <2>2 DEF NextStatus, Charging, Failing
  <2>3. ASSUME r.status = "FAILED" PROVE PaymentOf[e] = p /\ KindOf[e] \in Failing
    BY <1>1, <1>4, <2>3 DEF NextStatus
  <2> QED
    BY <1>1, <1>6, <1>7, <2>1, <2>2, <2>3 DEF Backed, Charging, Failing
<1>9. Holding(d)'
  BY <1>1, <1>7 DEF ApplyEvent, Goto, Holding, TypeOK
<1>10. \A c \in Slots \ {d} :
         job'[c] = job[c] /\ pc'[c] = pc[c] /\ snap'[c] = snap[c]
  BY DEF ApplyEvent, Goto, TypeOK
<1>11. row' = [row EXCEPT ![p] = r]
  BY DEF ApplyEvent
<1> QED
  BY <1>1, <1>2, <1>3, <1>8, <1>9, <1>10, <1>11, OneWrite

LEMMA RecordBacking ==
  ASSUME TypeOK, Backing, NEW d \in Slots, RecordRefund(d)
  PROVE  Backing'
<1> SUFFICES ASSUME NEW c, c = job[d], NEW p, p = Payment(d),
                    NEW r, r = [snap[d] EXCEPT !.status = "REFUNDED", !.refund = c]
             PROVE  Backing'
  OBVIOUS
<1>1. c \in Refunds /\ c \in Causes /\ c # None /\ p = PaymentOf[c] /\ p \in Payments
  BY LedgerAssumption DEF RecordRefund, TypeOK, Payment, Causes
<1>2. snap[d] \in Row /\ r \in Row
  BY <1>1, RefundedRow DEF TypeOK
<1>3. r.status = "REFUNDED" /\ r.refund = c /\ r.attempt = snap[d].attempt
  BY <1>2 DEF Row
<1>4. outbox[c] + 1 > 0 /\ \A b \in Causes : outbox[b] > 0 => outbox[b] + 1 > 0
  BY <1>1 DEF TypeOK
<1>5. outbox'[c] > 0 /\ Grows
  BY <1>1, <1>4 DEF RecordRefund, Grows, TypeOK
<1>6. gateway[p] = "RAZORPAY" => c \in refunded' /\ ChargedBy(p, r.attempt)'
  BY <1>3 DEF RecordRefund, Backing, Holding, ChargedBy
<1>7. Backed(p, r)'
  BY <1>1, <1>3, <1>5, <1>6 DEF Backed, Grows
<1>8. Finish(d) /\ row' = [row EXCEPT ![p] = r]
  BY DEF RecordRefund
<1> QED
  BY <1>1, <1>2, <1>5, <1>7, <1>8, FinishHolding, OneWrite

LEMMA BackingStep == TypeOK /\ Backing /\ [Next]_vars => Backing'
<1> SUFFICES ASSUME TypeOK, Backing, [Next]_vars PROVE Backing' OBVIOUS
<1>1. ASSUME NEW e \in Events, Emit(e) PROVE Backing'
  <2>1. Grows /\ row' = row
    BY <1>1 DEF Emit, Grows
  <2>2. \A d \in Slots : job'[d] = job[d] /\ pc'[d] = pc[d] /\ snap'[d] = snap[d]
    BY <1>1 DEF Emit
  <2>3. \A d \in Slots : Holding(d)'
    BY <2>1, <2>2, HoldingGrows DEF Backing
  <2>4. StatusIsBacked'
    BY <2>1, BackedGrows DEF StatusIsBacked, Backing, TypeOK
  <2> QED
    BY <2>3, <2>4 DEF Backing
<1>2. ASSUME NEW d \in Slots, NEW e \in Events, Receive(d, e) PROVE Backing'
  <2>1. Grows /\ row' = row /\ sent' = sent /\ e \in sent
    BY <1>2 DEF Receive, MayStart, Grows
  <2>2. \A c \in Slots \ {d} : job'[c] = job[c] /\ pc'[c] = pc[c] /\ snap'[c] = snap[c]
    BY <1>2 DEF Receive, MayStart, Start, TypeOK
  <2>3. Holding(d)'
    <3>1. CASE IdOf[e] \in seen
      BY <1>2, <3>1 DEF Receive, MayStart, Backing, Holding
    <3>2. CASE IdOf[e] \notin seen
      BY <1>2, <3>2 DEF Receive, MayStart, Start, Holding, TypeOK
    <3> QED
      BY <3>1, <3>2
  <2> QED
    BY <2>1, <2>2, <2>3, OneSlot
<1>3. ASSUME NEW d \in Slots, NEW e \in Events, ReceiveError(d, e) PROVE Backing'
  BY <1>3, OneSlot, HoldingGrows DEF ReceiveError, Grows, Backing
<1>4. ASSUME NEW d \in Slots, NEW r \in Refunds, RequestRefund(d, r) PROVE Backing'
  <2>1. Grows /\ row' = row
    BY <1>4 DEF RequestRefund, MayStart, Grows
  <2>2. \A c \in Slots \ {d} : job'[c] = job[c] /\ pc'[c] = pc[c] /\ snap'[c] = snap[c]
    BY <1>4 DEF RequestRefund, MayStart, Start, TypeOK
  <2>3. Holding(d)'
    BY <1>4, LedgerAssumption DEF RequestRefund, MayStart, Start, Holding, TypeOK
  <2> QED
    BY <2>1, <2>2, <2>3, OneSlot
<1>5. ASSUME NEW d \in Slots, ReadForEvent(d) PROVE Backing'
  <2>1. Grows /\ row' = row
    BY <1>5 DEF ReadForEvent, Grows
  <2>2. \A c \in Slots \ {d} : job'[c] = job[c] /\ pc'[c] = pc[c] /\ snap'[c] = snap[c]
    BY <1>5 DEF ReadForEvent, Goto, TypeOK
  <2>3. Payment(d) \in Payments /\ Payment(d)' = Payment(d)
    BY <1>5, LedgerAssumption DEF ReadForEvent, Goto, Payment, Causes
  <2>4. /\ job'[d] = job[d]
        /\ \/ pc'[d] = "note"
           \/ pc'[d] = "apply" /\ snap'[d] = row[Payment(d)]
    BY <1>5 DEF ReadForEvent, Goto, TypeOK
  <2>5. pc'[d] = "apply" => Backed(Payment(d), snap[d])'
    <3>1. row[Payment(d)] \in Row /\ Backed(Payment(d), row[Payment(d)])
      BY <2>3 DEF TypeOK, Backing, StatusIsBacked
    <3>2. \A p \in Payments, r \in Row : Backed(p, r) => Backed(p, r)'
      BY <2>1, BackedGrows
    <3> QED
      BY <2>3, <2>4, <3>1, <3>2
  <2>6. Holding(d)'
    BY <1>5, <2>4, <2>5 DEF Holding, Backing, ReadForEvent
  <2> QED
    BY <2>1, <2>2, <2>6, OneSlot
<1>6. ASSUME NEW d \in Slots, ApplyEvent(d) PROVE Backing'
  BY <1>6, ApplyBacking
<1>7. ASSUME NEW d \in Slots, Finish(d), Grows, row' = row PROVE Backing'
  BY <1>7, FinishHolding, OneSlot
<1>8. ASSUME NEW d \in Slots, ReadForRefund(d) PROVE Backing'
  <2>1. Grows /\ row' = row
    BY <1>8 DEF ReadForRefund, Grows
  <2>2. CASE ~ Refundable(row[Payment(d)])
    BY <1>7, <1>8, <2>1, <2>2 DEF ReadForRefund
  <2>3. CASE Refundable(row[Payment(d)])
    <3>1. \A c \in Slots \ {d} : job'[c] = job[c] /\ pc'[c] = pc[c] /\ snap'[c] = snap[c]
      BY <1>8, <2>3 DEF ReadForRefund, Goto, TypeOK
    <3>2. Payment(d) \in Payments /\ Payment(d)' = Payment(d)
      BY <1>8, <2>3, LedgerAssumption DEF ReadForRefund, Goto, Payment, Causes
    <3>3. snap'[d] = row[Payment(d)] /\ job'[d] = job[d] /\ pc'[d] = "call"
      BY <1>8, <2>3 DEF ReadForRefund, Goto, TypeOK
    <3>4. Backed(Payment(d), snap[d])'
      <4>1. row[Payment(d)] \in Row /\ Backed(Payment(d), row[Payment(d)])
        BY <3>2 DEF TypeOK, Backing, StatusIsBacked
      <4>2. \A p \in Payments, r \in Row : Backed(p, r) => Backed(p, r)'
        BY <2>1, BackedGrows
      <4> QED
        BY <3>2, <3>3, <4>1, <4>2
    <3>5. Holding(d)'
      BY <1>8, <3>3, <3>4, LedgerAssumption DEF Holding, ReadForRefund
    <3> QED
      BY <2>1, <3>1, <3>5, OneSlot
  <2> QED
    BY <2>2, <2>3
<1>9. ASSUME NEW d \in Slots, GatewayRefunds(d) PROVE Backing'
  <2>1. Grows /\ row' = row
    BY <1>9 DEF GatewayRefunds, Grows
  <2>2. \A c \in Slots \ {d} : job'[c] = job[c] /\ pc'[c] = pc[c] /\ snap'[c] = snap[c]
    BY <1>9 DEF GatewayRefunds, Goto, TypeOK
  <2>3. Payment(d) \in Payments /\ Payment(d)' = Payment(d) /\ snap[d] \in Row
    BY <1>9, LedgerAssumption DEF GatewayRefunds, Goto, Payment, Causes, TypeOK
  <2>4. Backed(Payment(d), snap[d])'
    <3>1. Backed(Payment(d), snap[d]) /\ snap' = snap
      BY <1>9 DEF GatewayRefunds, Backing, Holding
    <3>2. \A p \in Payments, r \in Row : Backed(p, r) => Backed(p, r)'
      BY <2>1, BackedGrows
    <3> QED
      BY <2>3, <3>1, <3>2
  <2>5. gateway[Payment(d)] = "RAZORPAY" =>
          job[d] \in refunded' /\ ChargedBy(Payment(d), snap[d].attempt)'
    BY <1>9, <2>3 DEF GatewayRefunds, ChargedBy
  <2>6. Holding(d)'
    BY <1>9, <2>3, <2>4, <2>5, LedgerAssumption DEF GatewayRefunds, Goto, Holding, TypeOK
  <2> QED
    BY <2>1, <2>2, <2>6, OneSlot
<1>10. ASSUME NEW d \in Slots, RecordRefund(d) PROVE Backing'
  BY <1>10, RecordBacking
<1>11. ASSUME NEW d \in Slots, MarkProcessed(d) \/ GatewayRefuses(d) PROVE Backing'
  BY <1>7, <1>11 DEF MarkProcessed, GatewayRefuses, Grows
<1>12. ASSUME NEW d \in Slots, ProcessError(d) PROVE Backing'
  <2>1. Grows /\ row' = row
    BY <1>12 DEF ProcessError, Grows
  <2>2. \A c \in Slots \ {d} : job'[c] = job[c] /\ pc'[c] = pc[c] /\ snap'[c] = snap[c]
    BY <1>12 DEF ProcessError, Goto, TypeOK
  <2>3. Holding(d)'
    BY <1>12 DEF ProcessError, Goto, Holding, Backing, TypeOK
  <2> QED
    BY <2>1, <2>2, <2>3, OneSlot
<1>13. ASSUME NEW d \in Slots, GatewayTimesOut(d) \/ RefundError(d) \/ Crash(d)
       PROVE  Backing'
  BY <1>7, <1>13 DEF GatewayTimesOut, RefundError, Crash, Grows
<1>14. CASE UNCHANGED vars
  <2>1. Grows /\ row' = row
    BY <1>14 DEF vars, Grows
  <2>2. \A d \in Slots : Holding(d)'
    BY <1>14, <2>1, HoldingGrows DEF vars, Backing
  <2>3. StatusIsBacked'
    BY <2>1, BackedGrows DEF StatusIsBacked, Backing, TypeOK
  <2> QED
    BY <2>2, <2>3 DEF Backing
<1> QED
  BY <1>1, <1>2, <1>3, <1>4, <1>5, <1>6, <1>8, <1>9, <1>10, <1>11, <1>12,
     <1>13, <1>14 DEF Next, Webhook, Refund, Failure

-----------------------------------------------------------------------------
LEMMA SpecIInv == Spec => []IInv
<1>1. IInv /\ [Next]_vars => IInv'
  BY TypeStep, ExclusiveStep, BackingStep DEF IInv
<1> QED
  BY InitIInv, <1>1, PTL DEF Spec

(* The state keeps its shape: a goroutine of the webhook handlers always   *)
(* works on an event and one of InitiateRefund on a requested refund.      *)
THEOREM TypeCorrect == Spec => []TypeOK
<1>1. IInv => TypeOK
  BY DEF IInv
<1> QED
  BY SpecIInv, <1>1, PTL

(* The idempotency table does its work: redelivery, concurrent deliveries  *)
(* and failures never make two outbox rows for one event id.               *)
THEOREM AnnouncedOnce == Spec => []EventAnnouncedOnce
<1>1. IInv => EventAnnouncedOnce
  <2> SUFFICES ASSUME IInv PROVE EventAnnouncedOnce OBVIOUS
  <2>1. \A e \in Events : outbox[e] \in Nat
    BY DEF IInv, TypeOK, Causes
  <2>2. \A e \in Events : outbox[e] > 0 => outbox[e] = 1
    BY DEF IInv, Exclusive
  <2>3. \A e \in Events : outbox[e] <= 1
    BY <2>1, <2>2
  <2> QED
    BY <2>3 DEF IInv, Exclusive, EventAnnouncedOnce
<1> QED
  BY SpecIInv, <1>1, PTL

(* The status column never claims more than what the gateways did and the  *)
(* outbox announces, whatever the order of events, refunds and failures.   *)
THEOREM BackedStatus == Spec => []StatusIsBacked
<1>1. IInv => StatusIsBacked
  BY DEF IInv, Backing
<1> QED
  BY SpecIInv, <1>1, PTL
-----------------------------------------------------------------------------
(* Refunds are announced: the slot that has the gateway's answer is the    *)
(* only one that can leave "record", and only by writing the outbox row.   *)
(* Where handlers of a payment come in turn, each slot's copy is the row   *)
(* as it is, so the row keeps naming a refund once one is recorded.        *)
IdleSlots == \A d \in Slots : pc[d] = "idle" => job[d] = None

Alone ==
  \A c, d \in Slots :
    job[c] # None /\ job[d] # None /\ PaymentOf[job[c]] = PaymentOf[job[d]] => c = d

Copy(d) ==
  pc[d] \in {"apply", "call", "record"} =>
    /\ snap[d] = row[Payment(d)]
    /\ pc[d] = "call" => row[Payment(d)].status # "REFUNDED"

Copies == \A d \in Slots : Copy(d)

RefundsNamed == \A r \in Refunds : outbox[r] > 0 => NamesARefund(PaymentOf[r])

InTurn == "overlap" \notin faults => Alone /\ Copies /\ RefundsNamed

(* Event ids.  Who marks an event without a message has announced it, and  *)
(* where the database and the replicas do not fail, an id that is taken is *)
(* in some handler's hands, has been dealt with, or is marked as one that  *)
(* names no payment.                                                       *)
ServiceIsUp == faults \intersect {"db", "crash"} = {}
DealtWith(id) ==
  \E e \in sent : IdOf[e] = id /\ (TellsOutcome(e) => outbox[e] > 0)
Unknown(id) == id \in noted /\ \E e \in sent : IdOf[e] = id /\ PaymentOf[e] \notin known

IdsAreTaken ==
  /\ \A e \in acked : e \in sent /\ IdOf[e] \in seen
  /\ \A d \in Slots : job[d] \in Events => IdOf[job[d]] \in seen

OnlyKnown ==
  /\ \A e \in Events : outbox[e] > 0 => PaymentOf[e] \in known
  /\ \A d \in Slots : pc[d] = "apply" => Payment(d) \in known

MarkedIsDone ==
  \A d \in Slots :
    /\ pc[d] = "mark" /\ TellsOutcome(job[d]) => outbox[job[d]] > 0
    /\ pc[d] = "note" /\ ServiceIsUp => PaymentOf[job[d]] \notin known

ProcessedIsDealtWith == \A id \in processed \ noted : DealtWith(id)

TakenIsDealtWith ==
  ServiceIsUp => \A id \in seen : InHand(id) \/ DealtWith(id) \/ Unknown(id)

AInv ==
  IdsAreTaken /\ OnlyKnown /\ MarkedIsDone /\ ProcessedIsDealtWith /\ TakenIsDealtWith

LEMMA InitAInv == Init => RefundIsAnnounced /\ IdleSlots /\ InTurn /\ AInv
  BY LedgerAssumption
  DEF Init, RefundIsAnnounced, AInv, IdleSlots, IdsAreTaken, OnlyKnown, MarkedIsDone,
      ProcessedIsDealtWith, TakenIsDealtWith, Causes, InTurn, Alone, Copies, Copy,
      RefundsNamed

LEMMA DatabaseDown == "db" \in faults => ~ ServiceIsUp
  BY DEF ServiceIsUp

LEMMA FaultsStay == [Next]_vars => faults' = faults /\ known' = known
  BY DEF Next, Webhook, Refund, Failure, Emit, Receive, ReceiveError,
         RequestRefund, ReadForEvent, ApplyEvent, MarkProcessed,
         ReadForRefund, GatewayRefunds, GatewayRefuses, RecordRefund,
         ProcessError, GatewayTimesOut, RefundError, Crash, vars

(* A row once announced stays so. *)
LEMMA OutboxGrows ==
  ASSUME TypeOK, [Next]_vars, NEW c \in Causes, outbox[c] > 0
  PROVE  outbox'[c] > 0
<1>1. ASSUME NEW d \in Causes, outbox' = [outbox EXCEPT ![d] = @ + 1]
      PROVE  outbox'[c] > 0
  BY <1>1 DEF TypeOK
<1>2. ASSUME NEW d \in Slots, ApplyEvent(d) PROVE outbox'[c] > 0
  BY <1>1, <1>2 DEF ApplyEvent, TypeOK
<1>3. ASSUME NEW d \in Slots, RecordRefund(d) PROVE outbox'[c] > 0
  BY <1>1, <1>3 DEF RecordRefund, TypeOK
<1> QED
  BY <1>2, <1>3
  DEF Next, Webhook, Refund, Failure, Emit, Receive, ReceiveError,
      RequestRefund, ReadForEvent, MarkProcessed, ReadForRefund,
      GatewayRefunds, GatewayRefuses, ProcessError, GatewayTimesOut,
      RefundError, Crash, vars

LEMMA RefundIsAnnouncedStep ==
  ASSUME TypeOK, RefundIsAnnounced, [Next]_vars
  PROVE  RefundIsAnnounced'
<1> DEFINE AtRecord(r) == \E d \in Slots : job[d] = r /\ pc[d] = "record"
<1> SUFFICES ASSUME faults \subseteq {"overlap"}, NEW r \in refunded'
             PROVE  outbox'[r] > 0 \/ AtRecord(r)'
  BY FaultsStay DEF RefundIsAnnounced
<1>1. CASE r \in refunded /\ outbox[r] > 0
  BY <1>1, OutboxGrows DEF TypeOK, Causes
<1>2. CASE r \in refunded /\ ~ outbox[r] > 0
  <2>1. PICK d \in Slots : job[d] = r /\ pc[d] = "record"
    BY <1>2 DEF RefundIsAnnounced
  <2>2. r \in Causes
    BY <1>2 DEF TypeOK, Causes
  <2> DEFINE Kept == job'[d] = r /\ pc'[d] = "record"
  <2> USE DEF TypeOK, Goto, Finish, Start
  <2>3. ASSUME NEW e \in Events, Emit(e) PROVE Kept
    BY <2>1, <2>3 DEF Emit
  <2>4. ASSUME NEW c \in Slots, NEW e \in Events, Receive(c, e) \/ ReceiveError(c, e)
        PROVE  Kept
    BY <2>1, <2>4 DEF Receive, MayStart, ReceiveError
  <2>5. ASSUME NEW c \in Slots, NEW s \in Refunds, RequestRefund(c, s) PROVE Kept
    BY <2>1, <2>5 DEF RequestRefund, MayStart
  <2>6. ASSUME NEW c \in Slots, Webhook(c) PROVE Kept
    BY <2>1, <2>6 DEF Webhook, ReadForEvent, ApplyEvent, MarkProcessed
  <2>7. ASSUME NEW c \in Slots, Failure(c) PROVE Kept
    BY <2>1, <2>7 DEF Failure, ProcessError, GatewayTimesOut, RefundError, Crash
  <2>8. ASSUME NEW c \in Slots, ReadForRefund(c) \/ GatewayRefunds(c) \/ GatewayRefuses(c)
        PROVE  Kept
    BY <2>1, <2>8 DEF ReadForRefund, GatewayRefunds, GatewayRefuses
  <2>9. ASSUME NEW c \in Slots, RecordRefund(c) PROVE Kept \/ outbox'[r] > 0
    <3>1. CASE c = d
      <4>1. outbox[r] + 1 > 0
        BY <2>2
      <4> QED
        BY <2>1, <2>2, <2>9, <3>1, <4>1 DEF RecordRefund
    <3>2. CASE c # d
      BY <2>1, <2>9, <3>2 DEF RecordRefund
    <3> QED
      BY <3>1, <3>2
  <2>10. CASE UNCHANGED vars
    BY <2>1, <2>10 DEF vars
  <2> QED
    BY <2>3, <2>4, <2>5, <2>6, <2>7, <2>8, <2>9, <2>10 DEF Next, Refund
<1>3. CASE r \notin refunded
  <2>1. ASSUME NEW d \in Slots, GatewayRefunds(d) PROVE AtRecord(r)'
    BY <1>3, <2>1 DEF GatewayRefunds, Goto, TypeOK
  <2>2. \A d \in Slots : ~ GatewayTimesOut(d)
    BY DEF GatewayTimesOut
  <2> QED
    BY <1>3, <2>1, <2>2
    DEF Next, Webhook, Refund, Failure, Emit, Receive, ReceiveError,
        RequestRefund, ReadForEvent, ApplyEvent, MarkProcessed, ReadForRefund,
        GatewayRefuses, RecordRefund, ProcessError, RefundError, Crash, vars
<1> QED
  BY <1>1, <1>2, <1>3

-----------------------------------------------------------------------------
LEMMA IdleSlotsStep ==
  ASSUME TypeOK, IdleSlots, [Next]_vars
  PROVE  IdleSlots'
<1> USE DEF IdleSlots, TypeOK, Goto, Finish, Start
<1>1. ASSUME NEW e \in Events, Emit(e) PROVE IdleSlots'
  BY <1>1 DEF Emit
<1>2. ASSUME NEW c \in Slots, NEW e \in Events, Receive(c, e) \/ ReceiveError(c, e)
      PROVE  IdleSlots'
  BY <1>2 DEF Receive, MayStart, ReceiveError
<1>3. ASSUME NEW c \in Slots, NEW s \in Refunds, RequestRefund(c, s) PROVE IdleSlots'
  BY <1>3 DEF RequestRefund, MayStart
<1>4. ASSUME NEW c \in Slots, Webhook(c) PROVE IdleSlots'
  BY <1>4 DEF Webhook, ReadForEvent, ApplyEvent, MarkProcessed
<1>5. ASSUME NEW c \in Slots, Failure(c) PROVE IdleSlots'
  BY <1>5 DEF Failure, ProcessError, GatewayTimesOut, RefundError, Crash
<1>6. ASSUME NEW c \in Slots, Refund(c) PROVE IdleSlots'
  BY <1>6 DEF Refund, ReadForRefund, GatewayRefunds, GatewayRefuses, RecordRefund
<1>7. CASE UNCHANGED vars
  BY <1>7 DEF vars
<1> QED
  BY <1>1, <1>2, <1>3, <1>4, <1>5, <1>6, <1>7 DEF Next

(* Events and taken ids only grow, and a slot that serves an event has     *)
(* served it before or has just taken its id.                              *)
LEMMA JobStep ==
  ASSUME TypeOK, IdleSlots, Backing, [Next]_vars
  PROVE  /\ seen \subseteq seen' /\ sent \subseteq sent'
         /\ \A d \in Slots : job'[d] \in Events /\ job'[d] # job[d] =>
              job'[d] \in sent /\ IdOf[job'[d]] \in seen' /\ job[d] = None
         /\ \A d \in Slots : job[d] \in Events /\ job'[d] # job[d] /\ ServiceIsUp
              => MarkProcessed(d)
<1> USE DEF TypeOK, IdleSlots, Goto, Finish, Start
<1>1. ASSUME NEW e \in Events, Emit(e) PROVE seen' = seen /\ sent \subseteq sent' /\ job' = job
  BY <1>1 DEF Emit
<1>2. ASSUME NEW c \in Slots, NEW e \in Events, Receive(c, e) \/ ReceiveError(c, e)
      PROVE  /\ seen \subseteq seen' /\ sent' = sent
             /\ \/ job' = job
                \/ /\ job' = [job EXCEPT ![c] = e] /\ job[c] = None
                   /\ e \in sent /\ IdOf[e] \in seen'
  BY <1>2 DEF Receive, MayStart, ReceiveError
<1>3. ASSUME NEW c \in Slots, NEW s \in Refunds, RequestRefund(c, s)
      PROVE  /\ seen' = seen /\ sent' = sent
             /\ job' = [job EXCEPT ![c] = s] /\ job[c] = None /\ s \notin Events
  BY <1>3, LedgerAssumption DEF RequestRefund, MayStart
<1>4. ASSUME NEW c \in Slots, Webhook(c), ~ MarkProcessed(c)
      PROVE  seen' = seen /\ sent' = sent /\ job' = job
  BY <1>4 DEF Webhook, ReadForEvent, ApplyEvent
<1>5. ASSUME NEW c \in Slots, MarkProcessed(c)
      PROVE  seen' = seen /\ sent' = sent /\ job' = [job EXCEPT ![c] = None]
  BY <1>5 DEF MarkProcessed
<1>6. ASSUME NEW c \in Slots, Refund(c)
      PROVE  /\ seen' = seen /\ sent' = sent
             /\ \/ job' = job
                \/ job' = [job EXCEPT ![c] = None] /\ job[c] \notin Events
  BY <1>6, LedgerAssumption
  DEF Refund, ReadForRefund, GatewayRefunds, GatewayRefuses, RecordRefund
<1>7. ASSUME NEW c \in Slots, Failure(c)
      PROVE  /\ seen' = seen /\ sent' = sent
             /\ \/ job' = job
                \/ job' = [job EXCEPT ![c] = None] /\ (ServiceIsUp => job[c] \notin Events)
  BY <1>7, LedgerAssumption
  DEF Failure, ProcessError, GatewayTimesOut, RefundError, Crash, ServiceIsUp
<1>8. CASE UNCHANGED vars
  BY <1>8 DEF vars
<1>9. None \notin Events
  BY LedgerAssumption DEF Causes
<1> QED
  BY <1>1, <1>2, <1>3, <1>4, <1>5, <1>6, <1>7, <1>8, <1>9 DEF Next

LEMMA IdsAreTakenStep ==
  ASSUME TypeOK, IdleSlots, IdsAreTaken, Backing, [Next]_vars
  PROVE  IdsAreTaken'
<1>1. \A d \in Slots : job'[d] \in Events => IdOf[job'[d]] \in seen'
  BY JobStep DEF IdsAreTaken
<1>2. ASSUME NEW e \in acked' PROVE e \in sent' /\ IdOf[e] \in seen'
  <2>1. CASE e \in acked
    BY <2>1, JobStep DEF IdsAreTaken
  <2>2. CASE e \notin acked
    <3>1. ASSUME NEW d \in Slots, NEW f \in Events, Receive(d, f)
          PROVE  e \in sent' /\ IdOf[e] \in seen'
      BY <1>2, <2>2, <3>1 DEF Receive, MayStart
    <3>2. ASSUME NEW d \in Slots, MarkProcessed(d)
          PROVE  e \in sent' /\ IdOf[e] \in seen'
      <4>1. e = job[d] /\ job[d] \in Events /\ seen' = seen /\ sent' = sent
        BY <1>2, <2>2, <3>2 DEF MarkProcessed, TypeOK
      <4> QED
        BY <4>1 DEF IdsAreTaken, Backing, Holding
    <3> QED
      BY <1>2, <2>2, <3>1, <3>2
      DEF Next, Webhook, Refund, Failure, Emit, ReceiveError, RequestRefund,
          ReadForEvent, ApplyEvent, ReadForRefund, GatewayRefunds,
          GatewayRefuses, RecordRefund, ProcessError, GatewayTimesOut,
          RefundError, Crash, vars
  <2> QED
    BY <2>1, <2>2
<1> QED
  BY <1>1, <1>2 DEF IdsAreTaken

(* A handler reaches "mark" by its outbox row, or has nothing to announce, *)
(* and "note", in a service that is up, for want of a payment.             *)
LEMMA MarkedIsDoneStep ==
  ASSUME TypeOK, MarkedIsDone, [Next]_vars
  PROVE  MarkedIsDone'
<1> DEFINE Done(d) ==
      /\ pc[d] = "mark" /\ TellsOutcome(job[d]) => outbox[job[d]] > 0
      /\ pc[d] = "note" /\ ServiceIsUp => PaymentOf[job[d]] \notin known
<1> SUFFICES ASSUME NEW d \in Slots PROVE Done(d)'
  BY DEF MarkedIsDone
<1> DEFINE Stays == pc'[d] = pc[d] /\ job'[d] = job[d]
<1> USE DEF TypeOK, Goto, Finish, Start
<1>1. CASE Stays
  <2>1. pc[d] = "mark" => job[d] \in Causes
    BY DEF Causes
  <2>2. Done(d)
    BY DEF MarkedIsDone
  <2>3. pc[d] = "mark" /\ TellsOutcome(job[d]) => outbox'[job[d]] > 0
    BY <2>1, <2>2, OutboxGrows
  <2> QED
    BY <1>1, <2>2, <2>3, FaultsStay DEF TellsOutcome, ServiceIsUp
<1> DEFINE Elsewhere == pc'[d] \notin {"mark", "note"}
<1>2. CASE Elsewhere
  BY <1>2
<1>3. ASSUME NEW e \in Events, Emit(e) PROVE Stays
  BY <1>3 DEF Emit
<1>4. ASSUME NEW c \in Slots, NEW e \in Events, Receive(c, e) \/ ReceiveError(c, e)
      PROVE  Stays \/ Done(d)'
  BY <1>4 DEF Receive, MayStart, ReceiveError, TellsOutcome, Charging, Failing
<1>5. ASSUME NEW c \in Slots, NEW s \in Refunds, RequestRefund(c, s)
      PROVE  Stays \/ Elsewhere
  BY <1>5 DEF RequestRefund, MayStart
<1>6. ASSUME NEW c \in Slots, ApplyEvent(c) PROVE Stays \/ Done(d)'
  <2>1. CASE c = d
    <3>1. job'[d] = job[d] /\ job[d] \in Events /\ job[d] \in Causes
      BY <1>6, <2>1 DEF ApplyEvent, Causes
    <3>2. pc'[d] = "mark" \/ (pc'[d] = "note" /\ ~ ServiceIsUp)
      BY <1>6, <2>1, DatabaseDown DEF ApplyEvent
    <3>3. CASE TellsOutcome(job[d])
      <4>1. outbox' = [outbox EXCEPT ![job[d]] = @ + 1]
        BY <1>6, <2>1, <3>1, <3>3 DEF ApplyEvent, TellsOutcome, Charging, Failing
      <4>2. outbox[job[d]] + 1 > 0
        BY <3>1
      <4>3. outbox'[job'[d]] > 0
        BY <3>1, <4>1, <4>2
      <4> QED
        BY <3>2, <4>3, FaultsStay DEF ServiceIsUp
    <3>4. CASE ~ TellsOutcome(job[d])
      BY <3>1, <3>2, <3>4, FaultsStay DEF ServiceIsUp, TellsOutcome
    <3> QED
      BY <3>3, <3>4
  <2>2. CASE c # d
    BY <1>6, <2>2 DEF ApplyEvent
  <2> QED
    BY <2>1, <2>2
<1>7. ASSUME NEW c \in Slots, ReadForEvent(c) PROVE Stays \/ Done(d)'
  BY <1>7 DEF ReadForEvent, Payment
<1>8. ASSUME NEW c \in Slots, MarkProcessed(c) PROVE Stays \/ Elsewhere
  BY <1>8 DEF MarkProcessed
<1>9. ASSUME NEW c \in Slots, Refund(c) PROVE Stays \/ Elsewhere
  BY <1>9 DEF Refund, ReadForRefund, GatewayRefunds, GatewayRefuses, RecordRefund
<1>10. ASSUME NEW c \in Slots, ProcessError(c) PROVE Stays \/ Done(d)'
  BY <1>10, FaultsStay DEF ProcessError, ServiceIsUp
<1>11. ASSUME NEW c \in Slots, GatewayTimesOut(c) \/ RefundError(c) \/ Crash(c)
       PROVE  Stays \/ Elsewhere
  BY <1>11 DEF GatewayTimesOut, RefundError, Crash
<1>12. ASSUME UNCHANGED vars PROVE Stays
  BY <1>12 DEF vars
<1> QED
  BY <1>1, <1>2, <1>3, <1>4, <1>5, <1>6, <1>7, <1>8, <1>9, <1>10, <1>11, <1>12
  DEF Next, Webhook, Failure

(* Only events of known payments reach the row and the outbox. *)
LEMMA OnlyKnownStep ==
  ASSUME TypeOK, OnlyKnown, [Next]_vars
  PROVE  OnlyKnown'
<1> USE DEF TypeOK, Goto, Finish, Start
<1>1. known' = known
  BY FaultsStay
<1>2. ASSUME NEW d \in Slots, pc'[d] = "apply" PROVE Payment(d)' \in known
  <2> DEFINE Stays == pc'[d] = pc[d] /\ job'[d] = job[d]
             Elsewhere == pc'[d] # "apply"
  <2>1. CASE Stays
    BY <1>2, <2>1 DEF OnlyKnown, Payment
  <2>2. ASSUME NEW e \in Events, Emit(e) PROVE Stays
    BY <2>2 DEF Emit
  <2>3. ASSUME NEW c \in Slots, NEW e \in Events, Receive(c, e) \/ ReceiveError(c, e)
        PROVE  Stays \/ Elsewhere
    BY <2>3 DEF Receive, MayStart, ReceiveError
  <2>4. ASSUME NEW c \in Slots, NEW r \in Refunds, RequestRefund(c, r)
        PROVE  Stays \/ Elsewhere
    BY <2>4 DEF RequestRefund, MayStart
  <2>5. ASSUME NEW c \in Slots, ReadForEvent(c) PROVE Payment(d)' \in known
    <3>1. CASE c = d
      BY <1>2, <2>5, <3>1 DEF ReadForEvent, Payment
    <3>2. CASE c # d
      BY <2>1, <2>5, <3>2 DEF ReadForEvent
    <3> QED
      BY <3>1, <3>2
  <2>6. ASSUME NEW c \in Slots, ApplyEvent(c) \/ MarkProcessed(c) \/ Failure(c)
        PROVE  Stays \/ Elsewhere
    BY <2>6 DEF ApplyEvent, MarkProcessed, Failure, ProcessError, GatewayTimesOut,
                RefundError, Crash
  <2>7. ASSUME NEW c \in Slots, Refund(c) PROVE Stays \/ Elsewhere
    BY <2>7 DEF Refund, ReadForRefund, GatewayRefunds, GatewayRefuses, RecordRefund
  <2>8. CASE UNCHANGED vars
    BY <2>1, <2>8 DEF vars
  <2> QED
    BY <1>2, <2>1, <2>2, <2>3, <2>4, <2>5, <2>6, <2>7, <2>8 DEF Next, Webhook
<1>3. ASSUME NEW e \in Events, outbox'[e] > 0 PROVE PaymentOf[e] \in known
  <2>1. CASE outbox[e] > 0
    BY <2>1 DEF OnlyKnown
  <2>2. CASE outbox'[e] # outbox[e]
    <3>1. ASSUME NEW d \in Slots, RecordRefund(d) PROVE FALSE
      BY <2>2, <3>1, LedgerAssumption DEF RecordRefund, Causes
    <3>2. ASSUME NEW d \in Slots, ApplyEvent(d) PROVE PaymentOf[e] \in known
      BY <2>2, <3>2 DEF ApplyEvent, OnlyKnown, Payment, Causes
    <3> QED
      BY <2>2, <3>1, <3>2
      DEF Next, Webhook, Refund, Failure, Emit, Receive, ReceiveError,
          RequestRefund, ReadForEvent, MarkProcessed, ReadForRefund,
          GatewayRefunds, GatewayRefuses, ProcessError, GatewayTimesOut,
          RefundError, Crash, vars
  <2> QED
    BY <1>3, <2>1, <2>2
<1> QED
  BY <1>1, <1>2, <1>3 DEF OnlyKnown

(* What has been dealt with stays so. *)
LEMMA DealtWithStays ==
  ASSUME TypeOK, IdleSlots, Backing, [Next]_vars, NEW id, DealtWith(id)
  PROVE  DealtWith(id)'
<1>1. PICK e \in sent : IdOf[e] = id /\ (TellsOutcome(e) => outbox[e] > 0)
  BY DEF DealtWith
<1>2. e \in Causes /\ e \in sent'
  BY JobStep DEF TypeOK, Causes
<1>3. TellsOutcome(e) => outbox'[e] > 0
  BY <1>1, <1>2, OutboxGrows
<1> QED
  BY <1>1, <1>2, <1>3 DEF DealtWith, TellsOutcome

(* The events table changes only when a handler marks its event: without a *)
(* message when it has dealt with it.                                      *)
LEMMA MarkStep ==
  ASSUME TypeOK, [Next]_vars
  PROVE  \/ processed' = processed /\ noted' = noted
         \/ \E d \in Slots : MarkProcessed(d)
  BY DEF Next, Webhook, Refund, Failure, Emit, Receive, ReceiveError,
         RequestRefund, ReadForEvent, ApplyEvent, ReadForRefund,
         GatewayRefunds, GatewayRefuses, RecordRefund, ProcessError,
         GatewayTimesOut, RefundError, Crash, vars

LEMMA MarkDealsWith ==
  ASSUME TypeOK, Backing, MarkedIsDone, NEW d \in Slots, MarkProcessed(d),
         NEW id, id = IdOf[job[d]]
  PROVE  /\ pc[d] = "mark" => DealtWith(id)
         /\ pc[d] = "note" /\ ServiceIsUp => Unknown(id)'
<1>1. PICK e \in Events : e = job[d]
  BY DEF MarkProcessed, TypeOK
<1>2. e \in sent
  BY <1>1 DEF Backing, Holding
<1>3. pc[d] = "mark" => DealtWith(id)
  BY <1>1, <1>2 DEF MarkedIsDone, DealtWith
<1>4. ASSUME pc[d] = "note", ServiceIsUp PROVE Unknown(id)'
  <2>1. id \in noted' /\ sent' = sent /\ known' = known
    BY <1>4 DEF MarkProcessed, ServiceIsUp
  <2>2. PaymentOf[e] \notin known
    BY <1>1, <1>4 DEF MarkedIsDone
  <2> QED
    BY <1>1, <1>2, <2>1, <2>2 DEF Unknown
<1> QED
  BY <1>3, <1>4

LEMMA ProcessedIsDealtWithStep ==
  ASSUME TypeOK, IdleSlots, Backing, MarkedIsDone, ProcessedIsDealtWith, [Next]_vars
  PROVE  ProcessedIsDealtWith'
<1> SUFFICES ASSUME NEW id \in processed' \ noted' PROVE DealtWith(id)'
  BY DEF ProcessedIsDealtWith
<1>1. CASE id \in processed \ noted
  BY <1>1, DealtWithStays DEF ProcessedIsDealtWith
<1>2. CASE id \notin processed \ noted
  <2>1. PICK d \in Slots : MarkProcessed(d)
    BY <1>2, MarkStep
  <2>2. id = IdOf[job[d]] /\ pc[d] = "mark"
    BY <1>2, <2>1 DEF MarkProcessed
  <2>3. DealtWith(id)
    BY <2>1, <2>2, MarkDealsWith
  <2> QED
    BY <2>3, DealtWithStays
<1> QED
  BY <1>1, <1>2

LEMMA TakenIsDealtWithStep ==
  ASSUME TypeOK, IdleSlots, Backing, AInv, [Next]_vars
  PROVE  TakenIsDealtWith'
<1> USE DEF AInv
<1> SUFFICES ASSUME ServiceIsUp, NEW id \in seen'
             PROVE  InHand(id)' \/ DealtWith(id)' \/ Unknown(id)'
  BY FaultsStay DEF TakenIsDealtWith, ServiceIsUp
<1>1. CASE DealtWith(id)
  BY <1>1, DealtWithStays
<1>2. CASE id \in seen /\ InHand(id)
  <2>1. PICK d \in Slots : job[d] \in Events /\ IdOf[job[d]] = id
    BY <1>2 DEF InHand
  <2>2. CASE job'[d] = job[d]
    BY <2>1, <2>2 DEF InHand
  <2>3. CASE MarkProcessed(d)
    <3>1. pc[d] \in {"mark", "note"}
      BY <2>3 DEF MarkProcessed
    <3>2. DealtWith(id) \/ Unknown(id)'
      BY <2>1, <2>3, <3>1, MarkDealsWith
    <3> QED
      BY <3>2, DealtWithStays
  <2> QED
    BY <2>1, <2>2, <2>3, JobStep
<1>3. CASE id \in seen /\ Unknown(id)
  <2>1. PICK e \in sent : IdOf[e] = id /\ PaymentOf[e] \notin known
    BY <1>3 DEF Unknown
  <2>2. e \in sent' /\ known' = known
    BY JobStep, FaultsStay
  <2>3. CASE id \in noted'
    BY <2>1, <2>2, <2>3 DEF Unknown
  <2>4. CASE id \notin noted'
    <3>1. PICK d \in Slots : MarkProcessed(d)
      BY <1>3, <2>4, MarkStep DEF Unknown
    <3>2. id = IdOf[job[d]] /\ pc[d] = "mark"
      BY <1>3, <2>4, <3>1 DEF MarkProcessed, Unknown
    <3>3. DealtWith(id)
      BY <3>1, <3>2, MarkDealsWith
    <3> QED
      BY <3>3, DealtWithStays
  <2> QED
    BY <2>3, <2>4
<1>4. CASE id \notin seen
  <2>1. PICK d \in Slots, e \in Events : Receive(d, e) /\ seen' # seen
    BY <1>4
    DEF Next, Webhook, Refund, Failure, Emit, ReceiveError, RequestRefund,
        ReadForEvent, ApplyEvent, MarkProcessed, ReadForRefund,
        GatewayRefunds, GatewayRefuses, RecordRefund, ProcessError,
        GatewayTimesOut, RefundError, Crash, vars, ServiceIsUp
  <2>2. id = IdOf[e] /\ job'[d] = e
    BY <1>4, <2>1 DEF Receive, MayStart, Start, TypeOK
  <2> QED
    BY <2>2 DEF InHand
<1> QED
  BY <1>1, <1>2, <1>3, <1>4 DEF TakenIsDealtWith

-----------------------------------------------------------------------------
(* Handlers that come in turn: a slot starts on a payment only when no     *)
(* other slot works on it.                                                 *)
LEMMA AloneStep ==
  ASSUME TypeOK, Alone, "overlap" \notin faults, [Next]_vars
  PROVE  Alone'
<1> DEFINE Leaves == \A d \in Slots : job'[d] \in {job[d], None}
<1> USE DEF TypeOK, Goto, Finish, Start
<1>1. CASE Leaves
  BY <1>1 DEF Alone
<1>2. ASSUME NEW c \in Slots, NEW x \in Causes, MayStart(c, x),
             job' = [job EXCEPT ![c] = x]
      PROVE  Alone'
  BY <1>2 DEF MayStart, Alone
<1>3. ASSUME NEW e \in Events, Emit(e) PROVE Leaves
  BY <1>3 DEF Emit
<1>4. ASSUME NEW c \in Slots, NEW e \in Events, ReceiveError(c, e) PROVE Leaves
  BY <1>4 DEF ReceiveError
<1>5. ASSUME NEW c \in Slots, NEW e \in Events, Receive(c, e) PROVE Alone'
  <2>1. CASE IdOf[e] \in seen
    <3>1. Leaves
      BY <1>5, <2>1 DEF Receive
    <3> QED
      BY <1>1, <3>1
  <2>2. CASE IdOf[e] \notin seen
    <3>1. e \in Causes /\ MayStart(c, e) /\ job' = [job EXCEPT ![c] = e]
      BY <1>5, <2>2 DEF Receive, Causes
    <3> QED
      BY <1>2, <3>1
  <2> QED
    BY <2>1, <2>2
<1>6. ASSUME NEW c \in Slots, NEW r \in Refunds, RequestRefund(c, r) PROVE Alone'
  <2>1. r \in Causes /\ MayStart(c, r) /\ job' = [job EXCEPT ![c] = r]
    BY <1>6 DEF RequestRefund, Causes
  <2> QED
    BY <1>2, <2>1
<1>7. ASSUME NEW c \in Slots, Webhook(c) PROVE Leaves
  BY <1>7 DEF Webhook, ReadForEvent, ApplyEvent, MarkProcessed
<1>8. ASSUME NEW c \in Slots, Refund(c) PROVE Leaves
  BY <1>8 DEF Refund, ReadForRefund, GatewayRefunds, GatewayRefuses, RecordRefund
<1>9. ASSUME NEW c \in Slots, Failure(c) PROVE Leaves
  BY <1>9 DEF Failure, ProcessError, GatewayTimesOut, RefundError, Crash
<1>10. CASE UNCHANGED vars
  BY <1>1, <1>10 DEF vars
<1> QED
  BY <1>1, <1>3, <1>4, <1>5, <1>6, <1>7, <1>8, <1>9, <1>10 DEF Next

(* Then no copy goes stale: who writes a row is alone on its payment. *)
LEMMA CopiesStep ==
  ASSUME TypeOK, Alone, Copies, [Next]_vars
  PROVE  Copies'
<1> SUFFICES ASSUME NEW d \in Slots PROVE Copy(d)'
  BY DEF Copies
<1> DEFINE Kept == job'[d] = job[d] /\ pc'[d] = pc[d] /\ snap'[d] = snap[d]
           Bare == pc'[d] \notin {"apply", "call", "record"}
           Busy(c) == pc[c] \in {"apply", "call", "record"}
<1> USE DEF TypeOK, Goto, Finish, Start
<1>1. CASE Kept /\ row' = row
  BY <1>1 DEF Copies, Copy, Payment
<1>2. CASE Bare
  BY <1>2 DEF Copy
<1>3. \A c \in Slots : Busy(c) => job[c] \in Causes /\ job[c] # None
  BY LedgerAssumption DEF Causes
<1>4. ASSUME NEW c \in Slots, Busy(c), c # d, Kept, NEW r,
             row' = [row EXCEPT ![Payment(c)] = r]
      PROVE  Copy(d)'
  <2>1. CASE Busy(d)
    <3>1. Payment(c) # Payment(d) /\ Payment(d) \in Payments
      BY <1>3, <1>4, <2>1, LedgerAssumption DEF Alone, Payment
    <3>2. row'[Payment(d)] = row[Payment(d)] /\ Payment(d)' = Payment(d)
      BY <1>4, <3>1 DEF Payment
    <3> QED
      BY <1>4, <3>2 DEF Copies, Copy
  <2>2. CASE ~ Busy(d)
    BY <1>4, <2>2 DEF Copy
  <2> QED
    BY <2>1, <2>2
<1>5. ASSUME NEW e \in Events, Emit(e) PROVE Kept /\ row' = row
  BY <1>5 DEF Emit
<1>6. ASSUME NEW c \in Slots, NEW e \in Events, Receive(c, e) \/ ReceiveError(c, e)
      PROVE  row' = row /\ (Kept \/ Bare)
  BY <1>6 DEF Receive, MayStart, ReceiveError
<1>7. ASSUME NEW c \in Slots, NEW r \in Refunds, RequestRefund(c, r)
      PROVE  row' = row /\ (Kept \/ Bare)
  BY <1>7 DEF RequestRefund, MayStart
<1>8. ASSUME NEW c \in Slots, ReadForEvent(c) PROVE Copy(d)'
  <2>1. row' = row
    BY <1>8 DEF ReadForEvent
  <2>2. CASE c # d
    <3>1. Kept
      BY <1>8, <2>2 DEF ReadForEvent
    <3> QED
      BY <1>1, <2>1, <3>1
  <2>3. CASE c = d
    BY <1>8, <2>1, <2>3 DEF ReadForEvent, Copy, Payment
  <2> QED
    BY <2>2, <2>3
<1>9. ASSUME NEW c \in Slots, ApplyEvent(c) PROVE Copy(d)'
  <2>1. CASE c = d
    BY <1>2, <1>9, <2>1 DEF ApplyEvent
  <2>2. CASE c # d
    <3>1. Busy(c) /\ Kept
      BY <1>9, <2>2 DEF ApplyEvent
    <3>2. row' = [row EXCEPT ![Payment(c)] = Updated(snap[c], job[c])]
      BY <1>9 DEF ApplyEvent
    <3> QED
      BY <1>4, <2>2, <3>1, <3>2
  <2> QED
    BY <2>1, <2>2
<1>10. ASSUME NEW c \in Slots, MarkProcessed(c) PROVE row' = row /\ (Kept \/ Bare)
  BY <1>10 DEF MarkProcessed
<1>11. ASSUME NEW c \in Slots, ReadForRefund(c) PROVE Copy(d)'
  <2>1. row' = row
    BY <1>11 DEF ReadForRefund
  <2>2. CASE c # d
    <3>1. Kept
      BY <1>11, <2>2 DEF ReadForRefund
    <3> QED
      BY <1>1, <2>1, <3>1
  <2>3. CASE c = d
    <3>1. CASE Refundable(row[Payment(d)])
      BY <1>11, <2>1, <2>3, <3>1 DEF ReadForRefund, Copy, Payment, Refundable
    <3>2. CASE ~ Refundable(row[Payment(d)])
      BY <1>2, <1>11, <2>3, <3>2 DEF ReadForRefund
    <3> QED
      BY <3>1, <3>2
  <2> QED
    BY <2>2, <2>3
<1>12. ASSUME NEW c \in Slots, GatewayRefunds(c) PROVE Copy(d)'
  <2>1. row' = row /\ snap' = snap /\ job' = job
    BY <1>12 DEF GatewayRefunds
  <2>2. CASE c # d
    <3>1. Kept
      BY <1>12, <2>1, <2>2 DEF GatewayRefunds
    <3> QED
      BY <1>1, <2>1, <3>1
  <2>3. CASE c = d
    <3>1. pc[d] = "call" /\ pc'[d] = "record"
      BY <1>12, <2>3 DEF GatewayRefunds
    <3> QED
      BY <2>1, <3>1 DEF Copies, Copy, Payment
  <2> QED
    BY <2>2, <2>3
<1>13. ASSUME NEW c \in Slots, GatewayRefuses(c) PROVE row' = row /\ (Kept \/ Bare)
  BY <1>13 DEF GatewayRefuses
<1>14. ASSUME NEW c \in Slots, RecordRefund(c) PROVE Copy(d)'
  <2>1. CASE c = d
    BY <1>2, <1>14, <2>1 DEF RecordRefund
  <2>2. CASE c # d
    <3>1. Busy(c) /\ Kept
      BY <1>14, <2>2 DEF RecordRefund
    <3>2. row' = [row EXCEPT ![Payment(c)] =
                    [snap[c] EXCEPT !.status = "REFUNDED", !.refund = job[c]]]
      BY <1>14 DEF RecordRefund
    <3> QED
      BY <1>4, <2>2, <3>1, <3>2
  <2> QED
    BY <2>1, <2>2
<1>15. ASSUME NEW c \in Slots, Failure(c) PROVE row' = row /\ (Kept \/ Bare)
  BY <1>15 DEF Failure, ProcessError, GatewayTimesOut, RefundError, Crash
<1>16. CASE UNCHANGED vars
  BY <1>1, <1>16 DEF vars
<1> QED
  BY <1>1, <1>2, <1>5, <1>6, <1>7, <1>8, <1>9, <1>10, <1>11, <1>12, <1>13, <1>14,
     <1>15, <1>16 DEF Next, Webhook, Refund

(* And the row of a payment with a recorded refund goes on naming one. *)
LEMMA RefundsNamedStep ==
  ASSUME TypeOK, Copies, RefundsNamed, [Next]_vars
  PROVE  RefundsNamed'
<1> DEFINE Same == row' = row /\ \A x \in Refunds : outbox'[x] = outbox[x]
<1>1. CASE Same
  <2> SUFFICES ASSUME NEW r \in Refunds, outbox'[r] > 0
               PROVE  NamesARefund(PaymentOf[r])'
    BY DEF RefundsNamed
  <2>1. NamesARefund(PaymentOf[r]) /\ PaymentOf[r] \in Payments
    BY <1>1, LedgerAssumption DEF RefundsNamed, Causes
  <2>2. row[PaymentOf[r]].refund \in Refunds
    BY <2>1 DEF NamesARefund, TypeOK, Row
  <2> QED
    BY <1>1, <2>1, <2>2 DEF NamesARefund
<1>2. ASSUME NEW d \in Slots, ApplyEvent(d) PROVE RefundsNamed'
  <2> SUFFICES ASSUME NEW r \in Refunds, outbox'[r] > 0
               PROVE  NamesARefund(PaymentOf[r])'
    BY DEF RefundsNamed
  <2>1. job[d] \in Events /\ job[d] \in Causes /\ snap[d] = row[Payment(d)]
    BY <1>2 DEF ApplyEvent, TypeOK, Copies, Copy, Causes
  <2>2. \A x \in Refunds : outbox'[x] = outbox[x]
    BY <1>2, <2>1, LedgerAssumption DEF ApplyEvent, TypeOK, Causes
  <2>3. NamesARefund(PaymentOf[r]) /\ PaymentOf[r] \in Payments
    BY <2>2, LedgerAssumption DEF RefundsNamed, Causes
  <2>4. Updated(snap[d], job[d]).refund = snap[d].refund
    BY <2>1 DEF Updated, TypeOK, Row
  <2>5. row'[PaymentOf[r]].refund = row[PaymentOf[r]].refund
    BY <1>2, <2>1, <2>3, <2>4 DEF ApplyEvent, TypeOK
  <2>6. row[PaymentOf[r]].refund \in Refunds
    BY <2>3 DEF NamesARefund, TypeOK, Row
  <2> QED
    BY <2>2, <2>3, <2>5, <2>6 DEF NamesARefund
<1>3. ASSUME NEW d \in Slots, RecordRefund(d) PROVE RefundsNamed'
  <2> SUFFICES ASSUME NEW r \in Refunds, outbox'[r] > 0
               PROVE  NamesARefund(PaymentOf[r])'
    BY DEF RefundsNamed
  <2>1. PICK c \in Refunds : c = job[d]
    BY <1>3 DEF RecordRefund, TypeOK
  <2>2. outbox[c] + 1 > 0 /\ c # None /\ c \in Causes /\ PaymentOf[c] \in Payments
    BY LedgerAssumption DEF TypeOK, Causes
  <2>3. outbox'[c] > 0 /\ \A x \in Refunds : x # c => outbox'[x] = outbox[x]
    BY <1>3, <2>1, <2>2 DEF RecordRefund, TypeOK, Causes
  <2>4. CASE PaymentOf[r] = PaymentOf[c]
    <3>1. row'[PaymentOf[c]].refund = c
      BY <1>3, <2>1, <2>2 DEF RecordRefund, TypeOK, Payment, Row
    <3> QED
      BY <2>2, <2>3, <2>4, <3>1 DEF NamesARefund
  <2>5. CASE PaymentOf[r] # PaymentOf[c]
    <3>1. NamesARefund(PaymentOf[r]) /\ PaymentOf[r] \in Payments
      BY <2>3, <2>5, LedgerAssumption DEF RefundsNamed, Causes
    <3>2. row'[PaymentOf[r]] = row[PaymentOf[r]]
      BY <1>3, <2>1, <2>5, <3>1 DEF RecordRefund, TypeOK, Payment
    <3>3. row[PaymentOf[r]].refund \in Refunds
      BY <3>1 DEF NamesARefund, TypeOK, Row
    <3> QED
      BY <2>3, <3>1, <3>2, <3>3 DEF NamesARefund
  <2> QED
    BY <2>4, <2>5
<1>4. CASE UNCHANGED vars
  BY <1>1, <1>4 DEF vars
<1>5. ASSUME NEW d \in Slots, ReadForEvent(d) \/ MarkProcessed(d) \/ Failure(d)
      PROVE  Same
  BY <1>5 DEF ReadForEvent, MarkProcessed, Failure, ProcessError, GatewayTimesOut,
              RefundError, Crash
<1>6. ASSUME NEW d \in Slots, ReadForRefund(d) \/ GatewayRefunds(d) \/ GatewayRefuses(d)
      PROVE  Same
  BY <1>6 DEF ReadForRefund, GatewayRefunds, GatewayRefuses
<1> QED
  BY <1>1, <1>2, <1>3, <1>4, <1>5, <1>6
  DEF Next, Webhook, Refund, Emit, Receive, ReceiveError, RequestRefund

LEMMA InTurnStep ==
  ASSUME TypeOK, InTurn, [Next]_vars
  PROVE  InTurn'
  BY AloneStep, CopiesStep, RefundsNamedStep, FaultsStay DEF InTurn

(* Money paid back is announced or about to be, however many refunds and   *)
(* webhooks run at once, where nothing fails; and where the handlers of a  *)
(* payment come in turn, whatever fails, its row names a refund once one   *)
(* is recorded and no refund is asked for while it says REFUNDED           *)
(* (PaymentService.InitiateRefund and the webhook's whole-row updates).    *)
THEOREM RecordedRefund == Spec => []RefundIsRecorded
<1>1. IInv /\ RefundIsAnnounced /\ InTurn /\ [Next]_vars
        => RefundIsAnnounced' /\ InTurn'
  BY RefundIsAnnouncedStep, InTurnStep DEF IInv
<1>2. RefundIsAnnounced /\ InTurn => RefundIsRecorded
  BY DEF RefundIsRecorded, RefundStaysOnRow, InTurn, Copies, Copy, RefundsNamed
<1> QED
  BY InitAInv, SpecIInv, <1>1, <1>2, PTL DEF Spec

(* What the 200 to a webhook is worth: no event is marked processed        *)
(* without a message unless its effect is announced, whatever fails; and   *)
(* where the database and the replicas do not fail, an answered event of a *)
(* known payment has been announced and one of an unknown payment has left *)
(* a message (WebhookHandler.Razorpay, Cashfree).                          *)
THEOREM AcknowledgedAccountedFor == Spec => []AcknowledgedIsAccountedFor
<1>1. IInv /\ IdleSlots /\ AInv /\ [Next]_vars => IdleSlots' /\ AInv'
  BY IdleSlotsStep, IdsAreTakenStep, OnlyKnownStep, MarkedIsDoneStep, ProcessedIsDealtWithStep,
     TakenIsDealtWithStep
  DEF IInv, AInv
<1>2. IInv /\ AInv => NoLossIsSilent
  BY DEF IInv, TypeOK, AInv, ProcessedIsDealtWith, DealtWith, NoLossIsSilent,
         OutcomeId, Announced
<1>3. IInv /\ AInv /\ ServiceIsUp => AcknowledgedIsApplied
  <2> SUFFICES ASSUME IInv, AInv, ServiceIsUp, NEW e \in acked,
                      OutcomeId(IdOf[e]), ~ InHand(IdOf[e])
               PROVE  IF PaymentOf[e] \in known THEN Announced(IdOf[e])
                      ELSE IdOf[e] \in noted
    BY DEF AcknowledgedIsApplied
  <2>1. e \in sent /\ (DealtWith(IdOf[e]) \/ Unknown(IdOf[e]))
    BY DEF AInv, IdsAreTaken, TakenIsDealtWith
  <2>2. \A f \in sent : IdOf[f] = IdOf[e] => PaymentOf[f] = PaymentOf[e]
    BY <2>1, LedgerAssumption DEF IInv, TypeOK
  <2>3. CASE PaymentOf[e] \in known
    <3>1. DealtWith(IdOf[e])
      BY <2>1, <2>2, <2>3 DEF Unknown
    <3> QED
      BY <2>3, <3>1 DEF DealtWith, OutcomeId, Announced, IInv, TypeOK
  <2>4. CASE PaymentOf[e] \notin known
    <3>1. CASE Unknown(IdOf[e])
      BY <2>4, <3>1 DEF Unknown
    <3>2. ~ DealtWith(IdOf[e])
      BY <2>2, <2>4 DEF DealtWith, OutcomeId, AInv, OnlyKnown, IInv, TypeOK
    <3> QED
      BY <2>1, <2>4, <3>1, <3>2
  <2> QED
    BY <2>3, <2>4
<1>4. IInv /\ AInv => AcknowledgedIsAccountedFor
  BY <1>2, <1>3 DEF AcknowledgedIsAccountedFor, ServiceIsUp
<1> QED
  BY InitAInv, SpecIInv, <1>1, <1>4, PTL DEF Spec
=============================================================================
