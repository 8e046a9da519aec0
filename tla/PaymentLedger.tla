---------------------------- MODULE PaymentLedger ----------------------------
(***************************************************************************)
(* The payment service's ledger: the rows of payments, the webhook events  *)
(* that change them, the staff refunds that change them, and the rows of   *)
(* payment_outbox that announce the changes to the other services.         *)
(*                                                                         *)
(* Every webhook delivery and every refund request runs in a goroutine of  *)
(* some replica (a slot).  Both load the whole payment row, decide on that *)
(* copy, and write the whole row back; only the last write and its outbox  *)
(* row share a transaction.                                                *)
(***************************************************************************)
EXTENDS Naturals

CONSTANTS
  Payments,
  Attempts,    \* gateway payment ids: one per try of the customer to pay
  Events,      \* webhook events of the gateways
  Refunds,     \* refund requests of the staff, each made once
  Slots,       \* handler goroutines that may run at the same time
  None,        \* SQL NULL, and the job of an idle slot
  PaymentOf,   \* the payment an event or a refund names
  AttemptOf,   \* the gateway payment id an event carries
  KindOf,      \* the type of an event
  IdOf,        \* the event_id of an event; Cashfree events may share one
  Scenarios    \* what a behaviour may meet is one of these sets, out of "db",
               \* "gateway", "crash" (failures) and "overlap" (handlers of one
               \* payment that run side by side instead of in turn)

RazorpayKinds == {"payment.authorized", "payment.captured", "payment.failed"}
CashfreeKinds == {"PAYMENT_SUCCESS_WEBHOOK", "PAYMENT_FAILED_WEBHOOK"}
Kinds == RazorpayKinds \union CashfreeKinds \union {"unhandled"}
Charging == {"payment.captured", "PAYMENT_SUCCESS_WEBHOOK"}
Failing == {"payment.failed", "PAYMENT_FAILED_WEBHOOK"}
Causes == Events \union Refunds

ASSUME LedgerAssumption ==
  /\ Events \intersect Refunds = {}
  /\ None \notin Causes \union Attempts
  /\ PaymentOf \in [Causes -> Payments]
  /\ AttemptOf \in [Events -> Attempts]
  /\ KindOf \in [Events -> Kinds]
  /\ \A e, f \in Events : IdOf[e] = IdOf[f] => PaymentOf[e] = PaymentOf[f]

VARIABLES
  faults,     \* what this behaviour may meet
  known,      \* payments whose webhook events carry an id that GetByID finds
  gateway,    \* payments.gateway, never changed
  sent,       \* events the gateways have raised
  acked,      \* events answered with 200, not delivered again
  seen,       \* event ids with a row in payment_webhook_events
  processed,  \* event ids whose row has processed = true
  noted,      \* event ids whose row has an error_message
  row,        \* payments: status, gateway_payment_id, refund_id
  outbox,     \* how many payment_outbox rows each event or refund has written
  requested,  \* refunds whose request has arrived
  refunded,   \* refunds for which the gateway has paid money back
  job, pc, snap   \* per slot: what it serves, its next step, its copy of the row

vars == <<faults, known, gateway, sent, acked, seen, processed, noted, row,
          outbox, requested, refunded, job, pc, snap>>

Statuses == {"PENDING", "AUTHORIZED", "SUCCESS", "FAILED", "REFUNDED"}
Row == [status: Statuses, attempt: Attempts \union {None},
        refund: Refunds \union {None}]
Fresh == [status |-> "PENDING", attempt |-> None, refund |-> None]

(* Type invariant: every variable keeps the shape of the state it models. *)
TypeOK ==
  /\ faults \in Scenarios
  /\ known \subseteq Payments
  /\ gateway \in [Payments -> {"RAZORPAY", "CASHFREE"}]
  /\ sent \subseteq Events /\ acked \subseteq Events
  /\ seen \union processed \union noted \subseteq {IdOf[e] : e \in Events}
  /\ row \in [Payments -> Row]
  /\ outbox \in [Causes -> Nat]
  /\ requested \subseteq Refunds /\ refunded \subseteq requested
  /\ job \in [Slots -> Causes \union {None}]
  /\ pc \in [Slots -> {"idle", "read", "apply", "mark", "note", "call", "record"}]
  /\ snap \in [Slots -> Row]
  /\ \A d \in Slots :
       /\ pc[d] \in {"apply", "mark", "note"} => job[d] \in Events
       /\ pc[d] \in {"call", "record"} => job[d] \in requested
       /\ pc[d] = "read" => job[d] \in Events \union requested

Init ==
  /\ faults \in Scenarios
  /\ known \in SUBSET Payments
  /\ gateway \in [Payments -> {"RAZORPAY", "CASHFREE"}]
  /\ sent = {} /\ acked = {} /\ seen = {} /\ processed = {} /\ noted = {}
  /\ row = [p \in Payments |-> Fresh]
  /\ outbox = [c \in Causes |-> 0]
  /\ requested = {} /\ refunded = {}
  /\ job = [d \in Slots |-> None]
  /\ pc = [d \in Slots |-> "idle"]
  /\ snap = [d \in Slots |-> Fresh]

Payment(d) == PaymentOf[job[d]]
Start(d, c, label) == job' = [job EXCEPT ![d] = c] /\ pc' = [pc EXCEPT ![d] = label]
Goto(d, label) == pc' = [pc EXCEPT ![d] = label] /\ UNCHANGED job
Finish(d) == Start(d, None, "idle") /\ snap' = [snap EXCEPT ![d] = Fresh]

(* Nothing in the code keeps two handlers of a payment apart; a behaviour  *)
(* without "overlap" is one where they happen to come in turn.             *)
MayStart(d, c) ==
  /\ pc[d] = "idle"
  /\ \/ "overlap" \in faults
     \/ \A b \in Slots : job[b] # None => PaymentOf[job[b]] # PaymentOf[c]

-----------------------------------------------------------------------------
(* The gateways.  A payment is charged by at most one attempt and by none  *)
(* after that; an attempt is charged or fails once, and is authorized, if  *)
(* at all, before that.                                                    *)
KindsOf(g) == IF g = "RAZORPAY" THEN RazorpayKinds ELSE CashfreeKinds
Settled(a) == \E e \in sent : AttemptOf[e] = a /\ KindOf[e] \in Charging \union Failing
Charged(p) == \E e \in sent : PaymentOf[e] = p /\ KindOf[e] \in Charging

Emit(e) ==
  /\ e \notin sent
  /\ KindOf[e] # "unhandled" =>
       /\ KindOf[e] \in KindsOf(gateway[PaymentOf[e]])
       /\ ~ Settled(AttemptOf[e]) /\ ~ Charged(PaymentOf[e])
  /\ sent' = sent \union {e}
  /\ UNCHANGED <<faults, known, gateway, acked, seen, processed, noted, row,
                 outbox, requested, refunded, job, pc, snap>>

-----------------------------------------------------------------------------
(* Mutant of Receive: an event counts as a duplicate once it is processed. *)
ReceiveUnprocessed(d, e) ==
  /\ MayStart(d, e) /\ e \in sent
  /\ IF IdOf[e] \in processed
       THEN acked' = acked \union {e} /\ UNCHANGED <<seen, job, pc>>
       ELSE /\ seen' = seen \union {IdOf[e]}
            /\ Start(d, e, IF KindOf[e] = "unhandled" THEN "mark" ELSE "read")
            /\ UNCHANGED acked
  /\ UNCHANGED <<faults, known, gateway, sent, processed, noted, row, outbox,
                 requested, refunded, snap>>

(* The webhook handlers.  A delivery first inserts its event id; a         *)
(* conflict is answered 200 at once, a database error 500.                 *)
Receive(d, e) ==
  /\ MayStart(d, e) /\ e \in sent
  /\ IF IdOf[e] \in seen
       THEN acked' = acked \union {e} /\ UNCHANGED <<seen, job, pc>>
       ELSE /\ seen' = seen \union {IdOf[e]}
            /\ Start(d, e, IF KindOf[e] = "unhandled" THEN "mark" ELSE "read")
            /\ UNCHANGED acked
  /\ UNCHANGED <<faults, known, gateway, sent, processed, noted, row, outbox,
                 requested, refunded, snap>>

(* The insert may have reached the database although its answer did not.   *)
ReceiveError(d, e) ==
  /\ "db" \in faults
  /\ pc[d] = "idle" /\ e \in sent
  /\ seen' = seen \union {IdOf[e]}
  /\ UNCHANGED <<faults, known, gateway, sent, acked, processed, noted, row,
                 outbox, requested, refunded, job, pc, snap>>

(* Mutant of ReadForEvent: a payment that has an outcome keeps it. *)
ReadForEventUnlessFinal(d) ==
  /\ pc[d] = "read" /\ job[d] \in Events
  /\ IF Payment(d) \in known
       THEN /\ snap' = [snap EXCEPT ![d] = row[Payment(d)]]
            /\ Goto(d, IF row[Payment(d)].status \in {"SUCCESS", "FAILED", "REFUNDED"}
                       THEN "mark" ELSE "apply")
       ELSE Goto(d, "note") /\ UNCHANGED snap
  /\ UNCHANGED <<faults, known, gateway, sent, acked, seen, processed, noted,
                 row, outbox, requested, refunded>>

(* Which payment an event is about is what the gateway echoes: for         *)
(* Razorpay notes.payment_id, which CreateOrder does not send, and for     *)
(* Cashfree the order id, which CreateOrder makes "cf_" and the payment's  *)
(* id.  An id that is no uuid or has no row is an error like any other.    *)
ReadForEvent(d) ==
  /\ pc[d] = "read" /\ job[d] \in Events
  /\ IF Payment(d) \in known
       THEN Goto(d, "apply") /\ snap' = [snap EXCEPT ![d] = row[Payment(d)]]
       ELSE Goto(d, "note") /\ UNCHANGED snap
  /\ UNCHANGED <<faults, known, gateway, sent, acked, seen, processed, noted,
                 row, outbox, requested, refunded>>

(* What an event makes of the copy of the row.  Razorpay's failures leave  *)
(* gateway_payment_id alone, every other event overwrites it.              *)
NextStatus(kind) ==
  IF kind \in Charging THEN "SUCCESS"
  ELSE IF kind \in Failing THEN "FAILED" ELSE "AUTHORIZED"

(* Mutant of Updated: no event overwrites gateway_payment_id. *)
UpdatedKeepsAttempt(copy, e) == [copy EXCEPT !.status = NextStatus(KindOf[e])]

Updated(copy, e) ==
  [copy EXCEPT !.status = NextStatus(KindOf[e]),
               !.attempt = IF KindOf[e] = "payment.failed" THEN @ ELSE AttemptOf[e]]

(* One transaction writes the row and, except for an authorization, the    *)
(* outbox row that announces it; the answer of its commit may be lost.     *)
ApplyEvent(d) ==
  /\ pc[d] = "apply"
  /\ row' = [row EXCEPT ![Payment(d)] = Updated(snap[d], job[d])]
  /\ outbox' = IF KindOf[job[d]] = "payment.authorized" THEN outbox
               ELSE [outbox EXCEPT ![job[d]] = @ + 1]
  /\ \/ Goto(d, "mark")
     \/ "db" \in faults /\ Goto(d, "note")
  /\ UNCHANGED <<faults, known, gateway, sent, acked, seen, processed, noted,
                 requested, refunded, snap>>

(* Mutant of ProcessError: the error is dropped before the event is marked. *)
ProcessErrorUnnoted(d) ==
  /\ "db" \in faults
  /\ pc[d] \in {"read", "apply"} /\ job[d] \in Events
  /\ Goto(d, "mark")
  /\ UNCHANGED <<faults, known, gateway, sent, acked, seen, processed, noted,
                 row, outbox, requested, refunded, snap>>

(* A failed read or a rolled-back transaction is, like an unknown payment, *)
(* only noted in the event's row: the handler goes on to mark the event    *)
(* with the error's message and to answer 200.                             *)
ProcessError(d) ==
  /\ "db" \in faults
  /\ pc[d] \in {"read", "apply"} /\ job[d] \in Events
  /\ Goto(d, "note")
  /\ UNCHANGED <<faults, known, gateway, sent, acked, seen, processed, noted,
                 row, outbox, requested, refunded, snap>>

MarkProcessed(d) ==
  /\ pc[d] \in {"mark", "note"}
  /\ \/ /\ processed' = processed \union {IdOf[job[d]]}
        /\ noted' = IF pc[d] = "note" THEN noted \union {IdOf[job[d]]}
                    ELSE noted \ {IdOf[job[d]]}
     \/ "db" \in faults /\ UNCHANGED <<processed, noted>>
  /\ acked' = acked \union {job[d]}
  /\ Finish(d)
  /\ UNCHANGED <<faults, known, gateway, sent, seen, row, outbox, requested,
                 refunded>>

-----------------------------------------------------------------------------
(* InitiateRefund: read the row, refuse if it is REFUNDED, ask the gateway *)
(* for the money, and only then record the refund.                         *)
RequestRefund(d, r) ==
  /\ MayStart(d, r) /\ r \notin requested
  /\ requested' = requested \union {r}
  /\ Start(d, r, "read")
  /\ UNCHANGED <<faults, known, gateway, sent, acked, seen, processed, noted,
                 row, outbox, refunded, snap>>

(* Mutant of Refundable: nobody looks at the status before paying back. *)
RefundableAlways(copy) == copy \in Row

Refundable(copy) == copy.status # "REFUNDED"

ReadForRefund(d) ==
  /\ pc[d] = "read" /\ job[d] \in Refunds
  /\ IF Refundable(row[Payment(d)])
       THEN Goto(d, "call") /\ snap' = [snap EXCEPT ![d] = row[Payment(d)]]
       ELSE Finish(d)
  /\ UNCHANGED <<faults, known, gateway, sent, acked, seen, processed, noted,
                 row, outbox, requested, refunded>>

(* Razorpay pays back only a charged attempt, and may refuse.  The Cashfree *)
(* client answers with a refund id without asking anyone.                   *)
ChargedBy(p, a) ==
  \E e \in sent : PaymentOf[e] = p /\ AttemptOf[e] = a /\ KindOf[e] \in Charging

GatewayRefunds(d) ==
  /\ pc[d] = "call"
  /\ IF gateway[Payment(d)] = "CASHFREE"
       THEN UNCHANGED refunded
       ELSE /\ ChargedBy(Payment(d), snap[d].attempt)
            /\ refunded' = refunded \union {job[d]}
  /\ Goto(d, "record")
  /\ UNCHANGED <<faults, known, gateway, sent, acked, seen, processed, noted,
                 row, outbox, requested, snap>>

GatewayRefuses(d) ==
  /\ pc[d] = "call" /\ gateway[Payment(d)] = "RAZORPAY"
  /\ Finish(d)
  /\ UNCHANGED <<faults, known, gateway, sent, acked, seen, processed, noted,
                 row, outbox, requested, refunded>>

(* The ten-second client timeout: the money moves, the answer is lost. *)
GatewayTimesOut(d) ==
  /\ "gateway" \in faults
  /\ pc[d] = "call" /\ gateway[Payment(d)] = "RAZORPAY"
  /\ ChargedBy(Payment(d), snap[d].attempt)
  /\ refunded' = refunded \union {job[d]}
  /\ Finish(d)
  /\ UNCHANGED <<faults, known, gateway, sent, acked, seen, processed, noted,
                 row, outbox, requested>>

(* Mutant of RecordRefund: an UPDATE of the row as it was read, whose zero *)
(* affected rows nobody notices.                                           *)
RecordRefundIfUnchanged(d) ==
  /\ pc[d] = "record"
  /\ IF row[Payment(d)] = snap[d]
       THEN /\ row' = [row EXCEPT ![Payment(d)] =
                         [snap[d] EXCEPT !.status = "REFUNDED", !.refund = job[d]]]
            /\ outbox' = [outbox EXCEPT ![job[d]] = @ + 1]
       ELSE UNCHANGED <<row, outbox>>
  /\ Finish(d)
  /\ UNCHANGED <<faults, known, gateway, sent, acked, seen, processed, noted,
                 requested, refunded>>

RecordRefund(d) ==
  /\ pc[d] = "record"
  /\ row' = [row EXCEPT ![Payment(d)] =
               [snap[d] EXCEPT !.status = "REFUNDED", !.refund = job[d]]]
  /\ outbox' = [outbox EXCEPT ![job[d]] = @ + 1]
  /\ Finish(d)
  /\ UNCHANGED <<faults, known, gateway, sent, acked, seen, processed, noted,
                 requested, refunded>>

RefundError(d) ==
  /\ "db" \in faults
  /\ pc[d] \in {"read", "record"} /\ job[d] \in Refunds
  /\ Finish(d)
  /\ UNCHANGED <<faults, known, gateway, sent, acked, seen, processed, noted,
                 row, outbox, requested, refunded>>

-----------------------------------------------------------------------------
(* The replica dies: the goroutine is gone, what it committed stays. *)
Crash(d) ==
  /\ "crash" \in faults
  /\ pc[d] # "idle"
  /\ Finish(d)
  /\ UNCHANGED <<faults, known, gateway, sent, acked, seen, processed, noted,
                 row, outbox, requested, refunded>>

Webhook(d) == ReadForEvent(d) \/ ApplyEvent(d) \/ MarkProcessed(d)
Refund(d) ==
  ReadForRefund(d) \/ GatewayRefunds(d) \/ GatewayRefuses(d) \/ RecordRefund(d)
Failure(d) ==
  ProcessError(d) \/ GatewayTimesOut(d) \/ RefundError(d) \/ Crash(d)

Next ==
  \/ \E e \in Events : Emit(e)
  \/ \E d \in Slots, e \in Events : Receive(d, e) \/ ReceiveError(d, e)
  \/ \E d \in Slots, r \in Refunds : RequestRefund(d, r)
  \/ \E d \in Slots : Webhook(d) \/ Refund(d) \/ Failure(d)

Spec == Init /\ [][Next]_vars

-----------------------------------------------------------------------------
(* However often an event is delivered, to however many replicas, and      *)
(* whatever fails, at most one outbox row carries its event id: the order  *)
(* service is not told twice of one charge.                                *)
EventAnnouncedOnce ==
  \A e, f \in Events :
    /\ outbox[e] <= 1
    /\ outbox[e] > 0 /\ outbox[f] > 0 /\ IdOf[e] = IdOf[f] => e = f

(* What a row claims has happened and has been announced, although rows    *)
(* are rewritten whole from copies that may be stale: a SUCCESS row names  *)
(* the attempt the gateway charged, and a REFUNDED row a refund Razorpay   *)
(* has paid on a charged attempt (Cashfree's client pays nothing).         *)
Backed(p, r) ==
  /\ r.status = "SUCCESS" =>
       \E e \in sent : /\ PaymentOf[e] = p /\ AttemptOf[e] = r.attempt
                       /\ KindOf[e] \in Charging /\ outbox[e] > 0
  /\ r.status = "FAILED" =>
       \E e \in sent : PaymentOf[e] = p /\ KindOf[e] \in Failing /\ outbox[e] > 0
  /\ r.status = "REFUNDED" =>
       /\ r.refund # None
       /\ PaymentOf[r.refund] = p /\ outbox[r.refund] > 0
       /\ gateway[p] = "RAZORPAY" =>
            r.refund \in refunded /\ ChargedBy(p, r.attempt)

StatusIsBacked == \A p \in Payments : Backed(p, row[p])

(* What a refund of a payment leaves behind.  Money that Razorpay has paid *)
(* back is announced or about to be, where only the interleaving can stand *)
(* in the way.  And where a payment's handlers come in turn, whatever      *)
(* fails, the row of a payment with a recorded refund names one, although  *)
(* a late event may have overwritten REFUNDED, and the gateway is never    *)
(* asked to pay back a payment whose row says REFUNDED.  Side by side the  *)
(* code promises neither: a stale copy takes refund and status away.       *)
RefundIsAnnounced ==
  faults \subseteq {"overlap"} =>
    \A r \in refunded :
      outbox[r] > 0 \/ \E d \in Slots : job[d] = r /\ pc[d] = "record"

NamesARefund(p) ==
  /\ row[p].refund # None
  /\ PaymentOf[row[p].refund] = p /\ outbox[row[p].refund] > 0

RefundStaysOnRow ==
  "overlap" \notin faults =>
    /\ \A r \in Refunds : outbox[r] > 0 => NamesARefund(PaymentOf[r])
    /\ \A d \in Slots : pc[d] = "call" => row[Payment(d)].status # "REFUNDED"

RefundIsRecorded == RefundIsAnnounced /\ RefundStaysOnRow

(* "already processed - return 200 immediately": what the 200 is worth.    *)
(* An event id that is processed without an error message has had its      *)
(* effect announced, whatever fails and overlaps: a lost effect always     *)
(* shows in the events table.  And where the service's own database and    *)
(* replicas do not fail, an event that was answered 200 and that nobody    *)
(* works on has had its effect announced if its payment is known, and has  *)
(* an error message if not.  Cashfree events of a type the service does    *)
(* not handle are left out if they share the id (order and payment status) *)
(* of one it does: the first takes the id, the other is never looked at.   *)
InHand(id) == \E d \in Slots : job[d] \in Events /\ IdOf[job[d]] = id
Announced(id) == \E e \in Events : IdOf[e] = id /\ outbox[e] > 0
TellsOutcome(e) == KindOf[e] \in Charging \union Failing
OutcomeId(id) == \A e \in sent : IdOf[e] = id => TellsOutcome(e)

NoLossIsSilent ==
  \A id \in processed \ noted : OutcomeId(id) => Announced(id)

AcknowledgedIsApplied ==
  \A e \in acked : OutcomeId(IdOf[e]) /\ ~ InHand(IdOf[e]) =>
    IF PaymentOf[e] \in known THEN Announced(IdOf[e]) ELSE IdOf[e] \in noted

AcknowledgedIsAccountedFor ==
  /\ NoLossIsSilent
  /\ faults \intersect {"db", "crash"} = {} => AcknowledgedIsApplied
=============================================================================
