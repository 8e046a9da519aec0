---------------------------- MODULE PaymentOutbox ----------------------------
(***************************************************************************)
(* The payment service as Kafka sees it: requests that initiate payments   *)
(* (PaymentInitiation) commit each payment with a row of payment_outbox,   *)
(* while the relays of the replicas (OutboxRelay) send these rows.  The    *)
(* two halves share the table only: a row is there for the relays in the   *)
(* step in which its payment is there, and the request whose commit it was *)
(* may yet be told that it failed.                                         *)
(***************************************************************************)
EXTENDS PaymentInitiation, Naturals, FiniteSets

CONSTANTS
  Created,      \* created_at of the row that a request commits
  Relays,       \* replicas that the payment service may have
  Limit,        \* rows read by one poll
  Poison,       \* rows that Kafka never accepts
  RelayFaults   \* failures the relays meet: "db", "kafka", "crash", "sigterm"

(* The payments.initiated rows of these payments. *)
RowsOf(ps) == {Created[p] : p \in ps}

ASSUME OutboxAssumption ==
  /\ IsFiniteSet(Requests) /\ Created \in [Requests -> Nat]
  /\ \A q, r \in Requests : Created[q] = Created[r] => q = r
  /\ Limit \in Nat \ {0} /\ Poison \subseteq RowsOf(Requests)

Rows == RowsOf(Requests)

VARIABLES deployed, published, delivered, lost, batch, relayPc, terminating

relayVars == <<deployed, published, delivered, lost, batch, relayPc, terminating>>
outboxVars == <<vars, relayVars>>

(* What the relays see of the payments. *)
committed == RowsOf(payments)

Relay == INSTANCE OutboxRelay WITH pc <- relayPc, Faults <- RelayFaults

OutboxInit == Init /\ Relay!Init

(* A request knows nothing of the relays, and a relay nothing of requests. *)
OutboxNext ==
  \/ Next /\ UNCHANGED relayVars
  \/ UNCHANGED vars /\ \E r \in deployed : Relay!Replica(r)

OutboxSpec == OutboxInit /\ [][OutboxNext]_outboxVars

(* A replica goes on with what it does and is restarted.  Strong fairness: *)
(* Kafka and the database, asked again and again, answer again and again,  *)
(* and a replica that crashes again and again does not always do so at the *)
(* same step.  Nothing is assumed of the requests.                         *)
RelaysGoOn ==
  \A r \in Relays :
    /\ WF_outboxVars(UNCHANGED vars /\ r \in deployed /\ Relay!Run(r))
    /\ SF_outboxVars(UNCHANGED vars /\ r \in deployed /\ Relay!Poll(r))
    /\ SF_outboxVars(UNCHANGED vars /\ r \in deployed /\ Relay!PublishOk(r))
    /\ SF_outboxVars(UNCHANGED vars /\ r \in deployed /\ Relay!PassPoison(r))
    /\ SF_outboxVars(UNCHANGED vars /\ r \in deployed /\ Relay!MarkPublished(r))

-----------------------------------------------------------------------------
(* The outbox loses nothing and makes nothing up: a row that no poll will  *)
(* read again has been stored by Kafka, unless Kafka lost a message which  *)
(* the writer did not ask it to acknowledge, and what Kafka has stored is  *)
(* the announcement of a payment that was committed, in every interleaving *)
(* of requests, replicas, crashes and errors.                              *)
AnnouncedIsCommitted == delivered \subseteq committed
OutboxIsFaithful == Relay!PublishedIsDelivered /\ AnnouncedIsCommitted

(* With one replica the mark is final: a published row is never sent       *)
(* again, not even after a crash.  (Two replicas read overlapping batches, *)
(* and one sends what the other has marked.)                               *)
MarkIsFinal == Relay!MarkedIsFinal

(* "skip, retry next poll": every payment whose row Kafka accepts is in    *)
(* the end sent, also one whose client was told of an error, and so        *)
(* announced unless Kafka lost a message it was not asked to acknowledge,  *)
(* provided the rows Kafka refuses do not fill a whole batch.              *)
EveryPaymentIsAnnounced ==
  \A p \in Requests :
    Created[p] \notin Poison => (p \in payments ~> Created[p] \in delivered \union lost)
=============================================================================
