----------------------------- MODULE OutboxRelay -----------------------------
(***************************************************************************)
(* The relay of the payment service's transactional outbox.  Each replica  *)
(* runs one: every second it reads the oldest unpublished rows of          *)
(* payment_outbox, publishes them to Kafka one by one, and marks each row  *)
(* it has published.  Nothing locks the rows while a replica works on its  *)
(* batch.  On SIGTERM the relay polls once more, while main, which does    *)
(* not wait for it, returns and ends the process.                          *)
(***************************************************************************)
EXTENDS Naturals, FiniteSetsExt

CONSTANTS   (* what PaymentOutbox assumes of them is stated there *)
  Rows,      \* rows of payment_outbox, numbered by created_at
  Relays,    \* replicas that the payment service may have
  Limit,     \* rows read by one poll
  Poison,    \* rows that Kafka never accepts, e.g. for a topic that is missing
  Faults     \* failures the environment may cause: "db", "kafka", "crash", "sigterm"

VARIABLES
  deployed,    \* the replicas that it does have
  committed,   \* rows whose transaction has committed
  published,   \* rows with a published_at
  delivered,   \* rows that Kafka has stored at least once
  lost,        \* rows that Kafka lost, although the write went well, not having them
  batch,       \* per relay: rows of the current poll still to be handled
  pc,          \* per relay: "ticker", "publish", "mark" or "stopped"
  terminating  \* relays whose context is done, which drain and stop

vars == <<deployed, committed, published, delivered, lost, batch, pc, terminating>>

(* Type invariant: every variable keeps the shape of the state it models. *)
TypeOK ==
  /\ deployed \subseteq Relays
  /\ committed \subseteq Rows /\ published \subseteq Rows
  /\ delivered \subseteq Rows /\ lost \subseteq Rows
  /\ batch \in [Relays -> SUBSET Rows]
  /\ pc \in [Relays -> {"ticker", "publish", "mark", "stopped"}]
  /\ terminating \subseteq Relays

Init ==
  /\ deployed \in SUBSET Relays \ {{}}
  /\ committed = {} /\ published = {} /\ delivered = {} /\ lost = {}
  /\ batch = [r \in Relays |-> {}]
  /\ pc = [r \in Relays |-> "ticker"]
  /\ terminating = {}

(* A handler commits a row; created_at is the start of its transaction, so *)
(* rows need not appear in the order of their numbers.                     *)
Commit(i) ==
  /\ i \notin committed
  /\ committed' = committed \union {i}
  /\ UNCHANGED <<deployed, published, delivered, lost, batch, pc, terminating>>

-----------------------------------------------------------------------------
(* Mutant of Unpublished: no WHERE published_at IS NULL. *)
UnpublishedOrNot == committed

Unpublished == committed \ published

(* SELECT ... WHERE published_at IS NULL ORDER BY created_at LIMIT ... *)
Oldest(rows) == {i \in rows : Cardinality({j \in rows : j < i}) < Limit}

(* After a poll a terminating relay returns, the others wait for the ticker. *)
Proceed(r, left) ==
  /\ batch' = [batch EXCEPT ![r] = left]
  /\ pc' = [pc EXCEPT ![r] = IF left # {} THEN "publish"
                             ELSE IF r \in terminating THEN "stopped" ELSE "ticker"]
  /\ UNCHANGED terminating

Poll(r) ==
  /\ pc[r] = "ticker"
  /\ Unpublished # {} \/ r \in terminating
  /\ Proceed(r, Oldest(Unpublished))
  /\ UNCHANGED <<deployed, committed, published, delivered, lost>>

(* The SELECT fails: the ticker comes round again, or the drain is over. *)
PollError(r) ==
  /\ "db" \in Faults
  /\ pc[r] = "ticker" /\ r \in terminating
  /\ Proceed(r, {})
  /\ UNCHANGED <<deployed, committed, published, delivered, lost>>

Current(r) == Min(batch[r])

(* The writer asks the brokers for no acknowledgement (a kafka.Writer that *)
(* sets no RequiredAcks has RequireNone): WriteMessages answers nil once    *)
(* the message is on its way, and a broker that fails then loses it.       *)
PublishOk(r) ==
  /\ pc[r] = "publish" /\ Current(r) \notin Poison
  /\ \/ delivered' = delivered \union {Current(r)} /\ UNCHANGED lost
     \/ /\ "kafka" \in Faults /\ lost' = lost \union ({Current(r)} \ delivered)
        /\ UNCHANGED delivered
  /\ pc' = [pc EXCEPT ![r] = "mark"]
  /\ UNCHANGED <<deployed, committed, published, batch, terminating>>

(* Mutant of PublishError: the row is marked although the publish failed. *)
PublishErrorMarks(r) ==
  /\ pc[r] = "publish"
  /\ \/ Current(r) \in Poison
     \/ "kafka" \in Faults
  /\ pc' = [pc EXCEPT ![r] = "mark"]
  /\ UNCHANGED <<deployed, committed, published, delivered, lost, batch, terminating>>

(* Mutant of PublishError: the first failure ends the poll. *)
PublishErrorStops(r) ==
  /\ pc[r] = "publish"
  /\ \/ Current(r) \in Poison /\ UNCHANGED delivered
     \/ /\ "kafka" \in Faults /\ Current(r) \notin Poison
        /\ delivered' \in {delivered, delivered \union {Current(r)}}
  /\ Proceed(r, {})
  /\ UNCHANGED <<deployed, committed, published, lost>>

(* A publish that fails, before or after the message went out, leaves the  *)
(* row for a later poll.                                                   *)
PublishError(r) ==
  /\ pc[r] = "publish"
  /\ \/ Current(r) \in Poison /\ UNCHANGED delivered
     \/ /\ "kafka" \in Faults /\ Current(r) \notin Poison
        /\ delivered' \in {delivered, delivered \union {Current(r)}}
  /\ Proceed(r, batch[r] \ {Current(r)})
  /\ UNCHANGED <<deployed, committed, published, lost>>

MarkPublished(r) ==
  /\ pc[r] = "mark"
  /\ published' = published \union {Current(r)}
  /\ Proceed(r, batch[r] \ {Current(r)})
  /\ UNCHANGED <<deployed, committed, delivered, lost>>

MarkError(r) ==
  /\ "db" \in Faults
  /\ pc[r] = "mark"
  /\ Proceed(r, batch[r] \ {Current(r)})
  /\ UNCHANGED <<deployed, committed, published, delivered, lost>>

-----------------------------------------------------------------------------
(* SIGTERM ends the context: what is left of the current poll fails, the   *)
(* publish in flight after or before Kafka stored the message.             *)
Sigterm(r) ==
  /\ "sigterm" \in Faults
  /\ pc[r] # "stopped" /\ r \notin terminating
  /\ terminating' = terminating \union {r}
  /\ \/ UNCHANGED delivered
     \/ /\ pc[r] = "publish" /\ Current(r) \notin Poison
        /\ delivered' = delivered \union {Current(r)}
  /\ batch' = [batch EXCEPT ![r] = {}]
  /\ pc' = [pc EXCEPT ![r] = "ticker"]
  /\ UNCHANGED <<deployed, committed, published, lost>>

(* A crash ends the process anywhere; so does main while the relay drains. *)
Exit(r) ==
  /\ pc[r] # "stopped"
  /\ "crash" \in Faults \/ r \in terminating
  /\ batch' = [batch EXCEPT ![r] = {}]
  /\ pc' = [pc EXCEPT ![r] = "stopped"]
  /\ UNCHANGED <<deployed, committed, published, delivered, lost, terminating>>

Restart(r) ==
  /\ pc[r] = "stopped"
  /\ terminating' = terminating \ {r}
  /\ pc' = [pc EXCEPT ![r] = "ticker"]
  /\ UNCHANGED <<deployed, committed, published, delivered, lost, batch>>

Run(r) == Poll(r) \/ PublishOk(r) \/ PublishError(r) \/ MarkPublished(r) \/ Restart(r)

Replica(r) == Run(r) \/ PollError(r) \/ MarkError(r) \/ Sigterm(r) \/ Exit(r)

Next ==
  \/ \E i \in Rows : Commit(i)
  \/ \E r \in deployed : Replica(r)

Spec == Init /\ [][Next]_vars

PassPoison(r) == pc[r] = "publish" /\ Current(r) \in Poison /\ PublishError(r)

-----------------------------------------------------------------------------
(* The outbox loses nothing: a row that no poll will read again has been   *)
(* stored by Kafka, in every interleaving of replicas, crashes and errors, *)
(* unless Kafka lost a message which it was not asked to acknowledge.      *)
PublishedIsDelivered == published \subseteq delivered \union lost

(* With one replica the mark is final: a published row is never sent       *)
(* again, not even after a crash.  (Two replicas read overlapping batches, *)
(* and one sends what the other has marked.)                               *)
Sending(r, i) == pc[r] \in {"publish", "mark"} /\ i = Current(r)

MarkedIsFinal ==
  \A r \in Relays, i \in published : deployed = {r} => ~ Sending(r, i)
=============================================================================
