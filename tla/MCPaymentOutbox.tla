-------------------------- MODULE MCPaymentOutbox --------------------------
EXTENDS PaymentOutbox, TLC

CONSTANTS q1, q2, q3, k1, k2, k3

(* Three payments, of which Kafka refuses the row of the oldest. *)
MCKeyOf == q1 :> k1 @@ q2 :> k2 @@ q3 :> k3
MCCreated == q1 :> 1 @@ q2 :> 2 @@ q3 :> 3

(* The oldest row has been there since before: its request is done.  The   *)
(* youngest request has its gateway order and is about to insert.          *)
MCInit ==
  /\ payments = {q1} /\ orders = {q1, q3}
  /\ pc = q1 :> "done" @@ q2 :> "new" @@ q3 :> "insert"
  /\ answer = [r \in Requests |-> IF r = q1 THEN q1 ELSE None]
  /\ deployed \in SUBSET Relays \ {{}}
  /\ published = {} /\ delivered = {} /\ lost = {}
  /\ batch = [r \in Relays |-> {}]
  /\ relayPc = [r \in Relays |-> "ticker"]
  /\ terminating = {}
MCSpec == MCInit /\ [][OutboxNext]_outboxVars /\ RelaysGoOn
=============================================================================
