-------------------------- MODULE PaymentInitiation --------------------------
(***************************************************************************)
(* POST /v1/payment/initiate: look for a payment with the client's         *)
(* idempotency key, create an order at the gateway, and insert the payment *)
(* with its outbox row in one transaction.  The column idempotency_key is  *)
(* UNIQUE.  Clients send a request again under the same key when it fails  *)
(* or when they lose patience, so requests with one key may overlap, and   *)
(* the gateway order comes first: a request that dies after it leaves an   *)
(* order at the gateway that no payment knows.                             *)
(***************************************************************************)
CONSTANTS
  Requests,   \* requests; the payment id a request makes up is its own name
  Keys,
  KeyOf,      \* the idempotency_key of a request
  None,
  Faults      \* failures the environment may cause: "db", "gateway", "crash"

ASSUME InitiationAssumption ==
  /\ KeyOf \in [Requests -> Keys]
  /\ None \notin Requests /\ "error" \notin Requests /\ None # "error"

VARIABLES
  payments,   \* payments committed, each with its payments.initiated outbox row
  orders,     \* requests for which the gateway has created an order
  pc, answer

vars == <<payments, orders, pc, answer>>

(* Type invariant: every variable keeps the shape of the state it models. *)
TypeOK ==
  /\ payments \subseteq Requests /\ orders \subseteq Requests
  /\ pc \in [Requests -> {"new", "check", "order", "insert", "done"}]
  /\ answer \in [Requests -> Requests \union {None, "error"}]

Init ==
  /\ payments = {} /\ orders = {}
  /\ pc = [r \in Requests |-> "new"]
  /\ answer = [r \in Requests |-> None]

Goto(r, label) == pc' = [pc EXCEPT ![r] = label] /\ UNCHANGED answer

Reply(r, result) ==
  /\ pc' = [pc EXCEPT ![r] = "done"]
  /\ answer' = [answer EXCEPT ![r] = result]

-----------------------------------------------------------------------------
Receive(r) ==
  /\ pc[r] = "new"
  /\ Goto(r, "check")
  /\ UNCHANGED <<payments, orders>>

WithKey(k) == {p \in payments : KeyOf[p] = k}

CheckIdempotency(r) ==
  /\ pc[r] = "check"
  /\ IF WithKey(KeyOf[r]) # {}
       THEN \E existing \in WithKey(KeyOf[r]) : Reply(r, existing)
       ELSE Goto(r, "order")
  /\ UNCHANGED <<payments, orders>>

CheckError(r) ==
  /\ "db" \in Faults
  /\ pc[r] = "check"
  /\ Reply(r, "error")
  /\ UNCHANGED <<payments, orders>>

CreateGatewayOrder(r) ==
  /\ pc[r] = "order"
  /\ orders' = orders \union {r}
  /\ Goto(r, "insert")
  /\ UNCHANGED payments

(* The gateway refuses, or creates the order and its answer is lost. *)
GatewayError(r) ==
  /\ "gateway" \in Faults
  /\ pc[r] = "order"
  /\ orders' \in {orders, orders \union {r}}
  /\ Reply(r, "error")
  /\ UNCHANGED payments

(* Mutant of Free: no UNIQUE on idempotency_key. *)
FreeAlways(k) == TRUE

Free(k) == WithKey(k) = {}

(* The transaction; a second payment with the key violates UNIQUE. *)
Insert(r) ==
  /\ pc[r] = "insert"
  /\ IF Free(KeyOf[r])
       THEN payments' = payments \union {r} /\ Reply(r, r)
       ELSE Reply(r, "error") /\ UNCHANGED payments
  /\ UNCHANGED orders

(* A transaction that fails, or that commits and whose answer is lost. *)
InsertError(r) ==
  /\ "db" \in Faults
  /\ pc[r] = "insert"
  /\ \/ UNCHANGED payments
     \/ Free(KeyOf[r]) /\ payments' = payments \union {r}
  /\ Reply(r, "error")
  /\ UNCHANGED orders

(* The replica dies and the client is left without an answer. *)
Crash(r) ==
  /\ "crash" \in Faults
  /\ pc[r] \in {"check", "order", "insert"}
  /\ Goto(r, "done")
  /\ UNCHANGED <<payments, orders>>

Next ==
  \E r \in Requests :
    \/ Receive(r) \/ CheckIdempotency(r) \/ CheckError(r)
    \/ CreateGatewayOrder(r) \/ GatewayError(r)
    \/ Insert(r) \/ InsertError(r) \/ Crash(r)

Spec == Init /\ [][Next]_vars

-----------------------------------------------------------------------------
(* However requests with one key overlap, fail and are repeated, clients   *)
(* are only ever given one payment for it, and that one exists, so there   *)
(* is one gateway order per key that a customer can be led to pay.         *)
OnePaymentPerKey ==
  \A q, r \in Requests :
    /\ answer[r] \in Requests => answer[r] \in payments \intersect orders
    /\ KeyOf[q] = KeyOf[r] /\ {answer[q], answer[r]} \subseteq Requests
         => answer[q] = answer[r]

(* The payments row with a key is what the key is bound to. *)
Bound == [k \in Keys |-> IF WithKey(k) = {} THEN None
                         ELSE CHOOSE p \in payments : KeyOf[p] = k]

Promise == INSTANCE IdempotencyKey WITH bound <- Bound

(* The service keeps the promise of an idempotency key. *)
ImplementsIdempotencyKey == Promise!Spec
=============================================================================
