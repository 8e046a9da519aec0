--------------------------- MODULE OrderFulfilment ---------------------------
(***************************************************************************)
(* The order service between a confirmed payment and the customer's exit   *)
(* token: the Kafka consumer that turns payment.confirmed into an order,   *)
(* issues the token, announces order.completed or gives up with            *)
(* order.creation_failed, and the handler that shows or refreshes the      *)
(* token.  Messages arrive at least once, and several messages may name    *)
(* one payment, since the relay that sends them may send a row twice.      *)
(***************************************************************************)
EXTENDS Naturals

CONSTANTS
  Payments,
  Messages,    \* messages of the topic payment.confirmed
  PaymentOf,   \* the payment a message names
  Unsellable,  \* messages with a product that does not exist
  Workers,     \* consumers of the group, each with one message at a time
  Requests,    \* GET /v1/order/{id}/exit-token, each served once
  None,
  Attempts,    \* calls of CreateOrderFromPayment per delivery
  Scenarios    \* sets of failures: each behaviour may suffer those of one set,
               \* out of "db", "kafka", "crash", "shutdown" and "rebalance"

ASSUME FulfilmentAssumption ==
  /\ PaymentOf \in [Messages -> Payments]
  /\ Messages \intersect Requests = {}
  /\ None \notin Messages \union Requests \union Payments
  /\ Attempts \in Nat \ {0}

VARIABLES
  faults,      \* the failures of this behaviour
  sent,        \* messages in the topic
  offset,      \* messages whose offset the group has committed
  orders,      \* how many rows of orders each payment has
  tokens,      \* rows of exit_tokens; a token is named after who issued it
  expired,     \* tokens past their ten minutes
  exitToken,   \* orders.exit_token of each payment's order
  completed,   \* order.completed events published for each payment
  failed,      \* payments with an order.creation_failed event
  dropped,     \* payments of which that event could not be published
  invoice,     \* how far the invoice goroutine of each payment's order got
  job, pc, attempt,       \* per worker: message, next step, attempt
  stopping,    \* workers whose context is cancelled, on SIGTERM
  wanted, stage, answer   \* per request: its order, next step, response

queue == <<sent, offset>>
database == <<orders, tokens, exitToken>>
events == <<completed, failed, dropped>>
consumer == <<job, pc, attempt, stopping>>
handler == <<wanted, stage, answer>>
vars == <<faults, queue, database, expired, events, invoice, consumer, handler>>

Tokens == Messages \union Requests
Label == {"fetch", "create", "items", "token", "save", "publish", "compensate",
          "commit"}

(* Type invariant: every variable keeps the shape of the state it models. *)
TypeOK ==
  /\ faults \in Scenarios
  /\ sent \subseteq Messages /\ offset \subseteq sent
  /\ orders \in [Payments -> Nat]
  /\ tokens \subseteq Tokens /\ expired \subseteq tokens
  /\ exitToken \in [Payments -> Tokens \union {None}]
  /\ completed \in [Payments -> Nat]
  /\ failed \subseteq Payments /\ dropped \subseteq Payments
  /\ invoice \in [Payments -> {"none", "running", "saved", "notified", "lost"}]
  /\ job \in [Workers -> sent \union {None}]
  /\ pc \in [Workers -> Label]
  /\ \A w \in Workers : pc[w] # "fetch" => job[w] # None
  /\ attempt \in [Workers -> 1..Attempts]
  /\ stopping \subseteq Workers
  /\ wanted \in [Requests -> Payments \union {None}]
  /\ stage \in [Requests -> {"new", "issue", "save", "done"}]
  /\ \A g \in Requests : stage[g] \in {"issue", "save"} => wanted[g] # None
  /\ answer \in [Requests -> Tokens \union {None}]

Init ==
  /\ faults \in Scenarios
  /\ sent = {} /\ offset = {}
  /\ orders = [p \in Payments |-> 0]
  /\ tokens = {} /\ expired = {}
  /\ exitToken = [p \in Payments |-> None]
  /\ completed = [p \in Payments |-> 0] /\ failed = {} /\ dropped = {}
  /\ invoice = [p \in Payments |-> "none"]
  /\ job = [w \in Workers |-> None]
  /\ pc = [w \in Workers |-> "fetch"]
  /\ attempt = [w \in Workers |-> 1]
  /\ stopping = {}
  /\ wanted = [g \in Requests |-> None]
  /\ stage = [g \in Requests |-> "new"]
  /\ answer = [g \in Requests |-> None]

Payment(w) == PaymentOf[job[w]]
Goto(w, label) ==
  pc' = [pc EXCEPT ![w] = label] /\ UNCHANGED <<job, attempt, stopping>>

(* The worker is done with its message; one that was told to stop comes    *)
(* back as a new process.                                                  *)
Stop(w) ==
  /\ stopping' = stopping \ {w}
  /\ job' = [job EXCEPT ![w] = None]
  /\ pc' = [pc EXCEPT ![w] = "fetch"]
  /\ attempt' = [attempt EXCEPT ![w] = 1]

(* Mutant of Retry: the last error is dropped with the message. *)
RetryThenDrop(w) ==
  IF attempt[w] < Attempts
    THEN /\ attempt' = [attempt EXCEPT ![w] = @ + 1]
         /\ pc' = [pc EXCEPT ![w] = "create"]
         /\ UNCHANGED <<job, stopping>>
    ELSE Goto(w, "commit")

(* Mutant of Retry: a message that fails is tried for ever. *)
RetryForEver(w) == Goto(w, "create")

(* HandlePaymentConfirmed calls again after an error, and after the last   *)
(* one leaves it to the consumer's loop.                                   *)
Retry(w) ==
  IF attempt[w] < Attempts
    THEN /\ attempt' = [attempt EXCEPT ![w] = @ + 1]
         /\ pc' = [pc EXCEPT ![w] = "create"]
         /\ UNCHANGED <<job, stopping>>
    ELSE Goto(w, "compensate")

-----------------------------------------------------------------------------
Send(m) ==
  /\ m \notin sent
  /\ sent' = sent \union {m}
  /\ UNCHANGED <<faults, offset, database, expired, events, invoice,
                 consumer, handler>>

(* A message is with one consumer of the group, until a rebalance gives it *)
(* to another that cannot know how far the first one got.                  *)
Fetch(w, m) ==
  /\ pc[w] = "fetch" /\ m \in sent \ offset
  /\ "rebalance" \in faults \/ \A v \in Workers : job[v] # m
  /\ job' = [job EXCEPT ![w] = m]
  /\ pc' = [pc EXCEPT ![w] = "create"]
  /\ UNCHANGED <<faults, attempt, stopping, queue, database, expired, events,
                 invoice, handler>>

(* INSERT ... ON CONFLICT (payment_id) DO NOTHING waits for a transaction  *)
(* that has inserted the payment's order and not ended yet.                *)
Locked(p) == \E v \in Workers : pc[v] = "items" /\ Payment(v) = p
(* Mutant of Conflict: an order without a token is made once more. *)
ConflictOnceFulfilled(p) == orders[p] > 0 /\ exitToken[p] # None

Conflict(p) == orders[p] > 0

(* Mutant of UpsertOrder: a lock is an error, nobody waits for it. *)
UpsertOrderNoWait(w) ==
  /\ pc[w] = "create" /\ job[w] \notin Unsellable
  /\ IF Locked(Payment(w)) THEN Retry(w)
     ELSE Goto(w, IF Conflict(Payment(w)) THEN "commit" ELSE "items")
  /\ UNCHANGED <<faults, queue, database, expired, events, invoice, handler>>

UpsertOrder(w) ==
  /\ pc[w] = "create" /\ job[w] \notin Unsellable
  /\ ~ Locked(Payment(w))
  /\ Goto(w, IF Conflict(Payment(w)) THEN "commit" ELSE "items")
  /\ UNCHANGED <<faults, queue, database, expired, events, invoice, handler>>

(* A product is unknown, or the database fails before the insert has run.  *)
CreateError(w) ==
  /\ pc[w] = "create"
  /\ job[w] \in Unsellable \/ "db" \in faults
  /\ Retry(w)
  /\ UNCHANGED <<faults, queue, database, expired, events, invoice, handler>>

CommitOrder(w) ==
  /\ pc[w] = "items"
  /\ orders' = [orders EXCEPT ![Payment(w)] = @ + 1]
  /\ Goto(w, "token")
  /\ UNCHANGED <<faults, queue, tokens, exitToken, expired, events,
                 invoice, handler>>

(* The transaction is rolled back, or commits and the answer is lost.      *)
CommitOrderError(w) ==
  /\ "db" \in faults
  /\ pc[w] = "items"
  /\ \/ UNCHANGED orders
     \/ orders' = [orders EXCEPT ![Payment(w)] = @ + 1]
  /\ Retry(w)
  /\ UNCHANGED <<faults, queue, tokens, exitToken, expired, events,
                 invoice, handler>>

(* Mutant of Issue: the token is not saved in the order. *)
IssueUnsaved(w) ==
  /\ pc[w] = "token"
  /\ tokens' = tokens \union {job[w]}
  /\ Goto(w, "publish")
  /\ UNCHANGED <<faults, queue, orders, exitToken, expired, events,
                 invoice, handler>>

Issue(w) ==
  /\ pc[w] = "token"
  /\ tokens' = tokens \union {job[w]}
  /\ Goto(w, "save")
  /\ UNCHANGED <<faults, queue, orders, exitToken, expired, events,
                 invoice, handler>>

IssueError(w) ==
  /\ "db" \in faults
  /\ pc[w] = "token"
  /\ tokens' \in {tokens, tokens \union {job[w]}}
  /\ Retry(w)
  /\ UNCHANGED <<faults, queue, orders, exitToken, expired, events,
                 invoice, handler>>

UpdateExitToken(w) ==
  /\ pc[w] = "save"
  /\ exitToken' = [exitToken EXCEPT ![Payment(w)] = job[w]]
  /\ Goto(w, "publish")
  /\ UNCHANGED <<faults, queue, orders, tokens, expired, events, invoice,
                 handler>>

UpdateExitTokenError(w) ==
  /\ "db" \in faults
  /\ pc[w] = "save"
  /\ \/ UNCHANGED exitToken
     \/ exitToken' = [exitToken EXCEPT ![Payment(w)] = job[w]]
  /\ Retry(w)
  /\ UNCHANGED <<faults, queue, orders, tokens, expired, events, invoice,
                 handler>>

(* With a cancelled context a call to Kafka may be carried out or not.     *)
MayFail(w) == "kafka" \in faults \/ w \in stopping

(* An error of the publish is only logged.  Then: go GenerateAsync(...).   *)
PublishCompleted(w) ==
  /\ pc[w] = "publish"
  /\ \/ completed' = [completed EXCEPT ![Payment(w)] = @ + 1]
     \/ MayFail(w) /\ UNCHANGED completed
  /\ invoice' = [invoice EXCEPT ![Payment(w)] = "running"]
  /\ Goto(w, "commit")
  /\ UNCHANGED <<faults, queue, database, expired, failed, dropped, handler>>

(* An error of this publish is dropped. *)
PublishCreationFailed(w) ==
  /\ pc[w] = "compensate"
  /\ \/ failed' = failed \union {Payment(w)} /\ UNCHANGED dropped
     \/ MayFail(w) /\ dropped' = dropped \union {Payment(w)} /\ UNCHANGED failed
  /\ Goto(w, "commit")
  /\ UNCHANGED <<faults, queue, database, expired, completed, invoice,
                 handler>>

(* An error of the commit is only printed: the message comes again.        *)
CommitMessages(w) ==
  /\ pc[w] = "commit"
  /\ \/ offset' = offset \union {job[w]}
     \/ MayFail(w) /\ UNCHANGED offset
  /\ Stop(w)
  /\ UNCHANGED <<faults, sent, database, expired, events, invoice, handler>>

(* SIGTERM cancels the context.  The call to the database in flight fails,  *)
(* having had its effect or not, and HandlePaymentConfirmed returns with no *)
(* another attempt.  The loop goes on to the events and to the offset,     *)
(* whose calls may fail as well, and only then looks at the context.       *)
Cancel(w) ==
  /\ "shutdown" \in faults
  /\ pc[w] # "fetch" /\ w \notin stopping
  /\ stopping' = stopping \union {w}
  /\ pc' = [pc EXCEPT ![w] = IF @ \in {"publish", "compensate", "commit"} THEN @
                             ELSE "compensate"]
  /\ orders' \in {orders, [orders EXCEPT ![Payment(w)] =
                                IF pc[w] = "items" THEN @ + 1 ELSE @]}
  /\ tokens' \in {tokens, IF pc[w] = "token" THEN tokens \union {job[w]} ELSE tokens}
  /\ exitToken' \in {exitToken, [exitToken EXCEPT ![Payment(w)] =
                                     IF pc[w] = "save" THEN job[w] ELSE @]}
  /\ UNCHANGED <<faults, job, attempt, queue, expired, events, invoice, handler>>

(* The replica dies; main, which does not wait for a consumer that was     *)
(* told to stop, ends it as well.                                          *)
Crash(w) ==
  /\ "crash" \in faults \/ w \in stopping
  /\ pc[w] # "fetch"
  /\ Stop(w)
  /\ UNCHANGED <<faults, queue, database, expired, events, invoice, handler>>

-----------------------------------------------------------------------------
(* GenerateAsync: write the URL of the invoice, then notify the customer.  *)
UpdateInvoiceURL(p) ==
  /\ invoice[p] = "running"
  /\ invoice' = [invoice EXCEPT ![p] = "saved"]
  /\ UNCHANGED <<faults, queue, database, expired, events, consumer, handler>>

PublishNotification(p) ==
  /\ invoice[p] = "saved"
  /\ invoice' = [invoice EXCEPT ![p] = "notified"]
  /\ UNCHANGED <<faults, queue, database, expired, events, consumer, handler>>

(* On any error, and when the replica dies, nobody tries again. *)
LoseInvoice(p) ==
  /\ invoice[p] \in {"running", "saved"} /\ faults # {}
  /\ invoice' = [invoice EXCEPT ![p] = "lost"]
  /\ UNCHANGED <<faults, queue, database, expired, events, consumer, handler>>

-----------------------------------------------------------------------------
Expire(t) ==
  /\ t \in tokens \ expired
  /\ expired' = expired \union {t}
  /\ UNCHANGED <<faults, queue, database, events, invoice, consumer, handler>>

Respond(g, result) ==
  /\ answer' = [answer EXCEPT ![g] = result]
  /\ stage' = [stage EXCEPT ![g] = "done"]

(* GetExitToken shows the order's token, unless there is none or its time  *)
(* is over; whether it has been used is not looked at.                     *)
Presentable(token) == token \notin expired \union {None}

GetExitToken(g, p) ==
  /\ stage[g] = "new" /\ orders[p] > 0
  /\ wanted' = [wanted EXCEPT ![g] = p]
  /\ IF Presentable(exitToken[p]) THEN Respond(g, exitToken[p])
     ELSE stage' = [stage EXCEPT ![g] = "issue"] /\ UNCHANGED answer
  /\ UNCHANGED <<faults, queue, database, expired, events, invoice, consumer>>

(* Mutant of RefreshIssue: a row that cannot be written is no error. *)
RefreshIssueAnyway(g) ==
  /\ stage[g] = "issue"
  /\ \/ tokens' = tokens \union {g}
     \/ "db" \in faults /\ UNCHANGED tokens
  /\ stage' = [stage EXCEPT ![g] = "save"]
  /\ UNCHANGED <<faults, queue, orders, exitToken, expired, events, invoice,
                 consumer, wanted, answer>>

RefreshIssue(g) ==
  /\ stage[g] = "issue"
  /\ tokens' = tokens \union {g}
  /\ stage' = [stage EXCEPT ![g] = "save"]
  /\ UNCHANGED <<faults, queue, orders, exitToken, expired, events, invoice,
                 consumer, wanted, answer>>

RefreshSave(g) ==
  /\ stage[g] = "save"
  /\ exitToken' = [exitToken EXCEPT ![wanted[g]] = g]
  /\ Respond(g, g)
  /\ UNCHANGED <<faults, queue, orders, tokens, expired, events, invoice,
                 consumer, wanted>>

(* A read or a write fails, or the replica dies: no token for the caller.  *)
RefreshError(g) ==
  /\ faults \intersect {"db", "crash"} # {}
  /\ \/ stage[g] = "issue" /\ tokens' \in {tokens, tokens \union {g}}
        /\ UNCHANGED exitToken
     \/ stage[g] = "save" /\ UNCHANGED tokens
        /\ exitToken' \in {exitToken, [exitToken EXCEPT ![wanted[g]] = g]}
  /\ Respond(g, None)
  /\ UNCHANGED <<faults, queue, orders, expired, events, invoice, consumer,
                 wanted>>

-----------------------------------------------------------------------------
Work(w) ==
  \/ UpsertOrder(w) \/ CommitOrder(w) \/ Issue(w) \/ UpdateExitToken(w)
  \/ PublishCompleted(w) \/ PublishCreationFailed(w) \/ CommitMessages(w)
  \/ job[w] \in Unsellable /\ CreateError(w)

Failure(w) ==
  \/ CreateError(w) \/ CommitOrderError(w) \/ IssueError(w)
  \/ UpdateExitTokenError(w) \/ Cancel(w) \/ Crash(w)

Next ==
  \/ \E m \in Messages : Send(m)
  \/ \E w \in Workers, m \in Messages : Fetch(w, m)
  \/ \E w \in Workers : Work(w) \/ Failure(w)
  \/ \E p \in Payments :
       UpdateInvoiceURL(p) \/ PublishNotification(p) \/ LoseInvoice(p)
  \/ \E t \in Tokens : Expire(t)
  \/ \E g \in Requests, p \in Payments : GetExitToken(g, p)
  \/ \E g \in Requests : RefreshIssue(g) \/ RefreshSave(g) \/ RefreshError(g)

Spec == Init /\ [][Next]_vars

(* Consumers fetch what is uncommitted and go on with what they have, and  *)
(* the invoice goroutine runs.                                             *)
Fairness ==
  /\ \A m \in Messages : SF_vars(\E w \in Workers : Fetch(w, m))
  /\ \A w \in Workers : WF_vars(Work(w))
  /\ \A p \in Payments : WF_vars(UpdateInvoiceURL(p) \/ PublishNotification(p))

FairSpec == Spec /\ Fairness

-----------------------------------------------------------------------------
(* However often the messages of a payment are delivered, to however many  *)
(* consumers, and whichever attempts fail with unknown outcome, it becomes *)
(* one order, announced to the other services at most once.                *)
OneOrderPerPayment ==
  \A p \in Payments : orders[p] <= 1 /\ completed[p] <= orders[p]

(* No customer holds a token the exit gate does not know: a token in the   *)
(* order's row or in an answer has its row in exit_tokens, although the    *)
(* two are written without a transaction, by consumers and refreshes that  *)
(* do not know of each other.                                              *)
TokenIsKnown ==
  /\ \A p \in Payments : exitToken[p] \in tokens \union {None}
  /\ \A g \in Requests : answer[g] \in tokens \union {None}

(* "Commit offset only after processing (or after handling failure and     *)
(* sending saga event)": a payment whose message will not come again has   *)
(* its order, or order.creation_failed has been published, or the publish  *)
(* of just this event failed, which takes a failure of Kafka or a shutdown. *)
Settled(p) == orders[p] > 0 \/ p \in failed \/ p \in dropped

CommittedIsSettled ==
  /\ \A m \in offset : Settled(PaymentOf[m])
  /\ faults \intersect {"kafka", "shutdown"} = {} => dropped = {}

(* Without faults two consumers of one payment never make each other fail: *)
(* only a payment for something that is not sold is given up.              *)
FailedIsUnsellable ==
  faults = {} => \A p \in failed : \E m \in Unsellable : PaymentOf[m] = p

(* Without faults only what nobody sells fails, and an order that exists   *)
(* gets its token, is announced, and its invoice is sent, however many     *)
(* messages and consumers meet at it.                                      *)
Fulfilled(p) ==
  exitToken[p] # None /\ completed[p] > 0 /\ invoice[p] = "notified"

OrderIsFulfilled ==
  /\ []FailedIsUnsellable
  /\ \A p \in Payments : faults = {} /\ orders[p] > 0 ~> Fulfilled(p)

(* Every confirmed payment is settled in the end, through database errors  *)
(* and any number of crashes and shutdowns, provided that the replicas do  *)
(* not die again and again for ever: it is an order, or its failure has    *)
(* been announced, or Kafka or a shutdown has refused the announcement.    *)
CrashesEnd == <>[][\A w \in Workers : ~ Crash(w) /\ ~ Cancel(w)]_vars

PaymentIsSettled ==
  CrashesEnd =>
    \A m \in Messages : m \in sent ~> Settled(PaymentOf[m])
=============================================================================
