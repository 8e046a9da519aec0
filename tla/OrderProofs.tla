----------------------------- MODULE OrderProofs -----------------------------
(***************************************************************************)
(* The order service, from payment.confirmed to the return of the goods.   *)
(*                                                                         *)
(* Fulfilment, for any number of payments, messages, consumers and token   *)
(* requests: one order and one announcement per payment, no token the gate *)
(* does not know, and no offset committed for a payment that is not        *)
(* settled, unless the event that settles it could not be published.       *)
(*                                                                         *)
(* Returns, for any orders, prices, lists of items and number of requests: *)
(* units come back once and alike in every book; no money without goods    *)
(* and none beyond what was paid, whatever fails; and an accepted return   *)
(* that is settled has taken, and paid back, what came back.               *)
(***************************************************************************)
EXTENDS OrderFulfilment, OrderReturns, FiniteSetTheorems, SequenceTheorems,
        WellFoundedInduction, TLAPS

(* The attempt that inserts a payment's order owns it until it has         *)
(* announced it, fails or dies: nobody else is past the insert.            *)
Owning(w) == pc[w] \in {"items", "token", "save", "publish"}

Ownership ==
  /\ \A v, w \in Workers : Owning(v) /\ Owning(w) /\ Payment(v) = Payment(w) => v = w
  /\ \A w \in Workers : pc[w] = "items" => orders[Payment(w)] = 0
  /\ \A w \in Workers :
       pc[w] \in {"token", "save", "publish"} =>
         orders[Payment(w)] = 1 /\ completed[Payment(w)] = 0

(* A token is written to exit_tokens before it is written anywhere else. *)
Issued ==
  /\ \A w \in Workers : pc[w] = "save" => job[w] \in tokens
  /\ \A g \in Requests : stage[g] = "save" => g \in tokens

IInv == TypeOK /\ Ownership /\ OneOrderPerPayment /\ Issued /\ TokenIsKnown

-----------------------------------------------------------------------------
(* At the start nothing has been fetched, ordered or issued. *)
LEMMA InitIInv == Init => IInv
  BY FulfilmentAssumption
  DEF Init, IInv, TypeOK, Ownership, Owning, OneOrderPerPayment, Issued,
      TokenIsKnown, Label, Tokens

(* A worker past its fetch holds a message of a payment. *)
LEMMA JobPayment ==
  ASSUME TypeOK, NEW w \in Workers, pc[w] # "fetch"
  PROVE  job[w] \in sent /\ job[w] \in Messages /\ Payment(w) \in Payments
  BY FulfilmentAssumption DEF TypeOK, Payment

(* Each step keeps the type invariant. *)
LEMMA TypeStep == TypeOK /\ [Next]_vars => TypeOK'
<1> SUFFICES ASSUME TypeOK, [Next]_vars PROVE TypeOK' OBVIOUS
<1> USE FulfilmentAssumption
    DEF TypeOK, Label, Tokens, queue, database, events, consumer, handler
<1>1. ASSUME NEW m \in Messages, Send(m) PROVE TypeOK'
  BY <1>1 DEF Send
<1>2. ASSUME NEW w \in Workers, NEW m \in Messages, Fetch(w, m) PROVE TypeOK'
  BY <1>2 DEF Fetch
<1>3. ASSUME NEW w \in Workers, UpsertOrder(w) PROVE TypeOK'
  BY <1>3 DEF UpsertOrder, Goto
<1>4. ASSUME NEW w \in Workers, CreateError(w) PROVE TypeOK'
  BY <1>4 DEF CreateError, Retry, Goto
<1>5. ASSUME NEW w \in Workers, CommitOrder(w) PROVE TypeOK'
  BY <1>5, JobPayment DEF CommitOrder, Goto
<1>6. ASSUME NEW w \in Workers, CommitOrderError(w) PROVE TypeOK'
  BY <1>6, JobPayment DEF CommitOrderError, Retry, Goto
<1>7. ASSUME NEW w \in Workers, Issue(w) PROVE TypeOK'
  BY <1>7, JobPayment DEF Issue, Goto
<1>8. ASSUME NEW w \in Workers, IssueError(w) PROVE TypeOK'
  BY <1>8, JobPayment DEF IssueError, Retry, Goto
<1>9. ASSUME NEW w \in Workers, UpdateExitToken(w) PROVE TypeOK'
  BY <1>9, JobPayment DEF UpdateExitToken, Goto
<1>10. ASSUME NEW w \in Workers, UpdateExitTokenError(w) PROVE TypeOK'
  BY <1>10, JobPayment DEF UpdateExitTokenError, Retry, Goto
<1>11. ASSUME NEW w \in Workers, PublishCompleted(w) PROVE TypeOK'
  BY <1>11, JobPayment DEF PublishCompleted, Goto
<1>12. ASSUME NEW w \in Workers, PublishCreationFailed(w) PROVE TypeOK'
  BY <1>12, JobPayment DEF PublishCreationFailed, Goto
<1>13. ASSUME NEW w \in Workers, CommitMessages(w) PROVE TypeOK'
  BY <1>13, JobPayment DEF CommitMessages, Stop
<1>14. ASSUME NEW w \in Workers, Crash(w) PROVE TypeOK'
  BY <1>14 DEF Crash, Stop
<1>15. ASSUME NEW p \in Payments,
              UpdateInvoiceURL(p) \/ PublishNotification(p) \/ LoseInvoice(p)
       PROVE  TypeOK'
  BY <1>15 DEF UpdateInvoiceURL, PublishNotification, LoseInvoice
<1>16. ASSUME NEW t \in Tokens, Expire(t) PROVE TypeOK'
  BY <1>16 DEF Expire
<1>17. ASSUME NEW g \in Requests, NEW p \in Payments, GetExitToken(g, p) PROVE TypeOK'
  BY <1>17 DEF GetExitToken, Respond, Presentable
<1>18. ASSUME NEW g \in Requests, RefreshIssue(g) PROVE TypeOK'
  BY <1>18 DEF RefreshIssue
<1>19. ASSUME NEW g \in Requests, RefreshSave(g) PROVE TypeOK'
  BY <1>19 DEF RefreshSave, Respond
<1>20. ASSUME NEW g \in Requests, RefreshError(g) PROVE TypeOK'
  BY <1>20 DEF RefreshError, Respond
<1>21. ASSUME NEW w \in Workers, Cancel(w) PROVE TypeOK'
  BY <1>21, JobPayment DEF Cancel
<1>22. CASE UNCHANGED vars
  BY <1>22 DEF vars
<1> QED
  BY <1>1, <1>2, <1>3, <1>4, <1>5, <1>6, <1>7, <1>8, <1>9, <1>10, <1>11, <1>12,
     <1>13, <1>14, <1>15, <1>16, <1>17, <1>18, <1>19, <1>20, <1>21, <1>22
  DEF Next, Work, Failure

(* Ownership is not disturbed by what leaves the consumers, the orders and *)
(* their announcements alone.                                              *)
LEMMA OwnershipFrame ==
  ASSUME Ownership, OneOrderPerPayment, UNCHANGED <<consumer, orders, completed>>
  PROVE  Ownership' /\ OneOrderPerPayment'
  BY DEF Ownership, OneOrderPerPayment, Owning, Payment, consumer

(* Nor by a consumer that ends an attempt or its message: it owns nothing. *)
LEMMA OwnershipRelease ==
  ASSUME TypeOK, Ownership, OneOrderPerPayment, NEW w \in Workers,
         pc' = [pc EXCEPT ![w] = pc'[w]], job' = [job EXCEPT ![w] = job'[w]],
         ~ Owning(w)', UNCHANGED <<orders, completed>>
  PROVE  Ownership' /\ OneOrderPerPayment'
  BY DEF TypeOK, Ownership, OneOrderPerPayment, Owning, Payment

(* Where an error leaves a consumer. *)
LEMMA RetryReleases ==
  ASSUME TypeOK, NEW w \in Workers, Retry(w)
  PROVE  /\ pc' = [pc EXCEPT ![w] = pc'[w]] /\ pc'[w] \in {"create", "compensate"}
         /\ job' = [job EXCEPT ![w] = job'[w]] /\ job'[w] = job[w]
         /\ ~ Owning(w)'
  BY DEF TypeOK, Retry, Goto, Owning

(* SIGTERM takes a consumer to the events and to the offset, and may leave *)
(* the order that it was inserting.                                        *)
LEMMA CancelReleases ==
  ASSUME TypeOK, NEW w \in Workers, Cancel(w)
  PROVE  /\ pc' = [pc EXCEPT ![w] = pc'[w]] /\ job' = job
         /\ pc'[w] \in {"publish", "compensate", "commit"}
         /\ pc'[w] # "compensate" => pc'[w] = pc[w]
         /\ pc'[w] = "publish" => UNCHANGED <<orders, completed>>
         /\ UNCHANGED <<completed, failed, dropped, stage, answer>>
         /\ tokens \subseteq tokens'
  BY DEF TypeOK, Cancel, Label, events, handler

(* Each step keeps one owner and one order per payment. *)
LEMMA OwnershipStep ==
  TypeOK /\ Ownership /\ OneOrderPerPayment /\ [Next]_vars
    => Ownership' /\ OneOrderPerPayment'
<1> SUFFICES ASSUME TypeOK, Ownership, OneOrderPerPayment, [Next]_vars
             PROVE  Ownership' /\ OneOrderPerPayment'
  OBVIOUS
<1> USE DEF queue, database, events, consumer, handler
<1>1. ASSUME NEW m \in Messages, Send(m) PROVE Ownership' /\ OneOrderPerPayment'
  BY <1>1, OwnershipFrame DEF Send
<1>2. ASSUME NEW w \in Workers, NEW m \in Messages, Fetch(w, m)
      PROVE  Ownership' /\ OneOrderPerPayment'
  <2>1. /\ pc' = [pc EXCEPT ![w] = pc'[w]] /\ job' = [job EXCEPT ![w] = job'[w]]
        /\ ~ Owning(w)'
    BY <1>2 DEF Fetch, TypeOK, Owning
  <2> QED
    BY <1>2, <2>1, OwnershipRelease DEF Fetch
<1>3. ASSUME NEW w \in Workers, UpsertOrder(w) PROVE Ownership' /\ OneOrderPerPayment'
  <2>1. CASE Conflict(Payment(w))
    <3>1. /\ pc' = [pc EXCEPT ![w] = pc'[w]] /\ job' = [job EXCEPT ![w] = job'[w]]
          /\ ~ Owning(w)'
      BY <1>3, <2>1 DEF UpsertOrder, Goto, TypeOK, Owning
    <3> QED
      BY <1>3, <3>1, OwnershipRelease DEF UpsertOrder
  <2>2. CASE ~ Conflict(Payment(w))
    <3>1. Payment(w) \in Payments /\ orders[Payment(w)] = 0
      BY <1>3, <2>2, JobPayment DEF UpsertOrder, Conflict, TypeOK
    <3>2. \A v \in Workers : Owning(v) => Payment(v) # Payment(w)
      BY <1>3, <3>1 DEF UpsertOrder, Locked, Ownership, Owning
    <3>3. pc' = [pc EXCEPT ![w] = "items"] /\ UNCHANGED <<job, orders, completed>>
      BY <1>3, <2>2 DEF UpsertOrder, Goto
    <3> QED
      BY <3>1, <3>2, <3>3 DEF TypeOK, Ownership, OneOrderPerPayment, Owning, Payment
  <2> QED
    BY <2>1, <2>2
<1>4. ASSUME NEW w \in Workers, CreateError(w) PROVE Ownership' /\ OneOrderPerPayment'
  BY <1>4, RetryReleases, OwnershipRelease DEF CreateError
<1>5. ASSUME NEW w \in Workers, CommitOrder(w) PROVE Ownership' /\ OneOrderPerPayment'
  <2>1. Payment(w) \in Payments /\ orders[Payment(w)] = 0 /\ completed[Payment(w)] = 0
    BY <1>5, JobPayment DEF CommitOrder, Ownership, OneOrderPerPayment, TypeOK
  <2>2. \A v \in Workers \ {w} : Owning(v) => Payment(v) # Payment(w)
    BY <1>5 DEF CommitOrder, Ownership, Owning
  <2>3. /\ pc' = [pc EXCEPT ![w] = "token"] /\ UNCHANGED <<job, completed>>
        /\ orders' = [orders EXCEPT ![Payment(w)] = 1]
    BY <1>5, <2>1 DEF CommitOrder, Goto
  <2> QED
    BY <2>1, <2>2, <2>3 DEF TypeOK, Ownership, OneOrderPerPayment, Owning, Payment
<1>6. ASSUME NEW w \in Workers, CommitOrderError(w)
      PROVE  Ownership' /\ OneOrderPerPayment'
  <2>1. Payment(w) \in Payments /\ orders[Payment(w)] = 0 /\ completed[Payment(w)] = 0
    BY <1>6, JobPayment DEF CommitOrderError, Ownership, OneOrderPerPayment, TypeOK
  <2>2. \A v \in Workers \ {w} : Owning(v) => Payment(v) # Payment(w)
    BY <1>6 DEF CommitOrderError, Ownership, Owning
  <2>3. /\ pc' = [pc EXCEPT ![w] = pc'[w]] /\ ~ Owning(w)'
        /\ job' = [job EXCEPT ![w] = job[w]]
    BY <1>6, RetryReleases DEF CommitOrderError
  <2>4. UNCHANGED completed /\ \/ UNCHANGED orders
                               \/ orders' = [orders EXCEPT ![Payment(w)] = 1]
    BY <1>6, <2>1 DEF CommitOrderError
  <2>5. OneOrderPerPayment'
    BY <2>1, <2>4 DEF TypeOK, OneOrderPerPayment
  <2>6. ASSUME NEW v \in Workers, Owning(v)'
        PROVE  /\ v # w /\ pc'[v] = pc[v] /\ job'[v] = job[v] /\ Owning(v)
               /\ orders'[Payment(v)] = orders[Payment(v)]
    <3>1. v # w /\ pc'[v] = pc[v] /\ job'[v] = job[v]
      BY <2>3, <2>6 DEF TypeOK, Owning
    <3>2. Owning(v)
      BY <3>1, <2>6 DEF Owning
    <3>3. Payment(v) \in Payments /\ Payment(v) # Payment(w)
      BY <3>1, <3>2, <2>2, JobPayment DEF Owning
    <3> QED
      BY <3>1, <3>2, <3>3, <2>4 DEF TypeOK
  <2> QED
    BY <2>4, <2>5, <2>6 DEF Ownership, Owning, Payment
<1>7. ASSUME NEW w \in Workers, Issue(w) \/ UpdateExitToken(w)
      PROVE  Ownership' /\ OneOrderPerPayment'
  BY <1>7 DEF Issue, UpdateExitToken, Goto, TypeOK, Ownership, OneOrderPerPayment,
              Owning, Payment
<1>8. ASSUME NEW w \in Workers, IssueError(w) \/ UpdateExitTokenError(w)
      PROVE  Ownership' /\ OneOrderPerPayment'
  BY <1>8, RetryReleases, OwnershipRelease DEF IssueError, UpdateExitTokenError
<1>9. ASSUME NEW w \in Workers, PublishCompleted(w)
      PROVE  Ownership' /\ OneOrderPerPayment'
  <2>1. Payment(w) \in Payments /\ orders[Payment(w)] = 1 /\ completed[Payment(w)] = 0
    BY <1>9, JobPayment DEF PublishCompleted, Ownership, TypeOK
  <2>2. \A v \in Workers \ {w} : Owning(v) => Payment(v) # Payment(w)
    BY <1>9 DEF PublishCompleted, Ownership, Owning
  <2>3. /\ pc' = [pc EXCEPT ![w] = "commit"] /\ UNCHANGED <<job, orders>>
        /\ \/ UNCHANGED completed
           \/ completed' = [completed EXCEPT ![Payment(w)] = 1]
    BY <1>9, <2>1 DEF PublishCompleted, Goto
  <2>4. OneOrderPerPayment'
    BY <2>1, <2>3 DEF TypeOK, OneOrderPerPayment
  <2>5. ASSUME NEW v \in Workers, Owning(v)'
        PROVE  /\ v # w /\ pc'[v] = pc[v] /\ job'[v] = job[v] /\ Owning(v)
               /\ completed'[Payment(v)] = completed[Payment(v)]
    <3>1. v # w /\ pc'[v] = pc[v] /\ job'[v] = job[v]
      BY <2>3, <2>5 DEF TypeOK, Owning
    <3>2. Owning(v)
      BY <3>1, <2>5 DEF Owning
    <3>3. Payment(v) \in Payments /\ Payment(v) # Payment(w)
      BY <3>1, <3>2, <2>2, JobPayment DEF Owning
    <3> QED
      BY <3>1, <3>2, <3>3, <2>3 DEF TypeOK
  <2> QED
    BY <2>3, <2>4, <2>5 DEF Ownership, Owning, Payment
<1>10. ASSUME NEW w \in Workers,
              PublishCreationFailed(w) \/ CommitMessages(w) \/ Crash(w)
       PROVE  Ownership' /\ OneOrderPerPayment'
  <2>1. /\ pc' = [pc EXCEPT ![w] = pc'[w]] /\ job' = [job EXCEPT ![w] = job'[w]]
        /\ ~ Owning(w)'
    BY <1>10 DEF PublishCreationFailed, CommitMessages, Crash, Goto, Stop, TypeOK, Owning
  <2> QED
    BY <1>10, <2>1, OwnershipRelease DEF PublishCreationFailed, CommitMessages, Crash
<1>11. ASSUME NEW p \in Payments,
              UpdateInvoiceURL(p) \/ PublishNotification(p) \/ LoseInvoice(p)
       PROVE  Ownership' /\ OneOrderPerPayment'
  BY <1>11, OwnershipFrame DEF UpdateInvoiceURL, PublishNotification, LoseInvoice
<1>12. ASSUME NEW t \in Tokens, Expire(t) PROVE Ownership' /\ OneOrderPerPayment'
  BY <1>12, OwnershipFrame DEF Expire
<1>13. ASSUME NEW g \in Requests,
              \/ \E p \in Payments : GetExitToken(g, p)
              \/ RefreshIssue(g) \/ RefreshSave(g) \/ RefreshError(g)
       PROVE  Ownership' /\ OneOrderPerPayment'
  BY <1>13, OwnershipFrame DEF GetExitToken, RefreshIssue, RefreshSave, RefreshError
<1>14. ASSUME NEW w \in Workers, Cancel(w) PROVE Ownership' /\ OneOrderPerPayment'
  <2>0. /\ pc' = [pc EXCEPT ![w] = pc'[w]] /\ job' = job /\ UNCHANGED completed
        /\ pc'[w] \in {"publish", "compensate", "commit"}
        /\ pc'[w] # "compensate" => pc'[w] = pc[w]
    BY <1>14, CancelReleases
  <2>1. CASE pc[w] = "items"
    <3>1. Payment(w) \in Payments /\ orders[Payment(w)] = 0 /\ completed[Payment(w)] = 0
      BY <2>1, JobPayment DEF Ownership, OneOrderPerPayment, TypeOK
    <3>2. \A v \in Workers \ {w} : Owning(v) => Payment(v) # Payment(w)
      BY <2>1 DEF Ownership, Owning
    <3>3. UNCHANGED orders \/ orders' = [orders EXCEPT ![Payment(w)] = 1]
      BY <1>14, <2>1, <3>1 DEF Cancel, TypeOK
    <3>4. OneOrderPerPayment'
      BY <2>0, <3>1, <3>3 DEF TypeOK, OneOrderPerPayment
    <3>5. ~ Owning(w)'
      BY <2>0, <2>1 DEF Owning
    <3>6. ASSUME NEW v \in Workers, Owning(v)'
          PROVE  /\ v # w /\ pc'[v] = pc[v] /\ job'[v] = job[v] /\ Owning(v)
                 /\ orders'[Payment(v)] = orders[Payment(v)]
      <4>1. v # w /\ pc'[v] = pc[v] /\ job'[v] = job[v]
        BY <2>0, <3>5, <3>6 DEF TypeOK, Owning
      <4>2. Owning(v)
        BY <4>1, <3>6 DEF Owning
      <4>3. Payment(v) \in Payments /\ Payment(v) # Payment(w)
        BY <4>1, <4>2, <3>2, JobPayment DEF Owning
      <4> QED
        BY <4>1, <4>2, <4>3, <3>3 DEF TypeOK
    <3> QED
      BY <2>0, <3>4, <3>6 DEF Ownership, Owning, Payment
  <2>2. CASE pc[w] # "items"
    <3>1. UNCHANGED orders
      BY <1>14, <2>2 DEF Cancel, TypeOK
    <3>2. OneOrderPerPayment'
      BY <2>0, <3>1 DEF OneOrderPerPayment
    <3>3. ASSUME NEW v \in Workers, Owning(v)'
          PROVE  pc'[v] = pc[v] /\ job'[v] = job[v] /\ Owning(v)
      BY <2>0, <3>3 DEF TypeOK, Owning
    <3> QED
      BY <2>0, <3>1, <3>2, <3>3 DEF Ownership, Owning, Payment
  <2> QED
    BY <2>1, <2>2
<1>15. CASE UNCHANGED vars
  BY <1>15, OwnershipFrame DEF vars
<1> QED
  BY <1>1, <1>2, <1>3, <1>4, <1>5, <1>6, <1>7, <1>8, <1>9, <1>10, <1>11, <1>12,
     <1>13, <1>14, <1>15 DEF Next, Work, Failure

-----------------------------------------------------------------------------
(* Steps that hand out no token. *)
LEMMA TokenFrame ==
  ASSUME Issued, TokenIsKnown, UNCHANGED <<pc, job, exitToken, stage, answer>>,
         tokens \subseteq tokens'
  PROVE  Issued' /\ TokenIsKnown'
  BY DEF Issued, TokenIsKnown

(* Steps of a consumer that neither end in "save" nor write exit_token. *)
LEMMA TokenRelease ==
  ASSUME TypeOK, Issued, TokenIsKnown, NEW w \in Workers,
         pc' = [pc EXCEPT ![w] = pc'[w]], job' = [job EXCEPT ![w] = job'[w]],
         pc'[w] # "save", UNCHANGED <<exitToken, stage, answer>>,
         tokens \subseteq tokens'
  PROVE  Issued' /\ TokenIsKnown'
  BY DEF TypeOK, Issued, TokenIsKnown

(* Each step keeps the tokens that are out among those issued. *)
LEMMA TokenStep == TypeOK /\ Issued /\ TokenIsKnown /\ [Next]_vars => Issued' /\ TokenIsKnown'
<1> SUFFICES ASSUME TypeOK, Issued, TokenIsKnown, [Next]_vars
             PROVE  Issued' /\ TokenIsKnown'
  OBVIOUS
<1> USE DEF queue, database, events, consumer, handler
<1>1. ASSUME NEW m \in Messages, Send(m) PROVE Issued' /\ TokenIsKnown'
  BY <1>1, TokenFrame DEF Send
<1>2. ASSUME NEW w \in Workers, NEW m \in Messages, Fetch(w, m)
      PROVE  Issued' /\ TokenIsKnown'
  <2>1. /\ pc' = [pc EXCEPT ![w] = pc'[w]] /\ job' = [job EXCEPT ![w] = job'[w]]
        /\ pc'[w] # "save"
    BY <1>2 DEF Fetch, TypeOK
  <2> QED
    BY <1>2, <2>1, TokenRelease DEF Fetch
<1>3. ASSUME NEW w \in Workers,
             \/ CreateError(w) \/ CommitOrderError(w) \/ IssueError(w)
      PROVE  Issued' /\ TokenIsKnown'
  BY <1>3, RetryReleases, TokenRelease DEF CreateError, CommitOrderError, IssueError
<1>4. ASSUME NEW w \in Workers,
             \/ UpsertOrder(w) \/ CommitOrder(w) \/ PublishCompleted(w)
             \/ PublishCreationFailed(w) \/ CommitMessages(w) \/ Crash(w)
      PROVE  Issued' /\ TokenIsKnown'
  <2>1. /\ pc' = [pc EXCEPT ![w] = pc'[w]] /\ job' = [job EXCEPT ![w] = job'[w]]
        /\ pc'[w] # "save" /\ UNCHANGED <<tokens, exitToken, stage, answer>>
    BY <1>4 DEF UpsertOrder, CommitOrder, PublishCompleted, PublishCreationFailed,
                CommitMessages, Crash, Goto, Stop, TypeOK
  <2> QED
    BY <2>1, TokenRelease
<1>5. ASSUME NEW w \in Workers, Issue(w) PROVE Issued' /\ TokenIsKnown'
  BY <1>5 DEF Issue, Goto, TypeOK, Issued, TokenIsKnown
<1>6. ASSUME NEW w \in Workers, UpdateExitToken(w) \/ UpdateExitTokenError(w)
      PROVE  Issued' /\ TokenIsKnown'
  <2>1. job[w] \in tokens /\ Payment(w) \in Payments
    BY <1>6, JobPayment DEF UpdateExitToken, UpdateExitTokenError, Issued
  <2>2. /\ pc' = [pc EXCEPT ![w] = pc'[w]] /\ UNCHANGED <<job, tokens, stage, answer>>
        /\ pc'[w] # "save"
    BY <1>6 DEF UpdateExitToken, UpdateExitTokenError, Retry, Goto, TypeOK
  <2>3. Issued'
    BY <2>2 DEF TypeOK, Issued
  <2>4. TokenIsKnown'
    BY <1>6, <2>1, <2>2 DEF UpdateExitToken, UpdateExitTokenError, TypeOK, TokenIsKnown
  <2> QED
    BY <2>3, <2>4
<1>7. ASSUME NEW p \in Payments,
             UpdateInvoiceURL(p) \/ PublishNotification(p) \/ LoseInvoice(p)
      PROVE  Issued' /\ TokenIsKnown'
  BY <1>7, TokenFrame DEF UpdateInvoiceURL, PublishNotification, LoseInvoice
<1>8. ASSUME NEW t \in Tokens, Expire(t) PROVE Issued' /\ TokenIsKnown'
  BY <1>8, TokenFrame DEF Expire
<1>9. ASSUME NEW g \in Requests, NEW p \in Payments, GetExitToken(g, p)
      PROVE  Issued' /\ TokenIsKnown'
  BY <1>9 DEF GetExitToken, Respond, Presentable, TypeOK, Issued, TokenIsKnown
<1>10. ASSUME NEW g \in Requests, RefreshIssue(g) PROVE Issued' /\ TokenIsKnown'
  BY <1>10 DEF RefreshIssue, TypeOK, Issued, TokenIsKnown
<1>11. ASSUME NEW g \in Requests, RefreshSave(g) \/ RefreshError(g)
       PROVE  Issued' /\ TokenIsKnown'
  <2>1. stage[g] = "save" => g \in tokens /\ wanted[g] \in Payments
    BY DEF TypeOK, Issued
  <2>2. /\ stage' = [stage EXCEPT ![g] = "done"] /\ tokens \subseteq tokens'
        /\ UNCHANGED <<pc, job>>
        /\ answer' = [answer EXCEPT ![g] = answer'[g]]
        /\ answer'[g] = None \/ (stage[g] = "save" /\ answer'[g] = g)
        /\ \/ UNCHANGED exitToken
           \/ stage[g] = "save" /\ exitToken' = [exitToken EXCEPT ![wanted[g]] = g]
    BY <1>11 DEF RefreshSave, RefreshError, Respond, TypeOK
  <2>3. Issued'
    BY <2>2 DEF TypeOK, Issued
  <2>4. TokenIsKnown'
    BY <2>1, <2>2 DEF TypeOK, TokenIsKnown
  <2> QED
    BY <2>3, <2>4
<1>12. ASSUME NEW w \in Workers, Cancel(w) PROVE Issued' /\ TokenIsKnown'
  <2>0. /\ pc' = [pc EXCEPT ![w] = pc'[w]] /\ pc'[w] # "save" /\ tokens \subseteq tokens'
        /\ UNCHANGED <<job, stage, answer>>
    BY <1>12, CancelReleases
  <2>1. CASE pc[w] = "save"
    <3>1. job[w] \in tokens /\ Payment(w) \in Payments
      BY <2>1, JobPayment DEF Issued
    <3>2. exitToken' \in {exitToken, [exitToken EXCEPT ![Payment(w)] = job[w]]}
      BY <1>12, <2>1 DEF Cancel
    <3>3. Issued'
      BY <2>0 DEF TypeOK, Issued
    <3>4. TokenIsKnown'
      BY <2>0, <3>1, <3>2 DEF TypeOK, TokenIsKnown
    <3> QED
      BY <3>3, <3>4
  <2>2. CASE pc[w] # "save"
    <3>1. UNCHANGED exitToken
      BY <1>12, <2>2 DEF Cancel, TypeOK
    <3>2. job' = [job EXCEPT ![w] = job'[w]]
      BY <2>0 DEF TypeOK
    <3> QED
      BY <2>0, <3>1, <3>2, TokenRelease
  <2> QED
    BY <2>1, <2>2
<1>13. CASE UNCHANGED vars
  BY <1>13, TokenFrame DEF vars
<1> QED
  BY <1>1, <1>2, <1>3, <1>4, <1>5, <1>6, <1>7, <1>8, <1>9, <1>10, <1>11, <1>12, <1>13
  DEF Next, Work, Failure

-----------------------------------------------------------------------------
(* The inductive invariant of the safety theorems. *)
LEMMA SpecIInv == Spec => []IInv
<1>1. IInv /\ [Next]_vars => IInv'
  BY TypeStep, OwnershipStep, TokenStep DEF IInv
<1> QED
  BY InitIInv, <1>1, PTL DEF Spec

(* Every variable of the consumers and handlers keeps its shape; attempts  *)
(* never exceed their number. *)
THEOREM TypeCorrect == Spec => []TypeOK
<1>1. IInv => TypeOK
  BY DEF IInv
<1> QED
  BY SpecIInv, <1>1, PTL

(* The order service is idempotent: however often and to whomever the      *)
(* messages of a payment are delivered, and whatever fails meanwhile, the  *)
(* payment has one order, announced once. *)
THEOREM OneOrder == Spec => []OneOrderPerPayment
<1>1. IInv => OneOrderPerPayment
  BY DEF IInv
<1> QED
  BY SpecIInv, <1>1, PTL

(* The exit gate knows every token that a customer has been shown. *)
THEOREM KnownToken == Spec => []TokenIsKnown
<1>1. IInv => TokenIsKnown
  BY DEF IInv
<1> QED
  BY SpecIInv, <1>1, PTL

-----------------------------------------------------------------------------
(* A consumer about to commit has left its payment settled. *)
Decided == \A w \in Workers : pc[w] = "commit" => Settled(Payment(w))

(* Only Kafka, or a context that is cancelled, refuses an event. *)
Undisturbed ==
  /\ stopping # {} => "shutdown" \in faults
  /\ dropped # {} => faults \intersect {"kafka", "shutdown"} # {}

(* Orders and announcements are never withdrawn. *)
LEMMA SettledStays ==
  ASSUME TypeOK, [Next]_vars, NEW p \in Payments, Settled(p)
  PROVE  Settled(p)'
<1> USE DEF queue, database, events, consumer, handler
<1>1. ASSUME NEW w \in Workers, CommitOrder(w) \/ CommitOrderError(w) \/ Cancel(w)
      PROVE  Settled(p)'
  <2>1. CASE CommitOrder(w) \/ CommitOrderError(w)
    BY <2>1, JobPayment DEF CommitOrder, CommitOrderError, Settled, TypeOK
  <2>2. CASE Cancel(w)
    <3>1. Payment(w) \in Payments /\ UNCHANGED <<failed, dropped>>
      BY <2>2, JobPayment DEF Cancel
    <3>2. orders[p] > 0 => orders'[p] > 0
      BY <2>2, <3>1 DEF Cancel, TypeOK
    <3> QED
      BY <3>1, <3>2 DEF Settled
  <2> QED
    BY <1>1, <2>1, <2>2
<1>2. ASSUME NEW w \in Workers, PublishCreationFailed(w) PROVE Settled(p)'
  BY <1>2 DEF PublishCreationFailed, Settled
<1>3. ASSUME UNCHANGED <<orders, failed, dropped>> PROVE Settled(p)'
  BY <1>3 DEF Settled
<1>4. \/ \E w \in Workers :
            \/ CommitOrder(w) \/ CommitOrderError(w) \/ Cancel(w)
            \/ PublishCreationFailed(w)
      \/ UNCHANGED <<orders, failed, dropped>>
  BY DEF Next, vars, Work, Failure, Send, Fetch, UpsertOrder, CreateError, Issue,
         IssueError, UpdateExitToken, UpdateExitTokenError, PublishCompleted,
         CommitMessages, Crash, UpdateInvoiceURL, PublishNotification,
         LoseInvoice, Expire, GetExitToken, RefreshIssue, RefreshSave, RefreshError
<1> QED
  BY <1>1, <1>2, <1>3, <1>4

(* The three ways of a consumer to the commit of its message. *)
LEMMA ReachesCommit ==
  ASSUME TypeOK, [Next]_vars, NEW w \in Workers, pc'[w] = "commit"
  PROVE  \/ pc[w] = "commit" /\ job'[w] = job[w]
         \/ UpsertOrder(w) \/ PublishCompleted(w) \/ PublishCreationFailed(w)
<1> USE DEF queue, database, events, consumer, handler
<1>1. ASSUME NEW v \in Workers, Work(v) \/ Failure(v) PROVE
         \/ pc[w] = "commit" /\ job'[w] = job[w]
         \/ UpsertOrder(w) \/ PublishCompleted(w) \/ PublishCreationFailed(w)
  <2>1. CASE v = w
    <3>1. ~ (CommitOrder(w) \/ Issue(w) \/ UpdateExitToken(w) \/ CommitMessages(w) \/ Crash(w))
      BY DEF CommitOrder, Issue, UpdateExitToken, CommitMessages, Crash, Goto, Stop, TypeOK
    <3>2. ~ (\/ CreateError(w) \/ CommitOrderError(w) \/ IssueError(w)
             \/ UpdateExitTokenError(w))
      BY RetryReleases
      DEF CreateError, CommitOrderError, IssueError, UpdateExitTokenError
    <3>3. Cancel(w) => pc[w] = "commit" /\ job'[w] = job[w]
      BY CancelReleases
    <3> QED
      BY <1>1, <2>1, <3>1, <3>2, <3>3 DEF Work, Failure
  <2>2. CASE v # w
    <3>1. pc'[w] = pc[w] /\ job'[w] = job[w]
      BY <1>1, <2>2
      DEF Work, Failure, UpsertOrder, CommitOrder, Issue, UpdateExitToken,
          PublishCompleted, PublishCreationFailed, CommitMessages, CreateError,
          CommitOrderError, IssueError, UpdateExitTokenError, Cancel, Crash, Retry,
          Goto, Stop, TypeOK
    <3> QED
      BY <3>1
  <2> QED
    BY <2>1, <2>2
<1>2. ASSUME NEW v \in Workers, NEW m \in Messages, Fetch(v, m)
      PROVE  pc[w] = "commit" /\ job'[w] = job[w]
  BY <1>2 DEF Fetch, TypeOK
<1>3. ASSUME UNCHANGED <<pc, job>> PROVE pc[w] = "commit" /\ job'[w] = job[w]
  BY <1>3
<1>4. \/ \E v \in Workers : Work(v) \/ Failure(v)
      \/ \E v \in Workers, m \in Messages : Fetch(v, m)
      \/ UNCHANGED <<pc, job>>
  BY DEF Next, vars, Send, UpdateInvoiceURL, PublishNotification,
         LoseInvoice, Expire, GetExitToken, RefreshIssue, RefreshSave, RefreshError
<1> QED
  BY <1>1, <1>2, <1>3, <1>4

(* An offset is committed by the consumer that handled its message. *)
LEMMA OffsetGrows ==
  ASSUME [Next]_vars, NEW m \in offset', m \notin offset
  PROVE  \E w \in Workers : CommitMessages(w) /\ m = job[w]
<1> USE DEF queue, database, events, consumer, handler
<1>1. \/ \E w \in Workers : CommitMessages(w)
      \/ UNCHANGED offset
  BY DEF Next, vars, Work, Failure, Send, Fetch, UpsertOrder, CreateError,
         CommitOrder, CommitOrderError, Issue, IssueError, UpdateExitToken,
         UpdateExitTokenError, PublishCompleted, PublishCreationFailed, Cancel, Crash,
         UpdateInvoiceURL, PublishNotification, LoseInvoice, Expire,
         GetExitToken, RefreshIssue, RefreshSave, RefreshError
<1> QED
  BY <1>1 DEF CommitMessages

(* What may fail in a behaviour does not change. *)
LEMMA FaultsStay == [Next]_vars => faults' = faults
  BY DEF Next, vars, Work, Failure, Send, Fetch, UpsertOrder, CreateError,
         CommitOrder, CommitOrderError, Issue, IssueError, UpdateExitToken,
         UpdateExitTokenError, PublishCompleted, PublishCreationFailed,
         CommitMessages, Cancel, Crash, UpdateInvoiceURL, PublishNotification,
         LoseInvoice, Expire, GetExitToken, RefreshIssue, RefreshSave, RefreshError

(* What a step adds to the dropped events, and to the workers that stop.   *)
LEMMA UndisturbedStep == Undisturbed /\ [Next]_vars => Undisturbed'
<1> SUFFICES ASSUME Undisturbed, [Next]_vars PROVE Undisturbed' OBVIOUS
<1> USE DEF queue, database, events, consumer, handler
<1>0. faults' = faults
  BY FaultsStay
<1>1. ASSUME NEW w \in Workers, PublishCreationFailed(w) PROVE Undisturbed'
  BY <1>0, <1>1 DEF PublishCreationFailed, MayFail, Goto, Undisturbed
<1>2. ASSUME NEW w \in Workers, Cancel(w) PROVE Undisturbed'
  BY <1>0, <1>2 DEF Cancel, Undisturbed
<1>3. ASSUME NEW w \in Workers, CommitMessages(w) \/ Crash(w) PROVE Undisturbed'
  BY <1>0, <1>3 DEF CommitMessages, Crash, Stop, Undisturbed
<1>4. \/ \E w \in Workers :
            PublishCreationFailed(w) \/ Cancel(w) \/ CommitMessages(w) \/ Crash(w)
      \/ UNCHANGED <<stopping, dropped>>
  BY DEF Next, vars, Work, Failure, Send, Fetch, UpsertOrder, CreateError,
         CommitOrder, CommitOrderError, Issue, IssueError, UpdateExitToken,
         UpdateExitTokenError, PublishCompleted, Goto, Retry,
         UpdateInvoiceURL, PublishNotification, LoseInvoice, Expire,
         GetExitToken, RefreshIssue, RefreshSave, RefreshError
<1> QED
  BY <1>0, <1>1, <1>2, <1>3, <1>4 DEF Undisturbed

(* The comment at consumer.go:71 holds but for the publish whose error     *)
(* consumer.go:67 drops: no offset is committed for a payment that is no   *)
(* order and not announced as failed, unless Kafka or a shutdown refused   *)
(* the announcement.                                                       *)
THEOREM NothingDropped == Spec => []CommittedIsSettled
<1>1. Init => Decided /\ Undisturbed /\ CommittedIsSettled
  BY DEF Init, Decided, Undisturbed, CommittedIsSettled
<1>2. IInv /\ Decided /\ Undisturbed /\ CommittedIsSettled /\ [Next]_vars
        => Decided' /\ Undisturbed' /\ CommittedIsSettled'
  <2> SUFFICES ASSUME IInv, Decided, Undisturbed, CommittedIsSettled, [Next]_vars
               PROVE  /\ \A w \in Workers : pc'[w] = "commit" => Settled(Payment(w))'
                      /\ \A m \in offset' : Settled(PaymentOf[m])'
    BY UndisturbedStep DEF Decided, Undisturbed, CommittedIsSettled, Settled
  <2> USE DEF IInv, queue, database, events, consumer, handler
  <2>1. ASSUME NEW w \in Workers, pc'[w] = "commit" PROVE Settled(Payment(w))'
    <3>1. CASE pc[w] = "commit" /\ job'[w] = job[w]
      <4>1. Payment(w) \in Payments /\ Settled(Payment(w))
        BY <3>1, JobPayment DEF Decided
      <4> DEFINE p == Payment(w)
      <4>2. Settled(p)'
        <5>1. SUFFICES ASSUME NEW q \in Payments, Settled(q), q = p PROVE Settled(q)'
          BY <3>1, <4>1 DEF Settled, Payment
        <5> QED
          BY <5>1, SettledStays
      <4> QED
        BY <4>2
    <3>2. CASE ~ (pc[w] = "commit" /\ job'[w] = job[w])
      <4>1. UpsertOrder(w) \/ PublishCompleted(w) \/ PublishCreationFailed(w)
        BY <2>1, <3>2, ReachesCommit
      <4>2. Payment(w) \in Payments /\ job'[w] = job[w]
        BY <4>1, JobPayment DEF UpsertOrder, PublishCompleted, PublishCreationFailed, Goto
      <4>3. CASE UpsertOrder(w)
        BY <2>1, <4>2, <4>3 DEF UpsertOrder, Goto, Conflict, Settled, Payment, TypeOK
      <4>4. CASE PublishCompleted(w)
        BY <4>2, <4>4 DEF PublishCompleted, Ownership, Settled, Payment
      <4>5. CASE PublishCreationFailed(w)
        BY <4>2, <4>5 DEF PublishCreationFailed, Settled, Payment
      <4> QED
        BY <4>1, <4>3, <4>4, <4>5
    <3> QED
      BY <3>1, <3>2
  <2>2. ASSUME NEW m \in offset' PROVE Settled(PaymentOf[m])'
    <3>1. /\ m \in Messages /\ PaymentOf[m] \in Payments
          /\ Settled(PaymentOf[m])
      <4>1. CASE m \in offset
        BY <4>1, FulfilmentAssumption DEF CommittedIsSettled, Settled, TypeOK
      <4>2. CASE m \notin offset
        <5>1. PICK w \in Workers : CommitMessages(w) /\ m = job[w]
          BY <2>2, <4>2, OffsetGrows
        <5> QED
          BY <5>1, JobPayment DEF CommitMessages, Decided, Payment
      <4> QED
        BY <4>1, <4>2
    <3> QED
      BY <3>1, SettledStays
  <2> QED
    BY <2>1, <2>2
<1> QED
  BY SpecIInv, <1>1, <1>2, PTL DEF Spec
-----------------------------------------------------------------------------
(* Without faults only a message nobody can serve comes to "compensate".   *)
Hopeless ==
  faults = {} => \A w \in Workers : pc[w] = "compensate" => job[w] \in Unsellable

(* How a worker comes to give up, when nothing fails. *)
LEMMA ReachesCompensate ==
  ASSUME TypeOK, [Next]_vars, faults = {}, NEW w \in Workers, pc'[w] = "compensate"
  PROVE  job'[w] = job[w] /\ (pc[w] = "compensate" \/ job[w] \in Unsellable)
<1> USE DEF queue, database, events, consumer, handler
<1> DEFINE Goal == job'[w] = job[w] /\ (pc[w] = "compensate" \/ job[w] \in Unsellable)
<1>1. ASSUME NEW v \in Workers, CreateError(v) PROVE Goal
  BY <1>1 DEF CreateError, Retry, Goto, TypeOK
<1>2. ASSUME NEW v \in Workers,
             \/ UpsertOrder(v) \/ CommitOrder(v) \/ Issue(v) \/ UpdateExitToken(v)
             \/ PublishCompleted(v) \/ PublishCreationFailed(v)
             \/ CommitMessages(v) \/ Crash(v)
      PROVE  Goal
  BY <1>2 DEF UpsertOrder, CommitOrder, Issue, UpdateExitToken, PublishCompleted,
              PublishCreationFailed, CommitMessages, Crash, Goto, Stop, TypeOK
<1>3. ASSUME NEW v \in Workers, NEW m \in Messages, Fetch(v, m) PROVE Goal
  BY <1>3 DEF Fetch, TypeOK
<1>4. ASSUME UNCHANGED <<pc, job>> PROVE Goal
  BY <1>4
<1>5. \A v \in Workers :
        ~ (\/ CommitOrderError(v) \/ IssueError(v) \/ UpdateExitTokenError(v)
           \/ Cancel(v))
  BY DEF CommitOrderError, IssueError, UpdateExitTokenError, Cancel
<1>6. \/ \E v \in Workers : Work(v) \/ Failure(v)
      \/ \E v \in Workers, m \in Messages : Fetch(v, m)
      \/ UNCHANGED <<pc, job>>
  BY DEF Next, vars, Send, UpdateInvoiceURL, PublishNotification,
         LoseInvoice, Expire, GetExitToken, RefreshIssue, RefreshSave, RefreshError
<1> QED
  BY <1>1, <1>2, <1>3, <1>4, <1>5, <1>6 DEF Work, Failure

(* A failure is announced by the consumer that has given its message up. *)
LEMMA FailedGrows ==
  ASSUME [Next]_vars, NEW p \in failed', p \notin failed
  PROVE  \E w \in Workers : PublishCreationFailed(w) /\ p = Payment(w)
<1> USE DEF queue, database, events, consumer, handler
<1>1. \/ \E w \in Workers : PublishCreationFailed(w)
      \/ UNCHANGED failed
  BY DEF Next, vars, Work, Failure, Send, Fetch, UpsertOrder, CreateError,
         CommitOrder, CommitOrderError, Issue, IssueError, UpdateExitToken,
         UpdateExitTokenError, PublishCompleted, CommitMessages, Cancel, Crash,
         UpdateInvoiceURL, PublishNotification, LoseInvoice, Expire,
         GetExitToken, RefreshIssue, RefreshSave, RefreshError
<1> QED
  BY <1>1 DEF PublishCreationFailed

(* Without faults consumers that meet at one payment never make each other *)
(* give it up: order.creation_failed is only for what nobody sells, however *)
(* many messages name the payment (order.go CreateOrderFromPayment).       *)
THEOREM OnlyUnsellableFails == Spec => []FailedIsUnsellable
<1>1. Init => Hopeless /\ FailedIsUnsellable
  BY DEF Init, Hopeless, FailedIsUnsellable
<1>2. IInv /\ Hopeless /\ FailedIsUnsellable /\ [Next]_vars
        => Hopeless' /\ FailedIsUnsellable'
  <2> SUFFICES ASSUME IInv, Hopeless, FailedIsUnsellable, [Next]_vars, faults = {}
               PROVE  /\ \A w \in Workers : pc'[w] = "compensate" => job'[w] \in Unsellable
                      /\ \A p \in failed' : \E m \in Unsellable : PaymentOf[m] = p
    BY FaultsStay DEF Hopeless, FailedIsUnsellable
  <2>1. ASSUME NEW w \in Workers, pc'[w] = "compensate" PROVE job'[w] \in Unsellable
    BY <2>1, ReachesCompensate DEF IInv, Hopeless
  <2>2. ASSUME NEW p \in failed', p \notin failed
        PROVE  \E m \in Unsellable : PaymentOf[m] = p
    <3>1. PICK w \in Workers : PublishCreationFailed(w) /\ p = Payment(w)
      BY <2>2, FailedGrows
    <3> QED
      BY <3>1 DEF PublishCreationFailed, Hopeless, Payment
  <2> QED
    BY <2>1, <2>2 DEF FailedIsUnsellable
<1> QED
  BY SpecIInv, <1>1, <1>2, PTL DEF Spec

-----------------------------------------------------------------------------
(* Returns: a request is asked for, restored or refunded, in that order.    *)
Creating == {"order", "pending", "insert"}
Restoring == {"incr", "stock", "movement"}
Refunding == {"load", "refund", "gateway"}

(* Arithmetic and order. *)
LEMMA DivStep ==
  ASSUME NEW q \in Nat \ {0}, NEW p \in Nat
  PROVE  p \div q \in Nat /\ (p + q) \div q = (p \div q) + 1
OBVIOUS

(* First is a member of the places it is taken of. *)
LEMMA FirstIn ==
  ASSUME NEW S, S \subseteq Nat, S # {}
  PROVE  First(S) \in S
<1> DEFINE Less == OpToRel(<, Nat)
<1>a. IsWellFoundedOn(Less, Nat)
  BY NatLessThanWellFounded
<1>b. \A x, y \in Nat : <<y, x>> \in Less <=> y < x
  BY DEF OpToRel
<1> HIDE DEF Less
<1>1. PICK x \in S : \A y \in S : ~ (<<y, x>> \in Less)
  BY <1>a, WFMin
<1>2. ASSUME NEW y \in S PROVE x <= y
  <2>1. x \in Nat /\ y \in Nat
    OBVIOUS
  <2>2. ~ (y < x)
    BY <1>1, <1>b, <2>1
  <2> QED
    BY <2>1, <2>2
<1> QED
  BY <1>2 DEF First

(* The type invariant, in parts. *)
TaskType ==
  [order : Orders \union {"none"}, items : Seq(Items), ret : 0..Len(returns),
   verified : SUBSET Items, left : SUBSET Nat, amount : Nat]
SlotTyped(r) ==
  /\ at[r] \in {"order", "pending", "insert"} => task[r].order \in Orders
  /\ at[r] \in Labels \ {"idle", "order", "pending", "insert"} => task[r].ret # 0
  /\ task[r].left \subseteq DOMAIN task[r].items
  /\ at[r] \in {"incr", "stock", "movement"} => task[r].left # {}
SlotsTyped ==
  /\ at \in [Slots -> Labels]
  /\ task \in [Slots -> TaskType]
  /\ \A r \in Slots : SlotTyped(r)
BooksTyped ==
  /\ stock \in [Items -> Nat] /\ products \in [Items -> Nat] /\ movements \in [Items -> Nat]
  /\ payment \in [Orders -> {"CONFIRMED", "REFUNDED"}]
  /\ refunded \in [Orders -> Nat] /\ reversed \in [Orders -> Nat]
RowsTyped == allowed \in Conditions /\ windowOpen \subseteq Orders /\ returns \in Seq(Return)

(* The type invariant of returns by its parts. *)
LEMMA TypeParts ==
  /\ ReturnsTypeOK <=> RowsTyped /\ BooksTyped /\ SlotsTyped
  /\ ReturnsTypeOK' <=> RowsTyped' /\ BooksTyped' /\ SlotsTyped'
BY DEF ReturnsTypeOK, RowsTyped, BooksTyped, SlotsTyped, SlotTyped, TaskType

(* One slot changes what it is about; the returns stay as many. *)
LEMMA OneTask ==
  ASSUME SlotsTyped, NEW r \in Slots, NEW label \in Labels, NEW what \in TaskType,
         Len(returns') = Len(returns),
         at' = [at EXCEPT ![r] = label], task' = [task EXCEPT ![r] = what],
         SlotTyped(r)'
  PROVE  SlotsTyped'
<1>1. TaskType' = TaskType
  BY DEF TaskType
<1>2. \A q \in Slots \ {r} : at'[q] = at[q] /\ task'[q] = task[q]
  BY DEF SlotsTyped
<1>3. \A q \in Slots \ {r} : SlotTyped(q)'
  BY <1>2 DEF SlotsTyped, SlotTyped
<1> QED
  BY <1>1, <1>3 DEF SlotsTyped

(* A request that goes on with what it holds. *)
LEMMA GoesTyped ==
  ASSUME SlotsTyped, NEW r \in Slots, NEW label \in Labels, Goes(r, label),
         Len(returns') = Len(returns),
         label \in Creating => task[r].order \in Orders,
         label \in Labels \ ({"idle"} \union Creating) => task[r].ret # 0,
         label \in Restoring => task[r].left # {}
  PROVE  SlotsTyped'
<1>1. at' = [at EXCEPT ![r] = label] /\ task' = [task EXCEPT ![r] = task[r]] /\ task'[r] = task[r]
      /\ at'[r] = label
  BY DEF SlotsTyped, Goes, Proceed
<1>2. SlotTyped(r)'
  BY <1>1 DEF SlotTyped, Creating, Restoring, SlotsTyped
<1>3. task[r] \in TaskType
  BY DEF SlotsTyped
<1> QED
  BY <1>1, <1>2, <1>3, OneTask

(* No request is a request of the right shape. *)
LEMMA NoTaskTyped == ASSUME Len(returns) \in Nat PROVE NoTask \in TaskType
<1>1. <<>> \in Seq(Items) /\ 0 \in 0..Len(returns)
  OBVIOUS
<1> QED
  BY <1>1 DEF NoTask, Task, TaskType

(* A request that ends. *)
LEMMA DoneTyped ==
  ASSUME SlotsTyped, NEW r \in Slots, Done(r), Len(returns) \in Nat, Len(returns') = Len(returns)
  PROVE  SlotsTyped'
<1>1. at' = [at EXCEPT ![r] = "idle"] /\ task' = [task EXCEPT ![r] = NoTask] /\ task'[r] = NoTask
      /\ at'[r] = "idle"
  BY DEF SlotsTyped, Done, Proceed
<1>2. SlotTyped(r)'
  BY <1>1 DEF SlotTyped, NoTask, Task
<1> QED
  BY <1>1, <1>2, NoTaskTyped, OneTask DEF Labels

(* A task that goes on with the loop. *)
LEMMA LoopsTyped ==
  ASSUME SlotsTyped, NEW r \in Slots, NEW items \in Seq(Items), NEW left, left \subseteq DOMAIN items,
         NEW amount \in Nat, Loops(r, items, left, amount), task[r].ret # 0,
         Len(returns') = Len(returns)
  PROVE  SlotsTyped'
<1> DEFINE next == Task("none", items, task[r].ret, {}, left, amount)
<1>1. /\ task' = [task EXCEPT ![r] = next] /\ task'[r] = next
      /\ at' = [at EXCEPT ![r] = IF left = {} THEN "accept" ELSE "incr"]
      /\ at'[r] = IF left = {} THEN "accept" ELSE "incr"
  BY DEF SlotsTyped, Loops, Proceed
<1>2. DOMAIN items = 1..Len(items) /\ Len(items) \in Nat
  BY LenProperties
<1>3. left \in SUBSET Nat
  BY <1>2
<1>4. next \in TaskType
  BY <1>3 DEF SlotsTyped, TaskType, Task
<1>5. SlotTyped(r)'
  BY <1>1 DEF SlotTyped, Task
<1> QED
  BY <1>1, <1>4, <1>5, OneTask DEF Labels

(* What the steps have in common: returns are appended and accepted, never *)
(* taken back, and a task is that of one slot.                             *)
RowsGrow ==
  /\ Len(returns) <= Len(returns')
  /\ \A n \in 1..Len(returns) :
       /\ returns'[n].order = returns[n].order /\ returns'[n].items = returns[n].items
       /\ returns[n].status = "ACCEPTED" => returns'[n].status = "ACCEPTED"

(* Returns that do not change do not shrink. *)
LEMMA RowsSame == ASSUME RowsTyped, UNCHANGED returns PROVE RowsGrow
<1>1. Len(returns) \in Nat
  BY LenProperties DEF RowsTyped
<1> QED
  BY <1>1 DEF RowsGrow

(* A return is inserted. *)
LEMMA RowsAppended ==
  ASSUME RowsTyped, NEW ret \in Return, returns' = Append(returns, ret)
  PROVE  /\ RowsGrow /\ returns' \in Seq(Return)
         /\ Len(returns') = Len(returns) + 1 /\ returns'[Len(returns) + 1] = ret
         /\ \A n \in 1..Len(returns) : returns'[n] = returns[n]
<1>1. Len(returns) \in Nat /\ returns \in Seq(Return)
  BY LenProperties DEF RowsTyped
<1>2. /\ returns' \in Seq(Return) /\ Len(returns') = Len(returns) + 1
      /\ returns'[Len(returns) + 1] = ret
      /\ \A n \in 1..Len(returns) : returns'[n] = returns[n]
  BY <1>1, AppendProperties
<1> QED
  BY <1>1, <1>2 DEF RowsGrow

(* A return is written as accepted, and is what it was otherwise. *)
LEMMA RowAccepted ==
  ASSUME RowsTyped, NEW n \in 1..Len(returns), returns' = [returns EXCEPT ![n] = Accepted(@)]
  PROVE  /\ RowsGrow /\ returns' \in Seq(Return) /\ Len(returns') = Len(returns)
         /\ returns'[n].status = "ACCEPTED"
         /\ \A m \in 1..Len(returns) : m # n => returns'[m] = returns[m]
<1> DEFINE row == Accepted(returns[n])
<1>1. Len(returns) \in Nat /\ returns \in Seq(Return) /\ DOMAIN returns = 1..Len(returns)
  BY LenProperties DEF RowsTyped
<1>2. returns[n] \in Return
  BY <1>1, ElementOfSeq
<1>3. returns' = [returns EXCEPT ![n] = row]
  OBVIOUS
<1>4. row \in Return
  BY <1>2 DEF Return, Accepted
<1>6. row.order = returns[n].order /\ row.items = returns[n].items /\ row.status = "ACCEPTED"
  BY DEF Accepted
<1> HIDE DEF row
<1>5. returns' \in Seq(Return) /\ Len(returns') = Len(returns)
      /\ returns'[n] = row /\ \A m \in 1..Len(returns) : m # n => returns'[m] = returns[m]
  <2>1. /\ [returns EXCEPT ![n] = row] \in Seq(Return)
        /\ Len([returns EXCEPT ![n] = row]) = Len(returns)
        /\ \A m \in 1..Len(returns) :
             [returns EXCEPT ![n] = row][m] = IF m = n THEN row ELSE returns[m]
    BY <1>1, <1>4, ExceptSeq
  <2> QED
    BY <1>3, <2>1
<1> QED
  BY <1>1, <1>5, <1>6 DEF RowsGrow

(* At the start everything is empty, and of the right shape. *)
LEMMA InitTypes == ReturnsInit => ReturnsTypeOK
<1> SUFFICES ASSUME ReturnsInit PROVE ReturnsTypeOK
  OBVIOUS
<1>1. returns \in Seq(Return) /\ Len(returns) = 0
  BY DEF ReturnsInit
<1>2. BooksTyped /\ RowsTyped
  BY <1>1 DEF ReturnsInit, BooksTyped, RowsTyped
<1>3. NoTask \in TaskType
  BY <1>1, NoTaskTyped
<1>4. SlotsTyped
  BY <1>3 DEF ReturnsInit, SlotsTyped, SlotTyped, NoTask, Task, Labels
<1> QED
  BY <1>2, <1>4, TypeParts

(* One request goes on: parts that are not those of its step. *)
LEMMA CreateTyped == ASSUME ReturnsTypeOK, NEW r \in Slots, Create(r) PROVE ReturnsTypeOK'
<1>1. RowsTyped /\ BooksTyped /\ SlotsTyped /\ Len(returns) \in Nat
  BY TypeParts, LenProperties DEF RowsTyped
<1>2. PICK o \in Orders, items \in Lists :
        Begin(r, Task(o, items, 0, {}, {}, 0), "order")
  BY DEF Create
<1> DEFINE what == Task(o, items, 0, {}, {}, 0)
<1>3. what \in TaskType
  BY <1>1, ReturnsAssumption DEF TaskType, Task
<1>4. at' = [at EXCEPT ![r] = "order"] /\ task' = [task EXCEPT ![r] = what]
  BY <1>2 DEF Begin, Proceed
<1>5. at'[r] = "order" /\ task'[r] = what
  BY <1>1, <1>4 DEF SlotsTyped
<1>6. SlotTyped(r)'
  BY <1>5 DEF SlotTyped, Task
<1>7. SlotsTyped'
  BY <1>1, <1>2, <1>3, <1>4, <1>6, OneTask DEF Labels, Begin
<1> QED
  BY <1>1, <1>2, <1>7, TypeParts DEF Begin, RowsTyped, BooksTyped, books

(* A return is about to be accepted. *)
LEMMA AcceptTyped == ASSUME ReturnsTypeOK, NEW r \in Slots, Accept(r) PROVE ReturnsTypeOK'
<1>1. RowsTyped /\ BooksTyped /\ SlotsTyped /\ Len(returns) \in Nat /\ DOMAIN returns = 1..Len(returns)
  BY TypeParts, LenProperties DEF RowsTyped
<1>2. PICK n \in DOMAIN returns, verified \in SUBSET Items \ {{}} :
        Begin(r, Task("none", <<>>, n, verified, {}, 0), "fetch")
  BY DEF Accept
<1> DEFINE what == Task("none", <<>>, n, verified, {}, 0)
<1>3. what \in TaskType
  BY <1>1 DEF TaskType, Task
<1>4. at' = [at EXCEPT ![r] = "fetch"] /\ task' = [task EXCEPT ![r] = what]
  BY <1>2 DEF Begin, Proceed
<1>5. at'[r] = "fetch" /\ task'[r] = what
  BY <1>1, <1>4 DEF SlotsTyped
<1>6. SlotTyped(r)'
  BY <1>1, <1>5 DEF SlotTyped, Task
<1>7. SlotsTyped'
  BY <1>1, <1>2, <1>3, <1>4, <1>6, OneTask DEF Labels, Begin
<1> QED
  BY <1>1, <1>2, <1>7, TypeParts DEF Begin, RowsTyped, BooksTyped, books

(* The item a request is at, and its return. *)
LEMMA CurrentItem ==
  ASSUME ReturnsTypeOK, NEW r \in Slots, at[r] \in Restoring
  PROVE  /\ First(task[r].left) \in task[r].left
         /\ First(task[r].left) \in DOMAIN task[r].items
         /\ Current(r) \in Items
         /\ QuantityOf[Current(r)] \in Nat \ {0} /\ PriceOf[Current(r)] \in Nat
<1>1. SlotsTyped /\ SlotTyped(r)
  BY TypeParts DEF SlotsTyped
<1>2. task[r].left # {} /\ task[r].left \in SUBSET Nat /\ task[r].left \subseteq DOMAIN task[r].items
      /\ task[r].items \in Seq(Items)
  BY <1>1 DEF SlotTyped, SlotsTyped, TaskType, Restoring
<1>3. First(task[r].left) \in task[r].left
  BY <1>2, FirstIn
<1>4. First(task[r].left) \in DOMAIN task[r].items /\ DOMAIN task[r].items = 1..Len(task[r].items)
  BY <1>2, <1>3, LenProperties
<1>5. Current(r) \in Items
  BY <1>2, <1>4, ElementOfSeq DEF Current
<1> QED
  BY <1>3, <1>4, <1>5, ReturnsAssumption

(* The price of the item a request will be at is a number. *)
LEMMA CurrentItemNext ==
  ASSUME ReturnsTypeOK', NEW r \in Slots, at'[r] \in Restoring
  PROVE  PriceOf[Current(r)'] \in Nat
<1>1. (SlotsTyped /\ SlotTyped(r))'
  BY TypeParts DEF SlotsTyped
<1>2. task'[r].left # {} /\ task'[r].left \in SUBSET Nat /\ task'[r].left \subseteq DOMAIN task'[r].items
      /\ task'[r].items \in Seq(Items)
  BY <1>1 DEF SlotTyped, SlotsTyped, TaskType, Restoring
<1>3. First(task'[r].left) \in task'[r].left
  BY <1>2, FirstIn
<1>4. First(task'[r].left) \in DOMAIN task'[r].items /\ DOMAIN task'[r].items = 1..Len(task'[r].items)
  BY <1>2, <1>3, LenProperties
<1>5. Current(r)' \in Items
  BY <1>2, <1>4, ElementOfSeq DEF Current
<1> QED
  BY <1>5, ReturnsAssumption

(* A request past the fetch is about a return there is. *)
LEMMA ReturnOf ==
  ASSUME ReturnsTypeOK, NEW r \in Slots, at[r] \notin {"idle"} \union Creating
  PROVE  /\ task[r].ret \in 1..Len(returns) /\ task[r].ret \in DOMAIN returns
         /\ returns[task[r].ret] \in Return
         /\ Order(r) \in Orders
<1>1. SlotsTyped /\ SlotTyped(r) /\ RowsTyped
  BY TypeParts DEF SlotsTyped
<1>2. at[r] \in Labels
  BY <1>1 DEF SlotsTyped
<1>3. task[r].ret # 0 /\ task[r].ret \in 0..Len(returns) /\ Len(returns) \in Nat
  BY <1>1, <1>2, LenProperties DEF SlotTyped, SlotsTyped, TaskType, Creating, RowsTyped
<1>4. task[r].ret \in 1..Len(returns) /\ DOMAIN returns = 1..Len(returns)
  BY <1>1, <1>3, LenProperties DEF RowsTyped
<1>5. returns[task[r].ret] \in Return
  BY <1>1, <1>4, ElementOfSeq DEF RowsTyped
<1> QED
  BY <1>4, <1>5 DEF Order, Return

(* A request that goes on or ends while returns and books stay. *)
LEMMA QuietTyped ==
  ASSUME ReturnsTypeOK, NEW r \in Slots, UNCHANGED <<returns, books>>,
         \/ Done(r)
         \/ \E label \in Labels :
              /\ Goes(r, label)
              /\ label \in Creating => task[r].order \in Orders
              /\ label \in Labels \ ({"idle"} \union Creating) => task[r].ret # 0
              /\ label \in Restoring => task[r].left # {}
  PROVE  ReturnsTypeOK'
<1>1. RowsTyped /\ BooksTyped /\ SlotsTyped /\ Len(returns) \in Nat
  BY TypeParts, LenProperties DEF RowsTyped
<1>2. SlotsTyped'
  BY <1>1, DoneTyped, GoesTyped
<1>3. RowsTyped' /\ BooksTyped'
  BY <1>1 DEF RowsTyped, BooksTyped, books, Goes, Done
<1> QED
  BY <1>2, <1>3, TypeParts

(* A return is read. *)
LEMMA FetchTyped == ASSUME ReturnsTypeOK, NEW r \in Slots, GetReturnRequestByID(r) PROVE ReturnsTypeOK'
<1>1. RowsTyped /\ BooksTyped /\ SlotsTyped /\ Len(returns) \in Nat
  BY TypeParts, LenProperties DEF RowsTyped
<1>2. task[r].ret # 0 /\ returns[task[r].ret].items \in Seq(Items)
  BY ReturnOf, <1>1 DEF GetReturnRequestByID, Creating, Return, RowsTyped
<1>3. Chosen(returns[task[r].ret].items, task[r].verified) \subseteq DOMAIN returns[task[r].ret].items
  BY DEF Chosen
<1>4. SlotsTyped'
  BY <1>1, <1>2, <1>3, DoneTyped, LoopsTyped DEF GetReturnRequestByID
<1>5. RowsTyped' /\ BooksTyped'
  BY <1>1 DEF RowsTyped, BooksTyped, books, Loops, Done, GetReturnRequestByID
<1> QED
  BY <1>4, <1>5, TypeParts

(* The units of an item are put back and announced. *)
LEMMA RestoreTyped ==
  ASSUME ReturnsTypeOK, NEW r \in Slots, IncrBy(r) \/ UpdateProductStock(r) \/ PublishMovement(r)
  PROVE  ReturnsTypeOK'
<1>1. RowsTyped /\ BooksTyped /\ SlotsTyped /\ Len(returns) \in Nat /\ task[r] \in TaskType
  BY TypeParts, LenProperties DEF RowsTyped, SlotsTyped
<1>2. at[r] \in Restoring
  BY DEF Restoring, IncrBy, UpdateProductStock, PublishMovement
<1>3. /\ Current(r) \in Items
      /\ QuantityOf[Current(r)] \in Nat \ {0} /\ PriceOf[Current(r)] \in Nat
      /\ task[r].ret # 0 /\ task[r].left # {} /\ task[r].left \subseteq DOMAIN task[r].items
  BY <1>1, <1>2, CurrentItem, ReturnOf DEF Restoring, Creating, SlotsTyped, SlotTyped
<1>4. BooksTyped'
  <2>1. CASE IncrBy(r)
    BY <2>1, <1>1, <1>3 DEF BooksTyped, IncrBy
  <2>2. CASE UpdateProductStock(r)
    BY <2>2, <1>1, <1>3 DEF BooksTyped, UpdateProductStock
  <2>3. CASE PublishMovement(r)
    <3>1. \/ movements' = [movements EXCEPT ![Current(r)] = @ + QuantityOf[Current(r)]]
          \/ movements' = movements
      BY <2>3 DEF PublishMovement
    <3>2. movements[Current(r)] + QuantityOf[Current(r)] \in Nat /\ movements \in [Items -> Nat]
      BY <1>1, <1>3 DEF BooksTyped
    <3>3. movements' \in [Items -> Nat]
      BY <3>1, <3>2, <1>3
    <3> QED
      BY <2>3, <3>3, <1>1 DEF BooksTyped, PublishMovement
  <2> QED
    BY <2>1, <2>2, <2>3
<1>5. returns' = returns /\ RowsTyped'
  BY <1>1 DEF RowsTyped, IncrBy, UpdateProductStock, PublishMovement, Goes, Done, Loops
<1>6. CASE IncrBy(r)
  <2>1. SlotsTyped'
    BY <1>1, <1>3, <1>5, <1>6, GoesTyped DEF IncrBy, Labels, Creating, Restoring
  <2> QED
    BY <2>1, <1>4, <1>5, TypeParts
<1>7. CASE UpdateProductStock(r)
  <2>1. Done(r) \/ Goes(r, "movement")
    BY <1>7 DEF UpdateProductStock
  <2>2. SlotsTyped'
    BY <2>1, <1>1, <1>3, <1>5, DoneTyped, GoesTyped DEF Labels, Creating, Restoring
  <2> QED
    BY <2>2, <1>4, <1>5, TypeParts
<1>8. CASE PublishMovement(r)
  <2>1. Loops(r, task[r].items, task[r].left \ {First(task[r].left)},
              task[r].amount + PriceOf[Current(r)])
    BY <1>8 DEF PublishMovement
  <2>2. task[r].items \in Seq(Items) /\ task[r].amount + PriceOf[Current(r)] \in Nat
    BY <1>1, <1>3 DEF TaskType
  <2>3. SlotsTyped'
    BY <2>1, <2>2, <1>1, <1>3, <1>5, LoopsTyped
  <2> QED
    BY <2>3, <1>4, <1>5, TypeParts
<1> QED
  BY <1>6, <1>7, <1>8

(* The conversion loses a paisa at most and gains none. *)
LEMMA PaiseTyped ==
  ASSUME NEW amount \in Nat
  PROVE  Paise(amount) \in Nat /\ Paise(amount) <= amount /\ Paise(amount) + 1 >= amount
BY ReturnsAssumption DEF Paise

(* The refund is paid, the points are taken. *)
LEMMA MoneyTyped ==
  ASSUME ReturnsTypeOK, NEW r \in Slots, Gateway(r) \/ PublishPointsReversed(r)
  PROVE  ReturnsTypeOK'
<1>1. RowsTyped /\ BooksTyped /\ SlotsTyped /\ Len(returns) \in Nat /\ task[r].amount \in Nat
  BY TypeParts, LenProperties DEF RowsTyped, SlotsTyped, TaskType
<1>2. Order(r) \in Orders /\ task[r].ret # 0
  BY ReturnOf DEF Creating, Gateway, PublishPointsReversed
<1>3. Paise(task[r].amount) \in Nat
  BY <1>1, PaiseTyped
<1>4. BooksTyped'
  <2>1. CASE Gateway(r)
    BY <2>1, <1>1, <1>2, <1>3 DEF BooksTyped, Gateway
  <2>2. CASE PublishPointsReversed(r)
    <3>1. reversed' = [reversed EXCEPT ![Order(r)] = @ + task[r].amount] \/ reversed' = reversed
      BY <2>2 DEF PublishPointsReversed
    <3>2. reversed[Order(r)] + task[r].amount \in Nat /\ reversed \in [Orders -> Nat]
      BY <1>1, <1>2 DEF BooksTyped
    <3>3. reversed' \in [Orders -> Nat]
      BY <3>1, <3>2, <1>2
    <3> QED
      BY <2>2, <3>3, <1>1 DEF BooksTyped, PublishPointsReversed
  <2> QED
    BY <2>1, <2>2
<1>5. returns' = returns /\ RowsTyped'
  BY <1>1 DEF RowsTyped, Gateway, PublishPointsReversed, Goes, Done
<1>6. Done(r) \/ Goes(r, "loyalty")
  BY DEF Gateway, PublishPointsReversed
<1>7. SlotsTyped'
  BY <1>1, <1>2, <1>5, <1>6, DoneTyped, GoesTyped DEF Labels, Creating, Restoring
<1> QED
  BY <1>4, <1>5, <1>7, TypeParts

(* The statements that write returns. *)
LEMMA RowsTypedStep ==
  ASSUME ReturnsTypeOK, NEW r \in Slots, CreateReturnRequest(r) \/ UpdateReturnStatus(r)
  PROVE  ReturnsTypeOK' /\ RowsGrow
<1>1. RowsTyped /\ BooksTyped /\ SlotsTyped /\ Len(returns) \in Nat /\ task[r] \in TaskType
  BY TypeParts, LenProperties DEF RowsTyped, SlotsTyped
<1>2. BooksTyped' /\ UNCHANGED <<allowed, windowOpen>>
  BY <1>1 DEF BooksTyped, CreateReturnRequest, UpdateReturnStatus, books, Goes, Done
<1>3. CASE UNCHANGED returns
  <2>3. UNCHANGED books
    BY DEF CreateReturnRequest, UpdateReturnStatus
  <2>4. RowsTyped' /\ RowsGrow
    BY <1>1, <1>2, <1>3, RowsSame DEF RowsTyped
  <2>5. CASE Done(r)
    BY <1>3, <2>3, <2>4, <2>5, QuietTyped
  <2>6. CASE UpdateReturnStatus(r) /\ ~ Done(r)
    <3>1. Goes(r, "load") /\ task[r].ret # 0
      BY <2>6, ReturnOf DEF UpdateReturnStatus, Creating
    <3> QED
      BY <3>1, <1>3, <2>3, <2>4, QuietTyped DEF Labels, Creating, Restoring
  <2> QED
    BY <2>5, <2>6 DEF CreateReturnRequest
<1>4. CASE CreateReturnRequest(r) /\ returns' # returns
  <2> DEFINE ret == [order |-> task[r].order, items |-> task[r].items,
                     status |-> Pending, initiated |-> FALSE]
  <2>1. returns' = Append(returns, ret) /\ Done(r) /\ at[r] = "insert"
    BY <1>4 DEF CreateReturnRequest
  <2>2. ret \in Return
    BY <1>1, <2>1 DEF Return, SlotsTyped, SlotTyped, TaskType
  <2>3. RowsGrow /\ returns' \in Seq(Return) /\ Len(returns') = Len(returns) + 1
    BY <1>1, <2>1, <2>2, RowsAppended
  <2>4. RowsTyped'
    BY <1>1, <1>2, <2>3 DEF RowsTyped
  <2>5. TaskType \subseteq TaskType'
    BY <1>1, <2>3 DEF TaskType
  <2>6. /\ at' = [at EXCEPT ![r] = "idle"] /\ task' = [task EXCEPT ![r] = NoTask]
    BY <2>1 DEF Done, Proceed
  <2>7. NoTask \in TaskType /\ NoTask.left = {}
    BY <1>1, NoTaskTyped DEF NoTask, Task
  <2>8. at'[r] = "idle" /\ task'[r] = NoTask
        /\ \A q \in Slots \ {r} : at'[q] = at[q] /\ task'[q] = task[q]
    BY <1>1, <2>6 DEF SlotsTyped
  <2>9. SlotsTyped'
    <3>1. \A q \in Slots : SlotTyped(q)'
      BY <1>1, <2>7, <2>8 DEF SlotsTyped, SlotTyped
    <3>2. at' \in [Slots -> Labels] /\ task' \in [Slots -> TaskType']
      BY <1>1, <2>5, <2>6, <2>7 DEF SlotsTyped, Labels
    <3> QED
      BY <3>1, <3>2 DEF SlotsTyped
  <2> QED
    BY <1>2, <2>3, <2>4, <2>9, TypeParts
<1>5. CASE UpdateReturnStatus(r) /\ returns' # returns
  <2>1. returns' = [returns EXCEPT ![task[r].ret] = Accepted(@)] /\ Goes(r, "load")
        /\ task[r].ret \in 1..Len(returns) /\ task[r].ret # 0
    BY <1>5, ReturnOf DEF UpdateReturnStatus, Creating
  <2>2. RowsGrow /\ returns' \in Seq(Return) /\ Len(returns') = Len(returns)
    BY <1>1, <2>1, RowAccepted
  <2>3. SlotsTyped'
    BY <1>1, <2>1, <2>2, GoesTyped DEF Labels, Creating, Restoring
  <2> QED
    BY <1>1, <1>2, <2>2, <2>3, TypeParts DEF RowsTyped
<1> QED
  BY <1>3, <1>4, <1>5

(* Each step of a request keeps the type invariant, and no return is lost. *)
LEMMA ServeTyped ==
  ASSUME ReturnsTypeOK, NEW r \in Slots, Serve(r)
  PROVE  ReturnsTypeOK' /\ RowsGrow
<1>0. RowsTyped /\ SlotTyped(r)
  BY TypeParts DEF SlotsTyped
<1>1. CASE Create(r)
  <2>1. UNCHANGED returns
    BY <1>1 DEF Create, Begin
  <2> QED
    BY <1>0, <1>1, <2>1, CreateTyped, RowsSame
<1>2. CASE Accept(r)
  <2>1. UNCHANGED returns
    BY <1>2 DEF Accept, Begin
  <2> QED
    BY <1>0, <1>2, <2>1, AcceptTyped, RowsSame
<1>3. CASE GetOrder(r) \/ CheckItems(r)
  <2>1. task[r].order \in Orders
    BY <1>0, <1>3 DEF SlotTyped, GetOrder, CheckItems
  <2>2. Done(r) \/ Goes(r, "pending") \/ Goes(r, "insert")
    BY <1>3 DEF GetOrder, CheckItems
  <2>3. UNCHANGED <<returns, books>>
    BY <1>3 DEF GetOrder, CheckItems
  <2>4. ReturnsTypeOK'
    BY <2>1, <2>2, <2>3, QuietTyped DEF Labels, Creating, Restoring
  <2> QED
    BY <1>0, <2>3, <2>4, RowsSame
<1>4. CASE LoadPayment(r) \/ InitiateRefund(r)
  <2>1. task[r].ret # 0
    BY <1>0, <1>4, ReturnOf DEF LoadPayment, InitiateRefund, Creating
  <2>2. Done(r) \/ Goes(r, "refund") \/ Goes(r, "gateway") \/ Goes(r, "loyalty")
    BY <1>4 DEF LoadPayment, InitiateRefund
  <2>3. UNCHANGED <<returns, books>>
    BY <1>4 DEF LoadPayment, InitiateRefund
  <2>4. ReturnsTypeOK'
    BY <2>1, <2>2, <2>3, QuietTyped DEF Labels, Creating, Restoring
  <2> QED
    BY <1>0, <2>3, <2>4, RowsSame
<1>5. CASE CreateReturnRequest(r) \/ UpdateReturnStatus(r)
  BY <1>5, RowsTypedStep
<1>6. CASE GetReturnRequestByID(r)
  <2>1. UNCHANGED returns
    BY <1>6 DEF GetReturnRequestByID
  <2> QED
    BY <1>0, <1>6, <2>1, FetchTyped, RowsSame
<1>7. CASE IncrBy(r) \/ UpdateProductStock(r) \/ PublishMovement(r)
  <2>1. UNCHANGED returns
    BY <1>7 DEF IncrBy, UpdateProductStock, PublishMovement
  <2> QED
    BY <1>0, <1>7, <2>1, RestoreTyped, RowsSame
<1>8. CASE Gateway(r) \/ PublishPointsReversed(r)
  <2>1. UNCHANGED returns
    BY <1>8 DEF Gateway, PublishPointsReversed
  <2> QED
    BY <1>0, <1>8, <2>1, MoneyTyped, RowsSame
<1> QED
  BY <1>1, <1>2, <1>3, <1>4, <1>5, <1>6, <1>7, <1>8 DEF Serve

(* The end of a window, and a restart. *)
LEMMA RestartTyped ==
  ASSUME ReturnsTypeOK, Restart
  PROVE  /\ ReturnsTypeOK' /\ RowsGrow
         /\ \A r \in Slots : at'[r] = "idle" /\ task'[r] = NoTask
<1>1. RowsTyped /\ BooksTyped /\ SlotsTyped /\ Len(returns) \in Nat
  BY TypeParts, LenProperties DEF RowsTyped
<1>2. /\ at' = [r \in Slots |-> "idle"] /\ task' = [r \in Slots |-> NoTask]
      /\ UNCHANGED <<allowed, windowOpen, returns, books>>
  BY DEF Restart
<1>3. RowsTyped' /\ BooksTyped' /\ RowsGrow
  BY <1>1, <1>2, RowsSame DEF RowsTyped, BooksTyped, books
<1>4. NoTask \in TaskType /\ TaskType' = TaskType
  BY <1>1, <1>2, NoTaskTyped DEF TaskType
<1>5. \A r \in Slots : SlotTyped(r)'
  BY <1>2 DEF SlotTyped, NoTask, Task
<1>6. at' \in [Slots -> Labels] /\ task' \in [Slots -> TaskType']
  BY <1>2, <1>4 DEF Labels
<1>7. SlotsTyped'
  BY <1>5, <1>6 DEF SlotsTyped
<1> QED
  BY <1>2, <1>3, <1>7, TypeParts

(* A window ends, or nothing happens. *)
LEMMA WindowTyped ==
  ASSUME ReturnsTypeOK,
         (\E o \in Orders : WindowEnds(o)) \/ UNCHANGED returnsVars
  PROVE  ReturnsTypeOK' /\ RowsGrow /\ UNCHANGED <<allowed, returns, books, at, task>>
<1>1. RowsTyped /\ BooksTyped /\ SlotsTyped
  BY TypeParts
<1>2. windowOpen' \subseteq windowOpen /\ UNCHANGED <<allowed, returns, books, at, task>>
  BY DEF WindowEnds, returnsVars
<1>3. RowsTyped' /\ BooksTyped' /\ RowsGrow
  BY <1>1, <1>2, RowsSame DEF RowsTyped, BooksTyped, books
<1>4. SlotsTyped'
  BY <1>1, <1>2 DEF SlotsTyped, SlotTyped, TaskType
<1> QED
  BY <1>2, <1>3, <1>4, TypeParts

(* Each step of the specification keeps the type invariant. *)
LEMMA NextTypes == ReturnsTypeOK /\ [ReturnsNext]_returnsVars => ReturnsTypeOK'
BY ServeTyped, RestartTyped, WindowTyped DEF ReturnsNext

(* The state of returns keeps its shape, and a request knows its order or  *)
(* its return at every step (CreateReturn and AcceptReturn in return.go).  *)
THEOREM ReturnsTyped == ReturnsSpec => []ReturnsTypeOK
BY InitTypes, NextTypes, PTL DEF ReturnsSpec

-----------------------------------------------------------------------------
(* What a step does to its own slot and to the others. *)
LEMMA GoesSlot ==
  ASSUME ReturnsTypeOK, NEW r \in Slots, NEW label, Goes(r, label)
  PROVE  /\ at'[r] = label /\ task'[r] = task[r] /\ allowed' = allowed
         /\ \A q \in Slots \ {r} : at'[q] = at[q] /\ task'[q] = task[q]
BY DEF ReturnsTypeOK, Goes, Proceed

(* A request ends, *)
LEMMA DoneSlot ==
  ASSUME ReturnsTypeOK, NEW r \in Slots, Done(r)
  PROVE  /\ at'[r] = "idle" /\ task'[r] = NoTask /\ allowed' = allowed
         /\ \A q \in Slots \ {r} : at'[q] = at[q] /\ task'[q] = task[q]
BY DEF ReturnsTypeOK, Done, Proceed

(* goes on with the next item, *)
LEMMA LoopsSlot ==
  ASSUME ReturnsTypeOK, NEW r \in Slots, NEW items, NEW left, NEW amount,
         Loops(r, items, left, amount)
  PROVE  /\ at'[r] = (IF left = {} THEN "accept" ELSE "incr")
         /\ task'[r] = Task("none", items, task[r].ret, {}, left, amount) /\ allowed' = allowed
         /\ \A q \in Slots \ {r} : at'[q] = at[q] /\ task'[q] = task[q]
BY DEF ReturnsTypeOK, Loops, Proceed

(* or begins. *)
LEMMA BeginSlot ==
  ASSUME ReturnsTypeOK, NEW r \in Slots, NEW what, NEW label, Begin(r, what, label)
  PROVE  /\ at'[r] = label /\ task'[r] = what /\ allowed' = allowed
         /\ at[r] = "idle" /\ UNCHANGED <<returns, books>>
         /\ "overlap" \notin allowed => \A q \in Slots : at[q] = "idle"
         /\ \A q \in Slots \ {r} : at'[q] = at[q] /\ task'[q] = task[q]
BY DEF ReturnsTypeOK, Begin, Proceed

(* A step of a request leaves the other requests alone. *)
LEMMA Others ==
  ASSUME ReturnsTypeOK, NEW r \in Slots, Serve(r)
  PROVE  /\ allowed' = allowed
         /\ \A q \in Slots \ {r} : at'[q] = at[q] /\ task'[q] = task[q]
<1> DEFINE Goal == /\ allowed' = allowed
                   /\ \A q \in Slots \ {r} : at'[q] = at[q] /\ task'[q] = task[q]
<1>1. ASSUME NEW label, Goes(r, label) PROVE Goal
  BY <1>1, GoesSlot
<1>2. ASSUME Done(r) PROVE Goal
  BY <1>2, DoneSlot
<1>3. ASSUME NEW items, NEW left, NEW amount, Loops(r, items, left, amount) PROVE Goal
  BY <1>3, LoopsSlot
<1>4. ASSUME NEW what, NEW label, Begin(r, what, label) PROVE Goal
  BY <1>4, BeginSlot
<1> HIDE DEF Goal
<1>5. Goal
  <2>1. CASE Create(r) \/ Accept(r)
    BY <2>1, <1>4 DEF Create, Accept
  <2>2. CASE GetOrder(r) \/ CheckItems(r) \/ CreateReturnRequest(r) \/ UpdateReturnStatus(r)
    BY <2>2, <1>1, <1>2 DEF GetOrder, CheckItems, CreateReturnRequest, UpdateReturnStatus
  <2>3. CASE GetReturnRequestByID(r) \/ IncrBy(r) \/ UpdateProductStock(r) \/ PublishMovement(r)
    BY <2>3, <1>1, <1>2, <1>3
       DEF GetReturnRequestByID, IncrBy, UpdateProductStock, PublishMovement
  <2>4. CASE LoadPayment(r) \/ InitiateRefund(r) \/ Gateway(r) \/ PublishPointsReversed(r)
    BY <2>4, <1>1, <1>2 DEF LoadPayment, InitiateRefund, Gateway, PublishPointsReversed
  <2> QED
    BY <2>1, <2>2, <2>3, <2>4 DEF Serve
<1> QED
  BY <1>5 DEF Goal

(* Every item of a return is one of its order, and what a request of staff *)
(* works through are the items of its return.                              *)
FitsOrder(items, o) == \A k \in DOMAIN items : OrderOf[items[k]] = o
ReturnsFit == \A n \in 1..Len(returns) : FitsOrder(returns[n].items, returns[n].order)
AtWork(r) ==
  /\ at[r] \in {"idle"} \union Creating => task[r].ret = 0
  /\ at[r] \in {"idle", "fetch"} \union Creating => task[r].amount = 0
  /\ at[r] = "insert" => FitsOrder(task[r].items, task[r].order)
  /\ at[r] \in Restoring \union Refunding \union {"accept", "loyalty"} =>
       task[r].items = returns[task[r].ret].items
  /\ at[r] \in Refunding \union {"loyalty"} => returns[task[r].ret].status = "ACCEPTED"
  /\ at[r] \notin Restoring => task[r].left = {}
BaseInv == ReturnsTypeOK /\ ReturnsFit /\ \A r \in Slots : AtWork(r)

(* At the start there is no return and no request. *)
LEMMA InitBase == ReturnsInit => BaseInv
<1> SUFFICES ASSUME ReturnsInit PROVE BaseInv
  OBVIOUS
<1>1. Len(returns) = 0
  BY DEF ReturnsInit
<1>2. \A r \in Slots : at[r] = "idle" /\ task[r] = NoTask
  BY DEF ReturnsInit
<1>3. \A r \in Slots : AtWork(r)
  BY <1>2 DEF AtWork, NoTask, Task, Creating, Restoring, Refunding
<1> QED
  BY <1>1, <1>3, InitTypes DEF BaseInv, ReturnsFit

(* The slots that wait, whatever the returns become. *)
LEMMA StillAtWork ==
  ASSUME BaseInv, RowsGrow, NEW q \in Slots, at'[q] = at[q], task'[q] = task[q]
  PROVE  AtWork(q)'
<1>1. AtWork(q) /\ ReturnsTypeOK
  BY DEF BaseInv
<1>2. CASE at[q] \in {"idle"} \union Creating
  BY <1>1, <1>2 DEF AtWork, Creating, Restoring, Refunding
<1>3. CASE at[q] \notin {"idle"} \union Creating
  <2>1. task[q].ret \in 1..Len(returns) /\ returns[task[q].ret] \in Return
    BY <1>1, <1>3, ReturnOf
  <2> QED
    BY <1>1, <1>3, <2>1 DEF AtWork, RowsGrow, Creating
<1> QED
  BY <1>2, <1>3

(* A step of a request keeps items with their order. *)
LEMMA ServeFits ==
  ASSUME BaseInv, NEW r \in Slots, Serve(r)
  PROVE  ReturnsFit'
<1>1. ReturnsTypeOK /\ AtWork(r) /\ RowsGrow /\ RowsTyped /\ Len(returns) \in Nat
  BY ServeTyped, TypeParts, LenProperties DEF BaseInv, RowsTyped
<1>2. \A n \in 1..Len(returns) : FitsOrder(returns[n].items, returns[n].order)'
  BY <1>1 DEF BaseInv, ReturnsFit, RowsGrow, FitsOrder
<1>3. CASE Len(returns') = Len(returns)
  BY <1>2, <1>3 DEF ReturnsFit
<1>4. CASE CreateReturnRequest(r) /\ returns' # returns
  <2> DEFINE ret == [order |-> task[r].order, items |-> task[r].items,
                     status |-> Pending, initiated |-> FALSE]
  <2>1. returns' = Append(returns, ret) /\ at[r] = "insert"
    BY <1>4 DEF CreateReturnRequest
  <2>2. ret \in Return
    BY <1>1, <2>1, TypeParts DEF Return, SlotsTyped, SlotTyped, TaskType
  <2>3. Len(returns') = Len(returns) + 1 /\ returns'[Len(returns) + 1] = ret
    BY <1>1, <2>1, <2>2, RowsAppended
  <2>4. FitsOrder(ret.items, ret.order)
    BY <1>1, <2>1 DEF AtWork
  <2> HIDE DEF ret
  <2> QED
    BY <1>1, <1>2, <2>3, <2>4 DEF ReturnsFit, FitsOrder
<1>5. CASE UpdateReturnStatus(r) /\ returns' # returns
  <2>1. returns' = [returns EXCEPT ![task[r].ret] = Accepted(@)] /\ task[r].ret \in 1..Len(returns)
    BY <1>1, <1>5, ReturnOf DEF UpdateReturnStatus, Creating
  <2> QED
    BY <1>1, <1>3, <2>1, RowAccepted
<1>6. CASE returns' = returns
  BY <1>3, <1>6
<1> QED
  BY <1>4, <1>5, <1>6
     DEF Serve, Create, Accept, Begin, GetOrder, CheckItems, GetReturnRequestByID, IncrBy,
         UpdateProductStock, PublishMovement, LoadPayment, InitiateRefund, Gateway,
         PublishPointsReversed

(* A request that has ended knows nothing. *)
LEMMA DoneAtWork == ASSUME ReturnsTypeOK, NEW r \in Slots, Done(r) PROVE AtWork(r)'
<1>1. at'[r] = "idle" /\ task'[r] = NoTask
  BY DoneSlot
<1> QED
  BY <1>1 DEF AtWork, NoTask, Task, Creating, Restoring, Refunding

(* A step of a request keeps what it knows true of its return. *)
LEMMA ServeAtWork ==
  ASSUME BaseInv, NEW r \in Slots, Serve(r)
  PROVE  AtWork(r)'
<1>1. ReturnsTypeOK /\ AtWork(r) /\ RowsGrow /\ RowsTyped /\ Len(returns) \in Nat
  BY ServeTyped, TypeParts, LenProperties DEF BaseInv, RowsTyped
<1>2. CASE Done(r)
  BY <1>1, <1>2, DoneAtWork
<1>3. CASE Create(r)
  <2>1. PICK o, items : at'[r] = "order" /\ task'[r] = Task(o, items, 0, {}, {}, 0)
    BY <1>1, <1>3, BeginSlot DEF Create
  <2> QED
    BY <2>1 DEF AtWork, Task, Creating, Restoring, Refunding
<1>4. CASE Accept(r)
  <2>1. PICK n, verified : at'[r] = "fetch" /\ task'[r] = Task("none", <<>>, n, verified, {}, 0)
    BY <1>1, <1>4, BeginSlot DEF Accept
  <2> QED
    BY <2>1 DEF AtWork, Task, Creating, Restoring, Refunding
<1>5. CASE GetOrder(r) /\ ~ Done(r)
  <2>1. at'[r] = "pending" /\ task'[r] = task[r] /\ at[r] = "order"
    BY <1>1, <1>5, GoesSlot DEF GetOrder
  <2> QED
    BY <1>1, <2>1 DEF AtWork, Creating, Restoring, Refunding
<1>6. CASE CheckItems(r) /\ ~ Done(r)
  <2>1. at'[r] = "insert" /\ task'[r] = task[r] /\ at[r] = "pending"
    BY <1>1, <1>6, GoesSlot DEF CheckItems
  <2>2. FitsOrder(task[r].items, task[r].order)
    BY <1>6 DEF CheckItems, CanReturn, FitsOrder, Range
  <2> QED
    BY <1>1, <2>1, <2>2 DEF AtWork, Creating, Restoring, Refunding, FitsOrder
<1>7. CASE GetReturnRequestByID(r) /\ ~ Done(r)
  <2> DEFINE items == returns[task[r].ret].items
             left == Chosen(items, task[r].verified)
  <2>1. /\ at'[r] = (IF left = {} THEN "accept" ELSE "incr")
        /\ task'[r] = Task("none", items, task[r].ret, {}, left, 0)
        /\ returns' = returns
    BY <1>1, <1>7, LoopsSlot DEF GetReturnRequestByID
  <2> HIDE DEF left
  <2> QED
    BY <2>1 DEF AtWork, Task, Creating, Restoring, Refunding
<1>8. CASE (IncrBy(r) \/ UpdateProductStock(r)) /\ ~ Done(r)
  <2>1. at'[r] \in Restoring /\ task'[r] = task[r] /\ at[r] \in Restoring /\ returns' = returns
    BY <1>1, <1>8, GoesSlot DEF IncrBy, UpdateProductStock, Restoring
  <2> QED
    BY <1>1, <2>1 DEF AtWork, Creating, Restoring, Refunding
<1>9. CASE PublishMovement(r)
  <2> DEFINE left == task[r].left \ {First(task[r].left)}
             amount == task[r].amount + PriceOf[Current(r)]
  <2>1. /\ at'[r] = (IF left = {} THEN "accept" ELSE "incr")
        /\ task'[r] = Task("none", task[r].items, task[r].ret, {}, left, amount)
        /\ at[r] \in Restoring /\ returns' = returns
    BY <1>1, <1>9, LoopsSlot DEF PublishMovement, Restoring
  <2> HIDE DEF left, amount
  <2> QED
    BY <1>1, <2>1 DEF AtWork, Task, Creating, Restoring, Refunding
<1>10. CASE UpdateReturnStatus(r) /\ ~ Done(r)
  <2>1. /\ returns' = [returns EXCEPT ![task[r].ret] = Accepted(@)] /\ Goes(r, "load")
        /\ task[r].ret \in 1..Len(returns) /\ at[r] = "accept"
    BY <1>1, <1>10, ReturnOf DEF UpdateReturnStatus, Creating
  <2>2. returns'[task[r].ret].status = "ACCEPTED"
    BY <1>1, <2>1, RowAccepted
  <2>3. at'[r] = "load" /\ task'[r] = task[r]
    BY <1>1, <2>1, GoesSlot
  <2> QED
    BY <1>1, <2>1, <2>2, <2>3 DEF AtWork, RowsGrow, Creating, Restoring, Refunding
<1>11. CASE (LoadPayment(r) \/ InitiateRefund(r) \/ Gateway(r)) /\ ~ Done(r)
  <2>1. at[r] \in Refunding /\ at'[r] \in Refunding \union {"loyalty"} /\ task'[r] = task[r]
        /\ returns' = returns
    BY <1>1, <1>11, GoesSlot DEF LoadPayment, InitiateRefund, Gateway, Refunding
  <2> QED
    BY <1>1, <2>1 DEF AtWork, Creating, Restoring, Refunding
<1> QED
  BY <1>2, <1>3, <1>4, <1>5, <1>6, <1>7, <1>8, <1>9, <1>10, <1>11
     DEF Serve, CreateReturnRequest, PublishPointsReversed

(* Each step keeps the base of the invariants. *)
LEMMA NextBase == BaseInv /\ [ReturnsNext]_returnsVars => BaseInv'
<1> SUFFICES ASSUME BaseInv, [ReturnsNext]_returnsVars PROVE BaseInv'
  OBVIOUS
<1>0. ReturnsTypeOK
  BY DEF BaseInv
<1>1. ASSUME NEW r \in Slots, Serve(r) PROVE BaseInv'
  <2>1. ReturnsTypeOK' /\ RowsGrow /\ ReturnsFit'
    BY <1>0, <1>1, ServeTyped, ServeFits
  <2>2. \A q \in Slots \ {r} : AtWork(q)'
    BY <1>0, <1>1, <2>1, Others, StillAtWork
  <2>3. AtWork(r)'
    BY <1>1, ServeAtWork
  <2> QED
    BY <2>1, <2>2, <2>3 DEF BaseInv
<1>2. ASSUME Restart PROVE BaseInv'
  <2>1. ReturnsTypeOK' /\ \A r \in Slots : at'[r] = "idle" /\ task'[r] = NoTask
    BY <1>0, <1>2, RestartTyped
  <2>2. \A r \in Slots : AtWork(r)'
    BY <2>1 DEF AtWork, NoTask, Task, Creating, Restoring, Refunding
  <2>3. ReturnsFit'
    BY <1>2 DEF BaseInv, ReturnsFit, Restart, FitsOrder
  <2> QED
    BY <2>1, <2>2, <2>3 DEF BaseInv
<1>3. ASSUME (\E o \in Orders : WindowEnds(o)) \/ UNCHANGED returnsVars PROVE BaseInv'
  <2>1. ReturnsTypeOK' /\ UNCHANGED <<returns, at, task>>
    BY <1>0, <1>3, WindowTyped
  <2> QED
    BY <2>1 DEF BaseInv, ReturnsFit, AtWork, FitsOrder
<1> QED
  BY <1>1, <1>2, <1>3 DEF ReturnsNext

-----------------------------------------------------------------------------
(* Requests in turn, and one pending return per order. *)
InTurn ==
  "overlap" \notin allowed => \A r, s \in Slots : at[r] # "idle" /\ at[s] # "idle" => r = s
InsertIsFree ==
  "overlap" \notin allowed =>
    \A r \in Slots : at[r] = "insert" => ~ HasPendingReturn(task[r].order)
PendingInv == InTurn /\ InsertIsFree /\ OnePendingReturn

(* Where requests come in turn, the others are idle and stay so. *)
LEMMA ServeInTurn ==
  ASSUME ReturnsTypeOK, InTurn, NEW r \in Slots, Serve(r)
  PROVE  /\ InTurn'
         /\ "overlap" \notin allowed => \A q \in Slots \ {r} : at[q] = "idle" /\ at'[q] = "idle"
<1>1. allowed' = allowed /\ \A q \in Slots \ {r} : at'[q] = at[q]
  BY Others
<1>2. at[r] # "idle" \/ ("overlap" \notin allowed => \A q \in Slots : at[q] = "idle")
  BY BeginSlot DEF Serve, Create, Accept, GetOrder, CheckItems, CreateReturnRequest,
       GetReturnRequestByID, IncrBy, UpdateProductStock, PublishMovement, UpdateReturnStatus,
       LoadPayment, InitiateRefund, Gateway, PublishPointsReversed
<1>3. "overlap" \notin allowed => \A q \in Slots \ {r} : at[q] = "idle" /\ at'[q] = "idle"
  BY <1>1, <1>2 DEF InTurn
<1> QED
  BY <1>1, <1>3 DEF InTurn

(* The steps that change the returns. *)
Inserts(r) ==
  /\ at[r] = "insert" /\ Done(r) /\ UNCHANGED books
  /\ Len(returns') = Len(returns) + 1
  /\ returns'[Len(returns) + 1].order = task[r].order
  /\ returns'[Len(returns) + 1].items = task[r].items
  /\ returns'[Len(returns) + 1].status = Pending
  /\ \A n \in 1..Len(returns) : returns'[n] = returns[n]
Accepts(r) ==
  /\ at[r] = "accept" /\ Goes(r, "load") /\ UNCHANGED books
  /\ Len(returns') = Len(returns) /\ task[r].ret \in 1..Len(returns)
  /\ returns'[task[r].ret].status = "ACCEPTED"
  /\ \A n \in 1..Len(returns) : n # task[r].ret => returns'[n] = returns[n]

(* A step inserts a return, accepts one, or leaves them alone. *)
LEMMA StepOfReturns ==
  ASSUME ReturnsTypeOK, NEW r \in Slots, Serve(r)
  PROVE  returns' = returns \/ Inserts(r) \/ Accepts(r)
<1>1. RowsTyped /\ SlotsTyped /\ SlotTyped(r)
  BY TypeParts DEF SlotsTyped
<1>2. CASE CreateReturnRequest(r) /\ returns' # returns
  <2> DEFINE ret == [order |-> task[r].order, items |-> task[r].items,
                     status |-> Pending, initiated |-> FALSE]
  <2>1. returns' = Append(returns, ret) /\ at[r] = "insert" /\ Done(r) /\ UNCHANGED books
    BY <1>2 DEF CreateReturnRequest
  <2>2. ret \in Return
    BY <1>1, <2>1 DEF Return, SlotsTyped, SlotTyped, TaskType
  <2>3. /\ Len(returns') = Len(returns) + 1 /\ returns'[Len(returns) + 1] = ret
        /\ \A n \in 1..Len(returns) : returns'[n] = returns[n]
    BY <1>1, <2>1, <2>2, RowsAppended
  <2> QED
    BY <2>1, <2>3 DEF Inserts
<1>3. CASE UpdateReturnStatus(r) /\ returns' # returns
  <2>1. /\ returns' = [returns EXCEPT ![task[r].ret] = Accepted(@)] /\ Goes(r, "load")
        /\ task[r].ret \in 1..Len(returns) /\ at[r] = "accept" /\ UNCHANGED books
    BY <1>3, ReturnOf DEF UpdateReturnStatus, Creating
  <2> QED
    BY <1>1, <2>1, RowAccepted DEF Accepts
<1> QED
  BY <1>2, <1>3
     DEF Serve, Create, Accept, Begin, GetOrder, CheckItems, GetReturnRequestByID, IncrBy,
         UpdateProductStock, PublishMovement, LoadPayment, InitiateRefund, Gateway,
         PublishPointsReversed

(* Returns are numbered from 1. *)
LEMMA DomainOfReturns ==
  ASSUME ReturnsTypeOK PROVE DOMAIN returns = 1..Len(returns) /\ Len(returns) \in Nat
BY TypeParts, LenProperties DEF RowsTyped

(* Where the database answers, the steps that write a return write it. *)
LEMMA RowsChange ==
  ASSUME ReturnsTypeOK, ~ DBFails, NEW r \in Slots, CreateReturnRequest(r) \/ UpdateReturnStatus(r)
  PROVE  Inserts(r) \/ Accepts(r)
<1>1. Len(returns) \in Nat /\ returns \in Seq(Return) /\ Serve(r)
  BY DomainOfReturns DEF ReturnsTypeOK, Serve
<1>2. CASE CreateReturnRequest(r)
  <2>1. returns' = Append(returns, [order |-> task[r].order, items |-> task[r].items,
                                    status |-> Pending, initiated |-> FALSE])
    BY <1>2 DEF CreateReturnRequest
  <2>2. Len(returns') = Len(returns) + 1
    BY <1>1, <2>1
  <2>3. returns' # returns
    BY <1>1, <2>2
  <2>4. ~ Accepts(r)
    BY <1>1, <2>2 DEF Accepts
  <2> QED
    BY <1>1, <2>3, StepOfReturns
<1>3. CASE UpdateReturnStatus(r)
  <2>1. /\ returns' = [returns EXCEPT ![task[r].ret] = Accepted(@)] /\ Goes(r, "load")
        /\ at[r] = "accept" /\ UNCHANGED books /\ task[r].ret \in 1..Len(returns)
    BY <1>3, ReturnOf DEF UpdateReturnStatus, Creating
  <2> QED
    BY <2>1, RowAccepted, TypeParts DEF Accepts
<1> QED
  BY <1>2, <1>3

(* A step of a request keeps one pending return of an order, *)
LEMMA ServePending ==
  ASSUME ReturnsTypeOK, PendingInv, NEW r \in Slots, Serve(r)
  PROVE  InsertIsFree' /\ OnePendingReturn'
<1> SUFFICES ASSUME "overlap" \notin allowed' PROVE InsertIsFree' /\ OnePendingReturn'
  BY DEF InsertIsFree, OnePendingReturn
<1>0. /\ ReturnsTypeOK' /\ "overlap" \notin allowed
      /\ DOMAIN returns = 1..Len(returns) /\ Len(returns) \in Nat
      /\ DOMAIN returns' = 1..Len(returns')
      /\ \A q \in Slots \ {r} : at'[q] = "idle"
  BY ServeTyped, Others, ServeInTurn, DomainOfReturns, LenProperties, TypeParts
     DEF PendingInv, RowsTyped
<1>1. \A m, n \in 1..Len(returns) :
        (returns[m].order = returns[n].order /\ returns[m].status = Pending
           /\ returns[n].status = Pending) => m = n
  BY <1>0 DEF PendingInv, OnePendingReturn
<1>2. InsertIsFree'
  <2> SUFFICES ASSUME at'[r] = "insert" PROVE ~ HasPendingReturn(task[r].order)'
    BY <1>0 DEF InsertIsFree, HasPendingReturn
  <2>1. CASE returns' = returns
    <3>1. CASE CheckItems(r) /\ Goes(r, "insert")
      <4>1. ~ HasPendingReturn(task[r].order) /\ task'[r] = task[r]
        BY <3>1, GoesSlot, DoneSlot DEF CheckItems
      <4> QED
        BY <2>1, <4>1 DEF HasPendingReturn
    <3> QED
      BY <3>1, GoesSlot, DoneSlot, LoopsSlot, BeginSlot
         DEF Serve, Create, Accept, GetOrder, CheckItems, CreateReturnRequest,
             GetReturnRequestByID, IncrBy, UpdateProductStock, PublishMovement,
             UpdateReturnStatus, LoadPayment, InitiateRefund, Gateway, PublishPointsReversed
  <2>2. CASE returns' # returns
    <3>1. at'[r] \in {"idle", "load"}
      BY <2>2, StepOfReturns, GoesSlot, DoneSlot DEF Inserts, Accepts
    <3> QED
      BY <3>1
  <2> QED
    BY <2>1, <2>2
<1>3. OnePendingReturn'
  <2>1. CASE returns' = returns
    BY <1>0, <1>1, <2>1 DEF OnePendingReturn
  <2>2. CASE Inserts(r)
    <3>1. /\ Len(returns') = Len(returns) + 1
          /\ returns'[Len(returns) + 1].order = task[r].order
          /\ \A n \in 1..Len(returns) : returns'[n] = returns[n]
      BY <2>2 DEF Inserts
    <3>2. \A n \in 1..Len(returns) : returns[n].order = task[r].order => returns[n].status # Pending
      BY <1>0, <2>2 DEF PendingInv, InsertIsFree, HasPendingReturn, Inserts
    <3>3. \A n \in 1..Len(returns') : n \in 1..Len(returns) \/ n = Len(returns) + 1
      BY <1>0, <3>1
    <3> QED
      BY <1>0, <1>1, <3>1, <3>2, <3>3 DEF OnePendingReturn
  <2>3. CASE Accepts(r)
    <3>1. /\ Len(returns') = Len(returns) /\ task[r].ret \in 1..Len(returns)
          /\ returns'[task[r].ret].status = "ACCEPTED"
          /\ \A n \in 1..Len(returns) : n # task[r].ret => returns'[n] = returns[n]
      BY <2>3 DEF Accepts
    <3> QED
      BY <1>0, <1>1, <3>1 DEF OnePendingReturn, Pending
  <2> QED
    BY <2>1, <2>2, <2>3, StepOfReturns
<1> QED
  BY <1>2, <1>3

(* and so does each step of the specification. *)
LEMMA NextPending == ReturnsTypeOK /\ PendingInv /\ [ReturnsNext]_returnsVars => PendingInv'
<1> SUFFICES ASSUME ReturnsTypeOK, PendingInv, [ReturnsNext]_returnsVars PROVE PendingInv'
  OBVIOUS
<1>1. ASSUME NEW r \in Slots, Serve(r) PROVE PendingInv'
  BY <1>1, ServeInTurn, ServePending DEF PendingInv
<1>2. ASSUME Restart PROVE PendingInv'
  <2>1. (\A r \in Slots : at'[r] = "idle") /\ UNCHANGED <<allowed, returns>>
    BY <1>2, RestartTyped DEF Restart
  <2> QED
    BY <2>1 DEF PendingInv, InTurn, InsertIsFree, OnePendingReturn
<1>3. ASSUME (\E o \in Orders : WindowEnds(o)) \/ UNCHANGED returnsVars PROVE PendingInv'
  <2>1. UNCHANGED <<allowed, returns, at, task>>
    BY <1>3, WindowTyped
  <2> QED
    BY <2>1 DEF PendingInv, InTurn, InsertIsFree, OnePendingReturn, HasPendingReturn
<1> QED
  BY <1>1, <1>2, <1>3 DEF ReturnsNext

(* At the start nothing is pending. *)
LEMMA InitPending == ReturnsInit => PendingInv
BY DEF ReturnsInit, PendingInv, InTurn, InsertIsFree, OnePendingReturn

-----------------------------------------------------------------------------
(* The units on their way, when one request goes on. *)
AtItem(i, label) == {r \in Slots : at[r] = label /\ Current(r) = i}

(* The units on their way are counted. *)
LEMMA OnTheWayType ==
  ASSUME NEW i \in Items, NEW label
  PROVE  /\ IsFiniteSet(AtItem(i, label)) /\ Cardinality(AtItem(i, label)) \in Nat
         /\ QuantityOf[i] \in Nat \ {0}
         /\ OnTheWay(i, label) = QuantityOf[i] * Cardinality(AtItem(i, label))
         /\ OnTheWay(i, label) \in Nat
<1>1. IsFiniteSet(AtItem(i, label)) /\ Cardinality(AtItem(i, label)) \in Nat
  BY ReturnsAssumption, FS_Subset, FS_CardinalityType DEF AtItem
<1>2. QuantityOf[i] \in Nat \ {0}
  BY ReturnsAssumption
<1>3. \A c, q \in Nat : q * c \in Nat
  OBVIOUS
<1> QED
  BY <1>1, <1>2, <1>3 DEF OnTheWay, AtItem

(* A step of a request changes the count by that request alone. *)
LEMMA OnTheWayStep ==
  ASSUME NEW i \in Items, NEW label, NEW r \in Slots,
         \A q \in Slots \ {r} : at'[q] = at[q] /\ task'[q] = task[q]
  PROVE  LET before == at[r] = label /\ Current(r) = i
             after  == at'[r] = label /\ Current(r)' = i
         IN /\ (before <=> after) => OnTheWay(i, label)' = OnTheWay(i, label)
            /\ (~ before /\ after) => OnTheWay(i, label)' = OnTheWay(i, label) + QuantityOf[i]
            /\ (before /\ ~ after) => OnTheWay(i, label)' = OnTheWay(i, label) - QuantityOf[i]
<1> DEFINE before == at[r] = label /\ Current(r) = i
           after  == at'[r] = label /\ Current(r)' = i
           S == AtItem(i, label)
           T == AtItem(i, label)'
<1>1. /\ IsFiniteSet(S) /\ Cardinality(S) \in Nat /\ QuantityOf[i] \in Nat
      /\ OnTheWay(i, label) = QuantityOf[i] * Cardinality(S)
  BY OnTheWayType
<1>2. OnTheWay(i, label)' = QuantityOf[i] * Cardinality(T)
  BY DEF OnTheWay, AtItem
<1>3. \A q \in Slots \ {r} : q \in T <=> q \in S
  BY DEF AtItem, Current
<1>4. (r \in S <=> before) /\ (r \in T <=> after) /\ S \subseteq Slots /\ T \subseteq Slots
  BY DEF AtItem
<1>5. \A c, q \in Nat : q * (c + 1) = q * c + q
  OBVIOUS
<1> HIDE DEF S, T, before, after
<1>6. (before <=> after) => T = S
  BY <1>3, <1>4
<1>7. ASSUME ~ before, after
      PROVE  OnTheWay(i, label)' = OnTheWay(i, label) + QuantityOf[i]
  <2>1. T = S \union {r} /\ r \notin S
    BY <1>3, <1>4, <1>7
  <2>2. Cardinality(T) = Cardinality(S) + 1
    BY <1>1, <2>1, FS_AddElement
  <2> QED
    BY <1>1, <1>2, <1>5, <2>2
<1>8. ASSUME before, ~ after
      PROVE  OnTheWay(i, label)' = OnTheWay(i, label) - QuantityOf[i]
  <2>1. T = S \ {r} /\ r \in S
    BY <1>3, <1>4, <1>8
  <2>2. Cardinality(T) = Cardinality(S) - 1 /\ IsFiniteSet(T)
    BY <1>1, <2>1, FS_RemoveElement
  <2>3. Cardinality(T) \in Nat
    BY <2>2, FS_CardinalityType
  <2>4. QuantityOf[i] * Cardinality(S) = QuantityOf[i] * Cardinality(T) + QuantityOf[i]
    BY <1>1, <1>5, <2>2, <2>3
  <2>5. QuantityOf[i] * Cardinality(T) \in Int
    BY <1>1, <2>3
  <2> QED
    BY <1>1, <1>2, <2>4, <2>5
<1> QED
  BY <1>1, <1>2, <1>6, <1>7, <1>8 DEF before, after

(* The books of units in a step that is not one of the loop's. *)
LEMMA StocksSame ==
  ASSUME ReturnsTypeOK, StocksAgree, allowed' = allowed, NEW r \in Slots,
         \A q \in Slots \ {r} : at'[q] = at[q] /\ task'[q] = task[q],
         {at[r], at'[r]} \intersect {"stock", "movement"} = {},
         UNCHANGED <<stock, products, movements>>
  PROVE  StocksAgree'
<1>1. \A i \in Items, label \in {"stock", "movement"} : OnTheWay(i, label)' = OnTheWay(i, label)
  BY OnTheWayStep
<1> QED
  BY <1>1 DEF StocksAgree

(* A step of a request keeps the books in agreement, *)
LEMMA ServeStocks ==
  ASSUME ReturnsTypeOK, StocksAgree, NEW r \in Slots, Serve(r)
  PROVE  StocksAgree'
<1> SUFFICES ASSUME allowed \intersect {"redis", "db", "kafka", "crash"} = {}, NEW i \in Items
             PROVE  /\ stock'[i] = products'[i] + OnTheWay(i, "stock")'
                    /\ products'[i] = movements'[i] + OnTheWay(i, "movement")'
  BY Others DEF StocksAgree
<1>1. /\ stock[i] = products[i] + OnTheWay(i, "stock")
      /\ products[i] = movements[i] + OnTheWay(i, "movement")
  BY DEF StocksAgree
<1>2. /\ allowed' = allowed
      /\ \A q \in Slots \ {r} : at'[q] = at[q] /\ task'[q] = task[q]
  BY Others
<1>3. /\ stock \in [Items -> Nat] /\ products \in [Items -> Nat] /\ movements \in [Items -> Nat]
      /\ ~ RedisFails /\ ~ DBFails /\ ~ KafkaFails
  BY DEF ReturnsTypeOK, RedisFails, DBFails, KafkaFails
<1>4. /\ OnTheWay(i, "stock") \in Nat /\ OnTheWay(i, "movement") \in Nat /\ QuantityOf[i] \in Nat
  BY OnTheWayType
<1>5. CASE IncrBy(r)
  <2>1. /\ at[r] = "incr" /\ at'[r] = "stock" /\ task'[r] = task[r]
        /\ stock' = [stock EXCEPT ![Current(r)] = @ + QuantityOf[Current(r)]]
        /\ UNCHANGED <<products, movements>>
    BY <1>3, <1>5, GoesSlot DEF IncrBy
  <2>2. Current(r)' = Current(r) /\ Current(r) \in Items
    BY <2>1, CurrentItem DEF Current, Restoring
  <2>3. OnTheWay(i, "movement")' = OnTheWay(i, "movement")
    BY <1>2, <2>1, OnTheWayStep
  <2>4. OnTheWay(i, "stock")'
          = OnTheWay(i, "stock") + (IF Current(r) = i THEN QuantityOf[i] ELSE 0)
    BY <1>2, <1>4, <2>1, <2>2, OnTheWayStep
  <2>5. stock'[i] = stock[i] + (IF Current(r) = i THEN QuantityOf[i] ELSE 0)
    BY <1>3, <2>1, <2>2
  <2> QED
    BY <1>1, <1>3, <1>4, <2>1, <2>3, <2>4, <2>5
<1>6. CASE UpdateProductStock(r)
  <2>1. /\ at[r] = "stock" /\ at'[r] = "movement" /\ task'[r] = task[r]
        /\ products' = [products EXCEPT ![Current(r)] = @ + QuantityOf[Current(r)]]
        /\ UNCHANGED <<stock, movements>>
    BY <1>3, <1>6, GoesSlot DEF UpdateProductStock
  <2>2. Current(r)' = Current(r) /\ Current(r) \in Items
    BY <2>1, CurrentItem DEF Current, Restoring
  <2>3. OnTheWay(i, "movement")'
          = OnTheWay(i, "movement") + (IF Current(r) = i THEN QuantityOf[i] ELSE 0)
    BY <1>2, <1>4, <2>1, <2>2, OnTheWayStep
  <2>4. OnTheWay(i, "stock")'
          = OnTheWay(i, "stock") - (IF Current(r) = i THEN QuantityOf[i] ELSE 0)
    BY <1>2, <1>4, <2>1, <2>2, OnTheWayStep
  <2>5. products'[i] = products[i] + (IF Current(r) = i THEN QuantityOf[i] ELSE 0)
    BY <1>3, <2>1, <2>2
  <2> QED
    BY <1>1, <1>3, <1>4, <2>1, <2>3, <2>4, <2>5
<1>7. CASE PublishMovement(r)
  <2>1. /\ at[r] = "movement" /\ at'[r] \notin {"stock", "movement"}
        /\ movements' = [movements EXCEPT ![Current(r)] = @ + QuantityOf[Current(r)]]
        /\ UNCHANGED <<stock, products>>
    BY <1>3, <1>7, LoopsSlot DEF PublishMovement
  <2>2. Current(r) \in Items
    BY <2>1, CurrentItem DEF Restoring
  <2>3. OnTheWay(i, "stock")' = OnTheWay(i, "stock")
    BY <1>2, <2>1, OnTheWayStep
  <2>4. OnTheWay(i, "movement")'
          = OnTheWay(i, "movement") - (IF Current(r) = i THEN QuantityOf[i] ELSE 0)
    BY <1>2, <1>4, <2>1, OnTheWayStep
  <2>5. movements'[i] = movements[i] + (IF Current(r) = i THEN QuantityOf[i] ELSE 0)
    BY <1>3, <2>1, <2>2
  <2> QED
    BY <1>1, <1>3, <1>4, <2>1, <2>3, <2>4, <2>5
<1>8. CASE /\ {at[r], at'[r]} \intersect {"stock", "movement"} = {}
           /\ UNCHANGED <<stock, products, movements>>
  BY <1>2, <1>8, StocksSame DEF StocksAgree
<1>9. CASE Create(r) \/ Accept(r)
  BY <1>8, <1>9, BeginSlot DEF Create, Accept, books
<1>10. CASE GetOrder(r) \/ CheckItems(r) \/ LoadPayment(r) \/ InitiateRefund(r)
  BY <1>8, <1>10, GoesSlot, DoneSlot DEF GetOrder, CheckItems, LoadPayment, InitiateRefund, books
<1>11. CASE CreateReturnRequest(r) \/ UpdateReturnStatus(r)
  BY <1>8, <1>11, GoesSlot, DoneSlot DEF CreateReturnRequest, UpdateReturnStatus, books
<1>12. CASE GetReturnRequestByID(r)
  <2>1. at[r] = "fetch" /\ UNCHANGED <<stock, products, movements>>
        /\ at'[r] \in {"idle", "accept", "incr"}
    BY <1>12, DoneSlot, LoopsSlot DEF GetReturnRequestByID, books
  <2> QED
    BY <1>8, <2>1
<1>13. CASE Gateway(r) \/ PublishPointsReversed(r)
  BY <1>8, <1>13, GoesSlot, DoneSlot DEF Gateway, PublishPointsReversed
<1> QED
  BY <1>5, <1>6, <1>7, <1>9, <1>10, <1>11, <1>12, <1>13 DEF Serve

(* which they are in at the start, *)
LEMMA InitStocks == ReturnsInit => StocksAgree
<1> SUFFICES ASSUME ReturnsInit PROVE StocksAgree
  OBVIOUS
<1>1. ASSUME NEW i \in Items, NEW label \in {"stock", "movement"} PROVE OnTheWay(i, label) = 0
  <2>1. AtItem(i, label) = {}
    BY DEF AtItem, ReturnsInit
  <2>2. Cardinality(AtItem(i, label)) = 0
    BY <2>1, FS_EmptySet
  <2> QED
    BY <2>2, OnTheWayType
<1> QED
  BY <1>1 DEF StocksAgree, ReturnsInit

(* and after each step. *)
LEMMA NextStocks == ReturnsTypeOK /\ StocksAgree /\ [ReturnsNext]_returnsVars => StocksAgree'
<1> SUFFICES ASSUME ReturnsTypeOK, StocksAgree, [ReturnsNext]_returnsVars PROVE StocksAgree'
  OBVIOUS
<1>1. ASSUME NEW r \in Slots, Serve(r) PROVE StocksAgree'
  BY <1>1, ServeStocks
<1>2. ASSUME Restart PROVE StocksAgree'
  BY <1>2 DEF Restart, StocksAgree
<1>3. ASSUME (\E o \in Orders : WindowEnds(o)) \/ UNCHANGED returnsVars PROVE StocksAgree'
  <2>1. UNCHANGED <<allowed, books, at, task>>
    BY <1>3, WindowTyped
  <2> QED
    BY <2>1 DEF StocksAgree, books, OnTheWay, Current
<1> QED
  BY <1>1, <1>2, <1>3 DEF ReturnsNext

-----------------------------------------------------------------------------
(* Units once: every item is in one return at most, and what an accepting  *)
(* request has yet to put back has not been put back.                      *)
Once == allowed \subseteq {"redis", "kafka", "http", "routed", "late"}
Fresh(i) == stock[i] = 0 /\ products[i] = 0
FreshFrom(r, places) == \A k \in places : Fresh(task[r].items[k])
Apart ==
  /\ \A n \in 1..Len(returns) : IsInjective(returns[n].items)
  /\ \A m, n \in 1..Len(returns) :
       \A j \in DOMAIN returns[m].items, k \in DOMAIN returns[n].items :
         returns[m].items[j] = returns[n].items[k] => m = n
Unasked(r) ==
  at[r] \in Creating =>
    IsInjective(task[r].items) /\ \A k \in DOMAIN task[r].items : ~ Returned(task[r].items[k])
ToRestore(r) ==
  /\ at[r] = "incr" => FreshFrom(r, task[r].left)
  /\ at[r] \in {"stock", "movement"} => FreshFrom(r, task[r].left \ {First(task[r].left)})
  /\ at[r] = "stock" => products[Current(r)] = 0
NotBegun(n) == \A r \in Slots : task[r].ret = n => at[r] = "fetch"
Untouched ==
  /\ \A i \in Items : ~ Returned(i) => Fresh(i)
  /\ \A n \in 1..Len(returns) : returns[n].status = Pending /\ NotBegun(n) =>
       \A k \in DOMAIN returns[n].items : Fresh(returns[n].items[k])
UnitsOnce == \A i \in Items : products[i] <= QuantityOf[i] /\ stock[i] <= QuantityOf[i]
OnceInv ==
  Once => Apart /\ Untouched /\ UnitsOnce /\ \A r \in Slots : Unasked(r) /\ ToRestore(r)

(* At the start nothing has come back. *)
LEMMA InitOnce == ReturnsInit => OnceInv
<1> SUFFICES ASSUME ReturnsInit PROVE OnceInv
  OBVIOUS
<1>1. Len(returns) = 0 /\ \A i \in Items : Fresh(i) /\ QuantityOf[i] \in Nat
  BY ReturnsAssumption DEF ReturnsInit, Fresh
<1>2. \A r \in Slots : Unasked(r) /\ ToRestore(r)
  BY DEF ReturnsInit, Unasked, ToRestore, Creating
<1> QED
  BY <1>1, <1>2 DEF OnceInv, Apart, Untouched, UnitsOnce, Fresh

(* A step that leaves returns and stocks alone. *)
LEMMA OnceQuiet ==
  ASSUME BaseInv, InTurn, OnceInv, Once, NEW r \in Slots, Serve(r),
         UNCHANGED <<returns, stock, products>>,
         \/ task[r].ret = 0 \/ at[r] = "fetch"
         \/ task'[r].ret = task[r].ret /\ at'[r] # "fetch"
         \/ returns[task[r].ret].status # Pending,
         Unasked(r)', ToRestore(r)'
  PROVE  OnceInv'
<1>0. ReturnsTypeOK /\ "overlap" \notin allowed
  BY DEF BaseInv, Once
<1>1. \A q \in Slots \ {r} : at'[q] = "idle" /\ at'[q] = at[q] /\ task'[q] = task[q]
  BY <1>0, ServeInTurn, Others
<1>2. \A n \in 1..Len(returns) : returns[n].status = Pending /\ NotBegun(n)' => NotBegun(n)
  BY <1>1 DEF NotBegun
<1>3. Untouched'
  BY <1>2 DEF OnceInv, Untouched, Fresh, Returned
<1>4. \A q \in Slots \ {r} : Unasked(q)' /\ ToRestore(q)'
  BY <1>1 DEF Unasked, ToRestore, Creating
<1> QED
  BY <1>3, <1>4 DEF OnceInv, Apart, UnitsOnce

(* The items of a return are items. *)
LEMMA ItemsOfReturns ==
  ASSUME ReturnsTypeOK, NEW n \in 1..Len(returns)
  PROVE  returns[n] \in Return /\ \A k \in DOMAIN returns[n].items : returns[n].items[k] \in Items
<1>1. returns \in Seq(Return)
  BY DEF ReturnsTypeOK
<1>2. returns[n] \in Return
  BY <1>1, ElementOfSeq
<1>3. returns[n].items \in Seq(Items)
  BY <1>2 DEF Return
<1>4. DOMAIN returns[n].items = 1..Len(returns[n].items)
  BY <1>3, LenProperties
<1> QED
  BY <1>2, <1>3, <1>4, ElementOfSeq

(* A step that puts units of the current item back into one of the stocks. *)
LEMMA OnceRestores ==
  ASSUME BaseInv, InTurn, OnceInv, Once, NEW r \in Slots, Serve(r),
         at[r] \in {"incr", "stock"}, at'[r] \in {"stock", "movement"}, task'[r] = task[r],
         UNCHANGED returns,
         \A i \in Items \ {Current(r)} : stock'[i] = stock[i] /\ products'[i] = products[i],
         products'[Current(r)] <= QuantityOf[Current(r)],
         stock'[Current(r)] <= QuantityOf[Current(r)],
         at'[r] = "stock" => products'[Current(r)] = 0
  PROVE  OnceInv'
<1> DEFINE n == task[r].ret
           i == Current(r)
           p == First(task[r].left)
<1>0. ReturnsTypeOK /\ "overlap" \notin allowed /\ AtWork(r) /\ DOMAIN returns = 1..Len(returns)
  BY DomainOfReturns DEF BaseInv, Once
<1>1. \A q \in Slots \ {r} : at'[q] = "idle" /\ at'[q] = at[q] /\ task'[q] = task[q]
  BY <1>0, ServeInTurn, Others
<1>2. /\ p \in task[r].left /\ p \in DOMAIN task[r].items /\ i = task[r].items[p] /\ i \in Items
      /\ task[r].left \subseteq DOMAIN task[r].items
  BY <1>0, CurrentItem DEF Restoring, Current, ReturnsTypeOK
<1>3. /\ n \in 1..Len(returns) /\ task[r].items = returns[n].items
  BY <1>0, ReturnOf DEF AtWork, Restoring, Creating
<1>4. IsInjective(task[r].items)
  BY <1>3 DEF OnceInv, Apart
<1>5. Returned(i)
  <2>1. task[r].items[p] \in Range(task[r].items)
    BY <1>2 DEF Range
  <2> QED
    BY <1>0, <1>2, <1>3, <2>1 DEF Returned
<1>b. \A m \in 1..Len(returns) : \A k \in DOMAIN returns[m].items : returns[m].items[k] \in Items
  BY <1>0, ItemsOfReturns
<1>6. Untouched'
  <2>1. \A j \in Items : ~ Returned(j)' => Fresh(j)'
    <3> SUFFICES ASSUME NEW j \in Items, ~ Returned(j)' PROVE Fresh(j)'
      OBVIOUS
    <3>1. ~ Returned(j) /\ j # i
      BY <1>5 DEF Returned
    <3> QED
      BY <3>1 DEF OnceInv, Untouched, Fresh
  <2>2. ASSUME NEW m \in 1..Len(returns), returns[m].status = Pending, NotBegun(m)',
               NEW k \in DOMAIN returns[m].items
        PROVE  Fresh(returns[m].items[k])'
    <3>1. m # n /\ NotBegun(m)
      BY <1>1, <2>2 DEF NotBegun
    <3>2. Fresh(returns[m].items[k])
      BY <2>2, <3>1 DEF OnceInv, Untouched
    <3>3. returns[m].items[k] # i
      <4>1. Apart /\ p \in DOMAIN returns[n].items /\ i = returns[n].items[p]
        BY <1>2, <1>3 DEF OnceInv
      <4> HIDE DEF n, i, p
      <4> QED
        BY <1>3, <3>1, <4>1 DEF Apart
    <3> QED
      BY <1>b, <3>2, <3>3 DEF Fresh
  <2> QED
    BY <2>1, <2>2 DEF Untouched
<1>7. UnitsOnce'
  BY <1>2 DEF OnceInv, UnitsOnce
<1>8. ToRestore(r)'
  <2>1. FreshFrom(r, task[r].left \ {p})
    BY DEF OnceInv, ToRestore, FreshFrom
  <2>2. ASSUME NEW k \in task[r].left \ {p} PROVE Fresh(task[r].items[k])'
    <3>1. task[r].items[k] # i /\ task[r].items[k] \in Items
      BY <1>2, <1>3, <1>4, <1>b DEF IsInjective
    <3> QED
      BY <2>1, <3>1 DEF FreshFrom, Fresh
  <2> QED
    BY <2>2 DEF ToRestore, FreshFrom, Current, Fresh
<1>9. \A q \in Slots : Unasked(q)'
  BY <1>1 DEF Unasked, Creating
<1>10. \A q \in Slots \ {r} : ToRestore(q)'
  BY <1>1 DEF ToRestore
<1>11. Apart'
  BY DEF OnceInv, Apart
<1> QED
  BY <1>6, <1>7, <1>8, <1>9, <1>10, <1>11 DEF OnceInv

(* A return is inserted: its items are asked for the first time. *)
LEMMA OnceInserts ==
  ASSUME BaseInv, InTurn, OnceInv, Once, NEW r \in Slots, Serve(r), Inserts(r)
  PROVE  OnceInv'
<1> DEFINE N == Len(returns) + 1
<1>0. /\ ReturnsTypeOK /\ ReturnsTypeOK' /\ "overlap" \notin allowed
      /\ DOMAIN returns = 1..Len(returns) /\ Len(returns) \in Nat
      /\ DOMAIN returns' = 1..Len(returns')
  BY ServeTyped, DomainOfReturns, LenProperties, TypeParts DEF BaseInv, Once, RowsTyped
<1>1. /\ Len(returns') = N /\ returns'[N].items = task[r].items
      /\ \A n \in 1..Len(returns) : returns'[n] = returns[n]
      /\ at[r] = "insert" /\ UNCHANGED <<stock, products>>
  BY DEF Inserts, books
<1>2. /\ \A q \in Slots \ {r} : at[q] = "idle" /\ at'[q] = "idle" /\ task'[q] = task[q]
      /\ at'[r] = "idle"
  BY <1>0, ServeInTurn, Others, DoneSlot DEF Inserts
<1>3. \A n \in 1..Len(returns') : n \in 1..Len(returns) \/ n = N
  BY <1>0, <1>1
<1>4. /\ IsInjective(task[r].items)
      /\ \A k \in DOMAIN task[r].items : ~ Returned(task[r].items[k])
  BY <1>1 DEF OnceInv, Unasked, Creating
<1>5. \A n \in 1..Len(returns) : \A j \in DOMAIN returns[n].items : Returned(returns[n].items[j])
  BY <1>0 DEF Returned, Range
<1>6. Apart'
  <2>1. \A n \in 1..Len(returns') : IsInjective(returns'[n].items)
    BY <1>1, <1>3, <1>4 DEF OnceInv, Apart
  <2>2. ASSUME NEW m \in 1..Len(returns'), NEW n \in 1..Len(returns'),
               NEW j \in DOMAIN returns'[m].items, NEW k \in DOMAIN returns'[n].items,
               returns'[m].items[j] = returns'[n].items[k]
        PROVE  m = n
    <3>1. CASE m \in 1..Len(returns) /\ n \in 1..Len(returns)
      BY <1>1, <2>2, <3>1 DEF OnceInv, Apart
    <3>2. CASE m \in 1..Len(returns) /\ n = N
      BY <1>1, <1>4, <1>5, <2>2, <3>2
    <3>3. CASE n \in 1..Len(returns) /\ m = N
      BY <1>1, <1>4, <1>5, <2>2, <3>3
    <3> QED
      BY <1>3, <3>1, <3>2, <3>3
  <2> QED
    BY <2>1, <2>2 DEF Apart
<1>7. \A i \in Items : Returned(i) => Returned(i)'
  BY <1>0, <1>1, <1>3 DEF Returned
<1>8. Untouched'
  <2>1. \A i \in Items : ~ Returned(i)' => Fresh(i)'
    BY <1>1, <1>7 DEF OnceInv, Untouched, Fresh
  <2>2. ASSUME NEW n \in 1..Len(returns), returns[n].status = Pending, NotBegun(n)',
               NEW k \in DOMAIN returns[n].items
        PROVE  Fresh(returns[n].items[k])
    <3>1. NotBegun(n)
      <4>1. task[r].ret = 0
        BY <1>1 DEF BaseInv, AtWork, Creating
      <4> QED
        BY <1>0, <1>2, <2>2, <4>1 DEF NotBegun
    <3> QED
      BY <2>2, <3>1 DEF OnceInv, Untouched
  <2>3. ASSUME NEW k \in DOMAIN task[r].items PROVE Fresh(task[r].items[k])
    <3>1. task[r].items[k] \in Items
      BY <1>0, ElementOfSeq, LenProperties DEF ReturnsTypeOK
    <3> QED
      BY <1>4, <3>1 DEF OnceInv, Untouched
  <2>4. ASSUME NEW n \in 1..Len(returns'), returns'[n].status = Pending, NotBegun(n)',
               NEW k \in DOMAIN returns'[n].items
        PROVE  stock'[returns'[n].items[k]] = 0 /\ products'[returns'[n].items[k]] = 0
    <3>1. CASE n \in 1..Len(returns)
      <4>1. returns'[n] = returns[n]
        BY <1>1, <3>1
      <4>2. Fresh(returns[n].items[k])
        BY <2>2, <2>4, <3>1, <4>1
      <4> QED
        BY <4>1, <4>2, <1>1 DEF Fresh
    <3>2. CASE n = N
      <4>1. returns'[n].items = task[r].items
        BY <1>1, <3>2
      <4>2. Fresh(task[r].items[k])
        BY <2>3, <2>4, <4>1
      <4> QED
        BY <4>1, <4>2, <1>1 DEF Fresh
    <3> QED
      BY <1>3, <3>1, <3>2
  <2> QED
    BY <2>1, <2>4 DEF Untouched, Fresh
<1>9. \A q \in Slots : Unasked(q)' /\ ToRestore(q)'
  BY <1>2 DEF Unasked, ToRestore, Creating
<1> QED
  BY <1>1, <1>6, <1>8, <1>9 DEF OnceInv, UnitsOnce

(* A return is written as accepted: it is not begun again. *)
LEMMA OnceAccepts ==
  ASSUME BaseInv, InTurn, OnceInv, Once, NEW r \in Slots, Serve(r), Accepts(r)
  PROVE  OnceInv'
<1>0. /\ ReturnsTypeOK /\ "overlap" \notin allowed /\ RowsGrow
      /\ DOMAIN returns = 1..Len(returns) /\ DOMAIN returns' = 1..Len(returns')
  BY ServeTyped, DomainOfReturns, LenProperties, TypeParts DEF BaseInv, Once, RowsTyped
<1>1. /\ Len(returns') = Len(returns) /\ returns'[task[r].ret].status = "ACCEPTED"
      /\ \A n \in 1..Len(returns) : n # task[r].ret => returns'[n] = returns[n]
      /\ \A n \in 1..Len(returns) : returns'[n].items = returns[n].items
      /\ UNCHANGED <<stock, products>>
  BY <1>0 DEF Accepts, books, RowsGrow
<1>2. /\ \A q \in Slots \ {r} : at'[q] = "idle" /\ at'[q] = at[q]
      /\ \A q \in Slots : task'[q] = task[q]
      /\ at'[r] = "load"
  BY <1>0, ServeInTurn, Others, GoesSlot DEF Accepts
<1>3. \A i \in Items : Returned(i)' <=> Returned(i)
  BY <1>0, <1>1 DEF Returned
<1>4. Untouched'
  <2>1. \A i \in Items : ~ Returned(i)' => Fresh(i)'
    BY <1>1, <1>3 DEF OnceInv, Untouched, Fresh
  <2>2. ASSUME NEW n \in 1..Len(returns'), returns'[n].status = Pending, NotBegun(n)'
        PROVE  returns[n].status = Pending /\ NotBegun(n)
    BY <1>1, <1>2, <2>2 DEF NotBegun, Pending
  <2>3. ASSUME NEW n \in 1..Len(returns'), returns'[n].status = Pending, NotBegun(n)',
               NEW k \in DOMAIN returns'[n].items
        PROVE  stock'[returns'[n].items[k]] = 0 /\ products'[returns'[n].items[k]] = 0
    BY <1>1, <2>2, <2>3 DEF OnceInv, Untouched, Fresh
  <2> QED
    BY <2>1, <2>3 DEF Untouched, Fresh
<1>5. Apart'
  BY <1>1 DEF OnceInv, Apart
<1>6. \A q \in Slots : Unasked(q)' /\ ToRestore(q)'
  BY <1>2 DEF Unasked, ToRestore, Creating
<1> QED
  BY <1>1, <1>4, <1>5, <1>6 DEF OnceInv, UnitsOnce

(* A step of a request puts the units of an item back once, *)
LEMMA ServeOnce ==
  ASSUME BaseInv, InTurn, OnceInv, NEW r \in Slots, Serve(r)
  PROVE  OnceInv'
<1>0. /\ ReturnsTypeOK /\ AtWork(r) /\ allowed' = allowed
      /\ \A q \in Slots \ {r} : at'[q] = at[q] /\ task'[q] = task[q]
  BY Others DEF BaseInv
<1> SUFFICES ASSUME Once PROVE OnceInv'
  BY <1>0 DEF OnceInv, Once
<1>1. /\ "overlap" \notin allowed /\ ~ DBFails /\ "again" \notin allowed /\ "repeat" \notin allowed
      /\ Unasked(r) /\ ToRestore(r)
  BY DEF OnceInv, Once, DBFails
<1>2. CASE Create(r)
  <2>1. PICK o, items : at'[r] = "order" /\ task'[r] = Task(o, items, 0, {}, {}, 0)
                        /\ Expected(items)
    BY <1>0, <1>2, BeginSlot DEF Create
  <2>2. at[r] = "idle" /\ UNCHANGED <<returns, stock, products>>
    BY <1>2 DEF Create, Begin, books
  <2>3. IsInjective(items) /\ \A k \in DOMAIN items : ~ Returned(items[k])
    BY <1>1, <2>1 DEF Expected, Range
  <2>4. Unasked(r)' /\ ToRestore(r)'
    BY <2>1, <2>2, <2>3 DEF Unasked, ToRestore, Task, Returned
  <2> QED
    BY <1>0, <2>2, <2>4, OnceQuiet DEF AtWork
<1>3. CASE Accept(r)
  <2>1. at'[r] = "fetch" /\ at[r] = "idle" /\ UNCHANGED <<returns, stock, products>>
    BY <1>0, <1>3, BeginSlot DEF Accept, books
  <2>2. Unasked(r)' /\ ToRestore(r)'
    BY <2>1 DEF Unasked, ToRestore, Creating
  <2> QED
    BY <1>0, <2>1, <2>2, OnceQuiet DEF AtWork
<1>4. CASE GetOrder(r) \/ CheckItems(r)
  <2>1. at[r] \in Creating /\ UNCHANGED <<returns, stock, products>>
    BY <1>4 DEF GetOrder, CheckItems, Creating, books
  <2>2. at'[r] = "idle" \/ (at'[r] \in Creating /\ task'[r] = task[r])
    BY <1>0, <1>4, DoneSlot, GoesSlot DEF GetOrder, CheckItems, Creating
  <2>3. Unasked(r)' /\ ToRestore(r)'
    BY <1>1, <2>1, <2>2 DEF Unasked, ToRestore, Creating, Returned
  <2> QED
    BY <1>0, <2>1, <2>3, OnceQuiet DEF AtWork
<1>5. CASE Inserts(r)
  BY <1>5, OnceInserts
<1>6. CASE Accepts(r)
  BY <1>6, OnceAccepts
<1>7. CASE GetReturnRequestByID(r)
  <2> DEFINE ret == returns[task[r].ret]
             left == Chosen(ret.items, task[r].verified)
  <2>1. at[r] = "fetch" /\ UNCHANGED <<returns, stock, products>>
    BY <1>7 DEF GetReturnRequestByID, books
  <2>2. \/ at'[r] = "idle"
        \/ /\ ret.status = Pending
           /\ at'[r] = IF left = {} THEN "accept" ELSE "incr"
           /\ task'[r] = Task("none", ret.items, task[r].ret, {}, left, 0)
    BY <1>0, <1>7, DoneSlot, LoopsSlot DEF GetReturnRequestByID
  <2>3. task[r].ret \in 1..Len(returns) /\ task[r].ret # 0
    BY <1>0, <2>1, ReturnOf DEF Creating
  <2>4. NotBegun(task[r].ret)
    <3>1. \A q \in Slots \ {r} : at[q] = "idle" /\ task[q].ret = 0
      BY <1>0, <1>1, ServeInTurn DEF BaseInv, AtWork
    <3> QED
      BY <2>1, <2>3, <3>1 DEF NotBegun
  <2>5. ret.status = Pending => \A k \in left : Fresh(ret.items[k])
    BY <2>3, <2>4 DEF OnceInv, Untouched, Chosen
  <2> HIDE DEF left, ret
  <2>6. Unasked(r)' /\ ToRestore(r)'
    BY <2>1, <2>2, <2>5 DEF Unasked, ToRestore, FreshFrom, Fresh, Creating, Task
  <2> QED
    BY <2>1, <2>6, OnceQuiet
<1>8. CASE IncrBy(r)
  <2>1. /\ at[r] = "incr" /\ at'[r] = "stock" /\ task'[r] = task[r]
        /\ UNCHANGED <<returns, products>>
    BY <1>0, <1>8, GoesSlot DEF IncrBy
  <2>2. /\ First(task[r].left) \in task[r].left /\ Current(r) \in Items
        /\ QuantityOf[Current(r)] \in Nat
    BY <1>0, <2>1, CurrentItem DEF Restoring
  <2>3. FreshFrom(r, task[r].left) /\ Fresh(Current(r))
    BY <1>1, <2>1, <2>2 DEF ToRestore, FreshFrom, Current
  <2>4. CASE stock' = [stock EXCEPT ![Current(r)] = @ + QuantityOf[Current(r)]]
    <3>1. /\ \A i \in Items \ {Current(r)} : stock'[i] = stock[i] /\ products'[i] = products[i]
          /\ stock'[Current(r)] = QuantityOf[Current(r)] /\ products'[Current(r)] = 0
      BY <1>0, <2>1, <2>2, <2>3, <2>4 DEF Fresh, ReturnsTypeOK
    <3> QED
      BY <2>1, <2>2, <3>1, OnceRestores
  <2>5. CASE stock' = stock
    <3>1. Unasked(r)' /\ ToRestore(r)'
      BY <2>1, <2>3, <2>5 DEF Unasked, ToRestore, FreshFrom, Fresh, Creating, Current
    <3> QED
      BY <2>1, <2>5, <3>1, OnceQuiet
  <2> QED
    BY <1>8, <2>4, <2>5 DEF IncrBy
<1>9. CASE UpdateProductStock(r)
  <2>1. /\ at[r] = "stock" /\ at'[r] = "movement" /\ task'[r] = task[r]
        /\ UNCHANGED <<returns, stock>>
        /\ products' = [products EXCEPT ![Current(r)] = @ + QuantityOf[Current(r)]]
    BY <1>0, <1>1, <1>9, GoesSlot DEF UpdateProductStock
  <2>2. Current(r) \in Items /\ QuantityOf[Current(r)] \in Nat
    BY <1>0, <2>1, CurrentItem DEF Restoring
  <2>3. products[Current(r)] = 0 /\ stock[Current(r)] <= QuantityOf[Current(r)]
    BY <1>1, <2>1, <2>2 DEF ToRestore, OnceInv, UnitsOnce
  <2>4. /\ \A i \in Items \ {Current(r)} : stock'[i] = stock[i] /\ products'[i] = products[i]
        /\ products'[Current(r)] = QuantityOf[Current(r)]
        /\ stock'[Current(r)] = stock[Current(r)]
    BY <1>0, <2>1, <2>2, <2>3 DEF ReturnsTypeOK
  <2> QED
    BY <2>1, <2>2, <2>3, <2>4, OnceRestores
<1>10. CASE PublishMovement(r)
  <2> DEFINE left == task[r].left \ {First(task[r].left)}
             amount == task[r].amount + PriceOf[Current(r)]
  <2>1. /\ at[r] = "movement" /\ UNCHANGED <<returns, stock, products>>
        /\ at'[r] = IF left = {} THEN "accept" ELSE "incr"
        /\ task'[r] = Task("none", task[r].items, task[r].ret, {}, left, amount)
    BY <1>0, <1>10, LoopsSlot DEF PublishMovement
  <2>2. \A k \in left : Fresh(task[r].items[k])
    BY <1>1, <2>1 DEF ToRestore, FreshFrom
  <2> HIDE DEF left, amount
  <2>3. Unasked(r)' /\ ToRestore(r)' /\ task'[r].ret = task[r].ret /\ at'[r] # "fetch"
    BY <2>1, <2>2 DEF Unasked, ToRestore, FreshFrom, Fresh, Creating, Task
  <2> QED
    BY <2>1, <2>3, OnceQuiet
<1>11. CASE LoadPayment(r) \/ InitiateRefund(r) \/ Gateway(r) \/ PublishPointsReversed(r)
  <2>1. at[r] \in Refunding \union {"loyalty"} /\ UNCHANGED <<returns, stock, products>>
    BY <1>11 DEF LoadPayment, InitiateRefund, Gateway, PublishPointsReversed, Refunding, books
  <2>2. at'[r] \in Refunding \union {"loyalty", "idle"}
    BY <1>0, <1>11, DoneSlot, GoesSlot
       DEF LoadPayment, InitiateRefund, Gateway, PublishPointsReversed, Refunding
  <2>3. Unasked(r)' /\ ToRestore(r)'
    BY <2>2 DEF Unasked, ToRestore, Creating, Refunding
  <2>4. returns[task[r].ret].status # Pending
    BY <1>0, <2>1 DEF AtWork, Pending
  <2> QED
    BY <2>1, <2>3, <2>4, OnceQuiet
<1>12. CASE CreateReturnRequest(r) \/ UpdateReturnStatus(r)
  BY <1>0, <1>1, <1>5, <1>6, <1>12, RowsChange
<1> QED
  BY <1>2, <1>3, <1>4, <1>7, <1>8, <1>9, <1>10, <1>11, <1>12 DEF Serve

(* and so does each step of the specification. *)
LEMMA NextOnce == BaseInv /\ InTurn /\ OnceInv /\ [ReturnsNext]_returnsVars => OnceInv'
<1> SUFFICES ASSUME BaseInv, InTurn, OnceInv, [ReturnsNext]_returnsVars PROVE OnceInv'
  OBVIOUS
<1>1. ASSUME NEW r \in Slots, Serve(r) PROVE OnceInv'
  BY <1>1, ServeOnce
<1>2. ASSUME Restart PROVE OnceInv'
  BY <1>2 DEF Restart, OnceInv, Once
<1>3. ASSUME (\E o \in Orders : WindowEnds(o)) \/ UNCHANGED returnsVars PROVE OnceInv'
  <2>1. UNCHANGED <<allowed, returns, books, at, task>>
    BY <1>3, WindowTyped DEF BaseInv
  <2> QED
    BY <2>1 DEF OnceInv, Once, Apart, Untouched, UnitsOnce, Unasked, ToRestore, FreshFrom, Fresh,
         NotBegun, Returned, Current, books
<1> QED
  BY <1>1, <1>2, <1>3 DEF ReturnsNext

(* An order has one pending return, the books agree on what came back, and *)
(* what is returned once comes back once (HasPendingReturn and the loop of *)
(* AcceptReturn in return.go).  The invariant: every item is in one return *)
(* at most, and what a request has yet to put back is still untouched.     *)
THEOREM ReturnHandledOnce == ReturnsSpec => []ReturnIsHandledOnce
<1> DEFINE RInv == BaseInv /\ PendingInv /\ StocksAgree /\ OnceInv
<1>1. ReturnsInit => RInv
  BY InitBase, InitPending, InitStocks, InitOnce
<1>2. RInv /\ [ReturnsNext]_returnsVars => RInv'
  BY NextBase, NextPending, NextStocks, NextOnce DEF BaseInv, PendingInv
<1>3. RInv => ReturnIsHandledOnce
  BY DEF ReturnIsHandledOnce, PendingInv, OnceInv, Once, UnitsOnce, UnitsComeBackOnce
<1> HIDE DEF RInv
<1> QED
  BY <1>1, <1>2, <1>3, PTL DEF ReturnsSpec

-----------------------------------------------------------------------------
(* Heaps of units: what changes when one heap does, and when none grows.   *)
Heap(f, x) == {x} \X (1..f[x])
HeapsOf(f, S) == UNION {Heap(f, x) : x \in S}

(* Units counts the members of all heaps. *)
LEMMA UnitsAre ==
  ASSUME NEW S, NEW f \in [S -> Nat]
  PROVE  Units(f) = Cardinality(HeapsOf(f, S))
BY DEF Units, HeapsOf, Heap

(* A heap has as many members as it says. *)
LEMMA HeapSize ==
  ASSUME NEW S, NEW f \in [S -> Nat], NEW x \in S
  PROVE  IsFiniteSet(Heap(f, x)) /\ Cardinality(Heap(f, x)) = f[x]
<1>1. f[x] \in Nat /\ f[x] \in Int /\ 1 \in Int
  OBVIOUS
<1>2. IsFiniteSet(1..f[x]) /\ Cardinality(1..f[x]) = f[x]
  BY <1>1, FS_Interval
<1>3. IsFiniteSet({x}) /\ Cardinality({x}) = 1
  BY FS_Singleton
<1> QED
  BY <1>1, <1>2, <1>3, FS_Product DEF Heap

(* Finitely many heaps make a finite set. *)
LEMMA HeapsFinite ==
  ASSUME NEW S, IsFiniteSet(S), NEW f, \A x \in S : IsFiniteSet(Heap(f, x))
  PROVE  IsFiniteSet(HeapsOf(f, S)) /\ Cardinality(HeapsOf(f, S)) \in Nat
<1> DEFINE heaps == {Heap(f, x) : x \in S}
           each == [x \in S |-> Heap(f, x)]
<1>1. each \in Surjection(S, heaps)
  BY DEF Surjection
<1>2. IsFiniteSet(heaps)
  BY <1>1, FS_Surjection
<1>3. \A T \in heaps : IsFiniteSet(T)
  OBVIOUS
<1> HIDE DEF heaps
<1>4. IsFiniteSet(UNION heaps)
  BY <1>2, <1>3, FS_UNION
<1> QED
  BY <1>4, FS_CardinalityType DEF HeapsOf, heaps

(* The units of finitely many heaps are a number. *)
LEMMA UnitsCount ==
  ASSUME NEW S, IsFiniteSet(S), NEW f \in [S -> Nat]
  PROVE  Units(f) \in Nat
BY UnitsAre, HeapSize, HeapsFinite

(* One heap changes. *)
LEMMA OneHeap ==
  ASSUME NEW S, IsFiniteSet(S), NEW f \in [S -> Nat], NEW g \in [S -> Nat],
         NEW x \in S, \A y \in S \ {x} : g[y] = f[y]
  PROVE  Units(g) = Units(f) + g[x] - f[x]
<1> DEFINE rest == HeapsOf(f, S \ {x})
<1>1. IsFiniteSet(S \ {x})
  BY FS_RemoveElement
<1>2. \A y \in S \ {x} : IsFiniteSet(Heap(f, y)) /\ Heap(g, y) = Heap(f, y)
  BY HeapSize DEF Heap
<1>3. IsFiniteSet(rest) /\ Cardinality(rest) \in Nat
  BY <1>1, <1>2, HeapsFinite
<1>4. HeapsOf(f, S) = rest \union Heap(f, x) /\ rest \cap Heap(f, x) = {}
  BY DEF HeapsOf, Heap
<1>5. HeapsOf(g, S) = rest \union Heap(g, x) /\ rest \cap Heap(g, x) = {}
  BY <1>2 DEF HeapsOf, Heap
<1>6. Cardinality({}) = 0
  BY FS_EmptySet
<1>7. f[x] \in Nat /\ g[x] \in Nat
  OBVIOUS
<1>a. IsFiniteSet(Heap(f, x)) /\ Cardinality(Heap(f, x)) = f[x]
  BY HeapSize
<1>b. IsFiniteSet(Heap(g, x)) /\ Cardinality(Heap(g, x)) = g[x]
  BY HeapSize
<1> HIDE DEF rest
<1>8. Cardinality(HeapsOf(f, S)) = Cardinality(rest) + f[x]
  <2> DEFINE top == Heap(f, x)
  <2> HIDE DEF top
  <2>1. Cardinality(rest \union top) = Cardinality(rest) + Cardinality(top) - Cardinality(rest \cap top)
    BY <1>3, <1>a, FS_Union DEF top
  <2>2. Cardinality(rest \cap top) = 0
    BY <1>4, <1>6 DEF top
  <2>3. Cardinality(HeapsOf(f, S)) = Cardinality(rest \union top)
    BY <1>4 DEF top
  <2>4. Cardinality(top) = f[x]
    BY <1>a DEF top
  <2> QED
    BY <1>3, <1>7, <2>1, <2>2, <2>3, <2>4
<1>9. Cardinality(HeapsOf(g, S)) = Cardinality(rest) + g[x]
  <2> DEFINE top == Heap(g, x)
  <2> HIDE DEF top
  <2>1. Cardinality(rest \union top) = Cardinality(rest) + Cardinality(top) - Cardinality(rest \cap top)
    BY <1>3, <1>b, FS_Union DEF top
  <2>2. Cardinality(rest \cap top) = 0
    BY <1>5, <1>6 DEF top
  <2>3. Cardinality(HeapsOf(g, S)) = Cardinality(rest \union top)
    BY <1>5 DEF top
  <2>4. Cardinality(top) = g[x]
    BY <1>b DEF top
  <2> QED
    BY <1>3, <1>7, <2>1, <2>2, <2>3, <2>4
<1> QED
  BY <1>3, <1>7, <1>8, <1>9, UnitsAre

(* No heap grows. *)
LEMMA NoMoreUnits ==
  ASSUME NEW S, IsFiniteSet(S), NEW f \in [S -> Nat], NEW g \in [S -> Nat],
         \A x \in S : g[x] <= f[x]
  PROVE  Units(g) <= Units(f)
<1>1. \A x \in S : Heap(g, x) \subseteq Heap(f, x)
  BY DEF Heap
<1>2. HeapsOf(g, S) \subseteq HeapsOf(f, S)
  BY <1>1 DEF HeapsOf
<1>3. IsFiniteSet(HeapsOf(f, S))
  BY HeapSize, HeapsFinite
<1> QED
  BY <1>2, <1>3, UnitsAre, FS_Subset

(* Empty heaps have no units. *)
LEMMA NoUnits ==
  ASSUME NEW S, NEW f \in [S -> Nat], \A x \in S : f[x] = 0
  PROVE  Units(f) = 0
<1>1. \A x \in S : Heap(f, x) = {}
  BY DEF Heap
<1>2. HeapsOf(f, S) = {}
  BY <1>1 DEF HeapsOf
<1> QED
  BY <1>2, UnitsAre, FS_EmptySet

-----------------------------------------------------------------------------
(* Money: what a request may still ask to be paid back for an order, and   *)
(* what it may still announce, is for units the database has got back.     *)
Claim(r, o) ==
  IF task[r].ret # 0 /\ Order(r) = o
  THEN task[r].amount + (IF at[r] = "movement" THEN PriceOf[Current(r)] ELSE 0)
  ELSE 0
Refund(r, o) == IF at[r] = "loyalty" THEN 0 ELSE Claim(r, o)
ToTake(o) == [r \in Slots |-> Claim(r, o)]
ToPay(o) == [r \in Slots |-> Refund(r, o)]
NothingLost == allowed \intersect {"db", "kafka", "crash"} = {}
Backed(o) ==
  /\ refunded[o] + Units(ToPay(o)) <= Worth(o)
  /\ reversed[o] + Units(ToTake(o)) <= Worth(o)
  /\ NothingLost => reversed[o] + Units(ToTake(o)) = Worth(o)
BackedInv == \A o \in Orders : Backed(o)

(* What a request may ask for is a number of paise. *)
LEMMA ClaimType ==
  ASSUME ReturnsTypeOK, NEW o \in Orders
  PROVE  /\ \A r \in Slots : Claim(r, o) \in Nat /\ Refund(r, o) \in Nat
         /\ ToTake(o) \in [Slots -> Nat] /\ ToPay(o) \in [Slots -> Nat]
         /\ Units(ToTake(o)) \in Nat /\ Units(ToPay(o)) \in Nat
<1>1. ASSUME NEW r \in Slots PROVE Claim(r, o) \in Nat /\ Refund(r, o) \in Nat
  <2>1. task[r].amount \in Nat
    BY DEF ReturnsTypeOK
  <2>2. at[r] = "movement" => PriceOf[Current(r)] \in Nat
    BY CurrentItem DEF Restoring
  <2> QED
    BY <2>1, <2>2 DEF Claim, Refund
<1>2. ToTake(o) \in [Slots -> Nat] /\ ToPay(o) \in [Slots -> Nat]
  BY <1>1 DEF ToTake, ToPay
<1> QED
  BY <1>1, <1>2, UnitsCount, ReturnsAssumption

(* Only the claim of the request that goes on changes. *)
LEMMA ClaimStep ==
  ASSUME ReturnsTypeOK, NEW r \in Slots, Serve(r), NEW o \in Orders
  PROVE  /\ Claim(r, o)' \in Nat /\ Refund(r, o)' \in Nat
         /\ Units(ToTake(o))' \in Nat /\ Units(ToPay(o))' \in Nat
         /\ Units(ToTake(o))' = Units(ToTake(o)) + Claim(r, o)' - Claim(r, o)
         /\ Units(ToPay(o))' = Units(ToPay(o)) + Refund(r, o)' - Refund(r, o)
<1>1. ReturnsTypeOK' /\ RowsGrow /\ \A q \in Slots \ {r} : at'[q] = at[q] /\ task'[q] = task[q]
  BY ServeTyped, Others
<1>2. ASSUME NEW q \in Slots \ {r}
      PROVE  Claim(q, o)' = Claim(q, o) /\ Refund(q, o)' = Refund(q, o)
  <2>1. task[q].ret \in 0..Len(returns) /\ Len(returns) \in Nat
    BY DomainOfReturns DEF ReturnsTypeOK
  <2>2. task[q].ret # 0 => Order(q)' = Order(q)
    BY <1>1, <2>1 DEF RowsGrow, Order
  <2> QED
    BY <1>1, <2>2 DEF Claim, Refund, Current
<1>3. /\ \A q \in Slots : Claim(q, o)' \in Nat /\ Refund(q, o)' \in Nat
      /\ ToTake(o)' \in [Slots -> Nat] /\ ToPay(o)' \in [Slots -> Nat]
  <2>1. ASSUME NEW q \in Slots PROVE Claim(q, o)' \in Nat /\ Refund(q, o)' \in Nat
    <3>1. task'[q].amount \in Nat
      BY <1>1 DEF ReturnsTypeOK
    <3>2. at'[q] = "movement" => PriceOf[Current(q)'] \in Nat
      BY <1>1, CurrentItemNext DEF Restoring
    <3> QED
      BY <3>1, <3>2 DEF Claim, Refund
  <2> QED
    BY <2>1 DEF ToTake, ToPay
<1>4. /\ ToTake(o) \in [Slots -> Nat] /\ ToPay(o) \in [Slots -> Nat]
      /\ Units(ToTake(o)) \in Nat /\ Units(ToPay(o)) \in Nat
  BY ClaimType
<1> DEFINE f == ToTake(o)  g == ToTake(o)'
           h == ToPay(o)   k == ToPay(o)'
<1>5. /\ f[r] = Claim(r, o) /\ g[r] = Claim(r, o)' /\ h[r] = Refund(r, o) /\ k[r] = Refund(r, o)'
      /\ \A q \in Slots \ {r} : g[q] = f[q] /\ k[q] = h[q]
  BY <1>2 DEF ToTake, ToPay
<1>6. Units(g) = Units(ToTake(o))' /\ Units(k) = Units(ToPay(o))'
  BY DEF Units
<1>7. f \in [Slots -> Nat] /\ g \in [Slots -> Nat] /\ h \in [Slots -> Nat] /\ k \in [Slots -> Nat]
  BY <1>3, <1>4
<1>8. IsFiniteSet(Slots)
  BY ReturnsAssumption
<1> HIDE DEF f, g, h, k
<1>9. Units(g) = Units(f) + g[r] - f[r] /\ Units(k) = Units(h) + k[r] - h[r]
  BY <1>5, <1>7, <1>8, OneHeap
<1>10. Units(g) \in Nat /\ Units(k) \in Nat
  BY <1>7, <1>8, UnitsCount
<1> QED
  BY <1>3, <1>5, <1>6, <1>9, <1>10 DEF f, h

(* The goods that came back are worth more by one price when an item is    *)
(* put back.                                                               *)
LEMMA WorthStep ==
  ASSUME ReturnsTypeOK, NEW o \in Orders
  PROVE  /\ Worth(o) \in Nat
         /\ products' = products => Worth(o)' = Worth(o)
         /\ \A i \in Items :
              products' = [products EXCEPT ![i] = @ + QuantityOf[i]] =>
                Worth(o)' = Worth(o) + (IF OrderOf[i] = o THEN PriceOf[i] ELSE 0)
<1> DEFINE S == ItemsOf(o)
           f == [i \in S |-> Times(i) * PriceOf[i]]
           g == [i \in S |-> (products'[i] \div QuantityOf[i]) * PriceOf[i]]
<1>1. IsFiniteSet(S) /\ S \subseteq Items
  BY ReturnsAssumption, FS_Subset DEF ItemsOf
<1>2. \A i \in Items : QuantityOf[i] \in Nat \ {0} /\ PriceOf[i] \in Nat /\ products[i] \in Nat
  BY ReturnsAssumption DEF ReturnsTypeOK
<1>3. \A t, p \in Nat : t * p \in Nat /\ (t + 1) * p = t * p + p
  OBVIOUS
<1>4. f \in [S -> Nat]
  BY <1>1, <1>2, <1>3, DivStep DEF Times
<1>5. Worth(o) = Units(f) /\ Worth(o)' = Units(g)
  BY DEF Worth, Times, ItemsOf
<1>6. Worth(o) \in Nat
  BY <1>1, <1>4, <1>5, UnitsCount
<1>7. products' = products => Worth(o)' = Worth(o)
  BY <1>5 DEF Times
<1>8. ASSUME NEW i \in Items, products' = [products EXCEPT ![i] = @ + QuantityOf[i]]
      PROVE  Worth(o)' = Worth(o) + (IF OrderOf[i] = o THEN PriceOf[i] ELSE 0)
  <2>0. products \in [Items -> Nat]
    BY DEF ReturnsTypeOK
  <2>1. \A j \in S \ {i} : g[j] = f[j]
    BY <1>1, <1>8, <2>0 DEF Times
  <2>2. CASE OrderOf[i] = o
    <3>1. i \in S
      BY <2>2 DEF ItemsOf
    <3>2. products'[i] \div QuantityOf[i] = Times(i) + 1 /\ Times(i) \in Nat
      BY <1>2, <1>8, <2>0, DivStep DEF Times
    <3>3. g[i] = f[i] + PriceOf[i] /\ f[i] \in Nat /\ g[i] \in Nat
      BY <1>2, <1>3, <3>1, <3>2
    <3>4. g \in [S -> Nat]
      BY <1>4, <2>1, <3>3
    <3> HIDE DEF f, g
    <3>5. Units(g) = Units(f) + g[i] - f[i]
      BY <1>1, <1>4, <2>1, <3>1, <3>4, OneHeap
    <3> QED
      BY <1>2, <1>5, <1>6, <2>2, <3>3, <3>5
  <2>3. CASE OrderOf[i] # o
    <3>1. i \notin S
      BY <2>3 DEF ItemsOf
    <3>2. g = f
      BY <2>1, <3>1
    <3> QED
      BY <1>5, <1>6, <2>3, <3>2
  <2> QED
    BY <2>2, <2>3
<1> QED
  BY <1>6, <1>7, <1>8

(* What a step may do to the books of an order: pay or announce no more    *)
(* than the claim it gives up, unless more goods have come back.           *)
LEMMA BackedStep ==
  ASSUME ReturnsTypeOK, NEW o \in Orders, Backed(o), NEW r \in Slots, Serve(r), NEW worth \in Nat,
         Worth(o)' = Worth(o) + worth,
         refunded'[o] + Refund(r, o)' <= refunded[o] + Refund(r, o) + worth,
         reversed'[o] + Claim(r, o)' <= reversed[o] + Claim(r, o) + worth,
         NothingLost => reversed'[o] + Claim(r, o)' = reversed[o] + Claim(r, o) + worth
  PROVE  Backed(o)'
<1>1. /\ Worth(o) \in Nat /\ Claim(r, o) \in Nat /\ Refund(r, o) \in Nat
      /\ Units(ToTake(o)) \in Nat /\ Units(ToPay(o)) \in Nat
      /\ refunded[o] \in Nat /\ reversed[o] \in Nat
  BY WorthStep, ClaimType DEF ReturnsTypeOK
<1>2. /\ refunded'[o] \in Nat /\ reversed'[o] \in Nat /\ allowed' = allowed
  BY ServeTyped, Others DEF ReturnsTypeOK
<1>3. /\ Claim(r, o)' \in Nat /\ Refund(r, o)' \in Nat
      /\ Units(ToTake(o))' \in Nat /\ Units(ToPay(o))' \in Nat
      /\ Units(ToTake(o))' = Units(ToTake(o)) + Claim(r, o)' - Claim(r, o)
      /\ Units(ToPay(o))' = Units(ToPay(o)) + Refund(r, o)' - Refund(r, o)
  BY ClaimStep
<1>4. /\ refunded[o] + Units(ToPay(o)) <= Worth(o)
      /\ reversed[o] + Units(ToTake(o)) <= Worth(o)
      /\ NothingLost => reversed[o] + Units(ToTake(o)) = Worth(o)
  BY DEF Backed
<1>5. refunded'[o] + Units(ToPay(o))' <= Worth(o)'
  BY <1>1, <1>2, <1>3, <1>4
<1>6. reversed'[o] + Units(ToTake(o))' <= Worth(o)'
  BY <1>1, <1>2, <1>3, <1>4
<1>7. NothingLost' => reversed'[o] + Units(ToTake(o))' = Worth(o)'
  <2>1. NothingLost' <=> NothingLost
    BY <1>2 DEF NothingLost
  <2> QED
    BY <1>1, <1>2, <1>3, <1>4, <2>1
<1> QED
  BY <1>5, <1>6, <1>7 DEF Backed

(* A request that has put nothing back may ask for nothing, *)
LEMMA NoClaim ==
  ASSUME BaseInv, NEW r \in Slots, NEW o, at[r] \in {"idle", "fetch"} \union Creating
  PROVE  Claim(r, o) = 0 /\ Refund(r, o) = 0
<1>1. AtWork(r)
  BY DEF BaseInv
<1> QED
  BY <1>1 DEF AtWork, Claim, Refund, Creating

(* A request that has read its return: the item it is at is of its order. *)
LEMMA AtReturn ==
  ASSUME BaseInv, NEW r \in Slots, at[r] \notin {"idle", "fetch"} \union Creating
  PROVE  /\ task[r].ret # 0 /\ task[r].ret \in 1..Len(returns)
         /\ task[r].amount \in Nat /\ Order(r) \in Orders
         /\ at[r] \in Restoring => OrderOf[Current(r)] = Order(r)
<1>1. ReturnsTypeOK /\ AtWork(r) /\ at[r] \in Labels
  BY DEF BaseInv, ReturnsTypeOK
<1>2. /\ task[r].ret # 0 /\ task[r].ret \in 1..Len(returns) /\ Order(r) \in Orders
      /\ task[r].amount \in Nat
  BY <1>1, ReturnOf DEF ReturnsTypeOK
<1>3. at[r] \in Restoring => OrderOf[Current(r)] = Order(r)
  <2> SUFFICES ASSUME at[r] \in Restoring PROVE OrderOf[Current(r)] = Order(r)
    OBVIOUS
  <2>1. task[r].items = returns[task[r].ret].items /\ First(task[r].left) \in DOMAIN task[r].items
    BY <1>1, CurrentItem DEF AtWork
  <2> QED
    BY <1>2, <2>1 DEF BaseInv, ReturnsFit, FitsOrder, Current, Order
<1> QED
  BY <1>2, <1>3

(* one that has may ask for what it added up and the item it is at, *)
LEMMA ClaimAtWork ==
  ASSUME BaseInv, NEW r \in Slots, NEW o, at[r] \notin {"idle", "fetch"} \union Creating
  PROVE  Claim(r, o) = IF Order(r) = o
                       THEN task[r].amount + (IF at[r] = "movement" THEN PriceOf[Current(r)] ELSE 0)
                       ELSE 0
BY AtReturn DEF Claim

(* as long as it works, *)
LEMMA ClaimGoesOn ==
  ASSUME BaseInv, NEW r \in Slots, Serve(r), NEW o \in Orders,
         at[r] \notin {"idle", "fetch"} \union Creating, task'[r].ret = task[r].ret
  PROVE  /\ Order(r)' = Order(r)
         /\ Claim(r, o)' = IF Order(r) = o
                           THEN task'[r].amount
                                  + (IF at'[r] = "movement" THEN PriceOf[Current(r)'] ELSE 0)
                           ELSE 0
<1>1. RowsGrow /\ task[r].ret # 0 /\ task[r].ret \in 1..Len(returns)
  BY ServeTyped, AtReturn DEF BaseInv
<1>2. Order(r)' = Order(r)
  BY <1>1 DEF RowsGrow, Order
<1> QED
  BY <1>1, <1>2 DEF Claim

(* and for nothing when it has ended. *)
LEMMA ClaimEnds ==
  ASSUME ReturnsTypeOK, NEW r \in Slots, NEW o, Done(r)
  PROVE  Claim(r, o)' = 0 /\ Refund(r, o)' = 0
<1>1. task'[r] = NoTask /\ NoTask.ret = 0
  BY DoneSlot DEF NoTask, Task
<1> QED
  BY <1>1 DEF Claim, Refund

(* A step that touches neither the money nor the goods, and adds no claim. *)
LEMMA BackedQuiet ==
  ASSUME BaseInv, NEW o \in Orders, Backed(o), NEW r \in Slots, Serve(r),
         UNCHANGED <<products, refunded, reversed>>,
         Claim(r, o)' <= Claim(r, o), Refund(r, o)' <= Refund(r, o),
         NothingLost => Claim(r, o)' = Claim(r, o)
  PROVE  Backed(o)'
<1>1. /\ Claim(r, o) \in Nat /\ Refund(r, o) \in Nat /\ Claim(r, o)' \in Nat /\ Refund(r, o)' \in Nat
      /\ refunded[o] \in Nat /\ reversed[o] \in Nat /\ Worth(o) \in Nat /\ Worth(o)' = Worth(o)
      /\ ReturnsTypeOK
  BY ClaimType, ClaimStep, WorthStep DEF BaseInv, ReturnsTypeOK
<1>2. Worth(o)' = Worth(o) + 0 /\ refunded'[o] = refunded[o] /\ reversed'[o] = reversed[o]
  BY <1>1
<1> QED
  BY <1>1, <1>2, BackedStep

(* A step of a request asks for nothing that has not come back. *)
LEMMA ServeBacked ==
  ASSUME BaseInv, BaseInv', NEW o \in Orders, Backed(o), NEW r \in Slots, Serve(r)
  PROVE  Backed(o)'
<1>0. /\ ReturnsTypeOK /\ ReturnsTypeOK'
      /\ Claim(r, o) \in Nat /\ Refund(r, o) \in Nat /\ Claim(r, o)' \in Nat /\ Refund(r, o)' \in Nat
      /\ refunded[o] \in Nat /\ reversed[o] \in Nat /\ Worth(o) \in Nat
  BY ClaimType, ClaimStep, WorthStep DEF BaseInv, ReturnsTypeOK
<1>1. CASE Done(r) /\ UNCHANGED <<products, refunded, reversed>>
            /\ (NothingLost => at[r] \in {"idle", "fetch"} \union Creating)
  <2>1. Claim(r, o)' = 0 /\ Refund(r, o)' = 0
    BY <1>0, <1>1, ClaimEnds
  <2>2. NothingLost => Claim(r, o) = 0
    BY <1>1, NoClaim
  <2> QED
    BY <1>0, <1>1, <2>1, <2>2, BackedQuiet
<1>2. CASE /\ at[r] \in {"idle", "fetch"} \union Creating
           /\ at'[r] \in {"idle", "fetch"} \union Creating
           /\ UNCHANGED <<products, refunded, reversed>>
  <2>1. AtWork(r)'
    BY DEF BaseInv
  <2>2. Claim(r, o)' = 0 /\ Refund(r, o)' = 0
    BY <1>2, <2>1 DEF AtWork, Claim, Refund, Creating
  <2>3. Claim(r, o) = 0 /\ Refund(r, o) = 0
    BY <1>2, NoClaim
  <2> QED
    BY <1>2, <2>2, <2>3, BackedQuiet
<1>3. CASE Create(r) \/ Accept(r) \/ GetOrder(r) \/ CheckItems(r) \/ CreateReturnRequest(r)
  <2>1. at[r] \in {"idle"} \union Creating /\ UNCHANGED <<products, refunded, reversed>>
    BY <1>3 DEF Create, Accept, Begin, GetOrder, CheckItems, CreateReturnRequest, Creating, books
  <2>2. at'[r] \in {"idle", "fetch"} \union Creating
    BY <1>0, <1>3, BeginSlot, GoesSlot, DoneSlot
       DEF Create, Accept, GetOrder, CheckItems, CreateReturnRequest, Creating
  <2> QED
    BY <1>2, <2>1, <2>2
<1>4. CASE GetReturnRequestByID(r)
  <2>1. at[r] = "fetch" /\ UNCHANGED <<products, refunded, reversed>>
    BY <1>4 DEF GetReturnRequestByID, books
  <2>2. CASE Done(r)
    BY <1>1, <2>1, <2>2
  <2>3. CASE ~ Done(r)
    <3>1. at'[r] # "movement" /\ task'[r].amount = 0
      <4> DEFINE items == returns[task[r].ret].items
                 left == Chosen(items, task[r].verified)
      <4>1. /\ at'[r] = (IF left = {} THEN "accept" ELSE "incr")
            /\ task'[r] = Task("none", items, task[r].ret, {}, left, 0)
        BY <1>0, <1>4, <2>3, LoopsSlot DEF GetReturnRequestByID
      <4> HIDE DEF left, items
      <4> QED
        BY <4>1 DEF Task
    <3>2. Claim(r, o)' = 0 /\ Refund(r, o)' = 0
      BY <3>1 DEF Claim, Refund
    <3>3. Claim(r, o) = 0 /\ Refund(r, o) = 0
      BY <2>1, NoClaim
    <3> QED
      BY <2>1, <3>2, <3>3, BackedQuiet
  <2> QED
    BY <2>2, <2>3
<1>5. CASE IncrBy(r)
  <2>1. at[r] = "incr" /\ at'[r] = "stock" /\ task'[r] = task[r]
        /\ UNCHANGED <<products, refunded, reversed>>
    BY <1>0, <1>5, GoesSlot DEF IncrBy
  <2>2. Claim(r, o)' = Claim(r, o) /\ Refund(r, o)' = Refund(r, o)
    BY <2>1, ClaimAtWork, ClaimGoesOn DEF Refund, Creating
  <2> QED
    BY <1>0, <2>1, <2>2, BackedQuiet
<1>6. CASE UpdateProductStock(r)
  <2>1. at[r] = "stock" /\ UNCHANGED <<refunded, reversed>>
    BY <1>6 DEF UpdateProductStock
  <2>2. CASE Done(r)
    <3>1. UNCHANGED products /\ ~ NothingLost
      <4>1. at'[r] = "idle"
        BY <1>0, <2>2, DoneSlot
      <4>2. ~ Goes(r, "movement")
        BY <1>0, <4>1, GoesSlot
      <4> QED
        BY <1>6, <4>2 DEF UpdateProductStock, DBFails, NothingLost
    <3> QED
      BY <1>1, <2>1, <2>2, <3>1
  <2>3. CASE ~ Done(r)
    <3>1. /\ at'[r] = "movement" /\ task'[r] = task[r]
          /\ products' = [products EXCEPT ![Current(r)] = @ + QuantityOf[Current(r)]]
      BY <1>0, <1>6, <2>3, GoesSlot DEF UpdateProductStock
    <3> DEFINE worth == IF OrderOf[Current(r)] = o THEN PriceOf[Current(r)] ELSE 0
    <3>2. Current(r) \in Items /\ PriceOf[Current(r)] \in Nat /\ Current(r)' = Current(r)
      BY <1>0, <2>1, <3>1, CurrentItem DEF Restoring, Current
    <3>3. Worth(o)' = Worth(o) + worth /\ worth \in Nat
      BY <1>0, <3>1, <3>2, WorthStep
    <3>4. OrderOf[Current(r)] = Order(r)
      BY <2>1, AtReturn DEF Restoring, Creating
    <3>5. Claim(r, o)' = Claim(r, o) + worth
      <4>1. Claim(r, o) = IF Order(r) = o THEN task[r].amount ELSE 0
        BY <2>1, AtReturn, ClaimAtWork DEF Creating
      <4>2. Claim(r, o)' = IF Order(r) = o THEN task[r].amount + PriceOf[Current(r)] ELSE 0
        BY <2>1, <3>1, <3>2, ClaimGoesOn DEF Creating
      <4> QED
        BY <1>0, <3>2, <3>4, <4>1, <4>2
    <3>6. Refund(r, o)' = Refund(r, o) + worth
      BY <2>1, <3>1, <3>5 DEF Refund
    <3> HIDE DEF worth
    <3>7. refunded'[o] = refunded[o] /\ reversed'[o] = reversed[o]
      BY <2>1
    <3> QED
      BY <1>0, <3>3, <3>5, <3>6, <3>7, BackedStep
  <2> QED
    BY <2>2, <2>3
<1>7. CASE PublishMovement(r)
  <2>1. at[r] = "movement" /\ UNCHANGED <<products, refunded, reversed>>
    BY <1>7 DEF PublishMovement
  <2>2. /\ at'[r] \in {"accept", "incr"} /\ task'[r].ret = task[r].ret
        /\ task'[r].amount = task[r].amount + PriceOf[Current(r)]
    <3> DEFINE left == task[r].left \ {First(task[r].left)}
               amount == task[r].amount + PriceOf[Current(r)]
    <3>1. /\ at'[r] = (IF left = {} THEN "accept" ELSE "incr")
          /\ task'[r] = Task("none", task[r].items, task[r].ret, {}, left, amount)
      BY <1>0, <1>7, LoopsSlot DEF PublishMovement
    <3> HIDE DEF left, amount
    <3>2. at'[r] \in {"accept", "incr"} /\ task'[r].ret = task[r].ret /\ task'[r].amount = amount
      BY <3>1 DEF Task
    <3> QED
      BY <3>2 DEF amount
  <2>3. Claim(r, o)' = Claim(r, o) /\ Refund(r, o)' = Refund(r, o)
    <3>1. Claim(r, o) = IF Order(r) = o THEN task[r].amount + PriceOf[Current(r)] ELSE 0
      BY <2>1, AtReturn, ClaimAtWork DEF Creating
    <3>2. task[r].amount \in Nat /\ PriceOf[Current(r)] \in Nat
      BY <1>0, <2>1, CurrentItem DEF Restoring, ReturnsTypeOK
    <3>3. Claim(r, o)' = IF Order(r) = o THEN task[r].amount + PriceOf[Current(r)] ELSE 0
      BY <2>1, <2>2, <3>2, ClaimGoesOn DEF Creating
    <3> QED
      BY <2>1, <2>2, <3>1, <3>3 DEF Refund
  <2> QED
    BY <1>0, <2>1, <2>3, BackedQuiet
<1>8. CASE UpdateReturnStatus(r) \/ LoadPayment(r) \/ InitiateRefund(r)
  <2>1. at[r] \in {"accept", "load", "refund"} /\ UNCHANGED <<products, refunded, reversed>>
    BY <1>8 DEF UpdateReturnStatus, LoadPayment, InitiateRefund, books
  <2>2. CASE Done(r)
    <3>1. ~ NothingLost
      <4>1. at'[r] = "idle"
        BY <1>0, <2>2, DoneSlot
      <4>2. ~ Goes(r, "load") /\ ~ Goes(r, "refund") /\ ~ Goes(r, "gateway") /\ ~ Goes(r, "loyalty")
        BY <1>0, <4>1, GoesSlot
      <4> QED
        BY <1>8, <4>2 DEF UpdateReturnStatus, LoadPayment, InitiateRefund, DBFails, NothingLost
    <3> QED
      BY <1>1, <2>1, <2>2, <3>1
  <2>3. CASE ~ Done(r)
    <3>1. at'[r] \in {"load", "refund", "gateway", "loyalty"} /\ task'[r] = task[r]
      BY <1>0, <1>8, <2>3, GoesSlot DEF UpdateReturnStatus, LoadPayment, InitiateRefund
    <3>2. Claim(r, o)' = Claim(r, o)
      BY <2>1, <3>1, ClaimAtWork, ClaimGoesOn DEF Creating
    <3>3. Refund(r, o)' <= Refund(r, o)
      BY <1>0, <2>1, <3>1, <3>2 DEF Refund
    <3> QED
      BY <1>0, <2>1, <3>2, <3>3, BackedQuiet
  <2> QED
    BY <2>2, <2>3
<1>9. CASE Gateway(r)
  <2>1. /\ at[r] = "gateway" /\ at'[r] = "loyalty" /\ task'[r] = task[r]
        /\ refunded' = [refunded EXCEPT ![Order(r)] = @ + Paise(task[r].amount)]
        /\ UNCHANGED <<products, reversed>>
    BY <1>0, <1>9, GoesSlot DEF Gateway
  <2>2. /\ Order(r) \in Orders /\ task[r].amount \in Nat
        /\ Claim(r, o) = IF Order(r) = o THEN task[r].amount ELSE 0
    BY <2>1, AtReturn, ClaimAtWork DEF Creating
  <2>3. Claim(r, o)' = Claim(r, o)
    BY <2>1, <2>2, ClaimGoesOn DEF Creating
  <2>4. Refund(r, o) = Claim(r, o) /\ Refund(r, o)' = 0
    BY <2>1 DEF Refund
  <2>5. Paise(task[r].amount) \in Nat /\ Paise(task[r].amount) <= task[r].amount
    BY <2>2, PaiseTyped
  <2>6. refunded'[o] = refunded[o] + (IF Order(r) = o THEN Paise(task[r].amount) ELSE 0)
    BY <1>0, <2>1, <2>2 DEF ReturnsTypeOK
  <2>7. refunded'[o] + Refund(r, o)' <= refunded[o] + Refund(r, o) + 0
    BY <1>0, <2>2, <2>4, <2>5, <2>6
  <2>8. Worth(o)' = Worth(o) + 0 /\ reversed'[o] = reversed[o]
    BY <1>0, <2>1, WorthStep
  <2> QED
    BY <1>0, <2>3, <2>7, <2>8, BackedStep
<1>10. CASE PublishPointsReversed(r)
  <2>1. /\ at[r] = "loyalty" /\ Done(r) /\ UNCHANGED <<products, refunded>>
        /\ \/ reversed' = [reversed EXCEPT ![Order(r)] = @ + task[r].amount]
           \/ reversed' = reversed /\ ~ NothingLost
    BY <1>10 DEF PublishPointsReversed, KafkaFails, NothingLost
  <2>2. /\ Order(r) \in Orders /\ task[r].amount \in Nat
        /\ Claim(r, o) = IF Order(r) = o THEN task[r].amount ELSE 0
    BY <2>1, AtReturn, ClaimAtWork DEF Creating
  <2>3. Claim(r, o)' = 0 /\ Refund(r, o)' = 0 /\ Refund(r, o) = 0
    BY <1>0, <2>1, ClaimEnds DEF Refund
  <2>4. \/ reversed'[o] = reversed[o] + (IF Order(r) = o THEN task[r].amount ELSE 0)
        \/ reversed'[o] = reversed[o] /\ ~ NothingLost
    BY <1>0, <2>1, <2>2 DEF ReturnsTypeOK
  <2>5. Worth(o)' = Worth(o) + 0 /\ refunded'[o] = refunded[o]
    BY <1>0, <2>1, WorthStep
  <2>6. /\ reversed'[o] + Claim(r, o)' <= reversed[o] + Claim(r, o) + 0
        /\ NothingLost => reversed'[o] + Claim(r, o)' = reversed[o] + Claim(r, o) + 0
    BY <1>0, <2>2, <2>3, <2>4
  <2>7. refunded'[o] + Refund(r, o)' <= refunded[o] + Refund(r, o) + 0
    BY <1>0, <2>3, <2>5
  <2> QED
    BY <1>0, <2>5, <2>6, <2>7, BackedStep
<1> QED
  BY <1>3, <1>4, <1>5, <1>6, <1>7, <1>8, <1>9, <1>10 DEF Serve

(* No request at work asks for nothing, *)
LEMMA NothingClaimed ==
  ASSUME NEW o, \A r \in Slots : task[r].ret = 0
  PROVE  Units(ToTake(o)) = 0 /\ Units(ToPay(o)) = 0
<1>1. \A r \in Slots : Claim(r, o) = 0 /\ Refund(r, o) = 0
  BY DEF Claim, Refund
<1> DEFINE f == ToTake(o)
           g == ToPay(o)
<1>2. f \in [Slots -> Nat] /\ g \in [Slots -> Nat] /\ \A r \in Slots : f[r] = 0 /\ g[r] = 0
  BY <1>1 DEF ToTake, ToPay
<1> HIDE DEF f, g
<1>3. Units(f) = 0 /\ Units(g) = 0
  BY <1>2, NoUnits
<1> QED
  BY <1>3 DEF f, g

(* also after a step. *)
LEMMA NothingClaimedNext ==
  ASSUME NEW o, \A r \in Slots : task'[r].ret = 0
  PROVE  Units(ToTake(o))' = 0 /\ Units(ToPay(o))' = 0
<1>1. \A r \in Slots : Claim(r, o)' = 0 /\ Refund(r, o)' = 0
  BY DEF Claim, Refund
<1> DEFINE f == ToTake(o)'
           g == ToPay(o)'
<1>2. f \in [Slots -> Nat] /\ g \in [Slots -> Nat] /\ \A r \in Slots : f[r] = 0 /\ g[r] = 0
  BY <1>1 DEF ToTake, ToPay
<1>3. Units(ToTake(o))' = Units(f) /\ Units(ToPay(o))' = Units(g)
  BY DEF Units
<1> HIDE DEF f, g
<1> QED
  BY <1>2, <1>3, NoUnits

(* At the start nothing has come back and nothing is paid. *)
LEMMA InitBacked == ReturnsInit => BackedInv
<1> SUFFICES ASSUME ReturnsInit, NEW o \in Orders PROVE Backed(o)
  BY DEF BackedInv
<1>1. Units(ToTake(o)) = 0 /\ Units(ToPay(o)) = 0
  BY NothingClaimed DEF ReturnsInit, NoTask, Task
<1> DEFINE f == [i \in ItemsOf(o) |-> Times(i) * PriceOf[i]]
<1>2. \A i \in Items : Times(i) = 0 /\ PriceOf[i] \in Nat
  <2>1. \A q \in Nat \ {0} : 0 \div q = 0
    OBVIOUS
  <2> QED
    BY <2>1, ReturnsAssumption DEF ReturnsInit, Times
<1>3. f \in [ItemsOf(o) -> Nat] /\ \A i \in ItemsOf(o) : f[i] = 0
  <2>1. \A p \in Nat : 0 * p = 0
    OBVIOUS
  <2> QED
    BY <1>2, <2>1 DEF ItemsOf
<1> HIDE DEF f
<1>4. Units(f) = 0
  BY <1>3, NoUnits
<1>5. Worth(o) = 0
  BY <1>4 DEF Worth, f
<1> QED
  BY <1>1, <1>5 DEF Backed, ReturnsInit

(* Each step keeps the claims backed by goods. *)
LEMMA NextBacked ==
  BaseInv /\ BackedInv /\ [ReturnsNext]_returnsVars => BackedInv'
<1> SUFFICES ASSUME BaseInv, BackedInv, [ReturnsNext]_returnsVars, NEW o \in Orders
             PROVE  Backed(o)'
  BY DEF BackedInv
<1>0. BaseInv' /\ Backed(o) /\ ReturnsTypeOK
  BY NextBase DEF BackedInv, BaseInv
<1>1. ASSUME NEW r \in Slots, Serve(r) PROVE Backed(o)'
  BY <1>0, <1>1, ServeBacked
<1>2. ASSUME Restart PROVE Backed(o)'
  <2>1. Units(ToTake(o))' = 0 /\ Units(ToPay(o))' = 0
    BY <1>2, NothingClaimedNext DEF Restart, NoTask, Task
  <2>2. /\ UNCHANGED <<allowed, products, refunded, reversed>> /\ ~ NothingLost
    BY <1>2 DEF Restart, books, NothingLost
  <2>3. /\ Worth(o)' = Worth(o) /\ Worth(o) \in Nat /\ refunded[o] \in Nat /\ reversed[o] \in Nat
        /\ Units(ToTake(o)) \in Nat /\ Units(ToPay(o)) \in Nat
    BY <1>0, <2>2, WorthStep, ClaimType DEF ReturnsTypeOK
  <2> QED
    BY <1>0, <2>1, <2>2, <2>3 DEF Backed, NothingLost
<1>3. ASSUME (\E p \in Orders : WindowEnds(p)) \/ UNCHANGED returnsVars PROVE Backed(o)'
  <2>1. UNCHANGED <<allowed, returns, products, refunded, reversed, at, task>>
    BY <1>0, <1>3, WindowTyped DEF books
  <2>2. Worth(o)' = Worth(o) /\ ToTake(o)' = ToTake(o) /\ ToPay(o)' = ToPay(o)
    BY <2>1 DEF Worth, Times, ToTake, ToPay, Claim, Refund, Order, Current
  <2> QED
    BY <1>0, <2>1, <2>2 DEF Backed, NothingLost, Units
<1> QED
  BY <1>1, <1>2, <1>3 DEF ReturnsNext

(* Backed claims leave the refund and the points within the worth of the   *)
(* goods.                                                                  *)
LEMMA BackedIs == ASSUME BaseInv, BackedInv PROVE RefundIsBacked
<1> SUFFICES ASSUME NEW o \in Orders PROVE refunded[o] <= Worth(o) /\ reversed[o] <= Worth(o)
  BY DEF RefundIsBacked
<1>1. /\ Units(ToTake(o)) \in Nat /\ Units(ToPay(o)) \in Nat /\ Worth(o) \in Nat
      /\ refunded[o] \in Nat /\ reversed[o] \in Nat
  BY ClaimType, WorthStep DEF BaseInv, ReturnsTypeOK
<1> QED
  BY <1>1 DEF BackedInv, Backed

-----------------------------------------------------------------------------
(* One refund of a payment, for items each of which counts once.           *)
InTurnOnce == allowed \intersect {"overlap", "repeat"} = {}
TakenOf(items, left, o) ==
  [i \in ItemsOf(o) |->
     IF \E k \in DOMAIN items \ left : items[k] = i THEN PriceOf[i] ELSE 0]
Taken(r) == TakenOf(task[r].items, task[r].left, Order(r))
OnceEach ==
  /\ \A n \in 1..Len(returns) : IsInjective(returns[n].items)
  /\ \A r \in Slots : at[r] \in Creating => IsInjective(task[r].items)
Unpaid == \A o \in Orders : payment[o] = "CONFIRMED" => refunded[o] = 0
PaidOnce == \A o \in Orders : refunded[o] <= Paid(o)
Counted(r) ==
  /\ at[r] = "gateway" => payment[Order(r)] = "CONFIRMED"
  /\ at[r] \in Restoring \union Refunding \union {"accept"} => task[r].amount <= Units(Taken(r))
PaidInv == InTurnOnce => OnceEach /\ Unpaid /\ PaidOnce /\ \A r \in Slots : Counted(r)

(* The price of the items a request has taken is a number of paise. *)
LEMMA TakenType ==
  ASSUME NEW items, NEW left, NEW o
  PROVE  /\ IsFiniteSet(ItemsOf(o))
         /\ TakenOf(items, left, o) \in [ItemsOf(o) -> Nat]
         /\ Units(TakenOf(items, left, o)) \in Nat
         /\ Units(TakenOf(items, left, o)) <= Paid(o) /\ Paid(o) \in Nat
<1> DEFINE S == ItemsOf(o)
           f == TakenOf(items, left, o)
           g == [i \in S |-> PriceOf[i]]
<1>1. IsFiniteSet(S) /\ S \subseteq Items
  BY ReturnsAssumption, FS_Subset DEF ItemsOf
<1>2. f \in [S -> Nat] /\ g \in [S -> Nat] /\ \A i \in S : f[i] <= g[i]
  BY <1>1, ReturnsAssumption DEF TakenOf
<1>3. Paid(o) = Units(g)
  BY DEF Paid
<1> HIDE DEF f, g, S
<1>4. Units(f) \in Nat /\ Units(g) \in Nat /\ Units(f) <= Units(g)
  BY <1>1, <1>2, UnitsCount, NoMoreUnits
<1> QED
  BY <1>1, <1>2, <1>3, <1>4 DEF f, S

(* One more place has been worked through. *)
LEMMA TakenStep ==
  ASSUME NEW items, NEW left, left \subseteq DOMAIN items, NEW k \in left, NEW o \in Orders,
         IsInjective(items), items[k] \in Items, OrderOf[items[k]] = o
  PROVE  Units(TakenOf(items, left \ {k}, o)) = Units(TakenOf(items, left, o)) + PriceOf[items[k]]
<1> DEFINE S == ItemsOf(o)
           i == items[k]
           f == TakenOf(items, left, o)
           g == TakenOf(items, left \ {k}, o)
<1>1. IsFiniteSet(S) /\ f \in [S -> Nat] /\ g \in [S -> Nat] /\ Units(f) \in Nat
  BY TakenType
<1>2. i \in S /\ PriceOf[i] \in Nat
  BY ReturnsAssumption DEF ItemsOf
<1>3. ~ \E m \in DOMAIN items \ left : items[m] = i
  BY DEF IsInjective
<1>4. f[i] = 0 /\ g[i] = PriceOf[i]
  BY <1>2, <1>3 DEF TakenOf
<1>5. \A j \in S \ {i} : g[j] = f[j]
  BY DEF TakenOf
<1> HIDE DEF f, g, S, i
<1>6. Units(g) = Units(f) + g[i] - f[i]
  BY <1>1, <1>2, <1>5, OneHeap
<1>7. Units(g) = Units(f) + PriceOf[i]
  BY <1>1, <1>2, <1>4, <1>6
<1> QED
  BY <1>7 DEF f, g, i

(* No return has an item twice, where lists have none. *)
LEMMA ServeOnceEach ==
  ASSUME ReturnsTypeOK, InTurnOnce, OnceEach, NEW r \in Slots, Serve(r)
  PROVE  OnceEach'
<1>1. /\ RowsGrow /\ Len(returns) \in Nat
      /\ \A q \in Slots \ {r} : at'[q] = at[q] /\ task'[q] = task[q]
  BY ServeTyped, Others, DomainOfReturns
<1>2. \A n \in 1..Len(returns) : returns'[n].items = returns[n].items
  BY <1>1 DEF RowsGrow
<1>3. \A n \in 1..Len(returns') : IsInjective(returns'[n].items)
  <2>1. CASE Len(returns') = Len(returns)
    BY <1>2, <2>1 DEF OnceEach
  <2>2. CASE Inserts(r)
    <3>1. /\ Len(returns') = Len(returns) + 1 /\ IsInjective(task[r].items)
          /\ returns'[Len(returns) + 1].items = task[r].items
      BY <2>2 DEF Inserts, OnceEach, Creating
    <3>2. \A n \in 1..Len(returns') : n \in 1..Len(returns) \/ n = Len(returns) + 1
      BY <1>1, <3>1
    <3> QED
      BY <1>2, <3>1, <3>2 DEF OnceEach
  <2> QED
    BY <2>1, <2>2, StepOfReturns DEF Accepts
<1>4. at'[r] \in Creating => IsInjective(task'[r].items)
  <2> SUFFICES ASSUME at'[r] \in Creating PROVE IsInjective(task'[r].items)
    OBVIOUS
  <2>1. CASE Create(r)
    <3>1. PICK o, items : task'[r] = Task(o, items, 0, {}, {}, 0) /\ Expected(items)
      BY <2>1, BeginSlot DEF Create
    <3>2. IsInjective(items)
      BY <3>1 DEF Expected, InTurnOnce
    <3> QED
      BY <3>1, <3>2 DEF Task
  <2>2. CASE GetOrder(r) \/ CheckItems(r)
    <3>1. task'[r] = task[r] /\ at[r] \in Creating
      BY <2>2, GoesSlot, DoneSlot DEF GetOrder, CheckItems, Creating
    <3> QED
      BY <3>1 DEF OnceEach
  <2>3. CASE ~ (Create(r) \/ GetOrder(r) \/ CheckItems(r))
    <3>1. at'[r] \in Labels \ Creating
      BY <2>3, GoesSlot, DoneSlot, LoopsSlot, BeginSlot
         DEF Serve, Accept, CreateReturnRequest, GetReturnRequestByID, IncrBy, UpdateProductStock,
             PublishMovement, UpdateReturnStatus, LoadPayment, InitiateRefund, Gateway,
             PublishPointsReversed, Creating, Labels
    <3> QED
      BY <3>1
  <2> QED
    BY <2>1, <2>2, <2>3
<1> QED
  BY <1>1, <1>3, <1>4 DEF OnceEach

(* A step of a request adds up items it has not added up before. *)
LEMMA ServeCounted ==
  ASSUME BaseInv, OnceEach, NEW r \in Slots, Counted(r), Serve(r)
  PROVE  Counted(r)'
<1>0. ReturnsTypeOK /\ AtWork(r)
  BY DEF BaseInv
<1>1. CASE at'[r] \in {"idle", "loyalty", "fetch"} \union Creating
  BY <1>1 DEF Counted, Creating, Restoring, Refunding
<1>2. CASE GetReturnRequestByID(r)
  <2>1. CASE Done(r)
    BY <1>0, <1>1, <2>1, DoneSlot
  <2>2. CASE ~ Done(r)
    <3>1. at'[r] # "gateway" /\ task'[r].amount = 0
      <4> DEFINE items == returns[task[r].ret].items
                 left == Chosen(items, task[r].verified)
      <4>1. /\ at'[r] = (IF left = {} THEN "accept" ELSE "incr")
            /\ task'[r] = Task("none", items, task[r].ret, {}, left, 0)
        BY <1>0, <1>2, <2>2, LoopsSlot DEF GetReturnRequestByID
      <4> HIDE DEF left, items
      <4> QED
        BY <4>1 DEF Task
    <3>2. Units(Taken(r)') \in Nat
      BY TakenType DEF Taken, TakenOf
    <3>3. Units(Taken(r))' = Units(Taken(r)')
      BY DEF Units
    <3> QED
      BY <3>1, <3>2, <3>3 DEF Counted
  <2> QED
    BY <2>1, <2>2
<1>3. CASE /\ at[r] \notin {"idle", "fetch"} \union Creating
           /\ at'[r] \notin {"idle", "loyalty", "fetch"} \union Creating
           /\ task'[r] = task[r]
  <2>1. Order(r)' = Order(r)
    <3>1. RowsGrow /\ task[r].ret \in 1..Len(returns)
      BY <1>0, <1>3, ServeTyped, ReturnOf
    <3> QED
      BY <1>3, <3>1 DEF RowsGrow, Order
  <2>2. Taken(r)' = Taken(r)
    BY <1>3, <2>1 DEF Taken, TakenOf
  <2>3. at[r] \in Restoring \union Refunding \union {"accept"}
    <3>1. at[r] # "loyalty"
      BY <1>0, <1>3, GoesSlot, DoneSlot, LoopsSlot, BeginSlot
         DEF Serve, Create, Accept, GetOrder, CheckItems, CreateReturnRequest,
             GetReturnRequestByID, IncrBy, UpdateProductStock, PublishMovement,
             UpdateReturnStatus, LoadPayment, InitiateRefund, Gateway, PublishPointsReversed
    <3> QED
      BY <1>0, <1>3, <3>1 DEF ReturnsTypeOK, Labels, Restoring, Refunding, Creating
  <2>4. task'[r].amount <= Units(Taken(r))'
    BY <1>3, <2>2, <2>3 DEF Counted, Units
  <2>5. at'[r] = "gateway" => payment'[Order(r)'] = "CONFIRMED"
    <3>1. at'[r] = "gateway" => payment' = payment /\ payment[Order(r)] = "CONFIRMED"
      BY <1>0, <1>3, GoesSlot, DoneSlot, LoopsSlot, BeginSlot
         DEF Serve, Create, Accept, GetOrder, CheckItems, CreateReturnRequest,
             GetReturnRequestByID, IncrBy, UpdateProductStock, PublishMovement,
             UpdateReturnStatus, LoadPayment, InitiateRefund, Gateway, PublishPointsReversed, books
    <3> QED
      BY <2>1, <3>1
  <2> QED
    BY <2>4, <2>5 DEF Counted
<1>4. CASE IncrBy(r) \/ UpdateProductStock(r) \/ UpdateReturnStatus(r) \/ LoadPayment(r)
            \/ InitiateRefund(r) \/ Gateway(r) \/ PublishPointsReversed(r)
  <2>1. at[r] \notin {"idle", "fetch"} \union Creating
    BY <1>4 DEF IncrBy, UpdateProductStock, UpdateReturnStatus, LoadPayment, InitiateRefund,
                Gateway, PublishPointsReversed, Creating
  <2>2. at'[r] \in {"idle", "loyalty"}
        \/ (at'[r] \in {"stock", "movement", "load", "refund", "gateway"} /\ task'[r] = task[r])
    <3>1. CASE Done(r)
      BY <1>0, <3>1, DoneSlot
    <3>2. CASE Goes(r, "stock") \/ Goes(r, "movement") \/ Goes(r, "load") \/ Goes(r, "refund")
                 \/ Goes(r, "gateway") \/ Goes(r, "loyalty")
      BY <1>0, <3>2, GoesSlot
    <3> QED
      BY <1>4, <3>1, <3>2
         DEF IncrBy, UpdateProductStock, UpdateReturnStatus, LoadPayment, InitiateRefund,
             Gateway, PublishPointsReversed
  <2> QED
    BY <1>1, <1>3, <2>1, <2>2 DEF Creating
<1>5. CASE PublishMovement(r)
  <2> DEFINE k == First(task[r].left)
             left == task[r].left \ {k}
             amount == task[r].amount + PriceOf[Current(r)]
             items == task[r].items
  <2>1. /\ at[r] = "movement" /\ returns' = returns
        /\ at'[r] = (IF left = {} THEN "accept" ELSE "incr")
        /\ task'[r] = Task("none", items, task[r].ret, {}, left, amount)
    BY <1>0, <1>5, LoopsSlot DEF PublishMovement
  <2>2. /\ k \in task[r].left /\ items[k] = Current(r) /\ Current(r) \in Items
        /\ task[r].left \subseteq DOMAIN items /\ PriceOf[Current(r)] \in Nat
    BY <1>0, <2>1, CurrentItem DEF Restoring, Current, ReturnsTypeOK
  <2>a. /\ OrderOf[Current(r)] = Order(r) /\ Order(r) \in Orders
        /\ task[r].ret \in 1..Len(returns) /\ task[r].amount \in Nat
    BY <2>1, AtReturn DEF Restoring, Creating
  <2>b. items = returns[task[r].ret].items
    BY <1>0, <2>1 DEF AtWork, Restoring
  <2>3. IsInjective(items)
    BY <2>a, <2>b DEF OnceEach
  <2>4. Units(TakenOf(items, left, Order(r)))
          = Units(TakenOf(items, task[r].left, Order(r))) + PriceOf[Current(r)]
    <3>1. k \in task[r].left /\ items[k] \in Items /\ OrderOf[items[k]] = Order(r)
      BY <2>2, <2>a
    <3> HIDE DEF k, items
    <3>2. Units(TakenOf(items, task[r].left \ {k}, Order(r)))
            = Units(TakenOf(items, task[r].left, Order(r))) + PriceOf[items[k]]
      BY <2>2, <2>3, <2>a, <3>1, TakenStep
    <3> QED
      BY <2>2, <3>2
  <2>5. task[r].amount <= Units(TakenOf(items, task[r].left, Order(r)))
        /\ Units(TakenOf(items, task[r].left, Order(r))) \in Nat
    BY <2>1, TakenType DEF Counted, Taken, Restoring
  <2>6. amount <= Units(TakenOf(items, left, Order(r)))
    BY <2>2, <2>a, <2>4, <2>5
  <2> HIDE DEF left, amount, items
  <2>7. /\ task'[r].items = items /\ task'[r].left = left /\ task'[r].amount = amount
        /\ task'[r].ret = task[r].ret /\ at'[r] # "gateway"
    BY <2>1 DEF Task
  <2>8. Order(r)' = Order(r)
    BY <2>1, <2>7 DEF Order
  <2>9. Taken(r)' = TakenOf(items, left, Order(r))
    BY <2>7, <2>8 DEF Taken, TakenOf
  <2>10. Units(Taken(r))' = Units(TakenOf(items, left, Order(r)))
    BY <2>9 DEF Units
  <2> QED
    BY <2>6, <2>7, <2>10 DEF Counted
<1>6. CASE Create(r) \/ Accept(r) \/ GetOrder(r) \/ CheckItems(r) \/ CreateReturnRequest(r)
  <2>1. at'[r] \in {"idle", "fetch"} \union Creating
    BY <1>0, <1>6, BeginSlot, GoesSlot, DoneSlot
       DEF Create, Accept, GetOrder, CheckItems, CreateReturnRequest, Creating
  <2> QED
    BY <1>1, <2>1
<1> QED
  BY <1>2, <1>4, <1>5, <1>6 DEF Serve

(* A payment is refunded by the first request that comes to it. *)
LEMMA ServeUnpaid ==
  ASSUME BaseInv, Unpaid, PaidOnce, NEW r \in Slots, Counted(r), Serve(r)
  PROVE  Unpaid' /\ PaidOnce'
<1>0. ReturnsTypeOK
  BY DEF BaseInv
<1>1. CASE Gateway(r)
  <2>1. /\ at[r] = "gateway"
        /\ refunded' = [refunded EXCEPT ![Order(r)] = @ + Paise(task[r].amount)]
        /\ payment' = [payment EXCEPT ![Order(r)] = "REFUNDED"]
    BY <1>1 DEF Gateway
  <2>2. /\ Order(r) \in Orders /\ task[r].amount \in Nat
        /\ payment[Order(r)] = "CONFIRMED" /\ task[r].amount <= Units(Taken(r))
    BY <2>1, AtReturn DEF Counted, Refunding, Creating
  <2>3. refunded[Order(r)] = 0
    BY <2>2 DEF Unpaid
  <2>4. /\ Units(Taken(r)) <= Paid(Order(r)) /\ Units(Taken(r)) \in Nat /\ Paid(Order(r)) \in Nat
    BY TakenType DEF Taken
  <2>5. Paise(task[r].amount) \in Nat /\ Paise(task[r].amount) <= task[r].amount
    BY <2>2, PaiseTyped
  <2>6. /\ refunded'[Order(r)] <= Paid(Order(r)) /\ payment'[Order(r)] = "REFUNDED"
        /\ \A o \in Orders \ {Order(r)} : refunded'[o] = refunded[o] /\ payment'[o] = payment[o]
    BY <1>0, <2>1, <2>2, <2>3, <2>4, <2>5 DEF ReturnsTypeOK
  <2> QED
    BY <2>6 DEF Unpaid, PaidOnce
<1>2. CASE ~ Gateway(r)
  <2>1. UNCHANGED <<refunded, payment>>
    BY <1>2 DEF Serve, Create, Accept, Begin, GetOrder, CheckItems, CreateReturnRequest,
         GetReturnRequestByID, IncrBy, UpdateProductStock, PublishMovement, UpdateReturnStatus,
         LoadPayment, InitiateRefund, PublishPointsReversed, books
  <2> QED
    BY <2>1 DEF Unpaid, PaidOnce
<1> QED
  BY <1>1, <1>2

(* An idle request has added up nothing. *)
LEMMA IdleCounted ==
  ASSUME NEW r \in Slots, at'[r] = "idle" PROVE Counted(r)'
BY DEF Counted, Restoring, Refunding

(* Each step keeps the refund within the payment, *)
LEMMA NextPaid ==
  BaseInv /\ InTurn /\ PaidInv /\ [ReturnsNext]_returnsVars => PaidInv'
<1> SUFFICES ASSUME BaseInv, InTurn, PaidInv, [ReturnsNext]_returnsVars PROVE PaidInv'
  OBVIOUS
<1>0. ReturnsTypeOK
  BY DEF BaseInv
<1>1. ASSUME NEW r \in Slots, Serve(r) PROVE PaidInv'
  <2>1. allowed' = allowed
    BY <1>0, <1>1, Others
  <2> SUFFICES ASSUME InTurnOnce
               PROVE  OnceEach' /\ Unpaid' /\ PaidOnce' /\ \A q \in Slots : Counted(q)'
    BY <2>1 DEF PaidInv, InTurnOnce
  <2>2. OnceEach /\ Unpaid /\ PaidOnce /\ Counted(r) /\ "overlap" \notin allowed
    BY DEF PaidInv, InTurnOnce
  <2>3. OnceEach'
    BY <1>0, <1>1, <2>2, ServeOnceEach
  <2>4. Unpaid' /\ PaidOnce'
    BY <1>1, <2>2, ServeUnpaid
  <2>5. \A q \in Slots \ {r} : Counted(q)'
    BY <1>0, <1>1, <2>2, ServeInTurn, IdleCounted
  <2>6. Counted(r)'
    BY <1>1, <2>2, ServeCounted
  <2> QED
    BY <2>3, <2>4, <2>5, <2>6
<1>2. ASSUME Restart PROVE PaidInv'
  <2>1. /\ \A q \in Slots : at'[q] = "idle"
        /\ UNCHANGED <<allowed, returns, payment, refunded>>
    BY <1>2 DEF Restart, books
  <2>2. \A q \in Slots : Counted(q)'
    BY <2>1, IdleCounted
  <2> QED
    BY <2>1, <2>2 DEF PaidInv, InTurnOnce, OnceEach, Unpaid, PaidOnce, Creating
<1>3. ASSUME (\E o \in Orders : WindowEnds(o)) \/ UNCHANGED returnsVars PROVE PaidInv'
  <2>1. UNCHANGED <<allowed, returns, payment, refunded, at, task>>
    BY <1>0, <1>3, WindowTyped DEF books
  <2>2. \A q \in Slots : Taken(q)' = Taken(q) /\ Order(q)' = Order(q)
    BY <2>1 DEF Taken, TakenOf, Order
  <2>3. \A q \in Slots : Counted(q) => Counted(q)'
    BY <2>1, <2>2 DEF Counted, Units
  <2> QED
    BY <2>1, <2>3 DEF PaidInv, InTurnOnce, OnceEach, Unpaid, PaidOnce
<1> QED
  BY <1>1, <1>2, <1>3 DEF ReturnsNext

(* as it is at the start. *)
LEMMA InitPaid == ReturnsInit => PaidInv
<1> SUFFICES ASSUME ReturnsInit PROVE PaidInv
  OBVIOUS
<1>1. Len(returns) = 0 /\ \A r \in Slots : at[r] = "idle"
  BY DEF ReturnsInit
<1>2. ASSUME NEW o \in Orders PROVE refunded[o] = 0 /\ refunded[o] <= Paid(o)
  <2>1. Paid(o) \in Nat /\ refunded[o] = 0
    BY TakenType DEF ReturnsInit
  <2> QED
    BY <2>1
<1> QED
  BY <1>1, <1>2 DEF PaidInv, OnceEach, Unpaid, PaidOnce, Counted, Creating, Restoring, Refunding

(* No money without goods, whatever fails, and none beyond what was paid   *)
(* (AcceptReturn in return.go).  The invariant adds to what was paid back  *)
(* what requests at work may still ask for: both together never exceed the *)
(* worth of the goods that came back.                                      *)
THEOREM RefundInBounds == ReturnsSpec => []RefundIsInBounds
<1> DEFINE RInv == BaseInv /\ PendingInv /\ BackedInv /\ PaidInv
<1>1. ReturnsInit => RInv
  BY InitBase, InitPending, InitBacked, InitPaid
<1>2. RInv /\ [ReturnsNext]_returnsVars => RInv'
  BY NextBase, NextPending, NextBacked, NextPaid DEF BaseInv, PendingInv
<1>3. RInv => RefundIsInBounds
  BY BackedIs DEF RefundIsInBounds, RefundIsWithinPayment, PaidInv, InTurnOnce, PaidOnce
<1> HIDE DEF RInv
<1> QED
  BY <1>1, <1>2, <1>3, PTL DEF ReturnsSpec

-----------------------------------------------------------------------------
(* A refund that has a way to the payment service, where nothing fails and *)
(* one request follows the other: what the only return of an order has     *)
(* been paid, from its first step to its last.                             *)
Routed == "routed" \in allowed /\ allowed \subseteq {"routed", "again", "repeat", "late"}
Clean(o) == payment[o] = "CONFIRMED" /\ refunded[o] = 0 /\ reversed[o] = 0
Only(n) == \A m \in 1..Len(returns) : m # n => returns[m].order # returns[n].order
WorkedOn(n, labels) == \E r \in Slots : task[r].ret = n /\ at[r] \in labels
UnreturnedIsClean ==
  \A o \in Orders : (\A n \in 1..Len(returns) : returns[n].order # o) => Clean(o)
OnlyReturn(n) ==
  LET o == returns[n].order
  IN Only(n) =>
       /\ returns[n].status = Pending \/ WorkedOn(n, Refunding) => Clean(o)
       /\ \A r \in Slots : task[r].ret = n /\ at[r] = "loyalty" =>
            refunded[o] + 1 >= task[r].amount /\ reversed[o] = 0
       /\ returns[n].status = "ACCEPTED" /\ ~ WorkedOn(n, Labels \ {"fetch"}) =>
            refunded[o] + 1 >= reversed[o]
RestoresPending(r) ==
  at[r] \in Restoring \union {"accept"} => returns[task[r].ret].status = Pending
SettledInv ==
  Routed =>
    /\ UnreturnedIsClean
    /\ \A n \in 1..Len(returns) : OnlyReturn(n)
    /\ \A r \in Slots : RestoresPending(r)

(* The same, as the one request that is at work sees it. *)
SlotReturn(r, n) ==
  LET o == returns[n].order
  IN Only(n) =>
       /\ returns[n].status = Pending \/ (task[r].ret = n /\ at[r] \in Refunding) => Clean(o)
       /\ task[r].ret = n /\ at[r] = "loyalty" =>
            refunded[o] + 1 >= task[r].amount /\ reversed[o] = 0
       /\ returns[n].status = "ACCEPTED" /\ ~ (task[r].ret = n /\ at[r] \in Labels \ {"fetch"}) =>
            refunded[o] + 1 >= reversed[o]

(* In turn, what holds of all requests is what holds of the one at work. *)
LEMMA SeenBySlot ==
  ASSUME NEW r \in Slots
  PROVE  /\ (\A q \in Slots \ {r} : task[q].ret = 0) =>
              \A n \in 1..Len(returns) : OnlyReturn(n) <=> SlotReturn(r, n)
         /\ (\A q \in Slots \ {r} : task'[q].ret = 0) =>
              \A n \in 1..Len(returns') : OnlyReturn(n)' <=> SlotReturn(r, n)'
<1>1. ASSUME \A q \in Slots \ {r} : task[q].ret = 0, NEW n \in 1..Len(returns)
      PROVE  OnlyReturn(n) <=> SlotReturn(r, n)
  <2>1. \A labels : WorkedOn(n, labels) <=> (task[r].ret = n /\ at[r] \in labels)
    BY <1>1 DEF WorkedOn
  <2>2. \A q \in Slots : task[q].ret = n => q = r
    BY <1>1
  <2> QED
    BY <2>1, <2>2 DEF OnlyReturn, SlotReturn
<1>2. ASSUME \A q \in Slots \ {r} : task'[q].ret = 0, NEW n \in 1..Len(returns')
      PROVE  OnlyReturn(n)' <=> SlotReturn(r, n)'
  <2>1. \A labels : WorkedOn(n, labels)' <=> (task'[r].ret = n /\ at'[r] \in labels)
    BY <1>2 DEF WorkedOn
  <2>2. \A q \in Slots : task'[q].ret = n => q = r
    BY <1>2
  <2>3. WorkedOn(n, Refunding)' <=> (task'[r].ret = n /\ at'[r] \in Refunding)
    BY <2>1
  <2>4. WorkedOn(n, Labels \ {"fetch"})' <=> (task'[r].ret = n /\ at'[r] \in Labels \ {"fetch"})
    BY <2>1
  <2> QED
    BY <2>2, <2>3, <2>4 DEF OnlyReturn, SlotReturn
<1> QED
  BY <1>1, <1>2

(* What holds of the requests and returns when one request takes a step.   *)
LEMMA InScene ==
  ASSUME BaseInv, InTurn, SettledInv, Routed, NEW r \in Slots, Serve(r)
  PROVE  /\ ReturnsTypeOK /\ AtWork(r) /\ allowed' = allowed /\ RestoresPending(r)
         /\ \A q \in Slots \ {r} : at'[q] = "idle" /\ at[q] = "idle" /\ task[q].ret = 0
                                   /\ task'[q].ret = 0
         /\ \A n \in 1..Len(returns) : SlotReturn(r, n)
         /\ UnreturnedIsClean
         /\ ~ DBFails /\ ~ RedisFails /\ ~ KafkaFails /\ "http" \notin allowed
<1>1. ReturnsTypeOK /\ AtWork(r) /\ "overlap" \notin allowed
  BY DEF BaseInv, Routed
<1>2. allowed' = allowed /\ \A q \in Slots \ {r} : at'[q] = at[q] /\ task'[q] = task[q]
  BY <1>1, Others
<1>3. \A q \in Slots \ {r} : at'[q] = "idle" /\ at[q] = "idle"
  BY <1>1, ServeInTurn
<1>4. \A q \in Slots \ {r} : task[q].ret = 0 /\ task'[q].ret = 0
  BY <1>2, <1>3 DEF BaseInv, AtWork
<1>5. \A n \in 1..Len(returns) : SlotReturn(r, n)
  BY <1>4, SeenBySlot DEF SettledInv
<1>6. ~ DBFails /\ ~ RedisFails /\ ~ KafkaFails /\ "http" \notin allowed
  BY DEF Routed, DBFails, RedisFails, KafkaFails
<1> QED
  BY <1>1, <1>2, <1>3, <1>4, <1>5, <1>6 DEF SettledInv

(* The invariant follows from its parts at the request at work. *)
LEMMA SettledParts ==
  ASSUME BaseInv, InTurn, SettledInv, Routed, NEW r \in Slots, Serve(r),
         UnreturnedIsClean', \A n \in 1..Len(returns') : SlotReturn(r, n)', RestoresPending(r)'
  PROVE  SettledInv'
<1>1. \A q \in Slots \ {r} : at'[q] = "idle" /\ task'[q].ret = 0
  BY InScene
<1>2. \A n \in 1..Len(returns') : OnlyReturn(n)'
  BY <1>1, SeenBySlot
<1>3. \A q \in Slots \ {r} : RestoresPending(q)'
  BY <1>1 DEF RestoresPending, Restoring
<1> QED
  BY <1>2, <1>3 DEF SettledInv

(* Steps that touch neither a return nor the money. *)
LEMMA SettledQuiet ==
  ASSUME BaseInv, InTurn, SettledInv, Routed, NEW r \in Slots, Serve(r),
         UNCHANGED <<returns, payment, refunded, reversed>>, at'[r] # "loyalty",
         at'[r] \in Refunding => at[r] \in Refunding /\ task'[r].ret = task[r].ret,
         \/ task[r].ret = 0 \/ at[r] = "fetch"
         \/ returns[task[r].ret].status = Pending
         \/ at'[r] \in Labels \ {"fetch"} /\ task'[r].ret = task[r].ret,
         RestoresPending(r)'
  PROVE  SettledInv'
<1>1. UnreturnedIsClean'
  BY InScene DEF UnreturnedIsClean, Clean
<1>2. ASSUME NEW n \in 1..Len(returns) PROVE SlotReturn(r, n)'
  <2>1. SlotReturn(r, n)
    BY InScene
  <2>2. Only(n)' <=> Only(n)
    BY DEF Only
  <2> QED
    BY <2>1, <2>2 DEF SlotReturn, Clean, Pending
<1> QED
  BY <1>1, <1>2, SettledParts

(* A return is inserted: nothing has been done for it. *)
LEMMA SettledInserts ==
  ASSUME BaseInv, InTurn, SettledInv, Routed, NEW r \in Slots, Serve(r), Inserts(r)
  PROVE  SettledInv'
<1>n. PICK N : N = Len(returns) + 1
  OBVIOUS
<1>o. PICK o : o = task[r].order
  OBVIOUS
<1>0. /\ Len(returns) \in Nat /\ at'[r] = "idle" /\ task'[r].ret = 0 /\ task[r].ret = 0
      /\ task[r].order \in Orders
  <2>1. ReturnsTypeOK /\ AtWork(r)
    BY InScene
  <2> QED
    BY <2>1, DomainOfReturns, DoneSlot DEF Inserts, AtWork, Creating, NoTask, Task, ReturnsTypeOK
<1>1. /\ Len(returns') = N /\ returns'[N].order = task[r].order
      /\ returns'[N].status = Pending
      /\ \A n \in 1..Len(returns) : returns'[n] = returns[n]
      /\ UNCHANGED <<payment, refunded, reversed>>
  BY <1>n DEF Inserts, books
<1>2. \A n \in 1..Len(returns') : n \in 1..Len(returns) \/ n = N
  BY <1>0, <1>1, <1>n
<1>3. N \in 1..Len(returns') /\ \A n \in 1..Len(returns) : n \in 1..Len(returns') /\ n # N
  BY <1>0, <1>1, <1>n
<1>4. UnreturnedIsClean /\ UnreturnedIsClean'
  BY <1>1, <1>3, InScene DEF UnreturnedIsClean, Clean
<1>5. ASSUME NEW n \in 1..Len(returns) PROVE SlotReturn(r, n)'
  <2>1. SlotReturn(r, n) /\ returns'[n] = returns[n]
    BY <1>1, InScene
  <2>2. Only(n)' => Only(n)
    BY <1>1, <1>3 DEF Only
  <2> QED
    BY <1>0, <1>1, <2>1, <2>2 DEF SlotReturn, Clean
<1>6. SlotReturn(r, N)'
  <2>0. N # 0 /\ returns'[N].order = o
    BY <1>0, <1>1, <1>n, <1>o
  <2> SUFFICES ASSUME Only(N)' PROVE Clean(o)'
    BY <1>0, <1>1, <2>0 DEF SlotReturn, Pending
  <2>1. \A n \in 1..Len(returns) : returns[n].order # o
    BY <1>1, <1>3, <2>0 DEF Only
  <2>2. Clean(o)
    BY <1>0, <1>4, <1>o, <2>1 DEF UnreturnedIsClean
  <2> QED
    BY <1>1, <2>2 DEF Clean
<1>7. \A n \in 1..Len(returns') : SlotReturn(r, n)'
  BY <1>2, <1>5, <1>6
<1>8. RestoresPending(r)'
  BY <1>0 DEF RestoresPending, Restoring
<1> QED
  BY <1>4, <1>7, <1>8, SettledParts

(* A return is written as accepted: its request stands before the refund. *)
LEMMA SettledAccepts ==
  ASSUME BaseInv, InTurn, SettledInv, Routed, NEW r \in Slots, Serve(r), Accepts(r)
  PROVE  SettledInv'
<1>0. /\ ReturnsTypeOK /\ RowsGrow /\ at[r] = "accept" /\ at'[r] = "load" /\ task'[r] = task[r]
      /\ returns[task[r].ret].status = Pending
  <2>1. ReturnsTypeOK /\ RestoresPending(r)
    BY InScene
  <2> QED
    BY <2>1, ServeTyped, GoesSlot DEF Accepts, RestoresPending
<1>1. /\ Len(returns') = Len(returns) /\ task[r].ret \in 1..Len(returns)
      /\ \A n \in 1..Len(returns) : n # task[r].ret => returns'[n] = returns[n]
      /\ \A n \in 1..Len(returns) : returns'[n].order = returns[n].order
      /\ UNCHANGED <<payment, refunded, reversed>>
  BY <1>0 DEF Accepts, books, RowsGrow
<1>2. UnreturnedIsClean'
  BY <1>1, InScene DEF UnreturnedIsClean, Clean
<1>3. ASSUME NEW n \in 1..Len(returns') PROVE SlotReturn(r, n)'
  <2>1. SlotReturn(r, n)
    BY <1>1, InScene
  <2>2. Only(n)' <=> Only(n)
    BY <1>1 DEF Only
  <2>3. CASE n = task[r].ret
    <3>1. Only(n) => Clean(returns[n].order)
      BY <1>0, <2>1, <2>3 DEF SlotReturn
    <3> QED
      BY <1>0, <1>1, <2>2, <2>3, <3>1 DEF SlotReturn, Clean, Labels
  <2>4. CASE n # task[r].ret
    BY <1>0, <1>1, <2>1, <2>2, <2>4 DEF SlotReturn, Clean
  <2> QED
    BY <2>3, <2>4
<1>4. RestoresPending(r)'
  BY <1>0 DEF RestoresPending, Restoring
<1> QED
  BY <1>2, <1>3, <1>4, SettledParts

(* The steps of the refund touch the books of the order of one return. *)
LEMMA SettledMoney ==
  ASSUME BaseInv, InTurn, SettledInv, Routed, NEW r \in Slots, Serve(r),
         UNCHANGED returns, at[r] \in Refunding \union {"loyalty"}, NEW done, done = task[r].ret,
         \A o \in Orders \ {Order(r)} :
           payment'[o] = payment[o] /\ refunded'[o] = refunded[o] /\ reversed'[o] = reversed[o],
         at'[r] \in {"idle", "loyalty"}, task'[r].ret \in {0, task[r].ret},
         SlotReturn(r, done)'
  PROVE  SettledInv'
<1>1. /\ task[r].ret \in 1..Len(returns) /\ Order(r) \in Orders /\ ReturnsTypeOK
      /\ DOMAIN returns = 1..Len(returns)
  BY AtReturn, DomainOfReturns DEF Refunding, Creating, BaseInv
<1>2. UnreturnedIsClean'
  BY <1>1, InScene DEF UnreturnedIsClean, Clean, Order
<1>3. ASSUME NEW n \in 1..Len(returns), n # task[r].ret PROVE SlotReturn(r, n)'
  <2>1. SlotReturn(r, n)
    BY InScene
  <2>2. Only(n)' <=> Only(n)
    BY DEF Only
  <2>3. Only(n) => returns[n].order # Order(r)
    BY <1>1, <1>3 DEF Only, Order
  <2>4. returns[n].order \in Orders
    BY <1>1, ItemsOfReturns DEF Return
  <2> QED
    BY <1>3, <2>1, <2>2, <2>3, <2>4, <1>1 DEF SlotReturn, Clean, Refunding
<1>4. RestoresPending(r)'
  BY DEF RestoresPending, Restoring
<1> QED
  BY <1>2, <1>3, <1>4, SettledParts

(* The refund is refused or paid, and the points are taken. *)
LEMMA RefundSettled ==
  ASSUME BaseInv, InTurn, SettledInv, Routed, NEW r \in Slots, Serve(r),
         \/ InitiateRefund(r) /\ at'[r] = "loyalty"
         \/ Gateway(r)
         \/ PublishPointsReversed(r)
  PROVE  SettledInv'
<1>0. /\ ReturnsTypeOK /\ AtWork(r) /\ ~ KafkaFails /\ "http" \notin allowed /\ "routed" \in allowed
      /\ \A n \in 1..Len(returns) : SlotReturn(r, n)
  BY InScene DEF Routed
<1>1. at[r] \in Refunding \union {"loyalty"} /\ UNCHANGED returns
  BY DEF InitiateRefund, Gateway, PublishPointsReversed, Refunding
<1>2. /\ task[r].ret \in 1..Len(returns) /\ Order(r) \in Orders /\ task[r].amount \in Nat
      /\ task[r].ret # 0 /\ returns[task[r].ret].status = "ACCEPTED"
  BY <1>0, <1>1, AtReturn DEF Refunding, Creating, AtWork
<1>n. PICK n : n = task[r].ret
  OBVIOUS
<1>o. PICK o : o = Order(r)
  OBVIOUS
<1>3. /\ SlotReturn(r, n) /\ returns[n].order = o /\ returns[n].order \in Orders
      /\ (Only(n)' <=> Only(n)) /\ returns'[n] = returns[n]
  BY <1>0, <1>1, <1>2, <1>n, <1>o DEF Order, Only
<1>4. payment \in [Orders -> {"CONFIRMED", "REFUNDED"}]
      /\ refunded \in [Orders -> Nat] /\ reversed \in [Orders -> Nat]
  BY <1>0 DEF ReturnsTypeOK
<1>5. CASE InitiateRefund(r) /\ at'[r] = "loyalty"
  <2>1. /\ task'[r] = task[r] /\ at[r] = "refund" /\ UNCHANGED <<payment, refunded, reversed>>
        /\ payment[o] # "CONFIRMED"
    BY <1>o, <1>0, <1>5, GoesSlot DEF InitiateRefund, books
  <2>2. ~ Only(n)
    BY <1>n, <1>3, <2>1 DEF SlotReturn, Clean, Refunding
  <2>3. SlotReturn(r, n)'
    BY <1>3, <2>2 DEF SlotReturn
  <2> QED
    BY <1>1, <1>5, <2>1, <2>3, <1>n, <1>o, SettledMoney
<1>6. CASE Gateway(r)
  <2>1. /\ at[r] = "gateway" /\ at'[r] = "loyalty" /\ task'[r] = task[r]
        /\ payment' = [payment EXCEPT ![o] = "REFUNDED"]
        /\ refunded' = [refunded EXCEPT ![o] = @ + Paise(task[r].amount)]
        /\ UNCHANGED reversed
    BY <1>o, <1>0, <1>6, GoesSlot DEF Gateway
  <2>2. Paise(task[r].amount) \in Nat /\ Paise(task[r].amount) + 1 >= task[r].amount
    BY <1>2, PaiseTyped
  <2>3. Only(n) => refunded[o] = 0 /\ reversed[o] = 0
    BY <1>n, <1>3, <2>1 DEF SlotReturn, Clean, Refunding
  <2>4. Only(n) => refunded'[o] + 1 >= task'[r].amount /\ reversed'[o] = 0
    BY <1>3, <1>4, <2>1, <2>2, <2>3
  <2>5. SlotReturn(r, n)'
    BY <1>n, <1>2, <1>3, <2>1, <2>4 DEF SlotReturn, Refunding, Labels, Pending
  <2>6. \A p \in Orders \ {o} :
          payment'[p] = payment[p] /\ refunded'[p] = refunded[p] /\ reversed'[p] = reversed[p]
    BY <1>4, <2>1
  <2> QED
    BY <1>1, <2>1, <2>5, <2>6, <1>n, <1>o, SettledMoney
<1>7. CASE PublishPointsReversed(r)
  <2>1. /\ at[r] = "loyalty" /\ Done(r) /\ UNCHANGED <<payment, refunded>>
        /\ reversed' = [reversed EXCEPT ![o] = @ + task[r].amount]
    BY <1>o, <1>0, <1>7 DEF PublishPointsReversed
  <2>2. at'[r] = "idle" /\ task'[r].ret = 0
    BY <1>0, <2>1, DoneSlot DEF NoTask, Task
  <2>3. Only(n) => refunded[o] + 1 >= task[r].amount /\ reversed[o] = 0
    BY <1>n, <1>3, <2>1 DEF SlotReturn
  <2>4. Only(n) => refunded'[o] + 1 >= reversed'[o]
    BY <1>2, <1>3, <1>4, <2>1, <2>3
  <2>5. SlotReturn(r, n)'
    BY <1>n, <1>2, <1>3, <2>2, <2>4 DEF SlotReturn, Refunding, Pending
  <2>6. \A p \in Orders \ {o} :
          payment'[p] = payment[p] /\ refunded'[p] = refunded[p] /\ reversed'[p] = reversed[p]
    BY <1>4, <2>1
  <2> QED
    BY <1>1, <2>2, <2>5, <2>6, <1>n, <1>o, SettledMoney
<1> QED
  BY <1>5, <1>6, <1>7

(* A step of a request keeps accepted returns settled or at work, *)
LEMMA ServeSettled ==
  ASSUME BaseInv, InTurn, SettledInv, Routed, NEW r \in Slots, Serve(r)
  PROVE  SettledInv'
<1>0. ReturnsTypeOK /\ AtWork(r) /\ ~ DBFails /\ RestoresPending(r) /\ "http" \notin allowed
  BY InScene
<1>1. CASE Inserts(r)
  BY <1>1, SettledInserts
<1>2. CASE Accepts(r)
  BY <1>2, SettledAccepts
<1>3. CASE Create(r) \/ Accept(r) \/ GetOrder(r) \/ CheckItems(r)
  <2>1. at[r] \in {"idle"} \union Creating /\ UNCHANGED <<returns, payment, refunded, reversed>>
    BY <1>3 DEF Create, Accept, Begin, GetOrder, CheckItems, Creating, books
  <2>2. at'[r] \in {"idle", "fetch"} \union Creating /\ task[r].ret = 0
    BY <1>0, <1>3, <2>1, BeginSlot, GoesSlot, DoneSlot
       DEF Create, Accept, GetOrder, CheckItems, Creating, AtWork
  <2> QED
    BY <2>1, <2>2, SettledQuiet DEF Creating, Refunding, Restoring, RestoresPending
<1>4. CASE GetReturnRequestByID(r)
  <2>1. at[r] = "fetch" /\ UNCHANGED <<returns, payment, refunded, reversed>>
    BY <1>4 DEF GetReturnRequestByID, books
  <2>2. \/ at'[r] = "idle"
        \/ /\ returns[task[r].ret].status = Pending
           /\ at'[r] \in {"accept", "incr"} /\ task'[r].ret = task[r].ret
    <3> DEFINE items == returns[task[r].ret].items
               left == Chosen(items, task[r].verified)
    <3>1. \/ at'[r] = "idle"
          \/ /\ returns[task[r].ret].status = Pending
             /\ at'[r] = (IF left = {} THEN "accept" ELSE "incr")
             /\ task'[r] = Task("none", items, task[r].ret, {}, left, 0)
      BY <1>0, <1>4, LoopsSlot, DoneSlot DEF GetReturnRequestByID
    <3> HIDE DEF left, items
    <3> QED
      BY <3>1 DEF Task
  <2> QED
    BY <2>1, <2>2, SettledQuiet DEF Refunding, Restoring, RestoresPending
<1>5. CASE IncrBy(r) \/ UpdateProductStock(r)
  <2>1. at[r] \in Restoring /\ UNCHANGED <<returns, payment, refunded, reversed>>
    BY <1>5 DEF IncrBy, UpdateProductStock, Restoring
  <2>2. at'[r] \in {"stock", "movement"} /\ task'[r] = task[r]
    BY <1>0, <1>5, GoesSlot DEF IncrBy, UpdateProductStock
  <2>3. returns[task[r].ret].status = Pending
    BY <1>0, <2>1 DEF RestoresPending
  <2> QED
    BY <2>1, <2>2, <2>3, SettledQuiet DEF Refunding, RestoresPending
<1>6. CASE PublishMovement(r)
  <2>1. at[r] = "movement" /\ UNCHANGED <<returns, payment, refunded, reversed>>
    BY <1>6 DEF PublishMovement
  <2>2. at'[r] \in {"accept", "incr"} /\ task'[r].ret = task[r].ret
    <3> DEFINE left == task[r].left \ {First(task[r].left)}
               amount == task[r].amount + PriceOf[Current(r)]
    <3>1. /\ at'[r] = (IF left = {} THEN "accept" ELSE "incr")
          /\ task'[r] = Task("none", task[r].items, task[r].ret, {}, left, amount)
      BY <1>0, <1>6, LoopsSlot DEF PublishMovement
    <3> HIDE DEF left, amount
    <3> QED
      BY <3>1 DEF Task
  <2>3. returns[task[r].ret].status = Pending
    BY <1>0, <2>1 DEF RestoresPending, Restoring
  <2> QED
    BY <2>1, <2>2, <2>3, SettledQuiet DEF Refunding, RestoresPending
<1>7. CASE LoadPayment(r) \/ (InitiateRefund(r) /\ at'[r] # "loyalty")
  <2>1. at[r] \in {"load", "refund"} /\ UNCHANGED <<returns, payment, refunded, reversed>>
    BY <1>7 DEF LoadPayment, InitiateRefund, books
  <2>2. at'[r] \in {"refund", "gateway"} /\ task'[r] = task[r]
    BY <1>0, <1>7, GoesSlot DEF LoadPayment, InitiateRefund
  <2> QED
    BY <2>1, <2>2, SettledQuiet DEF Refunding, Restoring, RestoresPending, Labels
<1>8. CASE \/ InitiateRefund(r) /\ at'[r] = "loyalty"
           \/ Gateway(r)
           \/ PublishPointsReversed(r)
  BY <1>8, RefundSettled
<1>9. CASE CreateReturnRequest(r) \/ UpdateReturnStatus(r)
  <2>1. Inserts(r) \/ Accepts(r)
    BY <1>0, <1>9, RowsChange
  <2> QED
    BY <1>1, <1>2, <2>1
<1> QED
  BY <1>3, <1>4, <1>5, <1>6, <1>7, <1>8, <1>9 DEF Serve

(* and so does each step of the specification. *)
LEMMA NextSettled ==
  BaseInv /\ InTurn /\ SettledInv /\ [ReturnsNext]_returnsVars => SettledInv'
<1> SUFFICES ASSUME BaseInv, InTurn, SettledInv, [ReturnsNext]_returnsVars PROVE SettledInv'
  OBVIOUS
<1>0. ReturnsTypeOK
  BY DEF BaseInv
<1>1. ASSUME NEW r \in Slots, Serve(r) PROVE SettledInv'
  <2>1. allowed' = allowed
    BY <1>0, <1>1, Others
  <2>2. CASE Routed
    BY <1>1, <2>2, ServeSettled
  <2>3. CASE ~ Routed
    BY <2>1, <2>3 DEF SettledInv, Routed
  <2> QED
    BY <2>2, <2>3
<1>2. ASSUME Restart PROVE SettledInv'
  BY <1>2 DEF Restart, SettledInv, Routed
<1>3. ASSUME (\E o \in Orders : WindowEnds(o)) \/ UNCHANGED returnsVars PROVE SettledInv'
  <2>1. UNCHANGED <<allowed, returns, payment, refunded, reversed, at, task>>
    BY <1>0, <1>3, WindowTyped DEF books
  <2>2. \A n : OnlyReturn(n) => OnlyReturn(n)'
    BY <2>1 DEF OnlyReturn, Only, WorkedOn, Clean
  <2> QED
    BY <2>1, <2>2 DEF SettledInv, Routed, UnreturnedIsClean, Clean, RestoresPending
<1> QED
  BY <1>1, <1>2, <1>3 DEF ReturnsNext

(* At the start there is nothing to settle. *)
LEMMA InitSettled == ReturnsInit => SettledInv
<1> SUFFICES ASSUME ReturnsInit PROVE SettledInv
  OBVIOUS
<1>1. Len(returns) = 0 /\ \A o \in Orders : Clean(o)
  BY DEF ReturnsInit, Clean
<1> QED
  BY <1>1 DEF ReturnsInit, SettledInv, UnreturnedIsClean, RestoresPending, Restoring

(* A return that is settled or at work, and not at work, is settled. *)
LEMMA SettledIs == ASSUME BaseInv, BackedInv, SettledInv PROVE AcceptedIsSettled
<1> SUFFICES ASSUME allowed \subseteq {"routed", "again", "repeat", "late"},
                    NEW n \in DOMAIN returns, returns[n].status = "ACCEPTED", ~ Works(n)
             PROVE  LET o == returns[n].order
                    IN /\ (\A m \in DOMAIN returns : ~ Works(m)) => reversed[o] = Worth(o)
                       /\ ("routed" \in allowed
                             /\ \A m \in DOMAIN returns \ {n} : returns[m].order # o) =>
                            refunded[o] + 1 >= reversed[o]
  BY DEF AcceptedIsSettled
<1>0. ReturnsTypeOK /\ DOMAIN returns = 1..Len(returns) /\ Len(returns) \in Nat
  BY DomainOfReturns DEF BaseInv
<1>1. PICK o : o = returns[n].order /\ o \in Orders
  BY <1>0, ItemsOfReturns DEF Return
<1>2. ASSUME \A m \in DOMAIN returns : ~ Works(m) PROVE reversed[o] = Worth(o)
  <2>1. ASSUME NEW r \in Slots PROVE task[r].ret = 0
    <3>1. task[r].ret \in 0..Len(returns)
      BY <1>0 DEF ReturnsTypeOK
    <3>2. task[r].ret \notin DOMAIN returns
      BY <1>2 DEF Works
    <3> QED
      BY <1>0, <3>1, <3>2
  <2>2. Units(ToTake(o)) = 0
    BY <2>1, NothingClaimed
  <2>3. NothingLost
    BY DEF NothingLost
  <2>4. reversed[o] \in Nat
    BY <1>0, <1>1 DEF ReturnsTypeOK
  <2> QED
    BY <1>1, <2>2, <2>3, <2>4 DEF BackedInv, Backed
<1>3. ASSUME "routed" \in allowed, \A m \in DOMAIN returns \ {n} : returns[m].order # o
      PROVE  refunded[o] + 1 >= reversed[o]
  <2>1. Routed /\ Only(n) /\ n \in 1..Len(returns)
    BY <1>0, <1>1, <1>3 DEF Routed, Only
  <2>2. \A labels : ~ WorkedOn(n, labels)
    BY DEF WorkedOn, Works
  <2>3. ~ WorkedOn(n, Labels \ {"fetch"})
    BY <2>2
  <2>4. OnlyReturn(n)
    BY <2>1 DEF SettledInv
  <2> QED
    BY <1>1, <2>1, <2>3, <2>4 DEF OnlyReturn
<1> QED
  BY <1>1, <1>2, <1>3

(* An accepted return that is worked off has taken the points of what came *)
(* back, and, with a way for the refund, paid it back but for one paisa    *)
(* (AcceptReturn in return.go).                                            *)
THEOREM AcceptedSettled == ReturnsSpec => []AcceptedIsSettled
<1> DEFINE RInv == BaseInv /\ PendingInv /\ BackedInv /\ SettledInv
<1>1. ReturnsInit => RInv
  BY InitBase, InitPending, InitBacked, InitSettled
<1>2. RInv /\ [ReturnsNext]_returnsVars => RInv'
  BY NextBase, NextPending, NextBacked, NextSettled DEF BaseInv, PendingInv
<1>3. RInv => AcceptedIsSettled
  BY SettledIs
<1> HIDE DEF RInv
<1> QED
  BY <1>1, <1>2, <1>3, PTL DEF ReturnsSpec
=============================================================================
