------------------------- MODULE PaymentOutboxProofs -------------------------
(***************************************************************************)
(* Initiating a payment keeps the promise of an idempotency key, for any   *)
(* number of requests and keys and under every modelled failure: the       *)
(* UNIQUE column does the work, one payment per key, forever.  The relay   *)
(* loses no row, for any number of rows and replicas and any batch limit,  *)
(* and where there is one replica it sends no row again once the row is    *)
(* marked.  Put together they keep their promises to each other.  Last the *)
(* breaker that initiation asks for a gateway, for any number of calls.    *)
(***************************************************************************)
EXTENDS PaymentOutbox, GatewayRouter, WellFoundedInduction, TLAPS

-----------------------------------------------------------------------------
Unique == \A p, q \in payments : KeyOf[p] = KeyOf[q] => p = q

(* A request about to insert has its order, an unfinished one no answer,   *)
(* and every answer other than an error is the payment with the key.       *)
Settled(r) ==
  /\ pc[r] = "insert" => r \in orders
  /\ pc[r] # "done" => answer[r] = None
  /\ answer[r] \in Requests => answer[r] \in payments /\ KeyOf[answer[r]] = KeyOf[r]

IInv ==
  /\ TypeOK
  /\ payments \subseteq orders
  /\ Unique
  /\ \A r \in Requests : Settled(r)

LEMMA InitIInv == Init => IInv
  BY InitiationAssumption DEF Init, IInv, TypeOK, Unique, Settled

LEMMA NextIInv == IInv /\ [Next]_vars => IInv'
<1> SUFFICES ASSUME IInv, [Next]_vars PROVE IInv' OBVIOUS
<1> USE InitiationAssumption DEF IInv, TypeOK, Unique, Settled, Goto, Reply
<1>1. ASSUME NEW r \in Requests, Receive(r) PROVE IInv'
  BY <1>1 DEF Receive
<1>2. ASSUME NEW r \in Requests, CheckIdempotency(r) PROVE IInv'
  BY <1>2 DEF CheckIdempotency, WithKey
<1>3. ASSUME NEW r \in Requests, CheckError(r) PROVE IInv'
  BY <1>3 DEF CheckError
<1>4. ASSUME NEW r \in Requests, CreateGatewayOrder(r) PROVE IInv'
  BY <1>4 DEF CreateGatewayOrder
<1>5. ASSUME NEW r \in Requests, GatewayError(r) PROVE IInv'
  BY <1>5 DEF GatewayError
<1>6. ASSUME NEW r \in Requests, Insert(r) PROVE IInv'
  BY <1>6 DEF Insert, Free, WithKey
<1>7. ASSUME NEW r \in Requests, InsertError(r) PROVE IInv'
  BY <1>7 DEF InsertError, Free, WithKey
<1>8. ASSUME NEW r \in Requests, Crash(r) PROVE IInv'
  BY <1>8 DEF Crash
<1>9. CASE UNCHANGED vars
  BY <1>9 DEF vars
<1> QED
  BY <1>1, <1>2, <1>3, <1>4, <1>5, <1>6, <1>7, <1>8, <1>9 DEF Next

LEMMA SpecIInv == Spec => []IInv
  BY InitIInv, NextIInv, PTL DEF Spec

(* The state keeps its shape. *)
THEOREM TypeCorrect == Spec => []TypeOK
<1>1. IInv => TypeOK
  BY DEF IInv
<1> QED
  BY SpecIInv, <1>1, PTL

(* Whoever repeats a request, however often and at whatever moment, is     *)
(* given the one payment with the key, and it has its gateway order.       *)
THEOREM OnePayment == Spec => []OnePaymentPerKey
<1>1. IInv => OnePaymentPerKey
  <2> SUFFICES ASSUME IInv PROVE OnePaymentPerKey OBVIOUS
  <2>1. \A r \in Requests : answer[r] \in Requests =>
          answer[r] \in payments /\ answer[r] \in orders /\ KeyOf[answer[r]] = KeyOf[r]
    BY DEF IInv, Settled
  <2>2. ASSUME NEW q \in Requests, NEW r \in Requests, KeyOf[q] = KeyOf[r],
               answer[q] \in Requests, answer[r] \in Requests
        PROVE  answer[q] = answer[r]
    BY <2>1, <2>2 DEF IInv, Unique
  <2> QED
    BY <2>1, <2>2 DEF OnePaymentPerKey
<1> QED
  BY SpecIInv, <1>1, PTL

-----------------------------------------------------------------------------
(* The binding of a key is the payment with the key. *)
LEMMA BoundIs ==
  ASSUME Unique, TypeOK, NEW p \in payments
  PROVE  Bound[KeyOf[p]] = p
<1>1. KeyOf[p] \in Keys
  BY InitiationAssumption DEF TypeOK
<1>2. p \in WithKey(KeyOf[p])
  BY DEF WithKey
<1>3. Bound[KeyOf[p]] = CHOOSE q \in payments : KeyOf[q] = KeyOf[p]
  BY <1>1, <1>2 DEF Bound
<1>4. \A q \in payments : KeyOf[q] = KeyOf[p] => q = p
  BY DEF Unique
<1> QED
  BY <1>3, <1>4

LEMMA BoundNone ==
  ASSUME NEW k \in Keys, Free(k)
  PROVE  Bound[k] = None
  BY DEF Free, Bound

(* A committed payment binds its key and no other. *)
LEMMA InsertBinds ==
  ASSUME IInv, NEW r \in Requests, Free(KeyOf[r]), payments' = payments \union {r}
  PROVE  Bound[KeyOf[r]] = None /\ Bound' = [Bound EXCEPT ![KeyOf[r]] = r]
<1>1. KeyOf[r] \in Keys
  BY InitiationAssumption
<1>2. Bound[KeyOf[r]] = None
  BY <1>1, BoundNone
<1>3. \A k \in Keys : WithKey(k)' = IF k = KeyOf[r] THEN {r} ELSE WithKey(k)
  BY DEF WithKey, Free
<1>4. ASSUME NEW k \in Keys PROVE Bound'[k] = [Bound EXCEPT ![KeyOf[r]] = r][k]
  <2>1. CASE k = KeyOf[r]
    <3>1. Bound'[k] = CHOOSE p \in payments' : KeyOf[p] = k
      BY <1>3, <2>1 DEF Bound
    <3>2. \A p \in payments' : KeyOf[p] = k => p = r
      BY <2>1 DEF Free, WithKey
    <3>3. Bound'[k] = r
      BY <2>1, <3>1, <3>2
    <3> QED
      BY <2>1, <3>3 DEF Bound
  <2>2. CASE k # KeyOf[r] /\ WithKey(k) = {}
    BY <1>3, <2>2 DEF Bound
  <2>3. CASE k # KeyOf[r] /\ WithKey(k) # {}
    <3>1. PICK p \in payments : KeyOf[p] = k
      BY <2>3 DEF WithKey
    <3>2. \A q \in payments' : KeyOf[q] = k => q = p
      BY <2>3, <3>1 DEF IInv, Unique
    <3>3. Bound'[k] = p
      BY <1>3, <2>3, <3>1, <3>2 DEF Bound
    <3>4. Bound[k] = p
      BY <3>1, BoundIs DEF IInv
    <3> QED
      BY <2>3, <3>3, <3>4 DEF Bound
  <2> QED
    BY <2>1, <2>2, <2>3
<1> QED
  BY <1>2, <1>4 DEF Bound

(* The service implements the abstract idempotency key: a commit binds the *)
(* key, a reply answers with what is bound, everything else is unseen.     *)
THEOREM Refinement == Spec => ImplementsIdempotencyKey
<1> DEFINE AbstractVars == <<Bound, answer>>
<1>1. Init => Promise!Init
  BY DEF Init, Promise!Init, Bound, WithKey
<1>2. IInv /\ [Next]_vars => [Promise!Next]_AbstractVars
  <2> SUFFICES ASSUME IInv, [Next]_vars PROVE [Promise!Next]_AbstractVars OBVIOUS
  <2>0. payments' = payments => Bound' = Bound
    BY DEF Bound, WithKey
  <2>a. ASSUME NEW r \in Requests, pc[r] # "done" PROVE answer[r] = None
    BY <2>a DEF IInv, Settled
  <2>1. ASSUME NEW r \in Requests,
               Receive(r) \/ CreateGatewayOrder(r) \/ Crash(r)
        PROVE  UNCHANGED AbstractVars
    BY <2>0, <2>1 DEF Receive, CreateGatewayOrder, Crash, Goto
  <2>2. ASSUME NEW r \in Requests, CheckIdempotency(r)
        PROVE  [Promise!Next]_AbstractVars
    <3>1. CASE WithKey(KeyOf[r]) = {}
      BY <2>0, <2>2, <3>1 DEF CheckIdempotency, Goto
    <3>2. CASE WithKey(KeyOf[r]) # {}
      <4>1. PICK p \in WithKey(KeyOf[r]) : Reply(r, p)
        BY <2>2, <3>2 DEF CheckIdempotency
      <4>2. Bound[KeyOf[r]] = p
        BY <4>1, BoundIs DEF WithKey, IInv
      <4>3. Promise!Answer(r)
        BY <2>0, <2>2, <2>a, <4>1, <4>2 DEF CheckIdempotency, Reply, Promise!Answer
      <4> QED
        BY <4>3 DEF Promise!Next
    <3> QED
      BY <3>1, <3>2
  <2>3. ASSUME NEW r \in Requests, CheckError(r) \/ GatewayError(r)
        PROVE  [Promise!Next]_AbstractVars
    <3>1. Promise!Refuse(r)
      BY <2>0, <2>3, <2>a DEF CheckError, GatewayError, Reply, Promise!Refuse
    <3> QED
      BY <3>1 DEF Promise!Next
  <2>4. ASSUME NEW r \in Requests, Insert(r) \/ InsertError(r)
        PROVE  [Promise!Next]_AbstractVars
    <3>1. answer[r] = None
      BY <2>4, <2>a DEF Insert, InsertError
    <3>2. CASE Free(KeyOf[r]) /\ payments' = payments \union {r}
      <4>1. Promise!Bind(r)
        BY <2>4, <3>1, <3>2, InsertBinds DEF Insert, InsertError, Reply, Promise!Bind
      <4> QED
        BY <4>1 DEF Promise!Next
    <3>3. CASE payments' = payments /\ Reply(r, "error")
      <4>1. Promise!Refuse(r)
        BY <2>0, <3>1, <3>3 DEF Reply, Promise!Refuse
      <4> QED
        BY <4>1 DEF Promise!Next
    <3> QED
      BY <2>4, <3>2, <3>3 DEF Insert, InsertError
  <2>5. CASE UNCHANGED vars
    BY <2>0, <2>5 DEF vars
  <2> QED
    BY <2>1, <2>2, <2>3, <2>4, <2>5 DEF Next
<1> QED
  BY <1>1, <1>2, SpecIInv, PTL DEF Spec, ImplementsIdempotencyKey, Promise!Spec

-----------------------------------------------------------------------------
LEMMA RowsAreNumbers == Rows \subseteq Nat
  BY OutboxAssumption DEF Rows, RowsOf

(* Every non-empty set of rows has an oldest one, which Min chooses. *)
LEMMA MinInSet ==
  ASSUME NEW S, S \subseteq Nat, S # {}
  PROVE  Relay!Min(S) \in S
<1> DEFINE Less == OpToRel(<, Nat)
<1>a. IsWellFoundedOn(Less, Nat)
  BY NatLessThanWellFounded
<1>b. \A x, y \in Nat : <<y, x>> \in Less <=> y < x
  BY DEF OpToRel
<1> HIDE DEF Less
<1>1. PICK x \in S : \A y \in S : ~ (<<y, x>> \in Less)
  BY <1>a, WFMin
<1>2. ASSUME NEW y \in S PROVE x <= y
  <2>1. x \in Nat /\ y \in Nat
    OBVIOUS
  <2>2. ~ (y < x)
    BY <1>1, <1>b, <2>1
  <2> QED
    BY <2>1, <2>2
<1> QED
  BY <1>2 DEF Relay!Min

(* A relay that has taken up a row has a batch, and a row about to be      *)
(* marked has been delivered or was lost by Kafka.                         *)
Working(r) ==
  /\ relayPc[r] \in {"publish", "mark"} => batch[r] # {}
  /\ relayPc[r] = "mark" => Relay!Current(r) \in delivered \union lost

RInv == Relay!TypeOK /\ Relay!PublishedIsDelivered /\ \A r \in Relays : Working(r)

LEMMA CurrentRow ==
  ASSUME Relay!TypeOK, NEW r \in Relays, Working(r),
         relayPc[r] \in {"publish", "mark"}
  PROVE  Relay!Current(r) \in batch[r] /\ Relay!Current(r) \in Rows
<1>1. batch[r] \subseteq Rows /\ batch[r] \subseteq Nat /\ batch[r] # {}
  BY RowsAreNumbers DEF Relay!TypeOK, Working
<1> QED
  BY <1>1, MinInSet DEF Relay!Current

LEMMA OldestSubset == \A rows : Relay!Oldest(rows) \subseteq rows
  BY DEF Relay!Oldest

(* Where a poll or the handling of one row leaves a relay. *)
LEMMA ProceedStep ==
  ASSUME Relay!TypeOK, \A s \in Relays : Working(s), NEW r \in Relays,
         NEW left, left \subseteq Rows, Relay!Proceed(r, left),
         delivered \subseteq delivered', lost \subseteq lost'
  PROVE  /\ batch' \in [Relays -> SUBSET Rows]
         /\ relayPc' \in [Relays -> {"ticker", "publish", "mark", "stopped"}]
         /\ terminating' \subseteq Relays
         /\ \A s \in Relays : Working(s)'
<1>1. /\ batch' \in [Relays -> SUBSET Rows]
      /\ relayPc' \in [Relays -> {"ticker", "publish", "mark", "stopped"}]
      /\ terminating' \subseteq Relays
  BY DEF Relay!TypeOK, Relay!Proceed
<1>2. ASSUME NEW s \in Relays PROVE Working(s)'
  <2>1. CASE s = r
    BY <2>1 DEF Relay!TypeOK, Relay!Proceed, Working
  <2>2. CASE s # r
    <3>1. batch'[s] = batch[s] /\ relayPc'[s] = relayPc[s]
      BY <2>2 DEF Relay!TypeOK, Relay!Proceed
    <3> QED
      BY <3>1 DEF Working, Relay!Current
  <2> QED
    BY <2>1, <2>2
<1> QED
  BY <1>1, <1>2

LEMMA RelayInit == Relay!Init => RInv
  BY DEF Relay!Init, RInv, Relay!TypeOK, Relay!PublishedIsDelivered, Working

LEMMA RelayNext ==
  ASSUME RInv, [Relay!Next]_Relay!vars
  PROVE  RInv'
<1> USE DEF RInv
<1>1. ASSUME NEW i \in Rows, Relay!Commit(i) PROVE RInv'
  BY <1>1
     DEF Relay!Commit, Relay!TypeOK, Relay!PublishedIsDelivered, Working, Relay!Current
<1>2. ASSUME NEW r \in Relays, Relay!Poll(r) PROVE RInv'
  <2>1. Relay!Oldest(Relay!Unpublished) \subseteq Rows
    BY OldestSubset DEF Relay!TypeOK, Relay!Unpublished
  <2> QED
    BY <1>2, <2>1, ProceedStep DEF Relay!Poll, Relay!TypeOK, Relay!PublishedIsDelivered
<1>3. ASSUME NEW r \in Relays, Relay!PublishOk(r) PROVE RInv'
  <2>1. Relay!Current(r) \in Rows
    BY <1>3, CurrentRow DEF Relay!PublishOk
  <2>2. Relay!TypeOK' /\ Relay!PublishedIsDelivered'
    BY <1>3, <2>1 DEF Relay!PublishOk, Relay!TypeOK, Relay!PublishedIsDelivered
  <2>3. ASSUME NEW s \in Relays PROVE Working(s)'
    BY <1>3 DEF Relay!PublishOk, Relay!TypeOK, Working, Relay!Current
  <2> QED
    BY <2>2, <2>3
<1>4. ASSUME NEW r \in Relays, Relay!PublishError(r) PROVE RInv'
  <2>1. Relay!Current(r) \in Rows /\ batch[r] \ {Relay!Current(r)} \subseteq Rows
    BY <1>4, CurrentRow DEF Relay!PublishError, Relay!TypeOK
  <2>2. delivered \subseteq delivered' /\ delivered' \subseteq Rows
    BY <1>4, <2>1 DEF Relay!PublishError, Relay!TypeOK
  <2> QED
    BY <1>4, <2>1, <2>2, ProceedStep
       DEF Relay!PublishError, Relay!TypeOK, Relay!PublishedIsDelivered
<1>5. ASSUME NEW r \in Relays, Relay!MarkPublished(r) PROVE RInv'
  <2>1. Relay!Current(r) \in Rows /\ batch[r] \ {Relay!Current(r)} \subseteq Rows
    BY <1>5, CurrentRow DEF Relay!MarkPublished, Relay!TypeOK
  <2>2. Relay!Current(r) \in delivered \union lost
    BY <1>5 DEF Relay!MarkPublished, Working
  <2> QED
    BY <1>5, <2>1, <2>2, ProceedStep
       DEF Relay!MarkPublished, Relay!TypeOK, Relay!PublishedIsDelivered
<1>6. ASSUME NEW r \in Relays, Relay!MarkError(r) PROVE RInv'
  <2>1. batch[r] \ {Relay!Current(r)} \subseteq Rows
    BY DEF Relay!TypeOK
  <2> QED
    BY <1>6, <2>1, ProceedStep
       DEF Relay!MarkError, Relay!TypeOK, Relay!PublishedIsDelivered
<1>7. ASSUME NEW r \in Relays, Relay!PollError(r) PROVE RInv'
  BY <1>7, ProceedStep DEF Relay!PollError, Relay!TypeOK, Relay!PublishedIsDelivered
<1>8. ASSUME NEW r \in Relays, Relay!Sigterm(r) PROVE RInv'
  <2>1. relayPc[r] = "publish" => Relay!Current(r) \in Rows
    BY CurrentRow
  <2>2. Relay!TypeOK' /\ Relay!PublishedIsDelivered'
    BY <1>8, <2>1 DEF Relay!Sigterm, Relay!TypeOK, Relay!PublishedIsDelivered
  <2>3. ASSUME NEW s \in Relays PROVE Working(s)'
    BY <1>8 DEF Relay!Sigterm, Relay!TypeOK, Working, Relay!Current
  <2> QED
    BY <2>2, <2>3
<1>9. ASSUME NEW r \in Relays, Relay!Exit(r) PROVE RInv'
  BY <1>9
     DEF Relay!Exit, Relay!TypeOK, Relay!PublishedIsDelivered, Working, Relay!Current
<1>10. ASSUME NEW r \in Relays, Relay!Restart(r) PROVE RInv'
  BY <1>10
     DEF Relay!Restart, Relay!TypeOK, Relay!PublishedIsDelivered, Working, Relay!Current
<1>11. CASE UNCHANGED Relay!vars
  BY <1>11
     DEF Relay!vars, Relay!TypeOK, Relay!PublishedIsDelivered, Working, Relay!Current
<1> QED
  BY <1>1, <1>2, <1>3, <1>4, <1>5, <1>6, <1>7, <1>8, <1>9, <1>10, <1>11 
     DEF Relay!Next, Relay!Replica, Relay!Run, Relay!TypeOK

LEMMA SpecRInv == Relay!Spec => []RInv
  BY RelayInit, RelayNext, PTL DEF Relay!Spec

(* Every variable keeps its shape (OutboxRelay.Run and its poll). *)
THEOREM RelayTypeCorrect == Relay!Spec => []Relay!TypeOK
<1>1. RInv => Relay!TypeOK
  BY DEF RInv
<1> QED
  BY SpecRInv, <1>1, PTL

(* No row is marked before it was sent, and Kafka has every marked row     *)
(* except those of which it lost a message the writer did not ask it to    *)
(* acknowledge, with any number of replicas on overlapping batches.        *)
THEOREM NoLoss == Relay!Spec => []Relay!PublishedIsDelivered
<1>1. RInv => Relay!PublishedIsDelivered
  BY DEF RInv
<1> QED
  BY SpecRInv, <1>1, PTL

-----------------------------------------------------------------------------
(* Where one replica is deployed its batch never holds a marked row: only  *)
(* the relay itself could mark it, and it takes the row out as it does.    *)
Ahead ==
  \A r \in Relays : deployed = {r} => batch[r] \intersect published = {}

(* The mark is final when one replica runs the relay: the duplicates that  *)
(* consumers must expect then come only from a publish that was never      *)
(* marked.                                                                 *)
THEOREM MarkFinal == Relay!Spec => []Relay!MarkedIsFinal
<1>1. Relay!Init => Ahead
  BY DEF Relay!Init, Ahead
<1>2. RInv /\ Ahead /\ [Relay!Next]_Relay!vars => Ahead'
  <2> SUFFICES ASSUME RInv, Ahead, [Relay!Next]_Relay!vars PROVE Ahead' OBVIOUS
  <2> USE DEF RInv, Ahead, Relay!TypeOK
  <2>1. ASSUME NEW r \in deployed, Relay!Poll(r) PROVE Ahead'
    <3>1. Relay!Oldest(Relay!Unpublished) \intersect published = {}
      BY OldestSubset DEF Relay!Unpublished
    <3> QED
      BY <2>1, <3>1 DEF Relay!Poll, Relay!Proceed
  <2>2. ASSUME NEW r \in deployed,
               Relay!PollError(r) \/ Relay!PublishError(r) \/ Relay!MarkError(r)
        PROVE  Ahead'
    BY <2>2 DEF Relay!PollError, Relay!PublishError, Relay!MarkError, Relay!Proceed
  <2>3. ASSUME NEW r \in deployed, Relay!MarkPublished(r) PROVE Ahead'
    BY <2>3 DEF Relay!MarkPublished, Relay!Proceed
  <2>4. ASSUME NEW r \in deployed,
               Relay!PublishOk(r) \/ Relay!Sigterm(r) \/ Relay!Exit(r)
                 \/ Relay!Restart(r)
        PROVE  Ahead'
    BY <2>4 DEF Relay!PublishOk, Relay!Sigterm, Relay!Exit, Relay!Restart
  <2>5. ASSUME NEW i \in Rows, Relay!Commit(i) PROVE Ahead'
    BY <2>5 DEF Relay!Commit
  <2>6. CASE UNCHANGED Relay!vars
    BY <2>6 DEF Relay!vars
  <2> QED
    BY <2>1, <2>2, <2>3, <2>4, <2>5, <2>6 DEF Relay!Next, Relay!Replica, Relay!Run
<1>3. RInv /\ Ahead => Relay!MarkedIsFinal
  <2> SUFFICES ASSUME RInv, Ahead, NEW r \in Relays, NEW i \in published,
                      deployed = {r}, Relay!Sending(r, i)
               PROVE  FALSE
    BY DEF Relay!MarkedIsFinal
  <2>1. i \in batch[r]
    BY CurrentRow DEF Relay!Sending, RInv
  <2> QED
    BY <2>1 DEF Ahead
<1> QED
  BY SpecRInv, <1>1, <1>2, <1>3, PTL DEF Relay!Spec

-----------------------------------------------------------------------------
(* A relay works on committed rows only, so Kafka has no other rows. *)
Known == delivered \subseteq committed /\ \A r \in Relays : batch[r] \subseteq committed

LEMMA SpecKnown == Relay!Spec => []Known
<1>1. Relay!Init => Known
  BY DEF Relay!Init, Known
<1>2. RInv /\ Known /\ [Relay!Next]_Relay!vars => Known'
  <2> SUFFICES ASSUME RInv, Known, [Relay!Next]_Relay!vars PROVE Known' OBVIOUS
  <2> USE DEF RInv, Known, Relay!TypeOK
  <2>1. ASSUME NEW i \in Rows, Relay!Commit(i) PROVE Known'
    BY <2>1 DEF Relay!Commit
  <2>2. ASSUME NEW r \in deployed, Relay!Poll(r) PROVE Known'
    <3>1. Relay!Oldest(Relay!Unpublished) \subseteq committed
      BY OldestSubset DEF Relay!Unpublished
    <3> QED
      BY <2>2, <3>1 DEF Relay!Poll, Relay!Proceed
  <2>3. ASSUME NEW r \in deployed, Relay!PublishOk(r) PROVE Known'
    <3>1. Relay!Current(r) \in committed
      BY <2>3, CurrentRow DEF Relay!PublishOk
    <3> QED
      BY <2>3, <3>1 DEF Relay!PublishOk
  <2>4. ASSUME NEW r \in deployed, Relay!PublishError(r) PROVE Known'
    <3>1. Relay!Current(r) \in committed
      BY <2>4, CurrentRow DEF Relay!PublishError
    <3> QED
      BY <2>4, <3>1 DEF Relay!PublishError, Relay!Proceed
  <2>5. ASSUME NEW r \in deployed,
               Relay!MarkPublished(r) \/ Relay!MarkError(r) \/ Relay!PollError(r)
        PROVE  Known'
    BY <2>5 DEF Relay!MarkPublished, Relay!MarkError, Relay!PollError, Relay!Proceed
  <2>6. ASSUME NEW r \in deployed, Relay!Sigterm(r) PROVE Known'
    <3>1. relayPc[r] = "publish" => Relay!Current(r) \in committed
      BY CurrentRow
    <3> QED
      BY <2>6, <3>1 DEF Relay!Sigterm
  <2>7. ASSUME NEW r \in deployed, Relay!Exit(r) \/ Relay!Restart(r) PROVE Known'
    BY <2>7 DEF Relay!Exit, Relay!Restart
  <2>8. CASE UNCHANGED Relay!vars
    BY <2>8 DEF Relay!vars
  <2> QED
    BY <2>1, <2>2, <2>3, <2>4, <2>5, <2>6, <2>7, <2>8
       DEF Relay!Next, Relay!Replica, Relay!Run
<1> QED
  BY SpecRInv, <1>1, <1>2, PTL DEF Relay!Spec

-----------------------------------------------------------------------------
(* A request that commits is a new row for the relays; they see nothing    *)
(* else of what requests do.                                               *)
LEMMA RequestIsCommit ==
  ASSUME TypeOK, Next, UNCHANGED relayVars
  PROVE  UNCHANGED Relay!vars \/ \E i \in Rows : Relay!Commit(i)
<1>1. CASE payments' = payments
  BY <1>1 DEF committed, RowsOf, relayVars, Relay!vars
<1>2. ASSUME NEW r \in Requests, Free(KeyOf[r]), payments' = payments \union {r}
      PROVE  Relay!Commit(Created[r]) /\ Created[r] \in Rows
  <2>1. r \notin payments
    BY <1>2 DEF Free, WithKey
  <2>2. Created[r] \notin committed
    BY <2>1, OutboxAssumption DEF committed, RowsOf, TypeOK
  <2>3. committed' = committed \union {Created[r]} /\ Created[r] \in Rows
    BY <1>2 DEF committed, Rows, RowsOf
  <2> QED
    BY <2>2, <2>3 DEF Relay!Commit, relayVars
<1>3. payments' = payments
        \/ \E r \in Requests : Free(KeyOf[r]) /\ payments' = payments \union {r}
  BY DEF Next, Receive, CheckIdempotency, CheckError, CreateGatewayOrder, GatewayError,
         Insert, InsertError, Crash
<1> QED
  BY <1>1, <1>2, <1>3

(* The service is both of its halves: every step of it is a step of        *)
(* initiation that the relays see as a commit or not at all, or a step of  *)
(* a relay that requests do not see.                                       *)
THEOREM Composition == OutboxSpec => Spec /\ Relay!Spec
<1>1. OutboxInit => Init /\ Relay!Init
  BY DEF OutboxInit
<1>2. [OutboxNext]_outboxVars => [Next]_vars
  BY DEF OutboxNext, outboxVars
<1>3. TypeOK /\ [OutboxNext]_outboxVars => [Relay!Next]_Relay!vars
  <2> SUFFICES ASSUME TypeOK, [OutboxNext]_outboxVars PROVE [Relay!Next]_Relay!vars
    OBVIOUS
  <2>1. CASE Next /\ UNCHANGED relayVars
    BY <2>1, RequestIsCommit DEF Relay!Next
  <2>2. CASE \E r \in deployed : Relay!Replica(r)
    BY <2>2 DEF Relay!Next
  <2>3. CASE UNCHANGED outboxVars
    BY <2>3 DEF outboxVars, vars, relayVars, Relay!vars, committed
  <2> QED
    BY <2>1, <2>2, <2>3 DEF OutboxNext
<1> QED
  BY <1>1, <1>2, <1>3, TypeCorrect, PTL DEF OutboxSpec, Spec, Relay!Spec

(* Between the commit of a payment and Kafka nothing is lost but what      *)
(* Kafka itself loses, and nothing is announced that was not committed,    *)
(* also when the transaction commits and its request is told of an error.  *)
THEOREM OutboxFaithful == OutboxSpec => []OutboxIsFaithful
<1>1. Known => AnnouncedIsCommitted
  BY DEF Known, AnnouncedIsCommitted
<1> QED
  BY <1>1, Composition, NoLoss, SpecKnown, PTL DEF OutboxIsFaithful

(* The mark of a lone replica is final whatever requests commit meanwhile. *)
THEOREM FinalMark == OutboxSpec => []MarkIsFinal
  BY Composition, MarkFinal, PTL DEF MarkIsFinal

-----------------------------------------------------------------------------
(* The clock and the counter stay within their bounds. *)
LEMMA BreakerBounds ==
  /\ ResetAfter + 1 \in Age /\ 0 \in Age
  /\ \A age \in Age : Older(age) \in Age
  /\ \A fails \in 0..Threshold : fails < Threshold => fails + 1 \in 0..Threshold
  /\ 0 \in 0..Threshold /\ Threshold \in 0..Threshold
BY BreakerAssumption DEF Age, Older

(* A call has a gateway for its row before it has one for its order.       *)
LEMMA SelectedTyped ==
  ASSUME BreakerTypeOK, NEW c \in Calls, at[c] \in {"load", "compare", "zero"},
         NEW gateway \in Gateways, Selected(c, gateway),
         circuitOpen' \in {0, 1}, razorpayFails' \in 0..Threshold,
         sinceOpenedAt' \in Age, razorpayUp' \in BOOLEAN
  PROVE  BreakerTypeOK'
<1> USE DEF BreakerTypeOK, Selected, MoveTo, Gateways
<1>1. CASE recorded[c] = "none"
  BY <1>1
<1>2. CASE recorded[c] # "none"
  BY <1>2
<1> QED
  BY <1>1, <1>2

(* The breaker and its calls keep their shape, however the loads and       *)
(* stores of the three atomics interleave, and a failure is one of         *)
(* Razorpay: RecordFailure trips for nothing else (payment.go).            *)
THEOREM BreakerTyped == BreakerSpec => []BreakerTypeOK
<1>1. BreakerInit => BreakerTypeOK
  BY BreakerBounds DEF BreakerInit, BreakerTypeOK
<1>2. BreakerTypeOK /\ [BreakerNext]_breakerVars => BreakerTypeOK'
  <2> SUFFICES ASSUME BreakerTypeOK, [BreakerNext]_breakerVars PROVE BreakerTypeOK'
    OBVIOUS
  <2> USE DEF MoveTo, Circuit, Choice
  <2>1. CASE Tick \/ RazorpayChanges \/ UNCHANGED breakerVars
    BY <2>1, BreakerBounds DEF Tick, RazorpayChanges, breakerVars, BreakerTypeOK
  <2>2. ASSUME NEW c \in Calls, Begin(c) PROVE BreakerTypeOK'
    BY <2>2 DEF Begin, BreakerTypeOK
  <2>3. ASSUME NEW c \in Calls, LoadOpen(c) PROVE BreakerTypeOK'
    <3>1. CASE circuitOpen = 0
      BY <2>3, <3>1, SelectedTyped DEF LoadOpen, BreakerTypeOK, Gateways
    <3>2. CASE circuitOpen # 0
      BY <2>3, <3>2 DEF LoadOpen, BreakerTypeOK
    <3> QED
      BY <3>1, <3>2
  <2>4. ASSUME NEW c \in Calls, CompareOpenedAt(c) PROVE BreakerTypeOK'
    <3>1. CASE WindowPassed
      BY <2>4, <3>1 DEF CompareOpenedAt, BreakerTypeOK
    <3>2. CASE ~ WindowPassed
      BY <2>4, <3>2, SelectedTyped DEF CompareOpenedAt, BreakerTypeOK, Gateways
    <3> QED
      BY <3>1, <3>2
  <2>5. ASSUME NEW c \in Calls, StoreClosed(c) PROVE BreakerTypeOK'
    BY <2>5 DEF StoreClosed, BreakerTypeOK
  <2>6. ASSUME NEW c \in Calls, StoreNoFails(c) PROVE BreakerTypeOK'
    BY <2>6, SelectedTyped, BreakerBounds DEF StoreNoFails, BreakerTypeOK, Gateways
  <2>7. ASSUME NEW c \in Calls, CreateOrder(c) PROVE BreakerTypeOK'
    BY <2>7 DEF CreateOrder, BreakerTypeOK, Gateways
  <2>8. ASSUME NEW c \in Calls, RecordSuccess(c) PROVE BreakerTypeOK'
    BY <2>8, BreakerBounds DEF RecordSuccess, BreakerTypeOK
  <2>9. ASSUME NEW c \in Calls, RecordFailure(c) PROVE BreakerTypeOK'
    BY <2>9, BreakerBounds DEF RecordFailure, BreakerTypeOK
  <2>10. ASSUME NEW c \in Calls, StoreOpen(c) \/ StoreOpenedAt(c) PROVE BreakerTypeOK'
    BY <2>10, BreakerBounds DEF StoreOpen, StoreOpenedAt, BreakerTypeOK
  <2> QED
    BY <2>1, <2>2, <2>3, <2>4, <2>5, <2>6, <2>7, <2>8, <2>9, <2>10 DEF BreakerNext, Step
<1> QED
  BY <1>1, <1>2, PTL DEF BreakerSpec
=============================================================================
