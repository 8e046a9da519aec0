------------------------ MODULE ExitValidationProofs ------------------------
(***************************************************************************)
(* For every set of tokens and requests: one release per token, release    *)
(* only to the entitled customer, and the refinement of OneTimeToken.      *)
(***************************************************************************)
EXTENDS ExitValidation, TLAPS

Entitled(r) ==
  /\ input[r] \in Presentation
  /\ usedBy[token(r)] = r
  /\ StoreOf[token(r)] = input[r].store
  /\ UserOf[token(r)] = input[r].user

(* A slot that has not begun has left no trace. *)
FreshSlots ==
  \A r \in Requests : pc[r] = "idle" =>
    /\ input[r] = NoRequest /\ answer[r] = "none"
    /\ ~OpenedFor(r) /\ r \notin decrement /\ r \notin departures

(* A handler past verification works on a token of its own customer. *)
VerifiedInFlight ==
  \A r \in Requests :
    pc[r] \in {"setnx", "update", "open", "spawn", "exited", "deny", "alarm"} =>
      /\ input[r] \in Presentation
      /\ StoreOf[token(r)] = input[r].store
      /\ UserOf[token(r)] = input[r].user

StaffSlots ==
  \A r \in Requests : pc[r] = "audit" => input[r] = NoRequest

(* The heart of the argument: past the UPDATE a request owns the row. *)
ReleasedOwnsRow ==
  \A r \in Requests :
    pc[r] \in {"open", "spawn", "exited"} \/ Released(r) => Entitled(r)

(* A request spends at most one token, and only by passing the UPDATE. *)
SpenderIsPastUpdate ==
  \A t \in Tokens, r \in Requests :
    usedBy[t] = r => pc[r] \in {"open", "spawn", "exited", "done", "crashed"}

IInv ==
  /\ TypeOK
  /\ FreshSlots
  /\ VerifiedInFlight
  /\ StaffSlots
  /\ ReleasedOwnsRow
  /\ SpenderIsPastUpdate

-----------------------------------------------------------------------------
LEMMA InitIInv == Init => IInv
  BY ClaimsAssumption
  DEF Init, IInv, TypeOK, FreshSlots, VerifiedInFlight, StaffSlots,
      ReleasedOwnsRow, SpenderIsPastUpdate, Released, Customer, OpenedFor,
      Input, Label, Answer, token

(* The state keeps its shape. *)
LEMMA TypeStep == IInv /\ [Next]_vars => TypeOK'
<1> SUFFICES ASSUME IInv, [Next]_vars PROVE TypeOK'
  OBVIOUS
<1> USE DEF IInv, TypeOK, Label, Answer, Command, Alarm
<1>1. ASSUME NEW t \in Tokens, Issue(t) \/ Expire(t) \/ KeyExpires(t)
      PROVE  TypeOK'
  BY <1>1 DEF Issue, Expire, KeyExpires
<1>2. ASSUME NEW r \in Requests, Receive(r)
      PROVE  TypeOK'
  BY <1>2 DEF Receive, Verify, Respond, Goto, Attempt, Input
<1>3. ASSUME NEW r \in Requests, SetNX(r) \/ SetNXError(r) \/ SetNXRepeated(r)
      PROVE  TypeOK'
  BY <1>3 DEF SetNX, SetNXError, SetNXRepeated, Goto, VerifiedInFlight, Presentation, token
<1>4. ASSUME NEW r \in Requests, UpdateTokenUsed(r) \/ UpdateTokenUsedError(r)
      PROVE  TypeOK'
  BY <1>4 DEF UpdateTokenUsed, UpdateTokenUsedError, Goto, Respond,
              VerifiedInFlight, Presentation, token
<1>5. ASSUME NEW r \in Requests,
             SendOpen(r) \/ SpawnDecrement(r) \/ PublishCustomerExited(r)
      PROVE  TypeOK'
  BY <1>5 DEF SendOpen, SpawnDecrement, PublishCustomerExited, Goto, Respond, Attempt
<1>6. ASSUME NEW r \in Requests, SendDeny(r) \/ PublishReplayAlarm(r)
      PROVE  TypeOK'
  BY <1>6 DEF SendDeny, PublishReplayAlarm, Goto, Respond, Attempt
<1>7. ASSUME NEW r \in Requests, StaffOpen(r) \/ PublishStaffOverride(r)
      PROVE  TypeOK'
  BY <1>7 DEF StaffOpen, PublishStaffOverride, Goto, Respond, Attempt
<1>8. ASSUME NEW r \in Requests, DecrementStoreOccupancy(r) \/ Crash(r)
      PROVE  TypeOK'
  BY <1>8 DEF DecrementStoreOccupancy, Crash, Goto
<1>9. CASE UNCHANGED vars
  BY <1>9 DEF vars
<1> QED
  BY <1>1, <1>2, <1>3, <1>4, <1>5, <1>6, <1>7, <1>8, <1>9 DEF Next, Handle

(* Token-level steps touch neither the handlers nor the rows' owners. *)
LEMMA EnvironmentStep ==
  ASSUME IInv, NEW t \in Tokens, Issue(t) \/ Expire(t) \/ KeyExpires(t)
  PROVE  IInv'
  BY TypeStep
  DEF IInv, FreshSlots, VerifiedInFlight, StaffSlots, ReleasedOwnsRow,
      SpenderIsPastUpdate, Released, Customer, OpenedFor, Entitled, token,
      Issue, Expire, KeyExpires, Next

LEMMA ReceiveStep ==
  ASSUME IInv, NEW r \in Requests, Receive(r)
  PROVE  IInv'
<1> USE DEF IInv, TypeOK
<1>1. TypeOK'
  BY TypeStep DEF Next
<1>2. FreshSlots' /\ StaffSlots' /\ VerifiedInFlight'
  BY DEF FreshSlots, StaffSlots, VerifiedInFlight, Receive, Verify, Respond,
         Goto, OpenedFor, token
<1>3. ~Released(r)'
  BY DEF Released, Receive, Verify, Respond, Goto, FreshSlots, OpenedFor
<1>4. ReleasedOwnsRow'
  BY <1>3 DEF ReleasedOwnsRow, Released, Customer, OpenedFor, Entitled, token,
              Receive, Verify, Respond, Goto
<1>5. SpenderIsPastUpdate'
  BY DEF SpenderIsPastUpdate, Receive, Verify, Respond, Goto
<1> QED
  BY <1>1, <1>2, <1>4, <1>5

LEMMA ClaimStep ==
  ASSUME IInv, NEW r \in Requests,
         \/ SetNX(r) \/ SetNXError(r) \/ SetNXRepeated(r)
         \/ UpdateTokenUsed(r) \/ UpdateTokenUsedError(r)
  PROVE  IInv'
<1> USE DEF IInv, TypeOK, SetNX, SetNXError, SetNXRepeated, UpdateTokenUsed,
            UpdateTokenUsedError, Respond, Goto
<1>1. TypeOK'
  BY TypeStep DEF Next, Handle
<1>2. FreshSlots' /\ StaffSlots' /\ VerifiedInFlight'
  BY DEF FreshSlots, StaffSlots, VerifiedInFlight, OpenedFor, token
<1>3. token(r) \in Tokens
  BY DEF VerifiedInFlight, Presentation, token
<1>4. ReleasedOwnsRow'
  <2> SUFFICES ASSUME NEW q \in Requests,
                      (pc[q] \in {"open", "spawn", "exited"} \/ Released(q))'
               PROVE  Entitled(q)'
    BY DEF ReleasedOwnsRow
  <2>1. CASE Entitled(q)
    BY <2>1, <1>3, ClaimsAssumption DEF Entitled, Unused, token, Presentation
  <2>2. CASE ~Entitled(q)
    <3>1. q = r /\ pc'[r] = "open"
      BY <2>2 DEF ReleasedOwnsRow, Released, Customer, OpenedFor, token
    <3> QED
      BY <3>1, <1>3 DEF Entitled, VerifiedInFlight, Unused, token
  <2> QED
    BY <2>1, <2>2
<1>5. SpenderIsPastUpdate'
  BY <1>3 DEF SpenderIsPastUpdate, token
<1> QED
  BY <1>1, <1>2, <1>4, <1>5

LEMMA ReleaseStep ==
  ASSUME IInv, NEW r \in Requests,
         SendOpen(r) \/ SpawnDecrement(r) \/ PublishCustomerExited(r)
  PROVE  IInv'
<1> USE DEF IInv, TypeOK, SendOpen, SpawnDecrement, PublishCustomerExited,
            Respond, Goto, Attempt
<1>1. TypeOK'
  BY TypeStep DEF Next, Handle
<1>2. FreshSlots' /\ StaffSlots' /\ VerifiedInFlight'
  BY DEF FreshSlots, StaffSlots, VerifiedInFlight, OpenedFor, token
<1>3. ReleasedOwnsRow'
  BY DEF ReleasedOwnsRow, Released, Customer, OpenedFor, Entitled, token
<1>4. SpenderIsPastUpdate'
  BY DEF SpenderIsPastUpdate
<1> QED
  BY <1>1, <1>2, <1>3, <1>4

LEMMA DenyStep ==
  ASSUME IInv, NEW r \in Requests,
         \/ SendDeny(r) \/ PublishReplayAlarm(r)
         \/ DecrementStoreOccupancy(r) \/ Crash(r)
  PROVE  IInv'
<1> USE DEF IInv, TypeOK, SendDeny, PublishReplayAlarm,
            DecrementStoreOccupancy, Crash, Respond, Goto, Attempt
<1>1. TypeOK'
  BY TypeStep DEF Next, Handle
<1>2. FreshSlots' /\ StaffSlots' /\ VerifiedInFlight'
  BY DEF FreshSlots, StaffSlots, VerifiedInFlight, OpenedFor, token
<1>3. ReleasedOwnsRow'
  BY DEF ReleasedOwnsRow, Released, Customer, OpenedFor, Entitled, token
<1>4. SpenderIsPastUpdate'
  BY DEF SpenderIsPastUpdate
<1> QED
  BY <1>1, <1>2, <1>3, <1>4

LEMMA StaffStep ==
  ASSUME IInv, NEW r \in Requests, StaffOpen(r) \/ PublishStaffOverride(r)
  PROVE  IInv'
<1> USE DEF IInv, TypeOK, StaffOpen, PublishStaffOverride, Respond, Goto, Attempt
<1>1. TypeOK'
  BY TypeStep DEF Next, Handle
<1>2. FreshSlots' /\ StaffSlots' /\ VerifiedInFlight'
  BY DEF FreshSlots, StaffSlots, VerifiedInFlight, OpenedFor, token
<1>3. ~Customer(r)'
  BY DEF Customer, FreshSlots, StaffSlots
<1>4. ReleasedOwnsRow'
  BY <1>3 DEF ReleasedOwnsRow, Released, Customer, OpenedFor, Entitled, token
<1>5. SpenderIsPastUpdate'
  BY DEF SpenderIsPastUpdate
<1> QED
  BY <1>1, <1>2, <1>4, <1>5

LEMMA NextIInv == IInv /\ [Next]_vars => IInv'
<1> SUFFICES ASSUME IInv, [Next]_vars PROVE IInv'
  OBVIOUS
<1>1. CASE UNCHANGED vars
  BY <1>1 DEF IInv, TypeOK, FreshSlots, VerifiedInFlight, StaffSlots,
              ReleasedOwnsRow, SpenderIsPastUpdate, Released, Customer,
              OpenedFor, Entitled, token, vars
<1> QED
  BY <1>1, EnvironmentStep, ReceiveStep, ClaimStep, ReleaseStep, DenyStep,
     StaffStep DEF Next, Handle

LEMMA SpecIInv == Spec => []IInv
  BY InitIInv, NextIInv, PTL DEF Spec

-----------------------------------------------------------------------------
(* The type invariant of the service holds for every instance. *)
THEOREM TypeCorrect == Spec => []TypeOK
<1>1. IInv => TypeOK
  BY DEF IInv
<1> QED
  BY <1>1, SpecIInv, PTL

(* A token's evidence of release belongs to one request, however many
   requests present it and whatever fails (exit.go steps 4-9). *)
THEOREM OneRelease == Spec => []OneReleasePerToken
<1>1. IInv => OneReleasePerToken
  BY DEF IInv, OneReleasePerToken, ReleasedOwnsRow, Entitled
<1> QED
  BY <1>1, SpecIInv, PTL

(* Nobody is let out before the database row is spent by his own request. *)
THEOREM EntitledRelease == Spec => []ReleaseIsEntitled
<1>1. IInv => ReleaseIsEntitled
  BY DEF IInv, ReleaseIsEntitled, ReleasedOwnsRow, Entitled
<1> QED
  BY <1>1, SpecIInv, PTL

(* The service implements the one-time token: the UPDATE is the claim, the
   MQTT command is the opening, every other step stutters. *)
THEOREM Refinement == Spec => ImplementsOneTimeToken
<1>1. Init => Promise!Init
  BY DEF Init, Promise!Init, Customer, OpenedFor
<1>2. ASSUME IInv, [Next]_vars
      PROVE  [Promise!Next]_(Promise!vars)
  <2> DEFINE opened == {r \in Requests : Customer(r) /\ OpenedFor(r)}
  <2> USE <1>2 DEF IInv, TypeOK, Promise!vars, Respond, Goto, Attempt
  <2>1. ASSUME NEW r \in Requests, Receive(r)
        PROVE  UNCHANGED <<usedBy, opened>>
    BY <2>1 DEF Receive, FreshSlots, Customer, OpenedFor
  <2>2. ASSUME NEW r \in Requests, UpdateTokenUsed(r) \/ UpdateTokenUsedError(r)
        PROVE  [Promise!Next]_(Promise!vars)
    <3>1. token(r) \in Tokens
      BY <2>2 DEF UpdateTokenUsed, UpdateTokenUsedError, VerifiedInFlight,
                  Presentation, token
    <3>2. UNCHANGED opened
      BY <2>2 DEF UpdateTokenUsed, UpdateTokenUsedError, Customer, OpenedFor
    <3>3. \A u \in Tokens : usedBy[u] # r
      BY <2>2 DEF UpdateTokenUsed, UpdateTokenUsedError, SpenderIsPastUpdate
    <3>4. UNCHANGED usedBy \/ Promise!Claim(token(r), r)
      BY <2>2, <3>1, <3>2, <3>3
      DEF UpdateTokenUsed, UpdateTokenUsedError, Unused, Promise!Claim
    <3> QED
      BY <3>1, <3>2, <3>4 DEF Promise!Next
  <2>3. ASSUME NEW r \in Requests, SendOpen(r)
        PROVE  [Promise!Next]_(Promise!vars)
    <3>1. token(r) \in Tokens /\ usedBy[token(r)] = r /\ UNCHANGED usedBy
      BY <2>3 DEF SendOpen, ReleasedOwnsRow, Entitled, Presentation, token
    <3>2. opened' = opened \/ opened' = opened \union {r}
      BY <2>3 DEF SendOpen, Customer, OpenedFor
    <3> QED
      BY <3>1, <3>2 DEF Promise!Next, Promise!Open
  <2>4. ASSUME NEW r \in Requests, StaffOpen(r)
        PROVE  UNCHANGED <<usedBy, opened>>
    BY <2>4 DEF StaffOpen, FreshSlots, Customer, OpenedFor
  <2>5. ASSUME NEW r \in Requests,
               \/ SetNX(r) \/ SetNXError(r) \/ SetNXRepeated(r)
               \/ SpawnDecrement(r)
               \/ PublishCustomerExited(r) \/ SendDeny(r)
               \/ PublishReplayAlarm(r) \/ PublishStaffOverride(r)
               \/ DecrementStoreOccupancy(r) \/ Crash(r)
        PROVE  UNCHANGED <<usedBy, opened>>
    BY <2>5 DEF SetNX, SetNXError, SetNXRepeated, SpawnDecrement, PublishCustomerExited,
                SendDeny, PublishReplayAlarm, PublishStaffOverride,
                DecrementStoreOccupancy, Crash, Customer, OpenedFor
  <2>6. ASSUME NEW t \in Tokens, Issue(t) \/ Expire(t) \/ KeyExpires(t)
        PROVE  UNCHANGED <<usedBy, opened>>
    BY <2>6 DEF Issue, Expire, KeyExpires, Customer, OpenedFor
  <2>7. CASE UNCHANGED vars
    BY <2>7 DEF vars, Customer, OpenedFor
  <2> QED
    BY <2>1, <2>2, <2>3, <2>4, <2>5, <2>6, <2>7 DEF Next, Handle
<1> QED
  BY <1>1, <1>2, SpecIInv, PTL DEF Spec, ImplementsOneTimeToken, Promise!Spec

(* The gate opens once for a token, and to whom and where it is due       *)
(* (ExitService.Validate).                                                *)
THEOREM DueRelease == Spec => []ReleaseIsDue
<1>1. OneReleasePerToken /\ ReleaseIsEntitled => ReleaseIsDue
  BY DEF ReleaseIsDue
<1> QED
  BY OneRelease, EntitledRelease, <1>1, PTL
-----------------------------------------------------------------------------
(* Refusals.  A request that has verified its token and gone past SETNX is *)
(* the "other presentation" that a refusal of the token must have.         *)
Taker(q, t) ==
  /\ pc[q] \notin {"idle", "setnx"}
  /\ Verified(q)
  /\ token(q) = t

Refused(r) ==
  /\ Customer(r)
  /\ pc[r] \in {"deny", "alarm"} \/ answer[r] = "EXIT_TOKEN_USED"

(* Only customers are told "already used", about tokens that have a row. *)
RefusedAreCustomers ==
  \A r \in Requests :
    /\ answer[r] = "EXIT_TOKEN_USED" => Customer(r)
    /\ Customer(r) => token(r) \in issued

(* A Redis key and a spent row each name a token that somebody has taken. *)
TakenByPresenter ==
  /\ \A t \in exitUsed : \E q \in Requests : Taker(q, t)
  /\ \A t \in Tokens : usedBy[t] # NoRequest => Taker(usedBy[t], t)

RefusedAfterAnother ==
  "reconnect" \notin faults =>
    \A r \in Requests :
      Refused(r) => \E q \in Requests \ {r} : Verified(q) /\ token(q) = token(r)

(* The row of t is spent, or a request stands before its UPDATE. *)
Held(t) ==
  \/ usedBy[t] # NoRequest
  \/ \E q \in Requests : pc[q] = "update" /\ token(q) = t

(* While nothing fails but Redis, a key or a refusal means a held token. *)
TakenIsHeld ==
  faults = {} =>
    /\ \A t \in exitUsed : Held(t)
    /\ \A r \in Requests : Refused(r) => Held(token(r))

ReplayAlarmsAreRefusals ==
  \A r \in Requests :
    [request |-> r, type |-> "QR_REPLAY_ATTEMPT"] \in alarms
      => answer[r] = "EXIT_TOKEN_USED"

(* A handler still under way has not answered. *)
Unanswered ==
  \A r \in Requests :
    pc[r] \in {"setnx", "update", "open", "spawn", "exited", "deny", "alarm", "audit"}
      => answer[r] = "none"

RInv ==
  /\ Unanswered
  /\ RefusedAreCustomers
  /\ TakenByPresenter
  /\ RefusedAfterAnother
  /\ TakenIsHeld
  /\ ReplayAlarmsAreRefusals

LEMMA InitRInv == Init => RInv
  BY DEF Init, RInv, Unanswered, RefusedAreCustomers, TakenByPresenter,
         RefusedAfterAnother, TakenIsHeld, ReplayAlarmsAreRefusals,
         Refused, Customer, Taker

(* A verified presentation stays one, of the same token. *)
LEMMA VerifiedStays ==
  ASSUME IInv, [Next]_vars, NEW q \in Requests, Verified(q)
  PROVE  Verified(q)' /\ input'[q] = input[q] /\ token(q)' = token(q)
<1> USE DEF IInv, TypeOK, Verified, Customer, token, Respond, Goto
<1>1. pc[q] # "idle"
  BY DEF FreshSlots
<1>2. ASSUME NEW r \in Requests, Receive(r) \/ StaffOpen(r)
      PROVE  UNCHANGED <<input[q], answer[q]>>
  BY <1>1, <1>2 DEF Receive, Verify, StaffOpen
<1>3. ASSUME NEW r \in Requests, Handle(r)
      PROVE  /\ input' = input
             /\ answer'[q] \in {answer[q], "INTERNAL_ERROR", "APPROVED", "EXIT_TOKEN_USED"}
  BY <1>3 DEF Handle, SetNX, SetNXError, SetNXRepeated, UpdateTokenUsed,
              UpdateTokenUsedError, SendOpen, SpawnDecrement,
              PublishCustomerExited, SendDeny, PublishReplayAlarm,
              PublishStaffOverride
<1>4. ASSUME NEW r \in Requests, DecrementStoreOccupancy(r) \/ Crash(r)
      PROVE  UNCHANGED <<input, answer>>
  BY <1>4 DEF DecrementStoreOccupancy, Crash
<1>5. ASSUME NEW t \in Tokens, Issue(t) \/ Expire(t) \/ KeyExpires(t)
      PROVE  UNCHANGED <<input, answer>>
  BY <1>5 DEF Issue, Expire, KeyExpires
<1> QED
  BY <1>2, <1>3, <1>4, <1>5 DEF Next, vars

(* No handler goes back to the start or to SETNX, so a taker stays one. *)
LEMMA TakerStays ==
  ASSUME IInv, [Next]_vars, NEW q \in Requests, NEW t, Taker(q, t)
  PROVE  Taker(q, t)'
<1> USE DEF IInv, TypeOK, Taker, Respond, Goto
<1>1. ASSUME NEW r \in Requests, Receive(r) \/ StaffOpen(r)
      PROVE  pc'[q] = pc[q]
  BY <1>1 DEF Receive, Verify, StaffOpen
<1>2. ASSUME NEW r \in Requests, Handle(r)
      PROVE  pc'[q] \notin {"idle", "setnx"}
  BY <1>2 DEF Handle, SetNX, SetNXError, SetNXRepeated, UpdateTokenUsed,
              UpdateTokenUsedError, SendOpen, SpawnDecrement,
              PublishCustomerExited, SendDeny, PublishReplayAlarm,
              PublishStaffOverride
<1>3. ASSUME NEW r \in Requests, DecrementStoreOccupancy(r) \/ Crash(r)
      PROVE  pc'[q] \notin {"idle", "setnx"}
  BY <1>3 DEF DecrementStoreOccupancy, Crash
<1>4. ASSUME NEW t1 \in Tokens, Issue(t1) \/ Expire(t1) \/ KeyExpires(t1)
      PROVE  UNCHANGED pc
  BY <1>4 DEF Issue, Expire, KeyExpires
<1> QED
  BY <1>1, <1>2, <1>3, <1>4, VerifiedStays DEF Next, vars

(* A held token stays held as long as only Redis fails. *)
LEMMA HeldStays ==
  ASSUME IInv, RInv, [Next]_vars, faults = {}, NEW t \in Tokens, Held(t)
  PROVE  Held(t)'
<1> USE DEF IInv, TypeOK, Held, token, Respond, Goto
<1>1. ASSUME NEW r \in Requests, Receive(r) \/ StaffOpen(r)
      PROVE  Held(t)'
  BY <1>1 DEF Receive, Verify, StaffOpen, FreshSlots
<1>2. ASSUME NEW r \in Requests, UpdateTokenUsed(r)
      PROVE  Held(t)'
  <2>1. token(r) \in Tokens /\ Customer(r)
    BY <1>2, ClaimsAssumption
    DEF UpdateTokenUsed, VerifiedInFlight, Presentation, Customer
  <2>2. token(r) \in issued
    BY <2>1 DEF RInv, RefusedAreCustomers
  <2> QED
    BY <1>2, <2>1, <2>2, ClaimsAssumption DEF UpdateTokenUsed, Unused
<1>3. ASSUME NEW r \in Requests, Handle(r), ~UpdateTokenUsed(r)
      PROVE  Held(t)'
  BY <1>3 DEF Handle, SetNX, SetNXError, SetNXRepeated,
              UpdateTokenUsedError, SendOpen, SpawnDecrement,
              PublishCustomerExited, SendDeny, PublishReplayAlarm,
              PublishStaffOverride
<1>4. ASSUME NEW r \in Requests, DecrementStoreOccupancy(r) \/ Crash(r)
      PROVE  Held(t)'
  BY <1>4 DEF DecrementStoreOccupancy, Crash
<1>5. ASSUME NEW t1 \in Tokens, Issue(t1) \/ Expire(t1) \/ KeyExpires(t1)
      PROVE  Held(t)'
  BY <1>5 DEF Issue, Expire, KeyExpires
<1> QED
  BY <1>1, <1>2, <1>3, <1>4, <1>5 DEF Next, vars

LEMMA RefusedAreCustomersStep ==
  ASSUME IInv, RInv, [Next]_vars
  PROVE  RefusedAreCustomers'
<1> USE DEF IInv, TypeOK, RInv, RefusedAreCustomers, Customer, token, Respond, Goto
<1>1. ASSUME NEW r \in Requests, Receive(r) \/ StaffOpen(r)
      PROVE  RefusedAreCustomers'
  BY <1>1 DEF Receive, Verify, StaffOpen, FreshSlots
<1>2. ASSUME NEW r \in Requests, Handle(r)
      PROVE  RefusedAreCustomers'
  <2>1. CASE PublishReplayAlarm(r)
    BY <2>1, ClaimsAssumption
    DEF PublishReplayAlarm, VerifiedInFlight, Presentation
  <2>2. CASE ~PublishReplayAlarm(r)
    <3>1. UNCHANGED <<input, issued>> /\ \A q \in Requests :
            answer'[q] = "EXIT_TOKEN_USED" => answer[q] = "EXIT_TOKEN_USED"
      BY <1>2, <2>2
      DEF Handle, SetNX, SetNXError, SetNXRepeated, UpdateTokenUsed,
          UpdateTokenUsedError, SendOpen, SpawnDecrement,
          PublishCustomerExited, SendDeny, PublishStaffOverride
    <3> QED
      BY <3>1
  <2> QED
    BY <2>1, <2>2
<1>3. ASSUME NEW r \in Requests, DecrementStoreOccupancy(r) \/ Crash(r)
      PROVE  RefusedAreCustomers'
  BY <1>3 DEF DecrementStoreOccupancy, Crash
<1>4. ASSUME NEW t1 \in Tokens, Issue(t1) \/ Expire(t1) \/ KeyExpires(t1)
      PROVE  RefusedAreCustomers'
  BY <1>4 DEF Issue, Expire, KeyExpires
<1> QED
  BY <1>1, <1>2, <1>3, <1>4 DEF Next, vars
LEMMA UnansweredStep ==
  ASSUME IInv, RInv, [Next]_vars
  PROVE  Unanswered'
<1> USE DEF IInv, TypeOK, RInv, Unanswered, Respond, Goto
<1>1. ASSUME NEW r \in Requests, Receive(r) \/ StaffOpen(r)
      PROVE  Unanswered'
  BY <1>1 DEF Receive, Verify, StaffOpen, FreshSlots
<1>2. ASSUME NEW r \in Requests, Handle(r)
      PROVE  Unanswered'
  BY <1>2
  DEF Handle, SetNX, SetNXError, SetNXRepeated, UpdateTokenUsed,
      UpdateTokenUsedError, SendOpen, SpawnDecrement, PublishCustomerExited,
      SendDeny, PublishReplayAlarm, PublishStaffOverride
<1>3. ASSUME NEW r \in Requests, DecrementStoreOccupancy(r) \/ Crash(r)
      PROVE  Unanswered'
  BY <1>3 DEF DecrementStoreOccupancy, Crash
<1>4. ASSUME NEW t \in Tokens, Issue(t) \/ Expire(t) \/ KeyExpires(t)
      PROVE  Unanswered'
  BY <1>4 DEF Issue, Expire, KeyExpires
<1> QED
  BY <1>1, <1>2, <1>3, <1>4 DEF Next, vars

(* Who passes SETNX or the UPDATE has verified and becomes a taker. *)
LEMMA BecomesTaker ==
  ASSUME IInv, RInv, NEW r \in Requests, pc[r] \in {"setnx", "update"},
         input' = input, pc'[r] \notin {"idle", "setnx"},
         answer'[r] \in {answer[r], "INTERNAL_ERROR"}
  PROVE  Customer(r) /\ token(r) \in Tokens /\ Verified(r) /\ Taker(r, token(r))'
<1>1. input[r] \in Presentation
  BY DEF IInv, VerifiedInFlight
<1>2. Customer(r)
  BY <1>1, ClaimsAssumption DEF Customer, Presentation
<1>3. answer[r] = "none"
  BY DEF RInv, Unanswered
<1> QED
  BY <1>1, <1>2, <1>3 DEF Taker, Verified, Customer, Presentation, token

(* A key appears by some request's SETNX. *)
LEMMA NewKey ==
  ASSUME [Next]_vars, NEW t \in exitUsed', t \notin exitUsed
  PROVE  \E r \in Requests :
           (SetNX(r) \/ SetNXError(r) \/ SetNXRepeated(r)) /\ t = token(r)
  BY DEF Next, Handle, Issue, Expire, KeyExpires, Receive, StaffOpen,
         SetNX, SetNXError, SetNXRepeated, UpdateTokenUsed,
         UpdateTokenUsedError, SendOpen, SpawnDecrement,
         PublishCustomerExited, SendDeny, PublishReplayAlarm,
         PublishStaffOverride, DecrementStoreOccupancy, Crash, vars

LEMMA TakenByPresenterStep ==
  ASSUME IInv, RInv, [Next]_vars
  PROVE  TakenByPresenter'
<1> USE DEF IInv, TypeOK
<1>1. ASSUME NEW t \in exitUsed' PROVE \E q \in Requests : Taker(q, t)'
  <2>1. CASE t \in exitUsed
    BY <2>1, TakerStays DEF RInv, TakenByPresenter
  <2>2. CASE t \notin exitUsed
    <3>1. PICK r \in Requests :
            (SetNX(r) \/ SetNXError(r) \/ SetNXRepeated(r)) /\ t = token(r)
      BY <1>1, <2>2, NewKey
    <3>2. Taker(r, token(r))'
      BY <3>1, BecomesTaker DEF SetNX, SetNXError, SetNXRepeated, Goto
    <3>3. token(r)' = token(r)
      BY <3>1 DEF SetNX, SetNXError, SetNXRepeated, token
    <3> QED
      BY <3>1, <3>2, <3>3
  <2> QED
    BY <2>1, <2>2
<1>2. ASSUME NEW t \in Tokens, usedBy'[t] # NoRequest
      PROVE  Taker(usedBy[t], t)'
  <2>1. CASE usedBy'[t] = usedBy[t]
    <3>1. usedBy[t] \in Requests /\ Taker(usedBy[t], t)
      BY <1>2, <2>1 DEF RInv, TakenByPresenter
    <3> QED
      BY <2>1, <3>1, TakerStays DEF Taker, Verified, Customer, token
  <2>2. CASE usedBy'[t] # usedBy[t]
    <3>1. PICK r \in Requests :
            (UpdateTokenUsed(r) \/ UpdateTokenUsedError(r)) /\ usedBy' # usedBy
      BY <2>2
      DEF Next, Handle, Issue, Expire, KeyExpires, Receive, StaffOpen,
          SetNX, SetNXError, SetNXRepeated, SendOpen, SpawnDecrement,
          PublishCustomerExited, SendDeny, PublishReplayAlarm,
          PublishStaffOverride, DecrementStoreOccupancy, Crash, vars
    <3>2. Taker(r, token(r))' /\ token(r) \in Tokens
      BY <3>1, BecomesTaker
      DEF UpdateTokenUsed, UpdateTokenUsedError, Respond, Goto
    <3>3. t = token(r) /\ usedBy'[t] = r /\ token(r)' = token(r)
      BY <2>2, <3>1, <3>2
      DEF UpdateTokenUsed, UpdateTokenUsedError, Respond, Goto, token
    <3> QED
      BY <3>2, <3>3 DEF Taker, Verified, Customer, token
  <2> QED
    BY <2>1, <2>2
<1> QED
  BY <1>1, <1>2 DEF TakenByPresenter

(* A request becomes refused in two ways: its SETNX finds the key, or its  *)
(* UPDATE finds the row spent.                                             *)
LEMMA NewlyRefused ==
  ASSUME IInv, RInv, [Next]_vars, NEW r \in Requests, Refused(r)', ~Refused(r)
  PROVE  /\ input' = input /\ faults' = faults /\ Verified(r)
         /\ \/ SetNX(r) /\ token(r) \in exitUsed
            \/ SetNXRepeated(r)
            \/ UpdateTokenUsed(r) /\ usedBy[token(r)] # NoRequest
<1> USE DEF IInv, TypeOK, Respond, Goto
<1>1. CASE SetNX(r) \/ SetNXRepeated(r)
  BY <1>1, BecomesTaker DEF SetNX, SetNXRepeated, Refused, Customer
<1>2. CASE UpdateTokenUsed(r)
  <2>1. Verified(r) /\ Customer(r) /\ token(r) \in Tokens
    BY <1>2, BecomesTaker DEF UpdateTokenUsed
  <2>2. token(r) \in issued
    BY <2>1 DEF RInv, RefusedAreCustomers
  <2> QED
    BY <1>2, <2>1, <2>2 DEF UpdateTokenUsed, Unused, Refused, Customer, RInv, Unanswered
<1>3. ASSUME NEW q \in Requests, Receive(q) \/ StaffOpen(q)
      PROVE  FALSE
  BY <1>3 DEF Receive, Verify, StaffOpen, Refused, Customer, FreshSlots
<1>4. ASSUME NEW q \in Requests, Handle(q),
             q # r \/ ~(SetNX(r) \/ SetNXRepeated(r) \/ UpdateTokenUsed(r))
      PROVE  FALSE
  BY <1>4
  DEF Handle, SetNX, SetNXError, SetNXRepeated, UpdateTokenUsed,
      UpdateTokenUsedError, SendOpen, SpawnDecrement, PublishCustomerExited,
      SendDeny, PublishReplayAlarm, PublishStaffOverride, Refused, Customer
<1>5. ASSUME NEW q \in Requests, DecrementStoreOccupancy(q) \/ Crash(q)
      PROVE  FALSE
  BY <1>5 DEF DecrementStoreOccupancy, Crash, Refused, Customer
<1>6. ASSUME NEW t \in Tokens, Issue(t) \/ Expire(t) \/ KeyExpires(t)
      PROVE  FALSE
  BY <1>6 DEF Issue, Expire, KeyExpires, Refused, Customer
<1> QED
  BY <1>1, <1>2, <1>3, <1>4, <1>5, <1>6 DEF Next, vars, Refused, Customer

LEMMA FaultsStay == [Next]_vars => faults' = faults
  BY DEF Next, Handle, Issue, Expire, KeyExpires, Receive, StaffOpen,
         SetNX, SetNXError, SetNXRepeated, UpdateTokenUsed,
         UpdateTokenUsedError, SendOpen, SpawnDecrement,
         PublishCustomerExited, SendDeny, PublishReplayAlarm,
         PublishStaffOverride, DecrementStoreOccupancy, Crash, vars

LEMMA RefusedAfterAnotherStep ==
  ASSUME IInv, RInv, [Next]_vars
  PROVE  RefusedAfterAnother'
<1> SUFFICES ASSUME "reconnect" \notin faults, NEW r \in Requests, Refused(r)'
             PROVE  \E q \in Requests \ {r} : Verified(q)' /\ token(q)' = token(r)'
  BY FaultsStay DEF RefusedAfterAnother
<1>1. CASE Refused(r)
  <2>1. PICK q \in Requests \ {r} : Verified(q) /\ token(q) = token(r)
    BY <1>1 DEF RInv, RefusedAfterAnother
  <2>2. Verified(r)
    BY <1>1 DEF Refused, Verified, RInv, Unanswered
  <2> QED
    BY <2>1, <2>2, VerifiedStays
<1>2. CASE ~Refused(r)
  <2>1. PICK q \in Requests : Taker(q, token(r)) /\ q # r
    <3>2. pc[r] = "setnx" => \A q \in Requests : Taker(q, token(r)) => q # r
      BY DEF Taker
    <3>3. CASE SetNX(r) /\ token(r) \in exitUsed
      BY <3>2, <3>3 DEF SetNX, RInv, TakenByPresenter
    <3>4. CASE UpdateTokenUsed(r) /\ usedBy[token(r)] # NoRequest
      <4>1. Taker(usedBy[token(r)], token(r)) /\ usedBy[token(r)] \in Requests
        BY <3>4 DEF UpdateTokenUsed, IInv, TypeOK, VerifiedInFlight, Presentation,
                    token, RInv, TakenByPresenter
      <4>2. usedBy[token(r)] # r
        BY <3>4 DEF UpdateTokenUsed, IInv, VerifiedInFlight, Presentation,
                    token, SpenderIsPastUpdate
      <4> QED
        BY <4>1, <4>2
    <3> QED
      BY <1>2, <3>3, <3>4, NewlyRefused DEF SetNXRepeated
  <2> QED
    BY <1>2, <2>1, NewlyRefused, VerifiedStays DEF Taker
<1> QED
  BY <1>1, <1>2

LEMMA TakenIsHeldStep ==
  ASSUME IInv, RInv, [Next]_vars
  PROVE  TakenIsHeld'
<1> SUFFICES ASSUME faults = {}
             PROVE  /\ \A t \in exitUsed' : Held(t)'
                    /\ \A r \in Requests : Refused(r)' => Held(token(r))'
  BY FaultsStay DEF TakenIsHeld, Held, Refused, Customer, token
<1> USE DEF IInv, TypeOK
<1>1. ASSUME NEW t \in exitUsed' PROVE Held(t)'
  <2>1. CASE t \in exitUsed
    BY <2>1, HeldStays DEF RInv, TakenIsHeld
  <2>2. CASE t \notin exitUsed
    <3>1. PICK r \in Requests :
            (SetNX(r) \/ SetNXError(r) \/ SetNXRepeated(r)) /\ t = token(r)
      BY <1>1, <2>2, NewKey
    <3>2. pc'[r] = "update" /\ token(r)' = token(r)
      BY <2>2, <3>1 DEF SetNX, SetNXError, SetNXRepeated, Goto, token
    <3> QED
      BY <3>1, <3>2 DEF Held
  <2> QED
    BY <2>1, <2>2
<1>2. ASSUME NEW r \in Requests, Refused(r)'
      PROVE  Held(token(r))'
  <2>1. Held(token(r)) /\ token(r) \in Tokens /\ Verified(r)
    <3>1. CASE Refused(r)
      <4>1. token(r) \in Tokens
        BY <3>1 DEF Refused, RInv, RefusedAreCustomers
      <4> QED
        BY <3>1, <4>1 DEF RInv, TakenIsHeld, Refused, Verified, Unanswered
    <3>2. CASE ~Refused(r)
      <4>1. token(r) \in exitUsed \/ UpdateTokenUsed(r)
        BY <1>2, <3>2, NewlyRefused DEF SetNXRepeated
      <4>2. token(r) \in Tokens
        BY <4>1 DEF UpdateTokenUsed, VerifiedInFlight, Presentation, token
      <4> QED
        BY <1>2, <3>2, <4>1, <4>2, NewlyRefused
        DEF SetNXRepeated, RInv, TakenIsHeld, Held, UpdateTokenUsed
    <3> QED
      BY <3>1, <3>2
  <2> QED
    BY <2>1, HeldStays, VerifiedStays DEF Held
<1> QED
  BY <1>1, <1>2

LEMMA ReplayAlarmsAreRefusalsStep ==
  ASSUME IInv, RInv, [Next]_vars
  PROVE  ReplayAlarmsAreRefusals'
<1> USE DEF IInv, TypeOK, RInv, ReplayAlarmsAreRefusals, Respond, Goto, Attempt
<1>1. ASSUME NEW r \in Requests, Receive(r) \/ StaffOpen(r)
      PROVE  ReplayAlarmsAreRefusals'
  BY <1>1 DEF Receive, Verify, StaffOpen, FreshSlots
<1>2. ASSUME NEW r \in Requests, Handle(r)
      PROVE  ReplayAlarmsAreRefusals'
  BY <1>2
  DEF Handle, SetNX, SetNXError, SetNXRepeated, UpdateTokenUsed,
      UpdateTokenUsedError, SendOpen, SpawnDecrement, PublishCustomerExited,
      SendDeny, PublishReplayAlarm, PublishStaffOverride, Unanswered
<1>3. ASSUME NEW r \in Requests, DecrementStoreOccupancy(r) \/ Crash(r)
      PROVE  ReplayAlarmsAreRefusals'
  BY <1>3 DEF DecrementStoreOccupancy, Crash
<1>4. ASSUME NEW t \in Tokens, Issue(t) \/ Expire(t) \/ KeyExpires(t)
      PROVE  ReplayAlarmsAreRefusals'
  BY <1>4 DEF Issue, Expire, KeyExpires
<1> QED
  BY <1>1, <1>2, <1>3, <1>4 DEF Next, vars

(* Nobody is refused, and no replay alarm raised, over a token that nobody *)
(* else has presented, or whose row is not spent or about to be: Redis may *)
(* fail for anyone at any time (exit.go steps 4-5).  The driver's own      *)
(* repetition of SETNX is left out of the first, database errors and       *)
(* crashes of the second.                                                  *)
THEOREM JustRefusal == Spec => []RefusalIsJust
<1>1. IInv /\ RInv /\ [Next]_vars => RInv'
  BY UnansweredStep, RefusedAreCustomersStep, TakenByPresenterStep,
     RefusedAfterAnotherStep, TakenIsHeldStep, ReplayAlarmsAreRefusalsStep
  DEF RInv
<1>2. RInv => RefusalIsJust
  <2>1. RInv => DenialHasAnotherPresenter
    BY DEF RInv, RefusedAreCustomers, RefusedAfterAnother, Refused,
           DenialHasAnotherPresenter
  <2>2. RInv => ReplayAlarmIsGenuine
    BY DEF RInv, RefusedAreCustomers, ReplayAlarmsAreRefusals, TakenIsHeld,
           Refused, Held, ReplayAlarmIsGenuine
  <2> QED
    BY <2>1, <2>2 DEF RefusalIsJust
<1> QED
  BY InitRInv, <1>1, <1>2, SpecIInv, PTL DEF Spec
=============================================================================
