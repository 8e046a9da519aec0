--------------------------- MODULE ExitValidation ---------------------------
(***************************************************************************)
(* The exit-validation service: POST /v1/exit/validate and the staff       *)
(* override.  A validation request verifies the token, claims it in Redis  *)
(* (SETNX, 100 ms), then in PostgreSQL (UPDATE ... WHERE is_used = false), *)
(* and only then opens the gate.  Replicas share nothing but Redis and the *)
(* database, so a request is the unit of concurrency and of failure.       *)
(***************************************************************************)
CONSTANTS
  Tokens,      \* exit tokens (JWT strings; their SHA-256 is the row key)
  Requests,    \* request identifiers, each served at most once
  Stores,
  Users,
  NoRequest,   \* "no request": an unused row, an idle slot
  StoreOf,     \* the store_id claim of a token
  UserOf,      \* the user_id claim of a token
  Scenarios    \* sets of failures: each behaviour may suffer those of one set,
               \* out of "db", "crash" and "reconnect"

ASSUME ClaimsAssumption ==
  /\ StoreOf \in [Tokens -> Stores]
  /\ UserOf \in [Tokens -> Users]
  /\ NoRequest \notin Requests
  /\ NoRequest \notin [token: Tokens, store: Stores, user: Users]

VARIABLES
  faults,      \* the failures of this behaviour
  issued,      \* tokens with a row in exit_tokens
  usedBy,      \* is_used of each row, as the request whose UPDATE set it
  expired,     \* tokens past their ten-minute expiry
  exitUsed,    \* tokens with a Redis key exit_used:{hash}
  input,       \* what each request presents
  pc,          \* the next step of each request's handler
  answer,      \* the response of each request
  gate,        \* commands handed to the gate's MQTT topic
  alarms,      \* alarm events published to Kafka
  departures,  \* customer_exited events published to Kafka
  decrement,   \* decrementStoreOccupancy goroutines still to run
  audits       \* staff overrides published to Kafka

vars == <<faults, issued, usedBy, expired, exitUsed, input, pc, answer, gate,
          alarms, departures, decrement, audits>>

Presentation == [token: Tokens, store: Stores, user: Users]
Input == Presentation \union {NoRequest}
Label == {"idle", "setnx", "update", "open", "spawn", "exited", "deny",
          "alarm", "audit", "done", "crashed"}
Answer == {"none", "APPROVED", "EXIT_TOKEN_USED", "EXIT_TOKEN_EXPIRED",
           "EXIT_WRONG_STORE", "FORBIDDEN", "INTERNAL_ERROR"}
Command == [request: Requests, cmd: {"OPEN", "DENY"}]
Alarm == [request: Requests, type: {"WRONG_STORE_ATTEMPT", "QR_REPLAY_ATTEMPT"}]

(* Type invariant: every variable keeps the shape of the state it models. *)
TypeOK ==
  /\ faults \in Scenarios
  /\ issued \subseteq Tokens
  /\ usedBy \in [Tokens -> Requests \union {NoRequest}]
  /\ expired \subseteq Tokens
  /\ exitUsed \subseteq Tokens
  /\ input \in [Requests -> Input]
  /\ pc \in [Requests -> Label]
  /\ answer \in [Requests -> Answer]
  /\ gate \subseteq Command
  /\ alarms \subseteq Alarm
  /\ departures \subseteq Requests
  /\ decrement \subseteq Requests
  /\ audits \subseteq Requests

Init ==
  /\ faults \in Scenarios
  /\ issued = {} /\ expired = {} /\ exitUsed = {}
  /\ usedBy = [t \in Tokens |-> NoRequest]
  /\ input = [r \in Requests |-> NoRequest]
  /\ pc = [r \in Requests |-> "idle"]
  /\ answer = [r \in Requests |-> "none"]
  /\ gate = {} /\ alarms = {} /\ departures = {}
  /\ decrement = {} /\ audits = {}

token(r) == input[r].token

Goto(r, label) == pc' = [pc EXCEPT ![r] = label]

Respond(r, code) ==
  /\ Goto(r, "done")
  /\ answer' = [answer EXCEPT ![r] = code]

(* A publish whose error the handler discards: it may or may not happen. *)
Attempt(published, message) ==
  \/ published' = published \union {message}
  \/ published' = published

-----------------------------------------------------------------------------
(* The order service inserts a token's row before it hands the token out. *)
Issue(t) ==
  /\ t \notin issued
  /\ issued' = issued \union {t}
  /\ UNCHANGED <<faults, usedBy, expired, exitUsed, input, pc, answer, gate,
                 alarms, departures, decrement, audits>>

Expire(t) ==
  /\ t \in issued \ expired
  /\ expired' = expired \union {t}
  /\ UNCHANGED <<faults, issued, usedBy, exitUsed, input, pc, answer, gate,
                 alarms, departures, decrement, audits>>

(* The Redis key lives one hour, longer than the token it guards. *)
KeyExpires(t) ==
  /\ t \in exitUsed \intersect expired
  /\ exitUsed' = exitUsed \ {t}
  /\ UNCHANGED <<faults, issued, usedBy, expired, input, pc, answer, gate,
                 alarms, departures, decrement, audits>>

-----------------------------------------------------------------------------
(* Mutant of Verify: the user_id claim is not compared with the caller. *)
VerifyAnyUser(r, p) ==
  IF p.token \in expired THEN Respond(r, "EXIT_TOKEN_EXPIRED") /\ UNCHANGED alarms
  ELSE IF StoreOf[p.token] # p.store
    THEN /\ Attempt(alarms, [request |-> r, type |-> "WRONG_STORE_ATTEMPT"])
         /\ Respond(r, "EXIT_WRONG_STORE")
  ELSE Goto(r, "setnx") /\ UNCHANGED <<answer, alarms>>

(* Steps 1-3 of Validate: signature and expiry, store, user. *)
Verify(r, p) ==
  IF p.token \in expired THEN Respond(r, "EXIT_TOKEN_EXPIRED") /\ UNCHANGED alarms
  ELSE IF StoreOf[p.token] # p.store
    THEN /\ Attempt(alarms, [request |-> r, type |-> "WRONG_STORE_ATTEMPT"])
         /\ Respond(r, "EXIT_WRONG_STORE")
  ELSE IF UserOf[p.token] # p.user THEN Respond(r, "FORBIDDEN") /\ UNCHANGED alarms
  ELSE Goto(r, "setnx") /\ UNCHANGED <<answer, alarms>>

Receive(r) ==
  /\ pc[r] = "idle"
  /\ \E p \in Presentation :
       /\ p.token \in issued
       /\ input' = [input EXCEPT ![r] = p]
       /\ Verify(r, p)
  /\ UNCHANGED <<faults, issued, usedBy, expired, exitUsed, gate, departures,
                 decrement, audits>>

(* Step 4, Redis answers: the first SETNX of a token wins. *)
SetNX(r) ==
  /\ pc[r] = "setnx"
  /\ exitUsed' = exitUsed \union {token(r)}
  /\ Goto(r, IF token(r) \in exitUsed THEN "deny" ELSE "update")
  /\ UNCHANGED <<faults, issued, usedBy, expired, input, answer, gate, alarms,
                 departures, decrement, audits>>

(* Mutant of SetNXError: an unknown outcome is taken for "already used". *)
SetNXErrorDenies(r) ==
  /\ pc[r] = "setnx"
  /\ exitUsed' \in {exitUsed, exitUsed \union {token(r)}}
  /\ Goto(r, "deny")
  /\ UNCHANGED <<faults, issued, usedBy, expired, input, answer, gate, alarms,
                 departures, decrement, audits>>

(* Step 4, Redis fails or exceeds 100 ms: the key may have been set all the
   same, and the handler falls through to the database. *)
SetNXError(r) ==
  /\ pc[r] = "setnx"
  /\ exitUsed' \in {exitUsed, exitUsed \union {token(r)}}
  /\ Goto(r, "update")
  /\ UNCHANGED <<faults, issued, usedBy, expired, input, answer, gate, alarms,
                 departures, decrement, audits>>

(* go-redis sends a command again by itself when the connection breaks under
   it (the service leaves MaxRetries at its default); a first copy that Redis
   has executed makes the second find the request's own key. *)
SetNXRepeated(r) ==
  /\ "reconnect" \in faults
  /\ pc[r] = "setnx"
  /\ exitUsed' = exitUsed \union {token(r)}
  /\ Goto(r, "deny")
  /\ UNCHANGED <<faults, issued, usedBy, expired, input, answer, gate, alarms,
                 departures, decrement, audits>>

(* Mutant of Unused: the UPDATE without AND is_used = false. *)
UnusedOrUsed(t) == t \in issued

(* The row the conditional UPDATE matches. *)
Unused(t) == t \in issued /\ usedBy[t] = NoRequest

(* Step 5: UPDATE exit_tokens SET is_used = true WHERE ... is_used = false. *)
UpdateTokenUsed(r) ==
  /\ pc[r] = "update"
  /\ IF Unused(token(r))
       THEN usedBy' = [usedBy EXCEPT ![token(r)] = r] /\ Goto(r, "open")
       ELSE Goto(r, "deny") /\ UNCHANGED usedBy
  /\ UNCHANGED <<faults, issued, expired, exitUsed, input, answer, gate,
                 alarms, departures, decrement, audits>>

(* Step 5, the database fails or exceeds 5 s: the row may have been updated
   and the caller gets a 500.  Nothing undoes the Redis key. *)
UpdateTokenUsedError(r) ==
  /\ "db" \in faults
  /\ pc[r] = "update"
  /\ \/ UNCHANGED usedBy
     \/ Unused(token(r)) /\ usedBy' = [usedBy EXCEPT ![token(r)] = r]
  /\ Respond(r, "INTERNAL_ERROR")
  /\ UNCHANGED <<faults, issued, expired, exitUsed, input, gate, alarms,
                 departures, decrement, audits>>

(* Steps 6-7: the RFID lookup changes nothing; OPEN goes out by MQTT. *)
SendOpen(r) ==
  /\ pc[r] = "open"
  /\ Attempt(gate, [request |-> r, cmd |-> "OPEN"])
  /\ Goto(r, "spawn")
  /\ UNCHANGED <<faults, issued, usedBy, expired, exitUsed, input, answer,
                 alarms, departures, decrement, audits>>

(* Step 8: go s.decrementStoreOccupancy(...). *)
SpawnDecrement(r) ==
  /\ pc[r] = "spawn"
  /\ decrement' = decrement \union {r}
  /\ Goto(r, "exited")
  /\ UNCHANGED <<faults, issued, usedBy, expired, exitUsed, input, answer,
                 gate, alarms, departures, audits>>

(* Step 9 and the response. *)
PublishCustomerExited(r) ==
  /\ pc[r] = "exited"
  /\ Attempt(departures, r)
  /\ Respond(r, "APPROVED")
  /\ UNCHANGED <<faults, issued, usedBy, expired, exitUsed, input, gate,
                 alarms, decrement, audits>>

SendDeny(r) ==
  /\ pc[r] = "deny"
  /\ Attempt(gate, [request |-> r, cmd |-> "DENY"])
  /\ Goto(r, "alarm")
  /\ UNCHANGED <<faults, issued, usedBy, expired, exitUsed, input, answer,
                 alarms, departures, decrement, audits>>

PublishReplayAlarm(r) ==
  /\ pc[r] = "alarm"
  /\ Attempt(alarms, [request |-> r, type |-> "QR_REPLAY_ATTEMPT"])
  /\ Respond(r, "EXIT_TOKEN_USED")
  /\ UNCHANGED <<faults, issued, usedBy, expired, exitUsed, input, gate,
                 departures, decrement, audits>>

(* The goroutine's PUT to the store service ends, whatever its outcome. *)
DecrementStoreOccupancy(r) ==
  /\ r \in decrement
  /\ decrement' = decrement \ {r}
  /\ UNCHANGED <<faults, issued, usedBy, expired, exitUsed, input, pc, answer,
                 gate, alarms, departures, audits>>

-----------------------------------------------------------------------------
(* StaffOverride opens first and publishes the audit event afterwards. *)
StaffOpen(r) ==
  /\ pc[r] = "idle"
  /\ Attempt(gate, [request |-> r, cmd |-> "OPEN"])
  /\ Goto(r, "audit")
  /\ UNCHANGED <<faults, issued, usedBy, expired, exitUsed, input, answer,
                 alarms, departures, decrement, audits>>

PublishStaffOverride(r) ==
  /\ pc[r] = "audit"
  /\ Attempt(audits, r)
  /\ Respond(r, "APPROVED")
  /\ UNCHANGED <<faults, issued, usedBy, expired, exitUsed, input, gate,
                 alarms, departures, decrement>>

(* The replica serving r dies: its goroutines die with it. *)
Crash(r) ==
  /\ "crash" \in faults
  /\ pc[r] \notin {"idle", "crashed"}
  /\ pc[r] # "done" \/ r \in decrement
  /\ Goto(r, "crashed")
  /\ decrement' = decrement \ {r}
  /\ UNCHANGED <<faults, issued, usedBy, expired, exitUsed, input, answer,
                 gate, alarms, departures, audits>>

-----------------------------------------------------------------------------
Handle(r) ==
  \/ SetNX(r) \/ SetNXError(r) \/ SetNXRepeated(r)
  \/ UpdateTokenUsed(r) \/ UpdateTokenUsedError(r)
  \/ SendOpen(r) \/ SpawnDecrement(r) \/ PublishCustomerExited(r)
  \/ SendDeny(r) \/ PublishReplayAlarm(r)
  \/ PublishStaffOverride(r)

Next ==
  \/ \E t \in Tokens : Issue(t) \/ Expire(t) \/ KeyExpires(t)
  \/ \E r \in Requests :
       Receive(r) \/ StaffOpen(r) \/ Handle(r) \/ DecrementStoreOccupancy(r) \/ Crash(r)

Spec == Init /\ [][Next]_vars

(* Every step of a handler is local or a call with a timeout (Redis 100 ms,
   database 5 s, Kafka and MQTT fire-and-forget), so a handler that has
   begun keeps running unless its replica dies. *)
FairSpec == Spec /\ \A r \in Requests : WF_vars(Handle(r))
-----------------------------------------------------------------------------
Customer(r) == input[r] # NoRequest
OpenedFor(r) == [request |-> r, cmd |-> "OPEN"] \in gate

(* Everything that shows a customer was let out on the strength of a token. *)
Released(r) ==
  /\ Customer(r)
  /\ OpenedFor(r) \/ r \in decrement \/ r \in departures \/ answer[r] = "APPROVED"

(* One token lets one customer out once: the gate command, the occupancy
   decrement, the customer_exited event and the APPROVED answer of a token all
   belong to one request, through Redis outages, timeouts with unknown outcome,
   key expiry and crashes (exit.go steps 4-9). *)
OneReleasePerToken ==
  \A r, q \in Requests :
    Released(r) /\ Released(q) /\ token(r) = token(q) => r = q

(* Nobody is let out before the token is spent in the database by that very
   request, at the store and by the user the token names: a replica that dies
   at any point leaves a spent token, never an open gate and a live token. *)
ReleaseIsEntitled ==
  \A r \in Requests :
    Released(r) =>
      /\ usedBy[token(r)] = r
      /\ StoreOf[token(r)] = input[r].store
      /\ UserOf[token(r)] = input[r].user

(* A replay answer is never the fault of the request that gets it: whoever is
   told "already used" was preceded by another presentation of the token that
   passed verification.  The Redis error path must not count as "used".  (The
   driver's own repetition of SETNX does, and is left out of this.) *)
Verified(r) == Customer(r) /\ answer[r] \notin {"EXIT_TOKEN_EXPIRED", "EXIT_WRONG_STORE", "FORBIDDEN"}

DenialHasAnotherPresenter ==
  \A r \in Requests :
    answer[r] = "EXIT_TOKEN_USED" /\ "reconnect" \notin faults =>
      \E q \in Requests \ {r} : Verified(q) /\ token(q) = token(r)

(* Refinement: the database row claims the token, the MQTT command opens. *)
Promise == INSTANCE OneTimeToken WITH
  claimedBy <- usedBy,
  opened <- {r \in Requests : Customer(r) /\ OpenedFor(r)}

ImplementsOneTimeToken == Promise!Spec

(* Without database faults and crashes, concurrent presentations of a token
   cannot deny each other: once one passes verification, some request is
   approved with that token, even if Redis fails for either of them. *)
PresentedTokenIsHonoured ==
  \A t \in Tokens :
    (faults = {} /\ \E r \in Requests : pc[r] = "setnx" /\ token(r) = t)
      ~> (\E r \in Requests : answer[r] = "APPROVED" /\ Customer(r) /\ token(r) = t)

(* What the comment at exit.go:102 says of the replay alarm: the token is
   already used, or a request that claimed it is about to use it.  It is true
   as long as the database and the replicas do not fail, with Redis failing as
   it likes; after a database error the key stays and the customer's own retry
   raises the alarm. *)
ReplayAlarmIsGenuine ==
  \A r \in Requests :
    faults = {} /\ [request |-> r, type |-> "QR_REPLAY_ATTEMPT"] \in alarms =>
      \/ usedBy[token(r)] # NoRequest
      \/ \E q \in Requests : pc[q] = "update" /\ token(q) = token(r)

(* The gate opens once for a token, and to whom and where it is due. *)
ReleaseIsDue == OneReleasePerToken /\ ReleaseIsEntitled

(* Nobody is refused, and no alarm raised, over a token that nobody else has
   presented or that is not about to be used: a retry after a failure of Redis
   does not make its own customer a thief. *)
RefusalIsJust == DenialHasAnotherPresenter /\ ReplayAlarmIsGenuine
=============================================================================
