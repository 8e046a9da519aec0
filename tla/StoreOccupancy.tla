--------------------------- MODULE StoreOccupancy ---------------------------
(***************************************************************************)
(* The store service: customers enter through an entrance code (Bind) and  *)
(* leave (Exit), staff correct the count (UpdateCapacity).  The count of a *)
(* store and the store of a customer are two Redis keys, written one after *)
(* the other without a transaction by requests that run side by side.  A   *)
(* key that is not there reads as a count of 0, hence the count is a       *)
(* number throughout.                                                      *)
(***************************************************************************)
EXTENDS Integers, FiniteSets

CONSTANTS
  Customers, Staff, Stores,
  Capacity,     \* stores.capacity
  ChainOf,      \* stores.chain_id
  TokenChain,   \* the chain a staff member's JWT names, or None
  Codes,        \* rows of store_qr_tokens
  Disabled,     \* stores whose flag feature:store_entry is set to false
  Slots,        \* requests the service handles at a time
  MaxCount,     \* bound on the count, above for staff and below for Redis failing
  None,
  Scenarios     \* sets of disturbances: each behaviour may meet those of one
                \* set, out of "overlap" (requests of one customer side by
                \* side), "rebind" (a customer enters twice), "crowd" (two
                \* enter side by side), "staff", "expiry" and "redis"

Kinds == {"bind", "exit", "increment", "decrement"}

ASSUME StoreAssumption ==
  /\ Capacity \in [Stores -> Nat]
  /\ TokenChain \in [Staff -> {ChainOf[s] : s \in Stores} \union {None}]
  /\ None \notin {ChainOf[s] : s \in Stores} \union Stores \union Codes
  /\ None \notin Customers \union Staff \union Kinds
  /\ Customers \intersect Staff = {}
  /\ \A c \in Codes : c.store \in Stores
  /\ IsFiniteSet(Customers) /\ IsFiniteSet(Slots)
  /\ MaxCount \in Nat

VARIABLES
  faults,     \* the disturbances of this behaviour
  count,      \* store_occupancy:{store}
  session,    \* store_session:{user}
  revoked,    \* callers whose JWT is on the blacklist
  pc,         \* per slot: the next step of its request, or "idle"
  caller, place, kind   \* per slot: who asks, for which store, for what

request == <<caller, place, kind>>
vars == <<faults, count, session, revoked, pc, request>>

Callers == Customers \union Staff
Labels == {"idle", "check", "incr", "session", "decr", "reset", "leave"}

(* Type invariant: every variable keeps the shape of the state it models. *)
TypeOK ==
  /\ faults \in Scenarios
  /\ count \in [Stores -> Int]
  /\ session \in [Customers -> Stores \union {None}]
  /\ revoked \subseteq Callers
  /\ pc \in [Slots -> Labels]
  /\ caller \in [Slots -> Callers \union {None}]
  /\ place \in [Slots -> Stores \union {None}]
  /\ kind \in [Slots -> Kinds \union {None}]
  /\ \A r \in Slots : pc[r] # "idle" =>
       /\ place[r] \in Stores
       /\ kind[r] \in {"bind", "exit"} => caller[r] \in Customers
       /\ pc[r] \in {"incr", "session"} => kind[r] = "bind"
       /\ pc[r] = "leave" => kind[r] = "exit"
       /\ pc[r] \in {"decr", "reset"} => kind[r] \in {"exit", "decrement"}

Init ==
  /\ faults \in Scenarios
  /\ count = [s \in Stores |-> 0]
  /\ session = [u \in Customers |-> None]
  /\ revoked = {}
  /\ pc = [r \in Slots |-> "idle"]
  /\ caller = [r \in Slots |-> None]
  /\ place = [r \in Slots |-> None]
  /\ kind = [r \in Slots |-> None]

Goto(r, label) == pc' = [pc EXCEPT ![r] = label] /\ UNCHANGED request
Done(r) ==
  /\ pc' = [pc EXCEPT ![r] = "idle"]
  /\ caller' = [caller EXCEPT ![r] = None]
  /\ place' = [place EXCEPT ![r] = None]
  /\ kind' = [kind EXCEPT ![r] = None]

-----------------------------------------------------------------------------
(* requireAuth: the type of user a route asks for, then the blacklist.     *)
RequireAuth(type, c) ==
  /\ CASE type = "CUSTOMER" -> c \in Customers
       [] type = "STAFF" -> c \in Staff
       [] OTHER -> TRUE
  /\ c \notin revoked

(* ChainScope: staff reach the stores of the chain in their token only.    *)
ChainScope(c, s) ==
  c \in Staff => TokenChain[c] # None /\ ChainOf[s] = TokenChain[c]

(* The router: which middleware stands before which handler.               *)
Admitted(c, k, s) ==
  IF k \in {"bind", "exit"} THEN RequireAuth("CUSTOMER", c)
  ELSE RequireAuth("STAFF", c) /\ ChainScope(c, s)

Busy(u) == \E r \in Slots : caller[r] = u
Entering == {r \in Slots : kind[r] = "bind"}

(* What a behaviour of this scenario may ask for.                          *)
Expected(c, k) ==
  /\ "overlap" \in faults \/ ~ Busy(c)
  /\ k = "bind" => /\ "rebind" \in faults \/ session[c] = None
                   /\ "crowd" \in faults \/ Entering = {}
  /\ c \in Staff => "staff" \in faults

Arrive(r, c, k, s) ==
  /\ pc[r] = "idle"
  /\ Admitted(c, k, s) /\ Expected(c, k)
  /\ caller' = [caller EXCEPT ![r] = c]
  /\ kind' = [kind EXCEPT ![r] = k]
  /\ place' = [place EXCEPT ![r] = s]
  /\ pc' = [pc EXCEPT ![r] = "check"]
  /\ UNCHANGED <<faults, count, session, revoked>>

(* The auth service puts a token on the blacklist; requests that have      *)
(* passed the check go on.                                                 *)
Revoke(c) ==
  /\ "expiry" \in faults /\ c \notin revoked
  /\ revoked' = revoked \union {c}
  /\ UNCHANGED <<faults, count, session, pc, request>>

(* Any Redis command may fail; what follows an ignored error goes on.      *)
RedisFails == "redis" \in faults

-----------------------------------------------------------------------------
(* ValidateQRToken: the row is active, not past its time and an entrance.  *)
ValidQRToken(code) == code.active /\ ~ code.expired /\ code.type = "ENTRANCE"

(* isFeatureEnabled: a missing flag, or one that cannot be read, is open.  *)
FeatureEnabled(s) == s \notin Disabled \/ RedisFails

(* Mutant of HasRoom: the last place counts twice. *)
HasRoomOffByOne(s) == count[s] <= Capacity[s]

(* getCurrentOccupancy < store.Capacity *)
HasRoom(s) == count[s] < Capacity[s]

(* Bind up to the capacity check: refused, or on to the increment.         *)
BindCheck(r) ==
  /\ pc[r] = "check" /\ kind[r] = "bind"
  /\ \E code \in Codes :
       /\ code.store = place[r]
       /\ IF ValidQRToken(code) /\ FeatureEnabled(place[r]) /\ HasRoom(place[r])
            THEN Goto(r, "incr")
            ELSE Done(r)
  /\ UNCHANGED <<faults, count, session, revoked>>

BindIncr(r) ==
  /\ pc[r] = "incr"
  /\ \/ count' = [count EXCEPT ![place[r]] = @ + 1]
     \/ RedisFails /\ UNCHANGED count
  /\ Goto(r, "session")
  /\ UNCHANGED <<faults, session, revoked>>

(* SET store_session, used_count of the code and the event: errors are     *)
(* dropped or logged.                                                      *)
BindSession(r) ==
  /\ pc[r] = "session"
  /\ \/ session' = [session EXCEPT ![caller[r]] = place[r]]
     \/ RedisFails /\ UNCHANGED session
  /\ Done(r)
  /\ UNCHANGED <<faults, count, revoked>>

-----------------------------------------------------------------------------
(* Mutant of ExitCheck: the session of another store will do. *)
ExitCheckAnyStore(r) ==
  /\ pc[r] = "check" /\ kind[r] = "exit"
  /\ IF session[caller[r]] # None THEN Goto(r, "decr") ELSE Done(r)
  /\ UNCHANGED <<faults, count, session, revoked>>

(* Exit: the caller's session is the one of this store. *)
ExitCheck(r) ==
  /\ pc[r] = "check" /\ kind[r] = "exit"
  /\ IF session[caller[r]] = place[r] THEN Goto(r, "decr") ELSE Done(r)
  /\ UNCHANGED <<faults, count, session, revoked>>

(* UpdateCapacity("increment"). *)
Increment(r) ==
  /\ pc[r] = "check" /\ kind[r] = "increment"
  /\ count[place[r]] < MaxCount
  /\ \/ count' = [count EXCEPT ![place[r]] = @ + 1]
     \/ RedisFails /\ UNCHANGED count
  /\ Done(r)
  /\ UNCHANGED <<faults, session, revoked>>

(* UpdateCapacity("decrement") reads first, and leaves a 0 alone. *)
DecrementCheck(r) ==
  /\ pc[r] = "check" /\ kind[r] = "decrement"
  /\ IF count[place[r]] > 0 THEN Goto(r, "decr") ELSE Done(r)
  /\ UNCHANGED <<faults, count, session, revoked>>

(* The rest of the two handlers that decrement: Exit ends the session,     *)
(* UpdateCapacity answers.                                                 *)
AfterDecr(r) == IF kind[r] = "exit" THEN Goto(r, "leave") ELSE Done(r)

(* Mutant of Decr: the count is left below 0. *)
DecrUnrepaired(r) ==
  /\ pc[r] = "decr"
  /\ count' = [count EXCEPT ![place[r]] = @ - 1]
  /\ AfterDecr(r)
  /\ UNCHANGED <<faults, session, revoked>>

(* DECR; a result below 0 is to be set back to 0. *)
Decr(r) ==
  /\ pc[r] = "decr" /\ count[place[r]] > -MaxCount
  /\ \/ /\ count' = [count EXCEPT ![place[r]] = @ - 1]
        /\ IF count'[place[r]] < 0 THEN Goto(r, "reset") ELSE AfterDecr(r)
     \/ RedisFails /\ UNCHANGED count /\ AfterDecr(r)
  /\ UNCHANGED <<faults, session, revoked>>

(* SET store_occupancy 0: whoever came in since the DECR is forgotten. *)
Reset(r) ==
  /\ pc[r] = "reset"
  /\ \/ count' = [count EXCEPT ![place[r]] = 0]
     \/ RedisFails /\ UNCHANGED count
  /\ AfterDecr(r)
  /\ UNCHANGED <<faults, session, revoked>>

(* DEL store_session, and the event customer_exited. *)
ExitLeave(r) ==
  /\ pc[r] = "leave"
  /\ \/ session' = [session EXCEPT ![caller[r]] = None]
     \/ RedisFails /\ UNCHANGED session
  /\ Done(r)
  /\ UNCHANGED <<faults, count, revoked>>

(* Four hours later. *)
SessionExpires(u) ==
  /\ "expiry" \in faults /\ session[u] # None
  /\ session' = [session EXCEPT ![u] = None]
  /\ UNCHANGED <<faults, count, revoked, pc, request>>

(* A Redis GET fails: the request is answered with an error. *)
ReadFails(r) ==
  /\ RedisFails /\ pc[r] = "check"
  /\ Done(r)
  /\ UNCHANGED <<faults, count, session, revoked>>

-----------------------------------------------------------------------------
Serve(r) ==
  \/ BindCheck(r) \/ BindIncr(r) \/ BindSession(r)
  \/ ExitCheck(r) \/ ExitLeave(r)
  \/ Increment(r) \/ DecrementCheck(r) \/ Decr(r) \/ Reset(r)
  \/ ReadFails(r)

Next ==
  \/ \E r \in Slots, c \in Callers, k \in Kinds, s \in Stores : Arrive(r, c, k, s)
  \/ \E r \in Slots : Serve(r)
  \/ \E c \in Callers : Revoke(c)
  \/ \E u \in Customers : SessionExpires(u)

Spec == Init /\ [][Next]_vars

-----------------------------------------------------------------------------
(* Requests between the write of the count and the write of the session. *)
CameIn(s) == {r \in Slots : place[r] = s /\ pc[r] = "session"}
WentOut(s) == {r \in Slots : place[r] = s /\ pc[r] = "leave"}
Inside(s) == {u \in Customers : session[u] = s}

(* Customers who enter and leave in turn, however their requests run side  *)
(* by side with each other's, are counted exactly: the count of a store is *)
(* the number of customers with a session there, but for the requests that *)
(* have written one of the two keys and not yet the other.                 *)
OccupancyIsCustomersInside ==
  faults \subseteq {"crowd"} =>
    \A s \in Stores :
      count[s] = Cardinality(Inside(s)) + Cardinality(CameIn(s))
                   - Cardinality(WentOut(s))

(* "Store is at full capacity": when no two customers enter side by side   *)
(* and staff keep out of it, the count never passes the capacity; it stays *)
(* so even if requests of a customer overlap, enter twice, or time out.    *)
CapacityRespected ==
  faults \intersect {"crowd", "staff"} = {} =>
    \A s \in Stores : count[s] <= Capacity[s]

(* "Never below 0": unless Redis fails, a count below 0 is on its way to   *)
(* be set back, by as many requests as it is below 0.                      *)
Resetting(s) == {r \in Slots : place[r] = s /\ pc[r] = "reset"}
NegativeIsPassing ==
  "redis" \notin faults => \A s \in Stores : count[s] + Cardinality(Resetting(s)) >= 0

(* "NEVER skip this middleware": a request of a staff member that is being *)
(* served is for a store of that member's own chain.                       *)
StaffKeepToTheirChain ==
  \A r \in Slots : caller[r] \in Staff => ChainOf[place[r]] = TokenChain[caller[r]]

(* The count keeps between its bounds, the capacity and 0, for as long as  *)
(* the premise of each allows.                                             *)
CountStaysInBounds == CapacityRespected /\ NegativeIsPassing
=============================================================================
