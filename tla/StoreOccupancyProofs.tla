------------------------ MODULE StoreOccupancyProofs ------------------------
(***************************************************************************)
(* For every set of customers, staff, stores and requests: the count of a  *)
(* store is exact while customers act in turn, it keeps to the capacity    *)
(* while they enter in turn, a count below 0 is being repaired, and staff  *)
(* keep to the stores of their chain.  Last what its readers are shown: a  *)
(* full store, its hours, the nearest stores and the devices that report,  *)
(* for every input.                                                        *)
(***************************************************************************)
EXTENDS StoreOccupancy, StoreViews, FiniteSetTheorems, TLAPS

(* A request that is served has a caller of the kind its route admits. *)
RequestsAdmitted ==
  \A r \in Slots :
    /\ pc[r] # "idle" =>
         /\ caller[r] \in Callers /\ kind[r] \in Kinds
         /\ kind[r] \in {"increment", "decrement"} =>
              caller[r] \in Staff /\ "staff" \in faults
    /\ pc[r] = "idle" => caller[r] = None /\ place[r] = None /\ kind[r] = None

IInv == TypeOK /\ RequestsAdmitted /\ StaffKeepToTheirChain /\ NegativeIsPassing

(* The slots other than r keep what they have. *)
OnlyAt(r) ==
  \A q \in Slots : q # r =>
    /\ pc'[q] = pc[q] /\ caller'[q] = caller[q]
    /\ place'[q] = place[q] /\ kind'[q] = kind[q]

(* Slot r goes on with its request, or is done with it. *)
GoesOn(r, labels) ==
  /\ pc'[r] \in labels
  /\ caller'[r] = caller[r] /\ place'[r] = place[r] /\ kind'[r] = kind[r]
IsDone(r) == pc'[r] = "idle" /\ caller'[r] = None /\ place'[r] = None /\ kind'[r] = None

-----------------------------------------------------------------------------
LEMMA OneMore ==
  ASSUME NEW S, NEW T, NEW x, IsFiniteSet(S), x \notin S, T = S \union {x}
  PROVE  IsFiniteSet(T) /\ Cardinality(T) = Cardinality(S) + 1
  BY FS_AddElement

LEMMA OneLess ==
  ASSUME NEW S, NEW T, NEW x, IsFiniteSet(S), x \in S, T = S \ {x}
  PROVE  IsFiniteSet(T) /\ Cardinality(T) = Cardinality(S) - 1
  BY FS_RemoveElement

LEMMA SlotSetsFinite ==
  ASSUME NEW s
  PROVE  /\ IsFiniteSet(CameIn(s)) /\ Cardinality(CameIn(s)) \in Nat
         /\ IsFiniteSet(WentOut(s)) /\ Cardinality(WentOut(s)) \in Nat
         /\ IsFiniteSet(Resetting(s)) /\ Cardinality(Resetting(s)) \in Nat
         /\ IsFiniteSet(Inside(s)) /\ Cardinality(Inside(s)) \in Nat
<1>1. /\ CameIn(s) \subseteq Slots /\ WentOut(s) \subseteq Slots
      /\ Resetting(s) \subseteq Slots /\ Inside(s) \subseteq Customers
  BY DEF CameIn, WentOut, Resetting, Inside
<1>2. IsFiniteSet(Slots) /\ IsFiniteSet(Customers)
  BY StoreAssumption
<1>3. /\ IsFiniteSet(CameIn(s)) /\ IsFiniteSet(WentOut(s))
      /\ IsFiniteSet(Resetting(s)) /\ IsFiniteSet(Inside(s))
  BY <1>1, <1>2, FS_Subset
<1> QED
  BY <1>3, FS_CardinalityType

-----------------------------------------------------------------------------
(* What a step of the handlers does to its slot. *)
LEMMA GotoShape ==
  ASSUME TypeOK, NEW r \in Slots, NEW label, Goto(r, label)
  PROVE  OnlyAt(r) /\ GoesOn(r, {label})
  BY DEF Goto, request, OnlyAt, GoesOn, TypeOK

LEMMA DoneShape ==
  ASSUME TypeOK, NEW r \in Slots, Done(r)
  PROVE  OnlyAt(r) /\ IsDone(r)
  BY DEF Done, OnlyAt, IsDone, TypeOK

LEMMA ArriveShape ==
  ASSUME TypeOK, NEW r \in Slots, NEW c, NEW k, NEW s, Arrive(r, c, k, s)
  PROVE  /\ OnlyAt(r) /\ pc[r] = "idle" /\ pc'[r] = "check"
         /\ caller'[r] = c /\ kind'[r] = k /\ place'[r] = s
  BY DEF Arrive, OnlyAt, TypeOK

(* The type of the slots follows from what a step does to its own. *)
SlotsTyped ==
  /\ pc \in [Slots -> Labels]
  /\ caller \in [Slots -> Callers \union {None}]
  /\ place \in [Slots -> Stores \union {None}]
  /\ kind \in [Slots -> Kinds \union {None}]

LEMMA SlotsTypes ==
  ASSUME SlotsTyped, NEW r \in Slots,
         (\E label \in Labels : Goto(r, label)) \/ Done(r)
  PROVE  SlotsTyped'
  BY DEF SlotsTyped, Goto, Done, request, Labels

LEMMA ServeSlots ==
  ASSUME TypeOK, NEW r \in Slots, Serve(r)
  PROVE  /\ SlotsTyped' /\ OnlyAt(r)
         /\ IsDone(r) \/ GoesOn(r, Labels \ {"idle"})
         /\ UNCHANGED <<faults, revoked>>
<1>0. SlotsTyped
  BY DEF SlotsTyped, TypeOK
<1>1. (\E label \in Labels \ {"idle"} : Goto(r, label)) \/ Done(r)
  <2>1. CASE BindCheck(r) \/ BindIncr(r) \/ BindSession(r)
    BY <2>1 DEF BindCheck, BindIncr, BindSession, Labels
  <2>2. CASE ExitCheck(r) \/ ExitLeave(r)
    BY <2>2 DEF ExitCheck, ExitLeave, Labels
  <2>3. CASE Increment(r) \/ DecrementCheck(r) \/ ReadFails(r)
    BY <2>3 DEF Increment, DecrementCheck, ReadFails, Labels
  <2>4. CASE Decr(r) \/ Reset(r)
    BY <2>4 DEF Decr, Reset, AfterDecr, Labels
  <2> QED
    BY <2>1, <2>2, <2>3, <2>4 DEF Serve
<1>2. UNCHANGED <<faults, revoked>>
  BY DEF Serve, BindCheck, BindIncr, BindSession, ExitCheck, ExitLeave, Increment,
         DecrementCheck, ReadFails, Decr, Reset
<1>3. SlotsTyped'
  BY <1>0, <1>1, SlotsTypes
<1>4. CASE Done(r)
  BY <1>2, <1>3, <1>4, DoneShape
<1>5. ASSUME NEW label \in Labels \ {"idle"}, Goto(r, label)
      PROVE  OnlyAt(r) /\ GoesOn(r, Labels \ {"idle"})
  BY <1>5, GotoShape DEF GoesOn
<1> QED
  BY <1>1, <1>2, <1>3, <1>4, <1>5

-----------------------------------------------------------------------------
LEMMA InitIInv == Init => IInv
<1> SUFFICES ASSUME Init PROVE IInv
  OBVIOUS
<1>1. TypeOK /\ RequestsAdmitted /\ StaffKeepToTheirChain
  BY StoreAssumption
  DEF Init, TypeOK, Labels, RequestsAdmitted, StaffKeepToTheirChain
<1>2. NegativeIsPassing
  BY SlotSetsFinite DEF NegativeIsPassing, Init
<1> QED
  BY <1>1, <1>2 DEF IInv

(* Where no slot starts or ends a reset, none is counted more or less. *)
LEMMA SameResets ==
  ASSUME NEW r \in Slots, OnlyAt(r), pc[r] # "reset", pc'[r] # "reset", NEW s
  PROVE  Resetting(s)' = Resetting(s)
  BY DEF OnlyAt, Resetting

LEMMA ArriveStep ==
  ASSUME IInv, NEW r \in Slots, NEW c \in Callers, NEW k \in Kinds, NEW s \in Stores,
         Arrive(r, c, k, s)
  PROVE  IInv'
<1> USE DEF IInv
<1>1. /\ OnlyAt(r) /\ pc[r] = "idle" /\ pc'[r] = "check"
      /\ caller'[r] = c /\ kind'[r] = k /\ place'[r] = s
  BY ArriveShape
<1>2. UNCHANGED <<faults, count, session, revoked>>
  BY DEF Arrive
<1>3. k \in {"bind", "exit"} => c \in Customers
  BY DEF Arrive, Admitted, RequireAuth
<1>4. k \in {"increment", "decrement"} => c \in Staff /\ "staff" \in faults
  BY StoreAssumption DEF Arrive, Admitted, RequireAuth, Expected
<1>5. c \in Staff => ChainOf[s] = TokenChain[c]
  BY <1>3, StoreAssumption DEF Arrive, Admitted, ChainScope, Kinds
<1>6. TypeOK'
  <2>1. SlotsTyped'
    BY DEF Arrive, TypeOK, SlotsTyped, Labels
  <2> QED
    BY <1>1, <1>2, <1>3, <2>1 DEF TypeOK, SlotsTyped, OnlyAt
<1>7. RequestsAdmitted'
  BY <1>1, <1>2, <1>4 DEF RequestsAdmitted, OnlyAt
<1>8. StaffKeepToTheirChain'
  BY <1>1, <1>5 DEF StaffKeepToTheirChain, OnlyAt
<1>9. NegativeIsPassing'
  BY <1>1, <1>2, SameResets DEF NegativeIsPassing
<1> QED
  BY <1>6, <1>7, <1>8, <1>9

(* The steps of the handlers: what they write, and where they go. *)
LEMMA ServeTypes ==
  ASSUME IInv, NEW r \in Slots, Serve(r)
  PROVE  TypeOK'
<1> USE DEF IInv
<1>1. SlotsTyped' /\ OnlyAt(r) /\ UNCHANGED <<faults, revoked>>
  BY ServeSlots
<1>2. pc[r] # "idle" /\ place[r] \in Stores
  BY DEF Serve, BindCheck, BindIncr, BindSession, ExitCheck, ExitLeave, Increment,
         DecrementCheck, ReadFails, Decr, Reset, TypeOK
<1>3. count' \in [Stores -> Int] /\ session' \in [Customers -> Stores \union {None}]
  BY <1>2 DEF Serve, BindCheck, BindIncr, BindSession, ExitCheck, ExitLeave, Increment,
              DecrementCheck, ReadFails, Decr, Reset, TypeOK
<1>4. pc'[r] # "idle" =>
        /\ place'[r] \in Stores
        /\ kind'[r] \in {"bind", "exit"} => caller'[r] \in Customers
        /\ pc'[r] \in {"incr", "session"} => kind'[r] = "bind"
        /\ pc'[r] = "leave" => kind'[r] = "exit"
        /\ pc'[r] \in {"decr", "reset"} => kind'[r] \in {"exit", "decrement"}
  <2>1. CASE BindCheck(r) \/ BindIncr(r) \/ BindSession(r)
    BY <1>2, <2>1, GotoShape, DoneShape
    DEF BindCheck, BindIncr, BindSession, GoesOn, IsDone, TypeOK
  <2>2. CASE ExitCheck(r) \/ ExitLeave(r) \/ ReadFails(r)
    BY <1>2, <2>2, GotoShape, DoneShape
    DEF ExitCheck, ExitLeave, ReadFails, GoesOn, IsDone, TypeOK
  <2>3. CASE Increment(r) \/ DecrementCheck(r)
    BY <1>2, <2>3, GotoShape, DoneShape
    DEF Increment, DecrementCheck, GoesOn, IsDone, TypeOK
  <2>4. CASE Decr(r) \/ Reset(r)
    BY <1>2, <2>4, GotoShape, DoneShape
    DEF Decr, Reset, AfterDecr, GoesOn, IsDone, TypeOK
  <2> QED
    BY <2>1, <2>2, <2>3, <2>4 DEF Serve
<1> QED
  BY <1>1, <1>3, <1>4 DEF TypeOK, SlotsTyped, OnlyAt

LEMMA ServeNegative ==
  ASSUME IInv, NEW r \in Slots, Serve(r)
  PROVE  NegativeIsPassing'
<1> USE DEF IInv
<1> SUFFICES ASSUME "redis" \notin faults, NEW s \in Stores
             PROVE  count'[s] + Cardinality(Resetting(s)') >= 0
  BY ServeSlots DEF NegativeIsPassing
<1> DEFINE n == Cardinality(Resetting(s))
           m == Cardinality(Resetting(s)')
<1>1. n \in Nat /\ m \in Nat /\ count[s] \in Int /\ count[s] + n >= 0
  <2>1. m \in Nat
    <3>1. Resetting(s)' \subseteq Slots
      BY DEF Resetting
    <3> QED
      BY <3>1, StoreAssumption, FS_Subset, FS_CardinalityType
  <2> QED
    BY <2>1, SlotSetsFinite DEF NegativeIsPassing, TypeOK
<1>2. OnlyAt(r)
  BY ServeSlots
<1>3. CASE pc[r] # "reset" /\ pc'[r] # "reset" /\ count'[s] >= count[s] /\ count'[s] \in Int
  BY <1>1, <1>2, <1>3, SameResets
<1>4. CASE BindCheck(r) \/ BindIncr(r) \/ BindSession(r)
  BY <1>1, <1>3, <1>4, GotoShape, DoneShape
  DEF BindCheck, BindIncr, BindSession, GoesOn, IsDone, TypeOK
<1>5. CASE ExitCheck(r) \/ ExitLeave(r) \/ Increment(r) \/ DecrementCheck(r)
  BY <1>1, <1>3, <1>5, GotoShape, DoneShape
  DEF ExitCheck, ExitLeave, Increment, DecrementCheck, GoesOn, IsDone, TypeOK
<1>6. CASE Decr(r)
  <2>1. pc[r] = "decr" /\ count' = [count EXCEPT ![place[r]] = @ - 1]
    BY <1>6 DEF Decr, RedisFails
  <2>2. CASE Goto(r, "reset") /\ count'[place[r]] < 0
    <3>1. pc'[r] = "reset" /\ place'[r] = place[r]
      BY <2>2, GotoShape DEF GoesOn
    <3>2. CASE place[r] = s
      <4>1. Resetting(s)' = Resetting(s) \union {r} /\ r \notin Resetting(s)
        BY <1>2, <2>1, <3>1, <3>2 DEF OnlyAt, Resetting
      <4>2. m = n + 1
        BY <4>1, OneMore, SlotSetsFinite
      <4> QED
        BY <1>1, <2>1, <3>2, <4>2 DEF TypeOK
    <3>3. CASE place[r] # s
      <4>1. Resetting(s)' = Resetting(s)
        BY <1>2, <2>1, <3>1, <3>3 DEF OnlyAt, Resetting
      <4> QED
        BY <1>1, <2>1, <3>3, <4>1 DEF TypeOK
    <3> QED
      BY <3>2, <3>3
  <2>3. CASE AfterDecr(r) /\ ~ count'[place[r]] < 0
    <3>1. pc'[r] # "reset"
      BY <2>3, GotoShape, DoneShape DEF AfterDecr, GoesOn, IsDone
    <3>2. m = n
      BY <1>2, <2>1, <3>1, SameResets
    <3> QED
      BY <1>1, <2>1, <2>3, <3>2 DEF TypeOK
  <2> QED
    BY <1>6, <2>2, <2>3 DEF Decr, RedisFails
<1>7. CASE Reset(r)
  <2>1. pc[r] = "reset" /\ count' = [count EXCEPT ![place[r]] = 0]
    BY <1>7 DEF Reset, RedisFails
  <2>2. CASE place[r] = s
    BY <1>1, <2>1, <2>2 DEF TypeOK
  <2>3. CASE place[r] # s
    <3>1. pc'[r] # "reset"
      BY <1>7, GotoShape, DoneShape DEF Reset, AfterDecr, GoesOn, IsDone
    <3>2. Resetting(s)' = Resetting(s)
      BY <1>2, <2>1, <2>3, <3>1 DEF OnlyAt, Resetting
    <3> QED
      BY <1>1, <2>1, <2>3, <3>2 DEF TypeOK
  <2> QED
    BY <2>2, <2>3
<1> QED
  BY <1>4, <1>5, <1>6, <1>7 DEF Serve, ReadFails, RedisFails

LEMMA ServeStep ==
  ASSUME IInv, NEW r \in Slots, Serve(r)
  PROVE  IInv'
<1>1. /\ OnlyAt(r) /\ UNCHANGED faults
      /\ IsDone(r) \/ GoesOn(r, Labels \ {"idle"})
  BY ServeSlots DEF IInv
<1>2. pc[r] # "idle"
  BY DEF Serve, BindCheck, BindIncr, BindSession, ExitCheck, ExitLeave, Increment,
         DecrementCheck, ReadFails, Decr, Reset
<1>3. RequestsAdmitted'
  BY <1>1, <1>2 DEF IInv, RequestsAdmitted, OnlyAt, IsDone, GoesOn
<1>4. StaffKeepToTheirChain'
  BY <1>1, StoreAssumption DEF IInv, StaffKeepToTheirChain, OnlyAt, IsDone, GoesOn
<1> QED
  BY <1>3, <1>4, ServeTypes, ServeNegative DEF IInv

LEMMA NextIInv == IInv /\ [Next]_vars => IInv'
<1> SUFFICES ASSUME IInv, [Next]_vars PROVE IInv'
  OBVIOUS
<1>1. ASSUME NEW c \in Callers, Revoke(c) PROVE IInv'
  BY <1>1 DEF IInv, Revoke, request, TypeOK, RequestsAdmitted, StaffKeepToTheirChain,
              NegativeIsPassing, Resetting
<1>2. ASSUME NEW u \in Customers, SessionExpires(u) PROVE IInv'
  BY <1>2 DEF IInv, SessionExpires, request, TypeOK, RequestsAdmitted,
              StaffKeepToTheirChain, NegativeIsPassing, Resetting
<1>3. CASE UNCHANGED vars
  BY <1>3 DEF IInv, vars, request, TypeOK, RequestsAdmitted, StaffKeepToTheirChain,
              NegativeIsPassing, Resetting
<1> QED
  BY <1>1, <1>2, <1>3, ArriveStep, ServeStep DEF Next

LEMMA Invariance == Spec => []IInv
  BY InitIInv, NextIInv, PTL DEF Spec

(* Every variable keeps its shape (the handlers of the store service).     *)
THEOREM TypeCorrect == Spec => []TypeOK
<1>1. IInv => TypeOK
  BY DEF IInv
<1> QED
  BY <1>1, Invariance, PTL

(* ChainScope: a request of a staff member that is served is for a store   *)
(* of the chain in the member's token.                                     *)
THEOREM StaffScope == Spec => []StaffKeepToTheirChain
<1>1. IInv => StaffKeepToTheirChain
  BY DEF IInv
<1> QED
  BY <1>1, Invariance, PTL

(* While Redis works, every unit a count is below 0 has a request that     *)
(* sets it back (Exit and UpdateCapacity).                                 *)
THEOREM NegativeIsRepaired == Spec => []NegativeIsPassing
<1>1. IInv => NegativeIsPassing
  BY DEF IInv
<1> QED
  BY <1>1, Invariance, PTL

-----------------------------------------------------------------------------
(* Customers who enter in turn: the one past the check still has its room. *)
InTurn == faults \intersect {"crowd", "staff"} = {}

OneEnters == \A q, r \in Slots : kind[q] = "bind" /\ kind[r] = "bind" => q = r

WithinCapacity == \A s \in Stores : count[s] <= Capacity[s]

RoomIsKept ==
  \A r \in Slots : pc[r] = "incr" =>
    Capacity[place[r]] > 0 /\ count[place[r]] < Capacity[place[r]]

(* A store without room stays as it was. *)
ClosedIsEmpty ==
  \A s \in Stores : Capacity[s] = 0 =>
    /\ count[s] = 0
    /\ \A u \in Customers : session[u] # s
    /\ \A r \in Slots : place[r] = s => pc[r] \in {"idle", "check"}

CapacityInv ==
  InTurn => OneEnters /\ WithinCapacity /\ RoomIsKept /\ ClosedIsEmpty

LEMMA ServeCapacity ==
  ASSUME IInv, CapacityInv, NEW r \in Slots, Serve(r)
  PROVE  CapacityInv'
<1>1. OnlyAt(r) /\ faults' = faults
  BY ServeSlots DEF IInv
<1> SUFFICES ASSUME InTurn
             PROVE  OneEnters' /\ WithinCapacity' /\ RoomIsKept' /\ ClosedIsEmpty'
  BY <1>1 DEF CapacityInv, InTurn
<1>2. OneEnters /\ WithinCapacity /\ RoomIsKept /\ ClosedIsEmpty
  BY DEF CapacityInv
<1> USE <1>1, <1>2
<1>3. OneEnters'
  BY ServeSlots, StoreAssumption DEF IInv, OneEnters, OnlyAt, IsDone, GoesOn, Kinds
<1>4. TypeOK /\ RequestsAdmitted
  BY DEF IInv
<1>5. pc[r] # "idle" /\ place[r] \in Stores /\ Capacity[place[r]] \in Nat
      /\ count[place[r]] \in Int
  BY <1>4, StoreAssumption
  DEF Serve, BindCheck, BindIncr, BindSession, ExitCheck, ExitLeave, Increment,
      DecrementCheck, ReadFails, Decr, Reset, TypeOK
<1>6. kind[r] \in {"bind", "exit"}
  BY <1>4, <1>5 DEF RequestsAdmitted, InTurn, Kinds
<1> DEFINE p == place[r]
<1>7. ASSUME pc[r] # "check" PROVE Capacity[p] > 0
  BY <1>5, <1>7 DEF ClosedIsEmpty
<1>8. pc'[r] = "idle" \/ place'[r] = p
  BY <1>4, ServeSlots DEF IsDone, GoesOn, IInv
(* Steps that leave the count alone. *)
<1>9. ASSUME UNCHANGED count, pc'[r] = "incr" => Capacity[p] > 0 /\ count[p] < Capacity[p],
             \A u \in Customers : session'[u] = session[u] \/ session'[u] = None
                                   \/ (session'[u] = p /\ Capacity[p] > 0),
             Capacity[p] = 0 => pc'[r] \in {"idle", "check"}
      PROVE  WithinCapacity' /\ RoomIsKept' /\ ClosedIsEmpty'
  <2>1. WithinCapacity' /\ RoomIsKept'
    BY <1>8, <1>9 DEF WithinCapacity, RoomIsKept, OnlyAt
  <2>2. ASSUME NEW s \in Stores, Capacity[s] = 0
        PROVE  /\ count'[s] = 0
               /\ \A u \in Customers : session'[u] # s
               /\ \A q \in Slots : place'[q] = s => pc'[q] \in {"idle", "check"}
    <3>1. s # None
      BY StoreAssumption
    <3> QED
      BY <1>8, <1>9, <2>2, <3>1 DEF ClosedIsEmpty, OnlyAt
  <2> QED
    BY <2>1, <2>2 DEF ClosedIsEmpty
(* Steps that write the count of p, which has room. *)
<1>10. ASSUME \A s \in Stores : s # p => count'[s] = count[s], UNCHANGED session,
              count'[p] <= Capacity[p], Capacity[p] > 0, pc'[r] # "incr",
              \A q \in Slots : q # r /\ pc[q] = "incr" => count'[p] < Capacity[p]
       PROVE  WithinCapacity' /\ RoomIsKept' /\ ClosedIsEmpty'
  <2>2. WithinCapacity'
    BY <1>10 DEF WithinCapacity
  <2>3. RoomIsKept'
    <3> SUFFICES ASSUME NEW q \in Slots, pc'[q] = "incr"
                 PROVE  /\ Capacity[place'[q]] > 0
                        /\ count'[place'[q]] < Capacity[place'[q]]
      BY DEF RoomIsKept
    <3>1. q # r /\ pc[q] = "incr" /\ place'[q] = place[q] /\ place[q] \in Stores
      BY <1>4, <1>10 DEF OnlyAt, TypeOK
    <3> QED
      BY <1>10, <3>1 DEF RoomIsKept
  <2>4. ClosedIsEmpty'
    BY <1>8, <1>10 DEF ClosedIsEmpty, OnlyAt
  <2> QED
    BY <2>2, <2>3, <2>4
<1>11. CASE BindCheck(r)
  <2>1. UNCHANGED <<count, session>> /\ pc'[r] \in {"idle", "incr"}
    BY <1>4, <1>11, GotoShape, DoneShape DEF BindCheck, GoesOn, IsDone
  <2>2. pc'[r] = "incr" => count[p] < Capacity[p]
    BY <1>4, <1>11, GotoShape, DoneShape DEF BindCheck, GoesOn, IsDone, HasRoom
  <2>3. pc'[r] = "incr" => Capacity[p] > 0
    BY <1>5, <2>2 DEF ClosedIsEmpty
  <2> QED
    BY <1>3, <1>5, <1>9, <2>1, <2>2, <2>3
<1>12. CASE BindIncr(r)
  <2>1. pc[r] = "incr" /\ pc'[r] = "session" /\ UNCHANGED session /\ kind[r] = "bind"
    BY <1>4, <1>12, GotoShape DEF BindIncr, GoesOn, TypeOK
  <2>2. Capacity[p] > 0 /\ count[p] < Capacity[p]
    BY <2>1 DEF RoomIsKept
  <2>3. \A q \in Slots : q # r => pc[q] # "incr"
    BY <1>4, <2>1 DEF OneEnters, TypeOK
  <2>4. CASE count' = [count EXCEPT ![p] = count[p] + 1]
    <3>1. /\ count'[p] = count[p] + 1 /\ count'[p] <= Capacity[p]
          /\ \A s \in Stores : s # p => count'[s] = count[s]
      BY <1>4, <1>5, <2>2, <2>4 DEF TypeOK
    <3> QED
      BY <1>3, <1>10, <2>1, <2>2, <2>3, <3>1
  <2>5. CASE UNCHANGED count
    BY <1>3, <1>9, <2>1, <2>2, <2>5
  <2> QED
    BY <1>12, <2>4, <2>5 DEF BindIncr
<1>13. CASE BindSession(r)
  <2>1. pc[r] = "session" /\ pc'[r] = "idle" /\ UNCHANGED count
    BY <1>4, <1>13, DoneShape DEF BindSession, IsDone
  <2>2. \A u \in Customers : session'[u] \in {session[u], p}
    BY <1>4, <1>13 DEF BindSession, TypeOK
  <2> QED
    BY <1>3, <1>7, <1>9, <2>1, <2>2
<1>14. CASE ExitCheck(r)
  <2>1. UNCHANGED <<count, session>> /\ pc'[r] \in {"idle", "decr"} /\ caller[r] \in Customers
    BY <1>4, <1>14, GotoShape, DoneShape DEF ExitCheck, GoesOn, IsDone, TypeOK
  <2>2. pc'[r] = "decr" => session[caller[r]] = p
    BY <1>4, <1>14, GotoShape, DoneShape DEF ExitCheck, GoesOn, IsDone
  <2>3. Capacity[p] = 0 => pc'[r] = "idle"
    BY <1>5, <2>1, <2>2 DEF ClosedIsEmpty
  <2> QED
    BY <1>3, <1>9, <2>1, <2>3
<1>15. CASE Decr(r)
  <2>1. pc[r] = "decr" /\ pc'[r] \in {"idle", "reset", "leave"} /\ UNCHANGED session
    BY <1>4, <1>15, GotoShape, DoneShape DEF Decr, AfterDecr, GoesOn, IsDone
  <2>2. CASE count' = [count EXCEPT ![p] = count[p] - 1]
    <3>1. count[p] <= Capacity[p]
      BY <1>5 DEF WithinCapacity
    <3>2. /\ count'[p] < Capacity[p] /\ count'[p] <= Capacity[p]
          /\ \A s \in Stores : s # p => count'[s] = count[s]
      BY <1>4, <1>5, <2>2, <3>1 DEF TypeOK
    <3> QED
      BY <1>3, <1>7, <1>10, <2>1, <3>2
  <2>3. CASE UNCHANGED count
    BY <1>3, <1>7, <1>9, <2>1, <2>3
  <2> QED
    BY <1>15, <2>2, <2>3 DEF Decr
<1>16. CASE Reset(r)
  <2>1. pc[r] = "reset" /\ pc'[r] \in {"idle", "leave"} /\ UNCHANGED session
    BY <1>4, <1>16, GotoShape, DoneShape DEF Reset, AfterDecr, GoesOn, IsDone
  <2>2. CASE count' = [count EXCEPT ![p] = 0]
    <3>1. count'[p] = 0 /\ \A s \in Stores : s # p => count'[s] = count[s]
      BY <1>4, <1>5, <2>2 DEF TypeOK
    <3> QED
      BY <1>3, <1>5, <1>7, <1>10, <2>1, <3>1
  <2>3. CASE UNCHANGED count
    BY <1>3, <1>7, <1>9, <2>1, <2>3
  <2> QED
    BY <1>16, <2>2, <2>3 DEF Reset
<1>17. CASE ExitLeave(r)
  <2>1. pc[r] = "leave" /\ pc'[r] = "idle" /\ UNCHANGED count
    BY <1>4, <1>17, DoneShape DEF ExitLeave, IsDone
  <2>2. \A u \in Customers : session'[u] \in {session[u], None}
    BY <1>4, <1>17 DEF ExitLeave, TypeOK
  <2> QED
    BY <1>3, <1>9, <2>1, <2>2
<1>18. CASE ReadFails(r)
  BY <1>3, <1>4, <1>9, <1>18, DoneShape DEF ReadFails, IsDone
<1>19. ~ Increment(r) /\ ~ DecrementCheck(r)
  BY <1>6 DEF Increment, DecrementCheck
<1> QED
  BY <1>11, <1>12, <1>13, <1>14, <1>15, <1>16, <1>17, <1>18, <1>19 DEF Serve

LEMMA ArriveCapacity ==
  ASSUME IInv, CapacityInv, NEW r \in Slots, NEW c \in Callers, NEW k \in Kinds,
         NEW s \in Stores, Arrive(r, c, k, s)
  PROVE  CapacityInv'
<1>1. /\ OnlyAt(r) /\ pc[r] = "idle" /\ pc'[r] = "check"
      /\ kind'[r] = k /\ place'[r] = s
  BY ArriveShape DEF IInv
<1>2. UNCHANGED <<faults, count, session>>
  BY DEF Arrive
<1>3. InTurn /\ k = "bind" => \A q \in Slots : kind[q] # "bind"
  BY DEF Arrive, Expected, Entering, InTurn
<1> QED
  BY <1>1, <1>2, <1>3
  DEF CapacityInv, InTurn, OneEnters, WithinCapacity, RoomIsKept, ClosedIsEmpty, OnlyAt

(* "Store is at full capacity": customers who enter in turn never exceed   *)
(* the capacity (Bind).                                                    *)
THEOREM CapacityKept == Spec => []CapacityRespected
<1>1. Init => CapacityInv
  BY StoreAssumption
  DEF Init, CapacityInv, OneEnters, WithinCapacity, RoomIsKept, ClosedIsEmpty, Kinds
<1>2. IInv /\ CapacityInv /\ [Next]_vars => CapacityInv'
  <2> SUFFICES ASSUME IInv, CapacityInv, [Next]_vars PROVE CapacityInv'
    OBVIOUS
  <2>1. ASSUME NEW c \in Callers, Revoke(c) PROVE CapacityInv'
    BY <2>1 DEF Revoke, request, CapacityInv, InTurn, OneEnters, WithinCapacity,
                RoomIsKept, ClosedIsEmpty
  <2>2. ASSUME NEW u \in Customers, SessionExpires(u) PROVE CapacityInv'
    BY <2>2, StoreAssumption
    DEF SessionExpires, request, CapacityInv, InTurn, OneEnters, WithinCapacity,
        RoomIsKept, ClosedIsEmpty, IInv, TypeOK
  <2>3. CASE UNCHANGED vars
    BY <2>3 DEF vars, request, CapacityInv, InTurn, OneEnters, WithinCapacity,
                RoomIsKept, ClosedIsEmpty
  <2> QED
    BY <2>1, <2>2, <2>3, ArriveCapacity, ServeCapacity DEF Next
<1>3. CapacityInv => CapacityRespected
  BY DEF CapacityInv, InTurn, WithinCapacity, CapacityRespected
<1> QED
  BY <1>1, <1>2, <1>3, Invariance, PTL DEF Spec

-----------------------------------------------------------------------------
(* Customers who act in turn, though side by side with each other.         *)
Orderly == faults \subseteq {"crowd"}

OneRequestEach ==
  \A q, r \in Slots : pc[q] # "idle" /\ caller[q] = caller[r] => q = r

(* A request knows what its customer's session is. *)
SessionIsOwn ==
  \A r \in Slots :
    /\ pc[r] # "idle" => kind[r] \in {"bind", "exit"} /\ pc[r] # "reset"
    /\ pc[r] # "idle" /\ kind[r] = "bind" => session[caller[r]] = None
    /\ pc[r] \in {"decr", "leave"} => session[caller[r]] = place[r]

CountIsExact ==
  \A s \in Stores :
    count[s] = Cardinality(Inside(s)) + Cardinality(CameIn(s)) - Cardinality(WentOut(s))

ExactInv == Orderly => OneRequestEach /\ SessionIsOwn /\ CountIsExact

(* Whoever is about to be counted out is inside, and not yet counted out:  *)
(* those who have been are at least one fewer than those inside.           *)
LEMMA SomeoneInside ==
  ASSUME TypeOK, OneRequestEach, SessionIsOwn, NEW r \in Slots, pc[r] = "decr",
         kind[r] = "exit"
  PROVE  Cardinality(WentOut(place[r])) + 1 <= Cardinality(Inside(place[r]))
<1> DEFINE s == place[r]
           L == WentOut(s) \union {r}
           f == [q \in L |-> caller[q]]
<1>1. L \subseteq Slots
  BY DEF WentOut
<1>2. \A q \in L : pc[q] \in {"decr", "leave"} /\ place[q] = s
  BY DEF WentOut
<1>3. \A q \in L : caller[q] \in Inside(s)
  BY <1>1, <1>2 DEF TypeOK, SessionIsOwn, Inside
<1>4. \A q, t \in L : caller[q] = caller[t] => q = t
  BY <1>1, <1>2 DEF OneRequestEach
<1>5. f \in Injection(L, Inside(s))
  BY <1>3, <1>4 DEF Injection, IsInjective
<1>6. Cardinality(L) <= Cardinality(Inside(s))
  BY <1>5, SlotSetsFinite, FS_Injection
<1>7. Cardinality(L) = Cardinality(WentOut(s)) + 1
  BY SlotSetsFinite, OneMore DEF WentOut
<1> QED
  BY <1>6, <1>7

(* Steps that take no part in the sums of the stores. *)
LEMMA SameSums ==
  ASSUME NEW r \in Slots, OnlyAt(r), pc[r] \notin {"session", "leave"},
         pc'[r] \notin {"session", "leave"}, UNCHANGED session, NEW s
  PROVE  CameIn(s)' = CameIn(s) /\ WentOut(s)' = WentOut(s) /\ Inside(s)' = Inside(s)
  BY DEF OnlyAt, CameIn, WentOut, Inside

(* Each write moves its customer from one term of the sum to another. *)
LEMMA ServeSums ==
  ASSUME TypeOK, OneRequestEach, SessionIsOwn, CountIsExact, NEW r \in Slots, Serve(r),
         OnlyAt(r), kind[r] \in {"bind", "exit"}, pc[r] # "reset", "redis" \notin faults
  PROVE  CountIsExact' /\ pc'[r] # "reset"
<1>0. place[r] \in Stores /\ caller[r] \in Customers /\ pc[r] # "idle"
  BY StoreAssumption
  DEF Serve, BindCheck, BindIncr, BindSession, ExitCheck, ExitLeave, Increment,
      DecrementCheck, ReadFails, Decr, Reset, TypeOK
<1> PICK p \in Stores, u \in Customers : p = place[r] /\ u = caller[r]
  BY <1>0
<1>1. pc[r] # "idle" /\ count[p] \in Int /\ p # None
  BY <1>0, StoreAssumption DEF TypeOK
<1>3. CASE BindCheck(r) \/ ExitCheck(r)
  <2>1. UNCHANGED <<count, session>> /\ pc[r] = "check" /\ pc'[r] \in {"idle", "incr", "decr"}
    BY <1>3, GotoShape, DoneShape DEF BindCheck, ExitCheck, GoesOn, IsDone
  <2>2. \A s \in Stores :
          CameIn(s)' = CameIn(s) /\ WentOut(s)' = WentOut(s) /\ Inside(s)' = Inside(s)
    BY <2>1, SameSums
  <2> QED
    BY <2>1, <2>2 DEF CountIsExact
<1>4. CASE BindIncr(r)
  <2>1. /\ UNCHANGED session /\ pc[r] = "incr" /\ pc'[r] = "session" /\ place'[r] = p
        /\ count' = [count EXCEPT ![p] = @ + 1]
    BY <1>4, GotoShape DEF BindIncr, GoesOn, RedisFails
  <2>2. \A s \in Stores : WentOut(s)' = WentOut(s) /\ Inside(s)' = Inside(s)
    BY <2>1 DEF OnlyAt, WentOut, Inside
  <2>3. CameIn(p)' = CameIn(p) \union {r} /\ r \notin CameIn(p)
    BY <2>1 DEF OnlyAt, CameIn
  <2>4. Cardinality(CameIn(p)') = Cardinality(CameIn(p)) + 1
    BY <2>3, SlotSetsFinite, OneMore
  <2>5. \A s \in Stores : s # p => CameIn(s)' = CameIn(s)
    BY <2>1 DEF OnlyAt, CameIn
  <2>6. count'[p] = count[p] + 1 /\ \A s \in Stores : s # p => count'[s] = count[s]
    BY <1>1, <2>1 DEF TypeOK
  <2>7. ASSUME NEW s \in Stores
        PROVE  count'[s] = Cardinality(Inside(s)') + Cardinality(CameIn(s)')
                             - Cardinality(WentOut(s)')
    <3>1. CASE s = p
      <4>1. count'[p] = Cardinality(Inside(p)') + Cardinality(CameIn(p)')
                          - Cardinality(WentOut(p)')
        BY <1>1, <2>2, <2>4, <2>6, SlotSetsFinite DEF CountIsExact
      <4> QED
        BY <3>1, <4>1
    <3>2. CASE s # p
      BY <2>2, <2>5, <2>6, <3>2 DEF CountIsExact
    <3> QED
      BY <3>1, <3>2
  <2> QED
    BY <2>1, <2>7 DEF CountIsExact
<1>5. CASE BindSession(r)
  <2>1. /\ UNCHANGED count /\ pc[r] = "session" /\ pc'[r] = "idle" /\ kind[r] = "bind"
        /\ session' = [session EXCEPT ![u] = p]
    BY <1>5, DoneShape DEF BindSession, IsDone, RedisFails, TypeOK
  <2>2. session[u] = None
    BY <1>1, <2>1 DEF SessionIsOwn
  <2>3. \A s \in Stores : WentOut(s)' = WentOut(s)
    BY <2>1 DEF OnlyAt, WentOut
  <2>4. CameIn(p)' = CameIn(p) \ {r} /\ r \in CameIn(p)
    BY <2>1 DEF OnlyAt, CameIn
  <2>5. Inside(p)' = Inside(p) \union {u} /\ u \notin Inside(p)
    BY <1>1, <2>1, <2>2 DEF Inside, TypeOK
  <2>6. /\ Cardinality(CameIn(p)') = Cardinality(CameIn(p)) - 1
        /\ Cardinality(Inside(p)') = Cardinality(Inside(p)) + 1
    BY <2>4, <2>5, SlotSetsFinite, OneMore, OneLess
  <2>7. \A s \in Stores : s # p => CameIn(s)' = CameIn(s) /\ Inside(s)' = Inside(s)
    BY <1>1, <2>1, <2>2, StoreAssumption DEF OnlyAt, CameIn, Inside, TypeOK
  <2>8. ASSUME NEW s \in Stores
        PROVE  count'[s] = Cardinality(Inside(s)') + Cardinality(CameIn(s)')
                             - Cardinality(WentOut(s)')
    <3>1. CASE s = p
      <4>1. count'[p] = Cardinality(Inside(p)') + Cardinality(CameIn(p)')
                          - Cardinality(WentOut(p)')
        BY <1>1, <2>1, <2>3, <2>6, SlotSetsFinite DEF CountIsExact
      <4> QED
        BY <3>1, <4>1
    <3>2. CASE s # p
      BY <2>1, <2>3, <2>7, <3>2 DEF CountIsExact
    <3> QED
      BY <3>1, <3>2
  <2> QED
    BY <2>1, <2>8 DEF CountIsExact
<1>6. CASE Decr(r)
  <2>1. pc[r] = "decr" /\ kind[r] = "exit" /\ UNCHANGED session
        /\ count' = [count EXCEPT ![p] = @ - 1]
    BY <1>6 DEF Decr, RedisFails, TypeOK
  <2>2. Cardinality(WentOut(p)) + 1 <= Cardinality(Inside(p))
    BY <2>1, SomeoneInside
  <2>3. count'[p] = count[p] - 1 /\ \A s \in Stores : s # p => count'[s] = count[s]
    BY <1>1, <2>1 DEF TypeOK
  <2>4. count'[p] >= 0
    BY <1>1, <2>2, <2>3, SlotSetsFinite DEF CountIsExact
  <2>5. pc'[r] = "leave" /\ place'[r] = p
    BY <1>1, <1>6, <2>1, <2>3, <2>4, GotoShape DEF Decr, AfterDecr, RedisFails, GoesOn
  <2>6. \A s \in Stores : CameIn(s)' = CameIn(s) /\ Inside(s)' = Inside(s)
    BY <2>1, <2>5 DEF OnlyAt, CameIn, Inside
  <2>7. WentOut(p)' = WentOut(p) \union {r} /\ r \notin WentOut(p)
    BY <2>1, <2>5 DEF OnlyAt, WentOut
  <2>8. Cardinality(WentOut(p)') = Cardinality(WentOut(p)) + 1
    BY <2>7, SlotSetsFinite, OneMore
  <2>9. \A s \in Stores : s # p => WentOut(s)' = WentOut(s)
    BY <2>1, <2>5 DEF OnlyAt, WentOut
  <2>10. ASSUME NEW s \in Stores
         PROVE  count'[s] = Cardinality(Inside(s)') + Cardinality(CameIn(s)')
                              - Cardinality(WentOut(s)')
    <3>1. CASE s = p
      <4>1. count'[p] = Cardinality(Inside(p)') + Cardinality(CameIn(p)')
                          - Cardinality(WentOut(p)')
        BY <1>1, <2>3, <2>6, <2>8, SlotSetsFinite DEF CountIsExact
      <4> QED
        BY <3>1, <4>1
    <3>2. CASE s # p
      BY <2>3, <2>6, <2>9, <3>2 DEF CountIsExact
    <3> QED
      BY <3>1, <3>2
  <2> QED
    BY <2>5, <2>10 DEF CountIsExact
<1>7. CASE ExitLeave(r)
  <2>1. /\ UNCHANGED count /\ pc[r] = "leave" /\ pc'[r] = "idle"
        /\ session' = [session EXCEPT ![u] = None]
    BY <1>7, DoneShape DEF ExitLeave, IsDone, RedisFails
  <2>2. session[u] = p
    BY <2>1 DEF SessionIsOwn
  <2>3. \A s \in Stores : CameIn(s)' = CameIn(s)
    BY <2>1 DEF OnlyAt, CameIn
  <2>4. WentOut(p)' = WentOut(p) \ {r} /\ r \in WentOut(p)
    BY <2>1 DEF OnlyAt, WentOut
  <2>5. Inside(p)' = Inside(p) \ {u} /\ u \in Inside(p)
    BY <1>1, <2>1, <2>2 DEF Inside, TypeOK
  <2>6. /\ Cardinality(WentOut(p)') = Cardinality(WentOut(p)) - 1
        /\ Cardinality(Inside(p)') = Cardinality(Inside(p)) - 1
    BY <2>4, <2>5, SlotSetsFinite, OneLess
  <2>7. \A s \in Stores : s # p => WentOut(s)' = WentOut(s) /\ Inside(s)' = Inside(s)
    BY <1>1, <2>1, <2>2, StoreAssumption DEF OnlyAt, WentOut, Inside, TypeOK
  <2>8. ASSUME NEW s \in Stores
        PROVE  count'[s] = Cardinality(Inside(s)') + Cardinality(CameIn(s)')
                             - Cardinality(WentOut(s)')
    <3>1. CASE s = p
      <4>1. count'[p] = Cardinality(Inside(p)') + Cardinality(CameIn(p)')
                          - Cardinality(WentOut(p)')
        BY <1>1, <2>1, <2>3, <2>6, SlotSetsFinite DEF CountIsExact
      <4> QED
        BY <3>1, <4>1
    <3>2. CASE s # p
      BY <2>1, <2>3, <2>7, <3>2 DEF CountIsExact
    <3> QED
      BY <3>1, <3>2
  <2> QED
    BY <2>1, <2>8 DEF CountIsExact
<1> QED
  BY <1>3, <1>4, <1>5, <1>6, <1>7
  DEF Serve, Increment, DecrementCheck, Reset, ReadFails, RedisFails

LEMMA ServeExact ==
  ASSUME IInv, ExactInv, NEW r \in Slots, Serve(r)
  PROVE  ExactInv'
<1>1. /\ OnlyAt(r) /\ faults' = faults
      /\ IsDone(r) \/ GoesOn(r, Labels \ {"idle"})
  BY ServeSlots DEF IInv
<1> SUFFICES ASSUME Orderly PROVE OneRequestEach' /\ SessionIsOwn' /\ CountIsExact'
  BY <1>1 DEF ExactInv, Orderly
<1>2. OneRequestEach /\ SessionIsOwn /\ CountIsExact
  BY DEF ExactInv
<1>3. TypeOK /\ RequestsAdmitted /\ "redis" \notin faults /\ "staff" \notin faults
  BY DEF IInv, Orderly
<1>4. pc[r] # "idle" /\ caller[r] \in Customers /\ place[r] \in Stores
  BY <1>2, <1>3
  DEF Serve, BindCheck, BindIncr, BindSession, ExitCheck, ExitLeave, Increment,
      DecrementCheck, ReadFails, Decr, Reset, TypeOK, SessionIsOwn
<1>5. kind[r] \in {"bind", "exit"} /\ pc[r] # "reset"
  BY <1>2, <1>4 DEF SessionIsOwn
<1>6. CountIsExact' /\ pc'[r] # "reset"
  BY <1>1, <1>2, <1>3, <1>5, ServeSums
<1>7. OneRequestEach'
  <2> SUFFICES ASSUME NEW q \in Slots, NEW t \in Slots, pc'[q] # "idle",
                      caller'[q] = caller'[t]
               PROVE  q = t
    BY DEF OneRequestEach
  <2>1. pc[q] # "idle" /\ caller'[q] = caller[q] /\ caller[q] \in Callers
    BY <1>1, <1>3, <1>4 DEF OnlyAt, IsDone, GoesOn, RequestsAdmitted
  <2>2. caller'[t] = caller[t]
    BY <1>1, <2>1, StoreAssumption DEF OnlyAt, IsDone, GoesOn, Callers
  <2> QED
    BY <1>2, <2>1, <2>2 DEF OneRequestEach
<1>8. SessionIsOwn'
  <2>1. \A q \in Slots : q # r /\ pc[q] # "idle" => session'[caller[q]] = session[caller[q]]
    <3>1. \A u \in Customers : u # caller[r] => session'[u] = session[u]
      BY <1>3
      DEF Serve, BindCheck, BindIncr, BindSession, ExitCheck, ExitLeave, Increment,
          DecrementCheck, ReadFails, Decr, Reset, TypeOK
    <3> QED
      BY <1>2, <1>3, <3>1 DEF OneRequestEach, SessionIsOwn, TypeOK
  <2>2. /\ pc'[r] # "idle" /\ kind'[r] = "bind" => session'[caller'[r]] = None
        /\ pc'[r] \in {"decr", "leave"} => session'[caller'[r]] = place'[r]
    <3>1. CASE BindCheck(r) \/ BindIncr(r) \/ BindSession(r)
      BY <1>2, <1>3, <1>4, <3>1, GotoShape, DoneShape
      DEF BindCheck, BindIncr, BindSession, GoesOn, IsDone, SessionIsOwn, TypeOK
    <3>2. CASE ExitCheck(r) \/ ExitLeave(r) \/ ReadFails(r)
      BY <1>2, <1>3, <1>4, <3>2, GotoShape, DoneShape
      DEF ExitCheck, ExitLeave, ReadFails, GoesOn, IsDone, SessionIsOwn, TypeOK
    <3>3. CASE Decr(r)
      <4>1. kind[r] = "exit" /\ session[caller[r]] = place[r] /\ UNCHANGED session
        BY <1>2, <1>5, <3>3 DEF Decr, SessionIsOwn, TypeOK, IInv
      <4>2. pc'[r] # "idle" => kind'[r] = "exit" /\ place'[r] = place[r]
                               /\ caller'[r] = caller[r]
        BY <1>1, <4>1 DEF IsDone, GoesOn
      <4> QED
        BY <4>1, <4>2
    <3> QED
      BY <1>5, <3>1, <3>2, <3>3 DEF Serve, Increment, DecrementCheck, Reset
  <2> QED
    BY <1>1, <1>2, <1>5, <1>6, <2>1, <2>2 DEF SessionIsOwn, OnlyAt, IsDone, GoesOn
<1> QED
  BY <1>6, <1>7, <1>8

LEMMA ArriveExact ==
  ASSUME IInv, ExactInv, NEW r \in Slots, NEW c \in Callers, NEW k \in Kinds,
         NEW s \in Stores, Arrive(r, c, k, s)
  PROVE  ExactInv'
<1>1. /\ OnlyAt(r) /\ pc[r] = "idle" /\ pc'[r] = "check"
      /\ caller'[r] = c /\ kind'[r] = k /\ place'[r] = s
  BY ArriveShape DEF IInv
<1>2. UNCHANGED <<faults, count, session>>
  BY DEF Arrive
<1> SUFFICES ASSUME Orderly PROVE OneRequestEach' /\ SessionIsOwn' /\ CountIsExact'
  BY <1>2 DEF ExactInv, Orderly
<1>3. OneRequestEach /\ SessionIsOwn /\ CountIsExact
  BY DEF ExactInv
<1>4. \A q \in Slots : caller[q] # c
  BY DEF Arrive, Expected, Busy, Orderly
<1>5. k \in {"bind", "exit"} /\ (k = "bind" => session[c] = None)
  BY StoreAssumption DEF Arrive, Expected, Orderly, Admitted, RequireAuth, Kinds
<1>6. OneRequestEach' /\ SessionIsOwn'
  BY <1>1, <1>2, <1>3, <1>4, <1>5 DEF OneRequestEach, SessionIsOwn, OnlyAt
<1>7. \A t \in Stores :
        CameIn(t)' = CameIn(t) /\ WentOut(t)' = WentOut(t) /\ Inside(t)' = Inside(t)
  BY <1>1, <1>2, SameSums
<1>8. CountIsExact'
  BY <1>2, <1>3, <1>7 DEF CountIsExact
<1> QED
  BY <1>6, <1>8

(* Customers who act in turn are counted exactly, however their requests   *)
(* run side by side with each other's (Bind and Exit).                     *)
THEOREM CountCorrect == Spec => []OccupancyIsCustomersInside
<1>1. Init => ExactInv
  <2> SUFFICES ASSUME Init PROVE OneRequestEach /\ SessionIsOwn /\ CountIsExact
    BY DEF ExactInv
  <2>1. OneRequestEach /\ SessionIsOwn
    BY DEF Init, OneRequestEach, SessionIsOwn
  <2>2. \A s \in Stores : CameIn(s) = {} /\ WentOut(s) = {} /\ Inside(s) = {}
    BY StoreAssumption DEF Init, CameIn, WentOut, Inside
  <2> QED
    BY <2>1, <2>2, FS_EmptySet DEF Init, CountIsExact
<1>2. IInv /\ ExactInv /\ [Next]_vars => ExactInv'
  <2> SUFFICES ASSUME IInv, ExactInv, [Next]_vars PROVE ExactInv'
    OBVIOUS
  <2>1. ASSUME UNCHANGED <<faults, count, session, pc, request>> PROVE ExactInv'
    BY <2>1 DEF request, ExactInv, Orderly, OneRequestEach, SessionIsOwn, CountIsExact,
                CameIn, WentOut, Inside
  <2>2. ASSUME NEW c \in Callers, Revoke(c) PROVE ExactInv'
    BY <2>1, <2>2 DEF Revoke
  <2>3. ASSUME NEW u \in Customers, SessionExpires(u) PROVE ExactInv'
    BY <2>3 DEF SessionExpires, ExactInv, Orderly
  <2>4. CASE UNCHANGED vars
    BY <2>1, <2>4 DEF vars
  <2> QED
    BY <2>2, <2>3, <2>4, ArriveExact, ServeExact DEF Next
<1>3. ExactInv => OccupancyIsCustomersInside
  BY DEF ExactInv, Orderly, CountIsExact, OccupancyIsCustomersInside
<1> QED
  BY <1>1, <1>2, <1>3, Invariance, PTL DEF Spec

(* The count keeps between 0 and the capacity (Bind, Exit and              *)
(* UpdateCapacity).                                                        *)
THEOREM CountBounded == Spec => []CountStaysInBounds
<1>1. CapacityRespected /\ NegativeIsPassing => CountStaysInBounds
  BY DEF CountStaysInBounds
<1> QED
  BY CapacityKept, NegativeIsRepaired, <1>1, PTL

-----------------------------------------------------------------------------
(* A quotient reaches what the dividend reaches times the divisor. *)
LEMMA Quotient ==
  ASSUME NEW a \in Nat, NEW d \in Nat \ {0}, NEW k \in Nat
  PROVE  /\ a \div d \in Nat
         /\ a \div d >= k <=> a >= k * d
  OBVIOUS

(* Up to 199 places, a store is shown full exactly when Bind turns the     *)
(* next one away: rounding shows none full too early (occupancyStatus in   *)
(* store.go), whatever the count, below 0 and beyond the capacity too.     *)
THEOREM FullShownFull ==
  ASSUME NEW x, x.capacity \in 1..199, x.occupancy \in Int
  PROVE  FullIsShownFull(x)
<1> DEFINE c == x.capacity
           o == x.occupancy
<1>1. Percent(o, c) \in Int /\ (Percent(o, c) >= 100 <=> o >= c)
  <2>1. CASE o >= 0
    <3>1. 200 * o + c \in Nat /\ 2 * c \in Nat \ {0}
      BY <2>1
    <3>2. Percent(o, c) = (200 * o + c) \div (2 * c)
      BY <2>1 DEF Percent
    <3>3. Percent(o, c) \in Nat /\ (Percent(o, c) >= 100 <=> 200 * o + c >= 100 * (2 * c))
      BY <3>1, <3>2, Quotient
    <3> QED
      BY <3>3
  <2>2. CASE o < 0
    <3>1. 200 * (-o) + c \in Nat /\ 2 * c \in Nat \ {0}
      BY <2>2
    <3>2. Percent(o, c) = -((200 * (-o) + c) \div (2 * c))
      BY <2>2 DEF Percent
    <3>3. (200 * (-o) + c) \div (2 * c) \in Nat
      BY <3>1, Quotient
    <3> QED
      BY <2>2, <3>2, <3>3
  <2> QED
    BY <2>1, <2>2
<1>2. OccupancyStatus(Percent(o, c)) = "at_capacity" <=> Percent(o, c) >= 100
  BY <1>1 DEF OccupancyStatus
<1> QED
  BY <1>1, <1>2 DEF FullIsShownFull, Occupancy

(* A number of two digits. *)
LEMMA TwoDigits ==
  ASSUME NEW n \in 0..59
  PROVE  /\ n \div 10 \in 0..5 /\ n % 10 \in 0..9 /\ n = 10 * (n \div 10) + (n % 10)
<1>1. n % 10 \in 0..9
  OBVIOUS
<1>2. n \div 10 \in Int /\ n = 10 * (n \div 10) + (n % 10)
  OBVIOUS
<1> QED
  BY <1>1, <1>2

(* Of two numbers the smaller is so by the first digit that differs. *)
LEMMA SmallerByDigits ==
  ASSUME NEW n \in 0..59, NEW k \in 0..59
  PROVE  /\ n < k <=> (n \div 10 < k \div 10 \/ (n \div 10 = k \div 10 /\ (n % 10) < (k % 10)))
         /\ n = k <=> (n \div 10 = k \div 10 /\ (n % 10) = (k % 10))
<1>1. PICK p \in Int, q \in 0..9 : p = n \div 10 /\ q = n % 10 /\ n = 10 * p + q
  BY TwoDigits
<1>2. PICK r \in Int, s \in 0..9 : r = k \div 10 /\ s = k % 10 /\ k = 10 * r + s
  BY TwoDigits
<1>3. /\ n < k <=> (p < r \/ (p = r /\ q < s))
      /\ n = k <=> (p = r /\ q = s)
  <2>1. n = 10 * p + q /\ k = 10 * r + s
    BY <1>1, <1>2
  <2> QED
    BY <2>1
<1> QED
  BY <1>1, <1>2, <1>3

(* The five characters of a time of day. *)
LEMMA Digits ==
  ASSUME NEW h \in 0..23, NEW m \in 0..59
  PROVE  parseHHMM(Clock(h, m)) = 60 * h + m
<1>1. /\ h \div 10 \in 0..5 /\ h % 10 \in 0..9 /\ h = 10 * (h \div 10) + (h % 10)
      /\ m \div 10 \in 0..5 /\ m % 10 \in 0..9 /\ m = 10 * (m \div 10) + (m % 10)
  <2>1. h \in 0..59
    OBVIOUS
  <2> QED
    BY <2>1, TwoDigits
<1>2. /\ Len(Clock(h, m)) = 5
      /\ Clock(h, m)[1] = h \div 10 /\ Clock(h, m)[2] = h % 10
      /\ Clock(h, m)[4] = m \div 10 /\ Clock(h, m)[5] = m % 10
  BY DEF Clock
<1>3. parseHHMM(Clock(h, m)) = Atoi(h \div 10, h % 10) * 60 + Atoi(m \div 10, m % 10)
  BY <1>2 DEF parseHHMM
<1>4. Atoi(h \div 10, h % 10) = h /\ Atoi(m \div 10, m % 10) = m
  BY <1>1 DEF Atoi
<1> QED
  BY <1>1, <1>3, <1>4

(* Character by character is minute by minute. *)
LEMMA BeforeIs ==
  ASSUME NEW h \in 0..23, NEW m \in 0..59, NEW i \in 0..23, NEW j \in 0..59
  PROVE  Before(Clock(h, m), Clock(i, j)) <=> 60 * h + m < 60 * i + j
<1> DEFINE a == Clock(h, m)
           b == Clock(i, j)
<1>1. /\ a[1] = h \div 10 /\ a[2] = h % 10 /\ a[3] = 10 /\ a[4] = m \div 10 /\ a[5] = m % 10
      /\ b[1] = i \div 10 /\ b[2] = i % 10 /\ b[3] = 10 /\ b[4] = j \div 10 /\ b[5] = j % 10
  BY DEF Clock
<1>2. Before(a, b)
        <=> \/ a[1] < b[1]
            \/ a[1] = b[1] /\ a[2] < b[2]
            \/ a[1] = b[1] /\ a[2] = b[2] /\ a[3] < b[3]
            \/ a[1] = b[1] /\ a[2] = b[2] /\ a[3] = b[3] /\ a[4] < b[4]
            \/ a[1] = b[1] /\ a[2] = b[2] /\ a[3] = b[3] /\ a[4] = b[4] /\ a[5] < b[5]
  <2> HIDE DEF a, b
  <2>1. 1..5 = {1, 2, 3, 4, 5} /\ 1..(1 - 1) = {} /\ 1..(2 - 1) = {1} /\ 1..(3 - 1) = {1, 2}
        /\ 1..(4 - 1) = {1, 2, 3} /\ 1..(5 - 1) = {1, 2, 3, 4}
    OBVIOUS
  <2> QED
    BY <2>1 DEF Before
<1> HIDE DEF a, b
<1>3. h \in 0..59 /\ i \in 0..59
  OBVIOUS
<1>4. /\ h < i <=> (a[1] < b[1] \/ (a[1] = b[1] /\ a[2] < b[2]))
      /\ h = i <=> (a[1] = b[1] /\ a[2] = b[2])
      /\ m < j <=> (a[4] < b[4] \/ (a[4] = b[4] /\ a[5] < b[5]))
  BY <1>1, <1>3, SmallerByDigits
<1>5. 60 * h + m < 60 * i + j <=> h < i \/ (h = i /\ m < j)
  OBVIOUS
<1>6. 60 * h + m < 60 * i + j
        <=> \/ a[1] < b[1]
            \/ a[1] = b[1] /\ a[2] < b[2]
            \/ a[1] = b[1] /\ a[2] = b[2] /\ a[4] < b[4]
            \/ a[1] = b[1] /\ a[2] = b[2] /\ a[4] = b[4] /\ a[5] < b[5]
  BY <1>4, <1>5
<1>7. ~ (a[3] < b[3]) /\ a[3] = b[3]
  BY <1>1
<1> QED
  BY <1>2, <1>6, <1>7 DEF a, b

(* Whatever its opening and closing times, a store is open from the one    *)
(* to the other, to the minute (parseHHMM and isTimeInRange in store.go).  *)
THEOREM OpenBetweenHours ==
  ASSUME NEW x, NEW h \in 0..23, NEW m \in 0..59, NEW i \in 0..23, NEW j \in 0..59,
         x.opens = Clock(h, m), x.closes = Clock(i, j), x.hour \in 0..23, x.minute \in 0..59
  PROVE  OpenBetweenTheHours(x)
<1> DEFINE row == [opens |-> x.opens, closes |-> x.closes]
           now == Clock(x.hour, x.minute)
           minutes == 60 * x.hour + x.minute
<1>1. /\ Hours(<<row>>, minutes).open = isTimeInRange(minutes, x.opens, x.closes)
      /\ isStoreOpen(<<row>>, minutes) = isTimeInRange(minutes, x.opens, x.closes)
  BY DEF Hours, isStoreOpen
<1>2. parseHHMM(x.opens) = 60 * h + m /\ parseHHMM(x.closes) = 60 * i + j
  BY Digits
<1>3. /\ Before(now, x.opens) <=> minutes < 60 * h + m
      /\ Before(now, x.closes) <=> minutes < 60 * i + j
  <2>1. /\ Before(now, Clock(h, m)) <=> minutes < 60 * h + m
        /\ Before(now, Clock(i, j)) <=> minutes < 60 * i + j
    BY BeforeIs
  <2> QED
    BY <2>1
<1>4. isTimeInRange(minutes, x.opens, x.closes)
        <=> ~ Before(now, x.opens) /\ Before(now, x.closes)
  BY <1>2, <1>3 DEF isTimeInRange
<1> QED
  BY <1>1, <1>4 DEF OpenBetweenTheHours

-----------------------------------------------------------------------------
(* A row of least rank. *)
LEMMA LeastRank ==
  ASSUME NEW S, IsFiniteSet(S), S # {}, NEW rank \in [S -> Int]
  PROVE  \E s \in S : \A t \in S : rank[s] <= rank[t]
<1> DEFINE Less(s) == {t \in S : rank[t] < rank[s]}
           Sizes == {Cardinality(Less(s)) : s \in S}
<1>1. \A s \in S : IsFiniteSet(Less(s)) /\ Cardinality(Less(s)) \in Nat
  BY FS_Subset, FS_CardinalityType
<1>2. PICK k \in Sizes : \A l \in Sizes : ~ (<<l, k>> \in OpToRel(<, Nat))
  <2>1. Sizes \subseteq Nat /\ Sizes # {}
    BY <1>1
  <2> HIDE DEF Sizes
  <2> QED
    BY <2>1, NatLessThanWellFounded, WFMin
<1>3. PICK s \in S : k = Cardinality(Less(s))
  BY <1>2
<1>4. ASSUME NEW t \in S, rank[t] < rank[s]
      PROVE  FALSE
  <2>1. Less(t) \subseteq Less(s) /\ Less(t) # Less(s)
    BY <1>4
  <2>2. Cardinality(Less(t)) <= Cardinality(Less(s)) /\ Cardinality(Less(t)) # Cardinality(Less(s))
    <3>1. IsFiniteSet(Less(s)) /\ Less(t) \in SUBSET Less(s)
      BY <1>1, <2>1
    <3> HIDE DEF Less
    <3> QED
      BY <2>1, <3>1, FS_Subset
  <2>3. Cardinality(Less(t)) \in Nat /\ k \in Nat /\ Cardinality(Less(t)) < k
    BY <1>1, <1>3, <2>2
  <2>4. <<Cardinality(Less(t)), k>> \in OpToRel(<, Nat)
    BY <2>3 DEF OpToRel
  <2> QED
    BY <1>2, <2>4
<1> QED
  BY <1>4

(* The database has an answer to every ORDER BY ... LIMIT: what is said of *)
(* all answers is not said of none.                                        *)
THEOREM AnswersExist ==
  ASSUME NEW S, IsFiniteSet(S), NEW rank \in [S -> Int], NEW limit \in Nat
  PROVE  Ordered(S, rank, limit) # {}
<1> DEFINE Sorted(p, n) ==
             /\ p \in [1..n -> S]
             /\ \A i, j \in 1..n : i < j => p[i] # p[j] /\ rank[p[i]] <= rank[p[j]]
             /\ \A i \in 1..n, s \in S :
                  (\A j \in 1..n : p[j] # s) => rank[p[i]] <= rank[s]
           Bad == {n \in Nat : n <= Cardinality(S) /\ ~ \E p : Sorted(p, n)}
<1>1. Cardinality(S) \in Nat
  BY FS_CardinalityType
<1>2. Bad = {}
  <2> SUFFICES ASSUME Bad # {}
               PROVE  FALSE
    OBVIOUS
  <2>1. PICK n \in Bad : \A k \in Bad : ~ (<<k, n>> \in OpToRel(<, Nat))
    <3>1. Bad \subseteq Nat
      OBVIOUS
    <3> HIDE DEF Bad
    <3> QED
      BY <3>1, NatLessThanWellFounded, WFMin
  <2>2. n # 0
    <3>1. Sorted([i \in 1..0 |-> 0], 0)
      BY 1..0 = {}
    <3> QED
      BY <3>1
  <2>3. n - 1 \in Nat /\ n - 1 < n /\ n <= Cardinality(S) /\ n \in Nat
    BY <1>1, <2>2
  <2>4. n - 1 \notin Bad
    BY <2>1, <2>3 DEF OpToRel
  <2>5. PICK p : Sorted(p, n - 1)
    BY <1>1, <2>3, <2>4
  <2> DEFINE Taken == {p[i] : i \in 1..(n - 1)}
             Rest == S \ Taken
  <2>6. IsFiniteSet(Taken) /\ Cardinality(Taken) <= n - 1
    <3>1. IsFiniteSet(1..(n - 1)) /\ Cardinality(1..(n - 1)) = n - 1
      BY <2>3, FS_Interval
    <3>2. p \in Surjection(1..(n - 1), Taken)
      BY <2>5 DEF Surjection
    <3> QED
      BY <3>1, <3>2, FS_Surjection
  <2>7. Rest # {} /\ IsFiniteSet(Rest)
    <3>1. Taken \subseteq S
      BY <2>5
    <3>2. Taken # S
      <4> HIDE DEF Taken
      <4>1. \A c, d \in Int : c <= n - 1 /\ n <= d => c # d
        BY <2>3
      <4>2. Cardinality(Taken) \in Nat
        BY <2>6, FS_CardinalityType
      <4> QED
        BY <1>1, <2>3, <2>6, <4>1, <4>2
    <3> QED
      BY <3>1, <3>2, FS_Difference
  <2>8. PICK m \in Rest : \A t \in Rest : rank[m] <= rank[t]
    <3>1. [s \in Rest |-> rank[s]] \in [Rest -> Int]
      OBVIOUS
    <3> HIDE DEF Rest
    <3>2. \E m \in Rest : \A t \in Rest :
            [s \in Rest |-> rank[s]][m] <= [s \in Rest |-> rank[s]][t]
      BY <2>7, <3>1, LeastRank
    <3> QED
      BY <3>2
  <2> DEFINE q == [i \in 1..n |-> IF i = n THEN m ELSE p[i]]
  <2>9. /\ q[n] = m /\ \A i \in 1..(n - 1) : i \in 1..n /\ i # n /\ q[i] = p[i] /\ p[i] \in S
        /\ \A i \in 1..n : i = n \/ i \in 1..(n - 1)
    BY <2>3, <2>5
  <2>10. m \in S /\ \A i \in 1..(n - 1) : p[i] # m /\ rank[p[i]] <= rank[m]
    BY <2>5
  <2>11. q \in [1..n -> S]
    BY <2>9, <2>10
  <2> HIDE DEF q
  <2>12. ASSUME NEW i \in 1..n, NEW j \in 1..n, i < j
         PROVE  q[i] # q[j] /\ rank[q[i]] <= rank[q[j]]
    <3>1. i \in 1..(n - 1)
      BY <2>3, <2>12
    <3>2. CASE j = n
      BY <2>9, <2>10, <3>1, <3>2
    <3>3. CASE j \in 1..(n - 1)
      BY <2>5, <2>9, <2>12, <3>1, <3>3
    <3> QED
      BY <2>9, <3>2, <3>3
  <2>13. ASSUME NEW i \in 1..n, NEW s \in S, \A j \in 1..n : q[j] # s
         PROVE  rank[q[i]] <= rank[s]
    <3>1. \A j \in 1..(n - 1) : p[j] # s
      BY <2>9, <2>13
    <3>2. s \in Rest
      BY <3>1
    <3>3. CASE i = n
      BY <2>8, <2>9, <3>2, <3>3
    <3>4. CASE i \in 1..(n - 1)
      BY <2>5, <2>9, <3>1, <3>4
    <3> QED
      BY <2>9, <3>3, <3>4
  <2>14. Sorted(q, n)
    BY <2>11, <2>12, <2>13
  <2> QED
    BY <2>14
<1> DEFINE size == IF Cardinality(S) < limit THEN Cardinality(S) ELSE limit
<1>3. PICK p : Sorted(p, size)
  <2>1. size \in Nat /\ size <= Cardinality(S)
    BY <1>1
  <2> HIDE DEF size
  <2>2. size \notin Bad
    BY <1>2
  <2> HIDE DEF Sorted
  <2> QED
    BY <2>1, <2>2
<1> QED
  BY <1>3 DEF Ordered

(* The nearest stores, for any table of stores, radius and limit. *)
LEMMA NearestStores ==
  ASSUME NEW x, NEW rows \in Seq(StoreRow), NEW limit \in Nat, NEW query \in 0..50,
         x.query = query, x.limit = limit, x.rows = rows
  PROVE  NearestStoresAreShown(x)
<1> DEFINE km == IF query = 0 THEN 5 ELSE query
           near == Near(rows, km)
           rank == [i \in near |-> rows[i].distance]
           n == IF Cardinality(near) < limit THEN Cardinality(near) ELSE limit
           Row(i) == [store |-> rows[i].store, distance |-> rows[i].distance,
                      percent |-> Percent(rows[i].occupancy, rows[i].capacity)]
<1>1. (CHOOSE r \in Radius(query) : TRUE) = km
  <2>1. Radius(query) = {km}
    <3>1. CASE query = 0
      BY <3>1 DEF Radius
    <3>2. CASE query # 0
      <4>1. query \in 1..50
        BY <3>2
      <4>2. {query} \intersect (1..50) = {query}
        BY <4>1
      <4> QED
        BY <3>2, <4>2 DEF Radius
    <3> QED
      BY <3>1, <3>2
  <2> QED
    BY <2>1
<1>2. near \subseteq 1..Len(rows) /\ IsFiniteSet(near) /\ Cardinality(near) \in Nat
  <2>1. Len(rows) \in Nat /\ near \in SUBSET (1..Len(rows))
    BY DEF Near
  <2>2. IsFiniteSet(1..Len(rows))
    BY <2>1, FS_Interval
  <2> HIDE DEF near
  <2> QED
    BY <2>1, <2>2, FS_Subset, FS_CardinalityType
<1>3. n \in Nat
  BY <1>2
<1> SUFFICES ASSUME NEW shown \in NearbyStores(rows, query, limit)
             PROVE  /\ \A i, j \in DOMAIN shown :
                         i < j => shown[i].distance <= shown[j].distance
                    /\ \A k \in DOMAIN rows :
                         rows[k].active /\ rows[k].distance <= km
                           => \/ \E i \in DOMAIN shown : shown[i].store = rows[k].store
                              \/ /\ DOMAIN shown = 1..limit
                                 /\ \A i \in 1..limit : shown[i].distance <= rows[k].distance
  BY DEF NearestStoresAreShown
<1>4. PICK found \in Ordered(near, rank, limit) : shown = [i \in DOMAIN found |-> Row(found[i])]
  BY <1>1 DEF NearbyStores, NearbyRows
<1>5. /\ found \in [1..n -> near]
      /\ \A i, j \in 1..n : i < j => found[i] # found[j] /\ rank[found[i]] <= rank[found[j]]
      /\ \A i \in 1..n, s \in near :
           (\A j \in 1..n : found[j] # s) => rank[found[i]] <= rank[s]
  BY <1>4 DEF Ordered
<1>6. /\ DOMAIN shown = 1..n
      /\ \A i \in 1..n : /\ shown[i].distance = rank[found[i]]
                         /\ shown[i].store = rows[found[i]].store
  BY <1>4, <1>5
<1>7. ASSUME NEW k \in DOMAIN rows, rows[k].active, rows[k].distance <= km,
             ~ \E i \in DOMAIN shown : shown[i].store = rows[k].store
      PROVE  DOMAIN shown = 1..limit /\ \A i \in 1..limit : shown[i].distance <= rows[k].distance
  <2>1. k \in near /\ rank[k] = rows[k].distance
    BY <1>7 DEF Near
  <2>2. \A j \in 1..n : found[j] # k
    BY <1>6, <1>7
  <2>3. n = limit
    <3>1. SUFFICES ASSUME n # limit
                   PROVE  FALSE
      OBVIOUS
    <3>2. n = Cardinality(near)
      BY <3>1
    <3>3. found \in Injection(1..n, near)
      <4>1. ASSUME NEW i \in 1..n, NEW j \in 1..n, found[i] = found[j]
            PROVE  i = j
        <5>1. i < j \/ j < i \/ i = j
          BY <1>3
        <5> HIDE DEF n
        <5> QED
          BY <1>5, <4>1, <5>1
      <4> HIDE DEF n, near
      <4>2. IsInjective(found) /\ found \in [1..n -> near]
        BY <1>5, <4>1 DEF IsInjective
      <4> QED
        BY <4>2 DEF Injection
    <3>4. Cardinality(1..n) = n
      BY <1>3, FS_Interval
    <3>5. found \in Surjection(1..n, near)
      BY <1>2, <3>2, <3>3, <3>4, FS_Injection
    <3> QED
      BY <2>1, <2>2, <3>5 DEF Surjection
  <2> QED
    BY <1>5, <1>6, <2>1, <2>2, <2>3
<1>8. ASSUME NEW i \in DOMAIN shown, NEW j \in DOMAIN shown, i < j
      PROVE  shown[i].distance <= shown[j].distance
  <2>1. i \in 1..n /\ j \in 1..n
    BY <1>6
  <2>2. rank[found[i]] <= rank[found[j]]
    BY <1>5, <1>8, <2>1
  <2> QED
    BY <1>6, <2>1, <2>2
<1> HIDE DEF near, rank, n
<1> QED
  BY <1>7, <1>8

(* The summary of the devices that report, for any list of them. *)
LEMMA SummaryOfHeartbeats ==
  ASSUME NEW x, NEW devices \in Seq(DeviceRow), x.devices = devices
  PROVE  SummaryFollowsHeartbeats(x)
<1> DEFINE all == 1..Len(devices)
           early == {i \in all : devices[i].beat \in 0..4}
           late == {i \in all : devices[i].beat >= 5}
<1>1. Len(devices) \in Nat /\ DOMAIN devices = all /\ \A i \in all : devices[i].beat \in Int
  <2>1. Len(devices) \in Nat /\ DOMAIN devices = all /\ \A i \in all : devices[i] \in DeviceRow
    OBVIOUS
  <2> QED
    BY <2>1 DEF DeviceRow
<1> SUFFICES ASSUME \A i \in all : devices[i].beat >= 0
             PROVE  /\ ListDevices(devices).online = Cardinality(early)
                    /\ ListDevices(devices).offline = Cardinality(late)
  BY <1>1 DEF SummaryFollowsHeartbeats
<1>2. {i \in DOMAIN devices : Online(devices[i])} = early
  BY <1>1 DEF Online
<1>3. late = all \ early /\ early = all \cap early
  BY <1>1
<1>4. Cardinality(all) = Len(devices) /\ IsFiniteSet(all)
  BY <1>1, FS_Interval
<1>5. Cardinality(late) = Len(devices) - Cardinality(early)
  <2> HIDE DEF all, early, late
  <2>1. Cardinality(all \ early) = Cardinality(all) - Cardinality(all \cap early)
    BY <1>4, FS_Difference
  <2> QED
    BY <1>3, <1>4, <2>1
<1> QED
  BY <1>2, <1>5 DEF ListDevices

(* What readers of the store service are shown is right for every input it *)
(* may compute with (Occupancy, Hours, NearbyStores and ListDevices): the  *)
(* invariant of the run, for every set of inputs.                          *)
THEOREM StoresRight == ShownSpec => []StoresShownRight
<1>1. ASSUME NEW x \in ShownInputs
      PROVE  /\ FullIsShownFull(x) /\ OpenBetweenTheHours(x)
             /\ NearestStoresAreShown(x) /\ SummaryFollowsHeartbeats(x)
  <2>1. CASE x \in [kind : {"occupancy"}, occupancy : Int, capacity : 1..199]
    BY <2>1, FullShownFull
       DEF OpenBetweenTheHours, NearestStoresAreShown, SummaryFollowsHeartbeats
  <2>2. CASE x \in [kind : {"hours"}, opens : TimesOfDay, closes : TimesOfDay,
                    hour : 0..23, minute : 0..59]
    <3>1. OpenBetweenTheHours(x)
      <4>1. x.opens \in TimesOfDay /\ x.closes \in TimesOfDay
            /\ x.hour \in 0..23 /\ x.minute \in 0..59
        BY <2>2
      <4>2. PICK h \in 0..23, m \in 0..59 : x.opens = Clock(h, m)
        BY <4>1 DEF TimesOfDay
      <4>3. PICK i \in 0..23, j \in 0..59 : x.closes = Clock(i, j)
        BY <4>1 DEF TimesOfDay
      <4> QED
        BY <4>1, <4>2, <4>3, OpenBetweenHours
    <3> QED
      BY <2>2, <3>1 DEF FullIsShownFull, NearestStoresAreShown, SummaryFollowsHeartbeats
  <2>3. CASE x \in [kind : {"nearby"}, query : 0..50, limit : Nat, rows : Seq(StoreRow)]
    BY <2>3, NearestStores
       DEF FullIsShownFull, OpenBetweenTheHours, SummaryFollowsHeartbeats
  <2>4. CASE x \in [kind : {"devices"}, devices : Seq(DeviceRow)]
    BY <2>4, SummaryOfHeartbeats
       DEF FullIsShownFull, OpenBetweenTheHours, NearestStoresAreShown
  <2>5. CASE x \in [kind : {"none"}]
    BY <2>5 DEF FullIsShownFull, OpenBetweenTheHours, NearestStoresAreShown,
       SummaryFollowsHeartbeats
  <2> QED
    BY <2>1, <2>2, <2>3, <2>4, <2>5 DEF ShownInputs
<1>2. sample \in Samples => StoresShownRight
  BY <1>1, SamplesAssumption DEF StoresShownRight
<1>3. sample \in Samples /\ [UNCHANGED sample]_sample => (sample \in Samples)'
  OBVIOUS
<1> QED
  BY <1>2, <1>3, PTL DEF ShownSpec
=============================================================================
