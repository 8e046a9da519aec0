----------------------------- MODULE StoreViews -----------------------------
(***************************************************************************)
(* What the store service computes for its readers: how full a store is,   *)
(* whether it is open, which stores are near, which devices are online.    *)
(* Pure functions of rows and keys; the properties take one input each.    *)
(***************************************************************************)
EXTENDS Integers, Sequences, FiniteSets, Queries

(* The inputs the properties are asked of, and the one asked about now.    *)
CONSTANT Samples
VARIABLE sample

(* Mutant of Percent: rounded up. *)
PercentUp(occupancy, capacity) ==
  IF capacity > 0 THEN (100 * occupancy + capacity - 1) \div capacity ELSE 0

(* int(math.Round(occupancy / capacity * 100)), 0 without a capacity; a    *)
(* half is rounded away from zero.                                         *)
Percent(occupancy, capacity) ==
  IF capacity = 0 THEN 0
  ELSE IF occupancy >= 0
    THEN (200 * occupancy + capacity) \div (2 * capacity)
    ELSE -((200 * (-occupancy) + capacity) \div (2 * capacity))

(* occupancyStatus *)
OccupancyStatus(pct) ==
  CASE pct >= 100 -> "at_capacity"
    [] pct > 90 /\ pct < 100 -> "near_capacity"
    [] pct >= 70 /\ pct <= 90 -> "busy"
    [] OTHER -> "normal"

Occupancy(occupancy, capacity) ==
  [count |-> occupancy, percent |-> Percent(occupancy, capacity),
   status |-> OccupancyStatus(Percent(occupancy, capacity))]

-----------------------------------------------------------------------------
(* A time of day is a sequence of five characters HH:MM, a digit being its *)
(* number and any other character 10.                                      *)
Atoi(a, b) == IF a < 10 /\ b < 10 THEN 10 * a + b ELSE 0

(* Mutant of parseHHMM: minutes are read one place too early. *)
parseHHMMColon(hhmm) ==
  IF Len(hhmm) < 5 THEN 0
  ELSE Atoi(hhmm[1], hhmm[2]) * 60 + Atoi(hhmm[3], hhmm[4])

parseHHMM(hhmm) ==
  IF Len(hhmm) < 5 THEN 0
  ELSE Atoi(hhmm[1], hhmm[2]) * 60 + Atoi(hhmm[4], hhmm[5])

(* now is a number of minutes since midnight in Asia/Kolkata. *)
isTimeInRange(now, opens, closes) == parseHHMM(opens) <= now /\ now < parseHHMM(closes)

DefaultHours == [opens |-> <<0, 9, 10, 0, 0>>, closes |-> <<2, 2, 10, 0, 0>>]

(* Hours: the row of the day, or 09:00 to 22:00 when there is none. *)
Hours(rows, now) ==
  LET row == IF rows = <<>> THEN DefaultHours ELSE rows[1]
  IN [open |-> isTimeInRange(now, row.opens, row.closes),
      opens |-> row.opens, closes |-> row.closes]

(* isStoreOpen, which NearbyStores asks. *)
isStoreOpen(rows, now) ==
  IF rows = <<>> THEN isTimeInRange(now, DefaultHours.opens, DefaultHours.closes)
  ELSE isTimeInRange(now, rows[1].opens, rows[1].closes)

-----------------------------------------------------------------------------
(* The handler's radius: 5 km unless the query names one from 1 to 50;     *)
(* anything else is refused.  0 stands for a query that names none.        *)
Radius(query) == IF query = 0 THEN {5} ELSE {query} \intersect 1..50

Near(rows, radius) == {i \in DOMAIN rows : rows[i].active /\ rows[i].distance <= radius}

(* Mutant of NearbyRows: the rows are cut before they are ordered. *)
NearbyRowsCut(rows, radius, limit) ==
  LET near == {i \in Near(rows, radius) :
                 Cardinality({j \in Near(rows, radius) : j < i}) < limit}
  IN Ordered(near, [i \in near |-> rows[i].distance], limit)

(* The query: active stores within the radius, nearest first, limit rows;  *)
(* every answer it may give, as the places of its rows in the table.       *)
NearbyRows(rows, radius, limit) ==
  LET near == Near(rows, radius)
  IN Ordered(near, [i \in near |-> rows[i].distance], limit)

(* NearbyStores: the rows with their occupancy. *)
NearbyStores(rows, query, limit) ==
  {[i \in DOMAIN found |->
      [store |-> rows[found[i]].store, distance |-> rows[found[i]].distance,
       percent |-> Percent(rows[found[i]].occupancy, rows[found[i]].capacity)]] :
     found \in NearbyRows(rows, CHOOSE km \in Radius(query) : TRUE, limit)}

-----------------------------------------------------------------------------
(* Mutant of Online: the flag of the row is believed first. *)
OnlineByRow(device) == device.row \/ (device.beat >= 0 /\ device.beat < 5)

(* A device is online when its heartbeat is less than five minutes old;    *)
(* without a readable one (beat < 0) the flag of its row is shown.         *)
Online(device) == IF device.beat >= 0 THEN device.beat < 5 ELSE device.row

ListDevices(devices) ==
  LET online == Cardinality({i \in DOMAIN devices : Online(devices[i])})
  IN [total |-> Len(devices), online |-> online, offline |-> Len(devices) - online]

-----------------------------------------------------------------------------
(* A store is shown "at_capacity" exactly when Bind would turn a customer  *)
(* away, although one rounds a percentage and the other compares counts.   *)
(* With 200 places or more it is shown full one place too early.           *)
FullIsShownFull(x) ==
  x.kind = "occupancy" =>
    (Occupancy(x.occupancy, x.capacity).status = "at_capacity"
       <=> ~ (x.occupancy < x.capacity))

(* A store whose row has sensible times is open from its opening to its    *)
(* closing time of the same day, and the list of near stores says the      *)
(* same; the times are compared here character by character.               *)
Clock(h, m) == <<h \div 10, h % 10, 10, m \div 10, m % 10>>
Before(a, b) ==
  \E i \in 1..5 : a[i] < b[i] /\ \A j \in 1..(i - 1) : a[j] = b[j]
OpenBetweenTheHours(x) ==
  x.kind = "hours" =>
    LET row == [opens |-> x.opens, closes |-> x.closes]
        now == Clock(x.hour, x.minute)
        between == ~ Before(now, x.opens) /\ Before(now, x.closes)
    IN /\ Hours(<<row>>, 60 * x.hour + x.minute).open <=> between
       /\ isStoreOpen(<<row>>, 60 * x.hour + x.minute) <=> between

(* No active store within the radius is left out for one farther away, and *)
(* the nearest comes first, whatever order the database gives to ties.     *)
NearestStoresAreShown(x) ==
  x.kind = "nearby" =>
    LET km == IF x.query = 0 THEN 5 ELSE x.query
    IN \A shown \in NearbyStores(x.rows, x.query, x.limit) :
         /\ \A i, j \in DOMAIN shown : i < j => shown[i].distance <= shown[j].distance
         /\ \A k \in DOMAIN x.rows :
              x.rows[k].active /\ x.rows[k].distance <= km
                => \/ \E i \in DOMAIN shown : shown[i].store = x.rows[k].store
                   \/ /\ DOMAIN shown = 1..x.limit
                      /\ \A i \in 1..x.limit : shown[i].distance <= x.rows[k].distance

(* The summary counts a device that reports as online exactly when it was  *)
(* heard of in the last five minutes, whatever its row says, and as        *)
(* offline when it was not.                                                *)
SummaryFollowsHeartbeats(x) ==
  x.kind = "devices" /\ (\A i \in DOMAIN x.devices : x.devices[i].beat >= 0) =>
    LET summary == ListDevices(x.devices)
    IN /\ summary.online = Cardinality({i \in DOMAIN x.devices : x.devices[i].beat \in 0..4})
       /\ summary.offline = Cardinality({i \in DOMAIN x.devices : x.devices[i].beat >= 5})

-----------------------------------------------------------------------------
(* Every input the service may compute with: counts below 0 and beyond the *)
(* capacity, any times of day, any table of stores, any list of devices.   *)
TimesOfDay == {Clock(h, m) : h \in 0..23, m \in 0..59}
StoreRow == [store : Nat, distance : Nat, active : BOOLEAN, occupancy : Int, capacity : Nat]
DeviceRow == [row : BOOLEAN, beat : Int]
ShownInputs ==
  [kind : {"occupancy"}, occupancy : Int, capacity : 1..199]
  \union [kind : {"hours"}, opens : TimesOfDay, closes : TimesOfDay,
          hour : 0..23, minute : 0..59]
  \union [kind : {"nearby"}, query : 0..50, limit : Nat, rows : Seq(StoreRow)]
  \union [kind : {"devices"}, devices : Seq(DeviceRow)]
  \union [kind : {"none"}]
ASSUME SamplesAssumption == Samples \subseteq ShownInputs

(* One input after another is asked about on its own. *)
ShownSpec == sample \in Samples /\ [][UNCHANGED sample]_sample

(* What readers are shown is so: full stores, opening hours, the nearest   *)
(* stores, and the devices that report.                                    *)
StoresShownRight ==
  /\ FullIsShownFull(sample)
  /\ OpenBetweenTheHours(sample)
  /\ NearestStoresAreShown(sample)
  /\ SummaryFollowsHeartbeats(sample)
=============================================================================
