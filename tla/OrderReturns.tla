---------------------------- MODULE OrderReturns ----------------------------
(***************************************************************************)
(* Returns in the order service: a customer asks for the return of items   *)
(* of an order, a member of staff accepts it, which puts the units back    *)
(* into the stock of Redis and of the database, announces them, asks the   *)
(* payment service for the refund and announces the loyalty points lost.   *)
(* Each step is one call of the service; no transaction spans two of them. *)
(* Amounts are paise.  An item stands for its product: no two items of the *)
(* orders modelled are of one product.                                     *)
(***************************************************************************)
EXTENDS Sequences, Functions, Heaps

CONSTANTS
  Orders, Items,
  OrderOf, QuantityOf, PriceOf,  \* of an item: order, units, total_price
  Returnable,   \* items whose product is returnable
  Lists,        \* lists of items a customer asks to return
  Inexact,      \* amounts that lose a paisa in int64(amount * 100.0)
  Slots,        \* requests the service handles at a time
  MaxReturns,   \* bound on the requests for a return
  MaxRestored,  \* bound on how often the units of an item are put back
  Conditions    \* sets of what may happen: "overlap" (requests side by side),
                \* "again" (an item that was returned is returned again),
                \* "repeat" (an item twice in one list), "redis", "db",
                \* "kafka", "http", "crash", "late" (the window ends);
                \* "routed": something between the services takes the path
                \* of the refund to the route the payment service has, with
                \* a token of staff

ASSUME ReturnsAssumption ==
  /\ IsFiniteSet(Items) /\ IsFiniteSet(Slots)
  /\ OrderOf \in [Items -> Orders] /\ QuantityOf \in [Items -> Nat \ {0}]
  /\ PriceOf \in [Items -> Nat]
  /\ Lists \subseteq Seq(Items) /\ <<>> \notin Lists
  /\ Inexact \subseteq Nat \ {0} /\ MaxReturns \in Nat /\ MaxRestored \in Nat

VARIABLES
  allowed,    \* what may happen in this behaviour
  windowOpen, \* orders whose return window has not ended
  returns,    \* return_requests, oldest first
  stock,      \* units of an item put back into stock:{store}:{product}
  products,   \* units of it put back into products.stock_quantity
  movements,  \* units of it in inventory.movement events
  payment,    \* payments.status of an order's payment
  refunded,   \* paise the gateway has paid back for an order
  reversed,   \* paise in loyalty.points_reversed events for an order
  at,         \* per slot: the next step of its request, or "idle"
  task        \* per slot: what the request is about

books == <<stock, products, movements, payment, refunded, reversed>>
returnsVars == <<allowed, windowOpen, returns, books, at, task>>

Pending == "PENDING_STAFF_APPROVAL"
Return == [order : Orders, items : Seq(Items), status : {Pending, "ACCEPTED"},
           initiated : BOOLEAN]
Labels == {"idle", "order", "pending", "insert", "fetch", "incr", "stock", "movement",
           "accept", "load", "refund", "gateway", "loyalty"}
Task(order, items, ret, verified, left, amount) ==
  [order |-> order, items |-> items, ret |-> ret, verified |-> verified, left |-> left,
   amount |-> amount]
NoTask == Task("none", <<>>, 0, {}, {}, 0)

(* Type invariant: every variable keeps the shape of the state it models,  *)
(* and a request at work knows its order or its return.                    *)
ReturnsTypeOK ==
  /\ allowed \in Conditions
  /\ windowOpen \subseteq Orders
  /\ returns \in Seq(Return)
  /\ stock \in [Items -> Nat] /\ products \in [Items -> Nat] /\ movements \in [Items -> Nat]
  /\ payment \in [Orders -> {"CONFIRMED", "REFUNDED"}]
  /\ refunded \in [Orders -> Nat] /\ reversed \in [Orders -> Nat]
  /\ at \in [Slots -> Labels]
  /\ task \in [Slots -> [order : Orders \union {"none"}, items : Seq(Items),
                         ret : 0..Len(returns), verified : SUBSET Items, left : SUBSET Nat,
                         amount : Nat]]
  /\ \A r \in Slots :
       /\ at[r] \in {"order", "pending", "insert"} => task[r].order \in Orders
       /\ at[r] \in Labels \ {"idle", "order", "pending", "insert"} => task[r].ret # 0
       /\ task[r].left \subseteq DOMAIN task[r].items
       /\ at[r] \in {"incr", "stock", "movement"} => task[r].left # {}

ReturnsInit ==
  /\ allowed \in Conditions
  /\ windowOpen = Orders
  /\ returns = <<>>
  /\ stock = [i \in Items |-> 0] /\ products = stock /\ movements = stock
  /\ payment = [o \in Orders |-> "CONFIRMED"]
  /\ refunded = [o \in Orders |-> 0] /\ reversed = refunded
  /\ at = [r \in Slots |-> "idle"] /\ task = [r \in Slots |-> NoTask]

Proceed(r, label) == at' = [at EXCEPT ![r] = label]
Goes(r, label) == Proceed(r, label) /\ UNCHANGED <<allowed, windowOpen, task>>
Done(r) ==
  /\ Proceed(r, "idle") /\ task' = [task EXCEPT ![r] = NoTask]
  /\ UNCHANGED <<allowed, windowOpen>>
RedisFails == "redis" \in allowed
DBFails == "db" \in allowed
KafkaFails == "kafka" \in allowed

-----------------------------------------------------------------------------
Returned(i) == \E n \in DOMAIN returns : i \in Range(returns[n].items)

(* What a behaviour may ask for. *)
Expected(items) ==
  /\ "repeat" \in allowed \/ IsInjective(items)
  /\ "again" \in allowed \/ \A i \in Range(items) : ~ Returned(i)

Begin(r, what, label) ==
  /\ at[r] = "idle"
  /\ "overlap" \in allowed \/ \A q \in Slots : at[q] = "idle"
  /\ Proceed(r, label) /\ task' = [task EXCEPT ![r] = what]
  /\ UNCHANGED <<allowed, windowOpen, returns, books>>

(* The handlers; a list with no item and a reason with no text are refused *)
(* before anything happens.                                                *)
Create(r) ==
  \E o \in Orders, items \in Lists :
    /\ Len(returns) < MaxReturns /\ Expected(items)
    /\ Begin(r, Task(o, items, 0, {}, {}, 0), "order")

Accept(r) ==
  \E n \in DOMAIN returns, verified \in SUBSET Items \ {{}} :
    /\ \A i \in Range(returns[n].items) :
         {stock[i], products[i]} \subseteq 0..(MaxRestored - 1) * QuantityOf[i]
    /\ Begin(r, Task("none", <<>>, n, verified, {}, 0), "fetch")

(* CreateReturn reads the order, whose window must be open,                *)
GetOrder(r) ==
  /\ at[r] = "order"
  /\ \/ task[r].order \in windowOpen /\ Goes(r, "pending")
     \/ (task[r].order \notin windowOpen \/ DBFails) /\ Done(r)
  /\ UNCHANGED <<returns, books>>

(* Mutant of HasPendingReturn: it asks for another status. *)
HasPendingReturnAccepted(o) ==
  \E n \in DOMAIN returns : returns[n].order = o /\ returns[n].status = "ACCEPTED"

HasPendingReturn(o) ==
  \E n \in DOMAIN returns : returns[n].order = o /\ returns[n].status = Pending

CanReturn(o, i) == OrderOf[i] = o /\ i \in Returnable

(* asks for a pending return of the order and checks the items one by one, *)
CheckItems(r) ==
  /\ at[r] = "pending"
  /\ LET fits == ~ HasPendingReturn(task[r].order)
                   /\ \A i \in Range(task[r].items) : CanReturn(task[r].order, i)
     IN \/ fits /\ Goes(r, "insert")
        \/ (~ fits \/ DBFails) /\ Done(r)
  /\ UNCHANGED <<returns, books>>

(* and inserts the request.                                                *)
CreateReturnRequest(r) ==
  /\ at[r] = "insert"
  /\ \/ returns' = Append(returns, [order |-> task[r].order, items |-> task[r].items,
                                    status |-> Pending, initiated |-> FALSE])
     \/ DBFails /\ UNCHANGED returns
  /\ Done(r)
  /\ UNCHANGED books

-----------------------------------------------------------------------------
(* Of the items of the return those that were verified, by their places, *)
Chosen(items, verified) == {n \in DOMAIN items : items[n] \in verified}

(* and the one the request is at. *)
First(places) == CHOOSE n \in places : \A m \in places : n <= m
Current(r) == task[r].items[First(task[r].left)]

(* Mutant of Loops: the end is not noticed. *)
LoopsOn(r, items, left, amount) ==
  /\ Proceed(r, "incr")
  /\ task' = [task EXCEPT ![r] = Task("none", items, @.ret, {}, left, amount)]
  /\ UNCHANGED <<allowed, windowOpen>>

(* The next verified item of the return, or the end of the loop. *)
Loops(r, items, left, amount) ==
  /\ Proceed(r, IF left = {} THEN "accept" ELSE "incr")
  /\ task' = [task EXCEPT ![r] = Task("none", items, @.ret, {}, left, amount)]
  /\ UNCHANGED <<allowed, windowOpen>>

(* Mutant of GetReturnRequestByID: the status is not looked at. *)
GetReturnRequestByIDAny(r) ==
  /\ at[r] = "fetch"
  /\ LET ret == returns[task[r].ret]
     IN Loops(r, ret.items, Chosen(ret.items, task[r].verified), 0)
  /\ UNCHANGED <<returns, books>>

(* AcceptReturn reads the return, which must be pending, and the items of  *)
(* the order; of the return's items those that were verified count,        *)
GetReturnRequestByID(r) ==
  /\ at[r] = "fetch"
  /\ LET ret == returns[task[r].ret]
     IN \/ /\ ret.status = Pending
           /\ Loops(r, ret.items, Chosen(ret.items, task[r].verified), 0)
        \/ (ret.status # Pending \/ DBFails) /\ Done(r)
  /\ UNCHANGED <<returns, books>>

(* Mutant of IncrBy: one unit of the item. *)
IncrByOne(r) ==
  /\ at[r] = "incr"
  /\ stock' = [stock EXCEPT ![Current(r)] = @ + 1]
  /\ Goes(r, "stock")
  /\ UNCHANGED <<returns, products, movements, payment, refunded, reversed>>

(* puts the units of each into Redis, an error of which is ignored,        *)
IncrBy(r) ==
  /\ at[r] = "incr"
  /\ LET i == Current(r)
     IN \/ stock' = [stock EXCEPT ![i] = @ + QuantityOf[i]]
        \/ RedisFails /\ UNCHANGED stock
  /\ Goes(r, "stock")
  /\ UNCHANGED <<returns, products, movements, payment, refunded, reversed>>

(* Mutant of UpdateProductStock: an error of it is ignored as well. *)
UpdateProductStockAnyway(r) ==
  /\ at[r] = "stock"
  /\ LET i == Current(r)
     IN products' = [products EXCEPT ![i] = @ + QuantityOf[i]] \/ (DBFails /\ UNCHANGED products)
  /\ Goes(r, "movement")
  /\ UNCHANGED <<returns, stock, movements, payment, refunded, reversed>>

(* puts them into the database, an error of which ends the request,        *)
UpdateProductStock(r) ==
  /\ at[r] = "stock"
  /\ LET i == Current(r)
     IN \/ products' = [products EXCEPT ![i] = @ + QuantityOf[i]] /\ Goes(r, "movement")
        \/ DBFails /\ UNCHANGED products /\ Done(r)
  /\ UNCHANGED <<returns, stock, movements, payment, refunded, reversed>>

(* announces them and adds the price of the item,                          *)
PublishMovement(r) ==
  /\ at[r] = "movement"
  /\ LET i == Current(r)
     IN /\ \/ movements' = [movements EXCEPT ![i] = @ + QuantityOf[i]]
           \/ KafkaFails /\ UNCHANGED movements
        /\ Loops(r, task[r].items, task[r].left \ {First(task[r].left)},
                 task[r].amount + PriceOf[i])
  /\ UNCHANGED <<returns, stock, products, payment, refunded, reversed>>

Accepted(ret) ==
  [order |-> ret.order, items |-> ret.items, status |-> "ACCEPTED", initiated |-> TRUE]

(* writes the return as accepted, whatever it is by now,                   *)
UpdateReturnStatus(r) ==
  /\ at[r] = "accept"
  /\ \/ /\ returns' = [returns EXCEPT ![task[r].ret] = Accepted(@)]
        /\ Goes(r, "load")
     \/ DBFails /\ UNCHANGED returns /\ Done(r)
  /\ UNCHANGED books

(* and reads the order for its payment.                                    *)
LoadPayment(r) ==
  /\ at[r] = "load"
  /\ Goes(r, "refund") \/ (DBFails /\ Done(r))
  /\ UNCHANGED <<returns, books>>

Order(r) == returns[task[r].ret].order

(* Mutant of InitiateRefund: a refunded payment is refunded again. *)
InitiateRefundAgain(r) ==
  /\ at[r] = "refund"
  /\ Goes(r, IF "routed" \in allowed THEN "gateway" ELSE "loyalty")
  /\ UNCHANGED <<returns, books>>

(* The payment service refunds a payment once.  The path of the request is *)
(* not one it serves, and the request has no token: without the something  *)
(* of "routed" the answer is always another than 200, which is printed.    *)
InitiateRefund(r) ==
  /\ at[r] = "refund"
  /\ LET answered == "routed" \in allowed /\ payment[Order(r)] = "CONFIRMED"
     IN \/ answered /\ Goes(r, "gateway")
        \/ (~ answered \/ "http" \in allowed) /\ Goes(r, "loyalty")
  /\ UNCHANGED <<returns, books>>

(* Mutant of Paise: the amount is truncated before it is multiplied. *)
PaiseTruncatedFirst(amount) == (amount \div 100) * 100

(* int64(amount * 100.0): the sum of floats times 100 may fall short.      *)
Paise(amount) == IF amount \in Inexact THEN amount - 1 ELSE amount

(* It looked at the status before the gateway paid.                        *)
Gateway(r) ==
  /\ at[r] = "gateway"
  /\ payment' = [payment EXCEPT ![Order(r)] = "REFUNDED"]
  /\ refunded' = [refunded EXCEPT ![Order(r)] = @ + Paise(task[r].amount)]
  /\ Goes(r, "loyalty")
  /\ UNCHANGED <<returns, stock, products, movements, reversed>>

PublishPointsReversed(r) ==
  /\ at[r] = "loyalty"
  /\ \/ reversed' = [reversed EXCEPT ![Order(r)] = @ + task[r].amount]
     \/ KafkaFails /\ UNCHANGED reversed
  /\ Done(r)
  /\ UNCHANGED <<returns, stock, products, movements, payment, refunded>>

-----------------------------------------------------------------------------
(* 24 hours after the order. *)
WindowEnds(o) ==
  /\ "late" \in allowed
  /\ o \in windowOpen /\ windowOpen' = windowOpen \ {o}
  /\ UNCHANGED <<allowed, returns, books, at, task>>

(* The process dies and starts again: what it was doing is not resumed. *)
Restart ==
  /\ "crash" \in allowed /\ \E r \in Slots : at[r] # "idle"
  /\ at' = [r \in Slots |-> "idle"] /\ task' = [r \in Slots |-> NoTask]
  /\ UNCHANGED <<allowed, windowOpen, returns, books>>

Serve(r) ==
  \/ Create(r) \/ GetOrder(r) \/ CheckItems(r) \/ CreateReturnRequest(r)
  \/ Accept(r) \/ GetReturnRequestByID(r) \/ IncrBy(r) \/ UpdateProductStock(r)
  \/ PublishMovement(r) \/ UpdateReturnStatus(r) \/ LoadPayment(r)
  \/ InitiateRefund(r) \/ Gateway(r) \/ PublishPointsReversed(r)

ReturnsNext == (\E r \in Slots : Serve(r)) \/ (\E o \in Orders : WindowEnds(o)) \/ Restart

ReturnsSpec == ReturnsInit /\ [][ReturnsNext]_returnsVars

-----------------------------------------------------------------------------
ItemsOf(o) == {i \in Items : OrderOf[i] = o}
Times(i) == products[i] \div QuantityOf[i]
Worth(o) == Units([i \in ItemsOf(o) |-> Times(i) * PriceOf[i]])
Paid(o) == Units([i \in ItemsOf(o) |-> PriceOf[i]])
Works(n) == \E r \in Slots : task[r].ret = n
OnTheWay(i, label) ==
  QuantityOf[i] * Cardinality({r \in Slots : at[r] = label /\ Current(r) = i})

(* "Check no existing pending return request": an order has one pending    *)
(* return at most, if its requests come one after the other.               *)
OnePendingReturn ==
  "overlap" \notin allowed =>
    \A m, n \in DOMAIN returns :
      (returns[m].order = returns[n].order /\ returns[m].status = Pending
         /\ returns[n].status = Pending) => m = n

(* Redis, the database and the announced movements agree on what came back *)
(* but for the item a request is at, however often a return is accepted.   *)
StocksAgree ==
  allowed \intersect {"redis", "db", "kafka", "crash"} = {} =>
    \A i \in Items :
      /\ stock[i] = products[i] + OnTheWay(i, "stock")
      /\ products[i] = movements[i] + OnTheWay(i, "movement")

(* Units come back once, if every return is accepted once: a request for   *)
(* it that stops half way leaves it pending, and the next one starts over. *)
UnitsComeBackOnce ==
  allowed \subseteq {"redis", "kafka", "http", "routed", "late"} =>
    \A i \in Items : products[i] <= QuantityOf[i] /\ stock[i] <= QuantityOf[i]

(* Goods before money: what has been paid back for an order never exceeds  *)
(* the price of the units the database has got back, and no points are     *)
(* taken for more either, whatever fails and however requests overlap.     *)
RefundIsBacked ==
  \A o \in Orders : refunded[o] <= Worth(o) /\ reversed[o] <= Worth(o)

(* A payment is refunded once: of several returns of an order the first    *)
(* that is accepted.  The customer never gets more than was paid, if no    *)
(* item is twice in a list and no two requests overlap.                    *)
RefundIsWithinPayment ==
  allowed \intersect {"overlap", "repeat"} = {} =>
    \A o \in Orders : refunded[o] <= Paid(o)

(* An accepted return that is settled has taken the points of what came    *)
(* back, and if its refund has a way to the payment service and it is the  *)
(* only one of its order, paid it back but for one paisa.                  *)
AcceptedIsSettled ==
  allowed \subseteq {"routed", "again", "repeat", "late"} =>
    \A n \in DOMAIN returns :
      LET o == returns[n].order
      IN (returns[n].status = "ACCEPTED" /\ ~ Works(n)) =>
           /\ (\A m \in DOMAIN returns : ~ Works(m)) => reversed[o] = Worth(o)
           /\ ("routed" \in allowed
                 /\ \A m \in DOMAIN returns \ {n} : returns[m].order # o) =>
                refunded[o] + 1 >= reversed[o]

(* "refund_initiated": when an accepted return has been worked off and     *)
(* goods have come back, the payment of its order has been refunded.  (As  *)
(* the code stands it never is: the request has neither the path of the    *)
(* payment service's route nor a token for it.)                            *)
AcceptedIsRefunded ==
  allowed = {} =>
    \A n \in DOMAIN returns :
      LET o == returns[n].order
      IN (returns[n].initiated /\ ~ Works(n) /\ Worth(o) > 0) => payment[o] = "REFUNDED"

(* What is returned is asked for, counted and put back once, and the same  *)
(* in every book.                                                          *)
ReturnIsHandledOnce == OnePendingReturn /\ StocksAgree /\ UnitsComeBackOnce

(* No money without goods, and none beyond what was paid. *)
RefundIsInBounds == RefundIsBacked /\ RefundIsWithinPayment
=============================================================================
