------------------------------ MODULE CartStock ------------------------------
(***************************************************************************)
(* The cart service in one store: customers scan products into a cart,     *)
(* take them out again and check out.  The stock of a product, the cart of *)
(* a customer and the checkout lock are Redis keys, the snapshot of a cart *)
(* that is checked out is rows of cart_items; no step touches two of them. *)
(* A stock key that is missing reads as 0, hence the stock is a number     *)
(* throughout.  Every product has one barcode.                             *)
(***************************************************************************)
EXTENDS Sequences, Heaps

CONSTANTS
  Customers, Products,
  Supply,       \* units of each product when the store opens
  Prices,       \* prices in paise an entry of the SKU cache may have, the
                \* first at opening; the catalog service writes no price, which is 0
  Close,        \* pairs of prices a paisa apart whose difference, as it is
                \* computed, is not above 0.01
  Quantities,   \* quantities a customer scans
  Surplus,      \* bound on the units of a product the stock gains over the supply
  Slots,        \* requests the service handles at a time
  MaxOrders,    \* bound on the snapshots of a customer
  MaxExpiries,  \* bound on how often the lock of a customer times out
  None,
  Scenarios     \* sets of disturbances: "crowd" (customers side by side),
                \* "overlap" (also requests of one customer), "rescan" (a
                \* product that is in the cart), "giveback" (a cart is
                \* changed after its checkout), "empty" and "negative" (a
                \* quantity of 0, or below, which nothing refuses), "price",
                \* "expiry", "redis", "db", "crash"; with "alone" one
                \* customer shops at a time

ASSUME CartAssumption ==
  /\ Supply \in [Products -> Nat]
  /\ Prices \in Seq(Nat) /\ Prices # <<>>
  /\ \A pair \in Close : \E n \in pair : n \in Nat /\ pair = {n, n + 1}
  /\ Quantities \subseteq Int /\ Surplus \in Nat
  /\ IsFiniteSet(Customers) /\ IsFiniteSet(Products) /\ IsFiniteSet(Slots)
  /\ MaxOrders \in Nat /\ MaxExpiries \in Nat
  /\ None \notin Nat
  /\ \A f \in Scenarios : "negative" \in f => f \intersect {"price", "redis"} = {}

VARIABLES
  faults,     \* the disturbances of this behaviour
  stock,      \* stock:{store}:{product}
  cart,       \* cart:{user}:{store}: quantity and price per product
  session,    \* customers whose store_session is this store
  price,      \* price in sku:{store}:{barcode}, None without the key
  lock,       \* checkout:{user}
  orders,     \* snapshots of a customer's cart, oldest first
  expiries,   \* history: how often a customer's lock timed out
  pc,         \* per slot: the next step of its request, or "idle"
  user, item, \* per slot: who asks, and the product and quantity scanned
  held,       \* per slot: the items the request has read
  moved       \* history: whether a price changed during the request

shared == <<stock, cart, session, price, lock, orders, expiries>>
request == <<user, item, held, moved>>
vars == <<faults, shared, pc, request>>

(* The quantities of a scenario; a request without one asks for 0.         *)
Amount(f) == IF "negative" \in f THEN Int ELSE Nat
Item(f) == [quantity : Amount(f), price : Nat \union {None}]
NoItem == [quantity |-> 0, price |-> None]
Items(f) == [Products -> Item(f)]
NoItems == [p \in Products |-> NoItem]
In(items) == {p \in Products : items[p] # NoItem}
Order(f) == [items : Items(f), scanned : Items(f), moved : BOOLEAN]
Scan(f) == [product : Products \union {None}, quantity : Amount(f)]
Labels == {"idle", "read", "decr", "add", "rollback", "hget", "hdel", "clear", "del",
           "restore", "items", "lock", "validate", "total", "snapshot"}

(* Type invariant: every variable keeps the shape of the state it models. *)
TypeOK ==
  /\ faults \in Scenarios
  /\ stock \in [Products -> Int]
  /\ cart \in [Customers -> Items(faults)]
  /\ session \subseteq Customers /\ lock \subseteq Customers
  /\ price \in [Products -> Nat \union {None}]
  /\ orders \in [Customers -> Seq(Order(faults))]
  /\ expiries \in [Customers -> Nat]
  /\ pc \in [Slots -> Labels]
  /\ user \in [Slots -> Customers \union {None}]
  /\ item \in [Slots -> Scan(faults)]
  /\ held \in [Slots -> Items(faults)]
  /\ moved \in [Slots -> BOOLEAN]
  /\ \A r \in Slots : pc[r] # "idle" => user[r] \in Customers
  /\ \A r \in Slots :
       pc[r] \in {"read", "decr", "add", "rollback", "hget", "hdel"} => item[r].product \in Products

NoProduct == [product |-> None, quantity |-> 0]

Init ==
  /\ faults \in Scenarios
  /\ stock = Supply
  /\ cart = [c \in Customers |-> NoItems]
  /\ session = {} /\ lock = {}
  /\ price = [p \in Products |-> Prices[1]]
  /\ orders = [c \in Customers |-> <<>>] /\ expiries = [c \in Customers |-> 0]
  /\ pc = [r \in Slots |-> "idle"]
  /\ user = [r \in Slots |-> None] /\ item = [r \in Slots |-> NoProduct]
  /\ held = [r \in Slots |-> NoItems] /\ moved = [r \in Slots |-> FALSE]

Goto(r, label) == pc' = [pc EXCEPT ![r] = label]
Goes(r, label) == Goto(r, label) /\ UNCHANGED <<faults, request>>
Keep(r, items, label) ==
  /\ Goto(r, label) /\ held' = [held EXCEPT ![r] = items]
  /\ UNCHANGED <<faults, user, item, moved>>
Done(r) ==
  /\ Goto(r, "idle")
  /\ user' = [user EXCEPT ![r] = None] /\ item' = [item EXCEPT ![r] = NoProduct]
  /\ held' = [held EXCEPT ![r] = NoItems] /\ moved' = [moved EXCEPT ![r] = FALSE]
  /\ UNCHANGED faults

RedisFails == "redis" \in faults
DBFails == "db" \in faults

-----------------------------------------------------------------------------
(* What a behaviour of this scenario may ask for.                          *)
Expected(c) ==
  /\ "alone" \in faults => session \subseteq {c}
  /\ IF "overlap" \in faults THEN TRUE
     ELSE IF "crowd" \in faults THEN \A r \in Slots : user[r] # c
     ELSE \A r \in Slots : pc[r] = "idle"

Begin(r, c, it, label) ==
  /\ pc[r] = "idle" /\ Expected(c)
  /\ Goto(r, label)
  /\ user' = [user EXCEPT ![r] = c]
  /\ item' = [item EXCEPT ![r] = it]
  /\ UNCHANGED <<faults, shared, held, moved>>

Untouched(c) == "giveback" \in faults \/ orders[c] = <<>>

(* The handlers.  Nothing checks the quantity that is asked for.  A bound: *)
(* nothing more is scanned of a product with too many units made.          *)
ScanItem(r) ==
  \E c \in Customers, p \in Products, q \in Quantities :
    /\ q < 0 => "negative" \in faults
    /\ q = 0 => "empty" \in faults
    /\ stock[p] <= Supply[p] + Surplus
    /\ "rescan" \in faults \/ cart[c][p] = NoItem
    /\ Begin(r, c, [product |-> p, quantity |-> q], "read")

RemoveItem(r) ==
  \E c \in Customers, p \in Products :
    Untouched(c) /\ Begin(r, c, [product |-> p, quantity |-> 0], "hget")

ClearCart(r) == \E c \in Customers : Untouched(c) /\ Begin(r, c, NoProduct, "clear")

InitCheckout(r) ==
  \E c \in Customers :
    Len(orders[c]) < MaxOrders /\ Begin(r, c, NoProduct, "items")

(* The router; its other routes change nothing. *)
Route(r) == ScanItem(r) \/ RemoveItem(r) \/ ClearCart(r) \/ InitCheckout(r)

-----------------------------------------------------------------------------
(* GetProductByBarcode: when the key is not there or not read, the catalog *)
(* service is asked, in whose answer the product is one level deeper than  *)
(* the cart looks: it finds the price 0, and no ID to look at a stock of.  *)
(* The service may also not know the product, or not answer: None.         *)
Missed(p) == price[p] = None \/ RedisFails
Answers(p) == {price[p]} \union (IF Missed(p) THEN {0, None} ELSE {})

(* ScanItem reads the session, the product and its stock: refused, or on   *)
(* with the price it has read.                                             *)
ReadStock(r) ==
  /\ pc[r] = "read"
  /\ LET p == item[r].product
         Takes(now) == Keep(r, [held[r] EXCEPT ![p] = [quantity |-> item[r].quantity,
                                                       price |-> now]], "decr")
     IN \/ /\ user[r] \in session
           /\ \/ price[p] # None /\ stock[p] >= item[r].quantity /\ Takes(price[p])
              \/ Missed(p) /\ 0 >= item[r].quantity /\ Takes(0)
        \/ /\ user[r] \notin session \/ stock[p] < item[r].quantity \/ Missed(p)
           /\ Done(r)
  /\ UNCHANGED shared

(* Mutant of DecrementStock: the quantity is not counted. *)
DecrementStockByOne(r) ==
  /\ pc[r] = "decr"
  /\ stock' = [stock EXCEPT ![item[r].product] = @ - 1]
  /\ Goes(r, "add")
  /\ UNCHANGED <<cart, session, price, lock, orders, expiries>>

DecrementStock(r) ==
  /\ pc[r] = "decr"
  /\ \/ /\ stock' = [stock EXCEPT ![item[r].product] = @ - item[r].quantity]
        /\ Goes(r, "add")
     \/ RedisFails /\ UNCHANGED stock /\ Done(r)
  /\ UNCHANGED <<cart, session, price, lock, orders, expiries>>

(* AddToCart: HSET, in place of what the cart held of this product. *)
AddToCart(r) ==
  /\ pc[r] = "add"
  /\ LET p == item[r].product
     IN \/ cart' = [cart EXCEPT ![user[r]][p] = held[r][p]] /\ Done(r)
        \/ RedisFails /\ UNCHANGED cart /\ Goes(r, "rollback")
  /\ UNCHANGED <<stock, session, price, lock, orders, expiries>>

(* The stock is given back; the error of that is ignored. *)
Rollback(r) ==
  /\ pc[r] = "rollback"
  /\ \/ stock' = [stock EXCEPT ![item[r].product] = @ + item[r].quantity]
     \/ RedisFails /\ UNCHANGED stock
  /\ Done(r)
  /\ UNCHANGED <<cart, session, price, lock, orders, expiries>>

-----------------------------------------------------------------------------
(* RemoveItem reads the item, *)
GetItem(r) ==
  /\ pc[r] = "hget"
  /\ LET p == item[r].product
     IN \/ /\ cart[user[r]][p] # NoItem
           /\ Keep(r, [held[r] EXCEPT ![p] = cart[user[r]][p]], "hdel")
        \/ (cart[user[r]][p] = NoItem \/ RedisFails) /\ Done(r)
  /\ UNCHANGED shared

(* deletes it, and gives its units back. *)
DelItem(r) ==
  /\ pc[r] = "hdel"
  /\ \/ cart' = [cart EXCEPT ![user[r]][item[r].product] = NoItem] /\ Goes(r, "restore")
     \/ RedisFails /\ UNCHANGED cart /\ Done(r)
  /\ UNCHANGED <<stock, session, price, lock, orders, expiries>>

(* ClearCart reads all items and deletes the cart; when the DEL fails the  *)
(* request ends there.                                                     *)
GetAllItems(r) ==
  /\ pc[r] = "clear"
  /\ Keep(r, cart[user[r]], "del") \/ (RedisFails /\ Done(r))
  /\ UNCHANGED shared

DelCart(r) ==
  /\ pc[r] = "del"
  /\ \/ /\ cart' = [cart EXCEPT ![user[r]] = NoItems]
        /\ IF In(held[r]) = {} THEN Done(r) ELSE Goes(r, "restore")
     \/ RedisFails /\ UNCHANGED cart /\ Done(r)
  /\ UNCHANGED <<stock, session, price, lock, orders, expiries>>

(* Mutant of IncrementStock: one unit per item. *)
IncrementStockByOne(r) ==
  /\ pc[r] = "restore"
  /\ \E p \in In(held[r]) :
       /\ stock' = [stock EXCEPT ![p] = @ + 1]
       /\ IF In(held[r]) = {p} THEN Done(r)
          ELSE Keep(r, [held[r] EXCEPT ![p] = NoItem], "restore")
  /\ UNCHANGED <<cart, session, price, lock, orders, expiries>>

(* The units of one item after the other are given back, errors ignored.   *)
IncrementStock(r) ==
  /\ pc[r] = "restore"
  /\ \E p \in In(held[r]) :
       /\ \/ stock' = [stock EXCEPT ![p] = @ + held[r][p].quantity]
          \/ RedisFails /\ UNCHANGED stock
       /\ IF In(held[r]) = {p} THEN Done(r)
          ELSE Keep(r, [held[r] EXCEPT ![p] = NoItem], "restore")
  /\ UNCHANGED <<cart, session, price, lock, orders, expiries>>

-----------------------------------------------------------------------------
(* InitCheckout reads the items, *)
GetCartItems(r) ==
  /\ pc[r] = "items"
  /\ \/ In(cart[user[r]]) # {} /\ Keep(r, cart[user[r]], "lock")
     \/ (In(cart[user[r]]) = {} \/ RedisFails) /\ Done(r)
  /\ UNCHANGED shared

(* Mutant of AcquireCheckoutLock: the answer of SETNX is not looked at. *)
AcquireCheckoutLockAlways(r) ==
  /\ pc[r] = "lock"
  /\ lock' = lock \union {user[r]} /\ Goes(r, "validate")
  /\ UNCHANGED <<stock, cart, session, price, orders, expiries>>

(* takes the lock, which nothing but time releases, *)
AcquireCheckoutLock(r) ==
  /\ pc[r] = "lock"
  /\ \/ user[r] \notin lock /\ lock' = lock \union {user[r]} /\ Goes(r, "validate")
     \/ (user[r] \in lock \/ RedisFails) /\ UNCHANGED lock /\ Done(r)
  /\ UNCHANGED <<stock, cart, session, price, orders, expiries>>

(* Mutant of Unchanged: the price may have gone down. *)
UnchangedOrLower(now, it) == now # None /\ now <= it.price

(* The price is the one it was scanned at, up to 0.01. *)
Unchanged(now, it) == now = it.price \/ {now, it.price} \in Close

(* Mutant of Covered: the stock is not looked at again. *)
CoveredAtScan(p) == TRUE

(* The units of all carts are in the store. *)
Covered(p) == stock[p] >= 0

(* looks at the items one after the other: its price, and its stock if it  *)
(* has an ID; it ends when there is no product,                            *)
Validate(r) ==
  /\ pc[r] = "validate"
  /\ \E p \in In(held[r]) :
       LET it == held[r][p]
           Passes == \/ price[p] # None /\ Unchanged(price[p], it) /\ Covered(p)
                     \/ Missed(p) /\ Unchanged(0, it)
           Fails == Missed(p) \/ ~ Unchanged(price[p], it) \/ ~ Covered(p)
       IN \/ /\ Passes
             /\ Keep(r, [held[r] EXCEPT ![p] = NoItem],
                     IF In(held[r]) = {p} THEN "total" ELSE "validate")
          \/ Fails /\ Done(r)
  /\ UNCHANGED shared

(* reads the cart again with the prices of now (GetCart); an item without  *)
(* a product keeps the price of its scan;                                  *)
Total(r) ==
  /\ pc[r] = "total"
  /\ LET items == cart[user[r]]
     IN \/ \E now \in [Products -> UNION {Answers(p) : p \in Products}] :
             /\ \A p \in Products : now[p] \in Answers(p)
             /\ Keep(r, [p \in Products |->
                           IF items[p] = NoItem \/ now[p] = None THEN items[p]
                           ELSE [items[p] EXCEPT !.price = now[p]]], "snapshot")
        \/ RedisFails /\ Done(r)
  /\ UNCHANGED shared

(* and what it has read is written to the database.  The cart stays.       *)
SnapshotCart(r) ==
  /\ pc[r] = "snapshot"
  /\ \/ orders' = [orders EXCEPT ![user[r]] =
                     Append(@, [items |-> held[r], scanned |-> cart[user[r]],
                                moved |-> moved[r]])]
     \/ DBFails /\ UNCHANGED orders
  /\ Done(r)
  /\ UNCHANGED <<stock, cart, session, price, lock, expiries>>

-----------------------------------------------------------------------------
(* The store service writes and deletes the session. *)
SessionChanges(c) ==
  /\ session' = IF c \in session THEN session \ {c} ELSE session \union {c}
  /\ c \in session => "expiry" \in faults
  /\ "alone" \in faults => session \subseteq {c}
  /\ UNCHANGED <<faults, stock, cart, price, lock, orders, expiries, pc, request>>

(* The key is written with another price, or gone. *)
PriceChanges(p) ==
  /\ "price" \in faults
  /\ \E new \in {Prices[i] : i \in DOMAIN Prices} \union {None} :
       new # price[p] /\ price' = [price EXCEPT ![p] = new]
  /\ moved' = [r \in Slots |-> moved[r] \/ pc[r] # "idle"]
  /\ UNCHANGED <<faults, stock, cart, session, lock, orders, expiries, pc, user, item, held>>

(* Five minutes after it was taken. *)
LockExpires(c) ==
  /\ "expiry" \in faults /\ c \in lock /\ expiries[c] < MaxExpiries
  /\ lock' = lock \ {c}
  /\ expiries' = [expiries EXCEPT ![c] = @ + 1]
  /\ UNCHANGED <<faults, stock, cart, session, price, orders, pc, request>>

(* The process ends, and with it what the request was about to do. *)
Crash(r) ==
  /\ "crash" \in faults /\ pc[r] # "idle"
  /\ Done(r)
  /\ UNCHANGED shared

Serve(r) ==
  \/ ReadStock(r) \/ DecrementStock(r) \/ AddToCart(r) \/ Rollback(r)
  \/ GetItem(r) \/ DelItem(r) \/ GetAllItems(r) \/ DelCart(r) \/ IncrementStock(r)
  \/ GetCartItems(r) \/ AcquireCheckoutLock(r) \/ Validate(r) \/ Total(r) \/ SnapshotCart(r)
  \/ Crash(r)

Next ==
  \/ \E r \in Slots : Route(r) \/ Serve(r)
  \/ \E c \in Customers : SessionChanges(c) \/ LockExpires(c)
  \/ \E p \in Products : PriceChanges(p)

Spec == Init /\ [][Next]_vars

-----------------------------------------------------------------------------
(* Units that a request has taken from one place and not yet put in the    *)
(* other.                                                                  *)
OnTheWay(r, p) ==
  IF pc[r] \in {"add", "rollback", "restore"} THEN held[r][p].quantity ELSE 0

InCarts(p) == [c \in Customers |-> cart[c][p].quantity]
UnderWay(p) == [r \in Slots |-> OnTheWay(r, p)]

(* No unit is made and none is lost: what is in the stock, in carts and on *)
(* the way is what the store opened with, as long as Redis works, nobody   *)
(* asks for less than nothing and a customer waits for the answer to one   *)
(* request before the next; others may act side by side.  A crash between  *)
(* two steps loses the units on their way, and scanning a product that is  *)
(* in the cart already those the cart held; neither makes any.             *)
StockConserved ==
  faults \intersect {"overlap", "redis", "negative"} = {} =>
    \A p \in Products :
      LET units == stock[p] + Units(InCarts(p)) + Units(UnderWay(p))
      IN /\ units <= Supply[p]
         /\ faults \intersect {"rescan", "crash"} = {} => units = Supply[p]

Ordered(c, p) ==
  IF orders[c] = <<>> THEN 0 ELSE orders[c][Len(orders[c])].items[p].quantity

(* No unit is checked out twice: although two customers may both take the  *)
(* last one, the checkout refuses while the stock is below 0.  The cart    *)
(* is still there after the checkout, hence this holds only if a customer  *)
(* leaves it alone from then on; and a product scanned at a price near 0   *)
(* whose key is gone is checked out without its stock being looked at,     *)
(* hence not where prices change while customers act side by side.         *)
CheckedOutIsInStore ==
  (/\ faults \intersect {"overlap", "redis", "negative", "giveback"} = {}
   /\ ~ {"crowd", "price"} \subseteq faults) =>
    \A p \in Products : Units([c \in Customers |-> Ordered(c, p)]) <= Supply[p]

(* "Checkout lock (5 min)": a customer checks out once, and once more for  *)
(* each time the lock has timed out, however requests overlap.             *)
OneCheckoutPerLock ==
  \A c \in Customers : Len(orders[c]) <= 1 + expiries[c]

(* What is charged for an item: the quantity scanned at the price of then, *)
(* up to a paisa per unit.                                                 *)
AsScanned(charged, scanned) ==
  \/ charged = scanned
  \/ /\ charged.quantity = scanned.quantity
     /\ charged.price - scanned.price \in {-1, 1}

(* A customer who acts in turn pays for each item the price it was scanned *)
(* at, up to a paisa per unit, while Redis works and unless a price        *)
(* changes during the very request of the checkout: prices are read once   *)
(* to compare them and once to charge them.                                *)
ScannedPriceIsCharged ==
  faults \intersect {"overlap", "redis"} = {} =>
    \A c \in Customers : \A i \in DOMAIN orders[c] :
      \/ orders[c][i].moved
      \/ \A p \in Products : AsScanned(orders[c][i].items[p], orders[c][i].scanned[p])

(* Units are neither made, lost nor sold twice. *)
UnitsAreKept == StockConserved /\ CheckedOutIsInStore
=============================================================================
