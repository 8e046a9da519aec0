--------------------------- MODULE CartStockProofs ---------------------------
(***************************************************************************)
(* For every set of customers, products and requests, every supply and     *)
(* every scenario: the shape of the state, one checkout per lock; that     *)
(* a customer who acts in turn is charged the prices of the scan, up to a  *)
(* paisa; that units are neither made, lost nor sold twice.  Last, for     *)
(* every input, what the service computes: barcodes, totals, offers and    *)
(* coupons.                                                                *)
(***************************************************************************)
EXTENDS CartStock, CartViews, FiniteSetTheorems, TLAPS

(* The part of TypeOK that belongs to the slots. *)
SlotsTyped ==
  /\ pc \in [Slots -> Labels]
  /\ user \in [Slots -> Customers \union {None}]
  /\ item \in [Slots -> Scan(faults)]
  /\ held \in [Slots -> Items(faults)]
  /\ moved \in [Slots -> BOOLEAN]
  /\ \A r \in Slots : pc[r] # "idle" => user[r] \in Customers
  /\ \A r \in Slots :
       pc[r] \in {"read", "decr", "add", "rollback", "hget", "hdel"} => item[r].product \in Products

SharedTyped ==
  /\ stock \in [Products -> Int]
  /\ cart \in [Customers -> Items(faults)]
  /\ session \subseteq Customers /\ lock \subseteq Customers
  /\ price \in [Products -> Nat \union {None}]
  /\ orders \in [Customers -> Seq(Order(faults))]
  /\ expiries \in [Customers -> Nat]

ProductLabels == {"read", "decr", "add", "rollback", "hget", "hdel"}

LEMMA TypeParts == TypeOK <=> faults \in Scenarios /\ SlotsTyped /\ SharedTyped
  BY DEF TypeOK, SlotsTyped, SharedTyped

(* The other slots keep what they have. *)
OnlyAt(r) ==
  \A q \in Slots : q # r =>
    /\ pc'[q] = pc[q] /\ user'[q] = user[q] /\ item'[q] = item[q]
    /\ held'[q] = held[q] /\ moved'[q] = moved[q]

-----------------------------------------------------------------------------
(* What a step of the handlers does to its slot. *)
LEMMA ItemShape ==
  ASSUME NEW f
  PROVE  /\ 0 \in Amount(f) /\ NoItem \in Item(f) /\ NoItems \in Items(f)
         /\ \A items \in Items(f), p \in Products, it \in Item(f) :
              [items EXCEPT ![p] = it] \in Items(f)
         /\ \A items \in Items(f), p \in Products : items[p] \in Item(f)
         /\ \A p \in Products \union {None}, q \in Amount(f) :
              [product |-> p, quantity |-> q] \in Scan(f)
  BY DEF Amount, Item, Items, NoItem, NoItems, Scan

(* What is scanned, priced and charged is of these shapes. *)
LEMMA ItemParts ==
  ASSUME NEW f, NEW it \in Item(f)
  PROVE  /\ it.quantity \in Amount(f) /\ it.quantity \in Int
         /\ it.price \in Nat \union {None}
         /\ \A q \in Amount(f), now \in Nat : [quantity |-> q, price |-> now] \in Item(f)
         /\ \A now \in Nat : [it EXCEPT !.price = now] \in Item(f)
  BY DEF Amount, Item

LEMMA GoesShape ==
  ASSUME SlotsTyped, NEW r \in Slots, NEW label \in Labels \ {"idle"}, pc[r] # "idle",
         label \in ProductLabels => item[r].product \in Products, Goes(r, label)
  PROVE  /\ SlotsTyped' /\ OnlyAt(r) /\ faults' = faults
         /\ pc'[r] = label /\ user'[r] = user[r]
  BY DEF Goes, Goto, request, SlotsTyped, OnlyAt, ProductLabels

LEMMA KeepShape ==
  ASSUME SlotsTyped, NEW r \in Slots, NEW label \in Labels \ {"idle"}, pc[r] # "idle",
         label \in ProductLabels => item[r].product \in Products,
         NEW items \in Items(faults), Keep(r, items, label)
  PROVE  /\ SlotsTyped' /\ OnlyAt(r) /\ faults' = faults
         /\ pc'[r] = label /\ user'[r] = user[r]
  BY DEF Keep, Goto, SlotsTyped, OnlyAt, ProductLabels

LEMMA DoneShape ==
  ASSUME SlotsTyped, NEW r \in Slots, Done(r)
  PROVE  SlotsTyped' /\ OnlyAt(r) /\ faults' = faults /\ pc'[r] = "idle"
<1>1. NoProduct \in Scan(faults)
  BY ItemShape DEF NoProduct
<1>2. pc' \in [Slots -> Labels] /\ user' \in [Slots -> Customers \union {None}]
      /\ item' \in [Slots -> Scan(faults)]
      /\ held' \in [Slots -> Items(faults)] /\ moved' \in [Slots -> BOOLEAN]
  BY <1>1, ItemShape DEF Done, Goto, SlotsTyped, Labels
<1>3. /\ pc'[r] = "idle" /\ faults' = faults
      /\ \A q \in Slots : q # r =>
           /\ pc'[q] = pc[q] /\ user'[q] = user[q] /\ item'[q] = item[q]
           /\ held'[q] = held[q] /\ moved'[q] = moved[q]
  BY DEF Done, Goto, SlotsTyped
<1> QED
  BY <1>2, <1>3 DEF SlotsTyped, OnlyAt

LEMMA BeginShape ==
  ASSUME SlotsTyped, NEW r \in Slots, NEW c \in Customers,
         NEW it \in Scan(faults),
         NEW label \in Labels, label \in ProductLabels => it.product \in Products,
         Begin(r, c, it, label)
  PROVE  /\ SlotsTyped' /\ OnlyAt(r) /\ UNCHANGED <<faults, shared>>
         /\ pc[r] = "idle" /\ pc'[r] = label /\ user'[r] = c
  BY DEF Begin, Goto, SlotsTyped, OnlyAt, ProductLabels

LEMMA RouteShape ==
  ASSUME SlotsTyped, NEW r \in Slots, Route(r)
  PROVE  /\ SlotsTyped' /\ OnlyAt(r) /\ UNCHANGED <<faults, shared>>
         /\ pc[r] = "idle" /\ pc'[r] \in {"read", "hget", "clear", "items"}
<1> USE DEF Labels, ProductLabels
<1>0. NoProduct \in Scan(faults) /\ Quantities \subseteq Int
  BY ItemShape, CartAssumption DEF NoProduct
<1>1. CASE ScanItem(r)
  <2>1. PICK c \in Customers, p \in Products, q \in Quantities :
          /\ q < 0 => "negative" \in faults
          /\ Begin(r, c, [product |-> p, quantity |-> q], "read")
    BY <1>1 DEF ScanItem
  <2>2. q \in Amount(faults)
    BY <1>0, <2>1 DEF Amount
  <2>3. [product |-> p, quantity |-> q] \in Scan(faults)
    BY <2>2, ItemShape
  <2> QED
    BY <2>1, <2>3, BeginShape
<1>2. CASE RemoveItem(r)
  <2>1. PICK c \in Customers, p \in Products :
          Begin(r, c, [product |-> p, quantity |-> 0], "hget")
    BY <1>2 DEF RemoveItem
  <2>2. [product |-> p, quantity |-> 0] \in Scan(faults)
    BY ItemShape
  <2> QED
    BY <2>1, <2>2, BeginShape
<1>3. CASE ClearCart(r)
  BY <1>0, <1>3, BeginShape DEF ClearCart
<1>4. CASE InitCheckout(r)
  BY <1>0, <1>4, BeginShape DEF InitCheckout
<1> QED
  BY <1>1, <1>2, <1>3, <1>4 DEF Route

-----------------------------------------------------------------------------
(* A request between the lock and the end of its checkout. *)
Locked == {"validate", "total", "snapshot"}

(* The slot of a step stays where it may be, the others as they are. *)
Moves(r) ==
  /\ SlotsTyped' /\ OnlyAt(r) /\ faults' = faults /\ pc[r] # "idle"
  /\ pc'[r] # "idle" => user'[r] = user[r]

LEMMA StockShape ==
  ASSUME SharedTyped, NEW p \in Products, NEW q \in Int,
         \/ stock' = [stock EXCEPT ![p] = @ + q] \/ stock' = [stock EXCEPT ![p] = @ - q]
         \/ UNCHANGED stock
  PROVE  stock' \in [Products -> Int]
<1>1. stock[p] + q \in Int /\ stock[p] - q \in Int
  BY DEF SharedTyped
<1> QED
  BY <1>1 DEF SharedTyped

LEMMA ScanSteps ==
  ASSUME SlotsTyped, SharedTyped, NEW r \in Slots,
         ReadStock(r) \/ DecrementStock(r) \/ AddToCart(r) \/ Rollback(r)
  PROVE  /\ Moves(r) /\ pc'[r] \notin Locked
         /\ SharedTyped' /\ UNCHANGED <<lock, orders, expiries>>
<1> USE ItemShape DEF Moves, Locked, Labels, ProductLabels
<1>0. /\ pc[r] # "idle" /\ user[r] \in Customers /\ item[r].product \in Products
      /\ item[r].quantity \in Amount(faults) /\ held[r] \in Items(faults)
  BY DEF SlotsTyped, Scan, ReadStock, DecrementStock, AddToCart, Rollback
<1>i. item[r].quantity \in Int
  BY <1>0 DEF Amount
<1> DEFINE p == item[r].product
<1>1. CASE ReadStock(r)
  <2>1. Done(r) => Moves(r) /\ pc'[r] \notin Locked
    BY <1>0, DoneShape
  <2>2. ASSUME NEW now \in Nat,
               Keep(r, [held[r] EXCEPT ![p] = [quantity |-> item[r].quantity,
                                               price |-> now]], "decr")
        PROVE  Moves(r) /\ pc'[r] \notin Locked
    <3>1. [quantity |-> item[r].quantity, price |-> now] \in Item(faults)
      BY <1>0, ItemParts, ItemShape
    <3>2. [held[r] EXCEPT ![p] = [quantity |-> item[r].quantity, price |-> now]] \in Items(faults)
      BY <1>0, <3>1
    <3> QED
      BY <1>0, <2>2, <3>2, KeepShape
  <2>3. price[p] # None => price[p] \in Nat
    BY <1>0 DEF SharedTyped
  <2>4. Moves(r) /\ pc'[r] \notin Locked
    BY <1>0, <1>1, <2>1, <2>2, <2>3 DEF ReadStock
  <2> QED
    BY <1>1, <2>4 DEF ReadStock, shared, SharedTyped
<1>2. CASE DecrementStock(r)
  <2>1. Moves(r) /\ pc'[r] \notin Locked
    BY <1>0, <1>2, GoesShape, DoneShape DEF DecrementStock
  <2>2. stock' \in [Products -> Int]
    BY <1>0, <1>i, <1>2, StockShape DEF DecrementStock
  <2> QED
    BY <1>2, <2>1, <2>2 DEF DecrementStock, SharedTyped
<1>3. CASE AddToCart(r)
  <2>1. Moves(r) /\ pc'[r] \notin Locked
    BY <1>0, <1>3, GoesShape, DoneShape DEF AddToCart
  <2>2. cart' \in [Customers -> Items(faults)]
    <3>1. CASE cart' = [cart EXCEPT ![user[r]][p] = held[r][p]]
      <4>1. [cart[user[r]] EXCEPT ![p] = held[r][p]] \in Items(faults)
        BY <1>0 DEF SharedTyped
      <4>2. cart' = [cart EXCEPT ![user[r]] = [cart[user[r]] EXCEPT ![p] = held[r][p]]]
        BY <3>1
      <4> QED
        BY <1>0, <4>1, <4>2 DEF SharedTyped
    <3> QED
      BY <1>3, <3>1 DEF AddToCart, SharedTyped
  <2> QED
    BY <1>3, <2>1, <2>2 DEF AddToCart, SharedTyped
<1>4. CASE Rollback(r)
  <2>1. Moves(r) /\ pc'[r] \notin Locked
    BY <1>0, <1>4, DoneShape DEF Rollback
  <2>2. stock' \in [Products -> Int]
    BY <1>0, <1>i, <1>4, StockShape DEF Rollback
  <2> QED
    BY <1>4, <2>1, <2>2 DEF Rollback, SharedTyped
<1> QED
  BY <1>1, <1>2, <1>3, <1>4

LEMMA GiveBackSteps ==
  ASSUME SlotsTyped, SharedTyped, NEW r \in Slots,
         GetItem(r) \/ DelItem(r) \/ GetAllItems(r) \/ DelCart(r) \/ IncrementStock(r)
  PROVE  /\ Moves(r) /\ pc'[r] \notin Locked
         /\ SharedTyped' /\ UNCHANGED <<lock, orders, expiries>>
<1> USE ItemShape DEF Moves, Locked, Labels, ProductLabels
<1>0. pc[r] # "idle" /\ user[r] \in Customers /\ held[r] \in Items(faults)
  BY DEF SlotsTyped, GetItem, DelItem, GetAllItems, DelCart, IncrementStock
<1> DEFINE p == item[r].product
<1>1. CASE GetItem(r)
  <2>1. p \in Products
    BY <1>1 DEF GetItem, SlotsTyped
  <2>2. [held[r] EXCEPT ![p] = cart[user[r]][p]] \in Items(faults)
    BY <1>0, <2>1 DEF SharedTyped
  <2>3. Moves(r) /\ pc'[r] \notin Locked
    BY <1>0, <1>1, <2>1, <2>2, KeepShape, DoneShape DEF GetItem
  <2> QED
    BY <1>1, <2>3 DEF GetItem, shared, SharedTyped
<1>2. CASE DelItem(r)
  <2>1. p \in Products
    BY <1>2 DEF DelItem, SlotsTyped
  <2>2. Moves(r) /\ pc'[r] \notin Locked
    BY <1>0, <1>2, GoesShape, DoneShape DEF DelItem
  <2>3. cart' \in [Customers -> Items(faults)]
    <3>1. CASE cart' = [cart EXCEPT ![user[r]][p] = NoItem]
      <4>1. [cart[user[r]] EXCEPT ![p] = NoItem] \in Items(faults)
        BY <1>0, <2>1 DEF SharedTyped
      <4>2. cart' = [cart EXCEPT ![user[r]] = [cart[user[r]] EXCEPT ![p] = NoItem]]
        BY <3>1
      <4> QED
        BY <1>0, <4>1, <4>2 DEF SharedTyped
    <3> QED
      BY <1>2, <3>1 DEF DelItem, SharedTyped
  <2> QED
    BY <1>2, <2>2, <2>3 DEF DelItem, SharedTyped
<1>3. CASE GetAllItems(r)
  <2>1. cart[user[r]] \in Items(faults)
    BY <1>0 DEF SharedTyped
  <2>2. Moves(r) /\ pc'[r] \notin Locked
    BY <1>0, <1>3, <2>1, KeepShape, DoneShape DEF GetAllItems
  <2> QED
    BY <1>3, <2>2 DEF GetAllItems, shared, SharedTyped
<1>4. CASE DelCart(r)
  <2>1. Moves(r) /\ pc'[r] \notin Locked
    BY <1>0, <1>4, GoesShape, DoneShape DEF DelCart
  <2> QED
    BY <1>0, <1>4, <2>1 DEF DelCart, SharedTyped
<1>5. CASE IncrementStock(r)
  <2>1. PICK q \in In(held[r]) :
          /\ \/ stock' = [stock EXCEPT ![q] = @ + held[r][q].quantity]
             \/ UNCHANGED stock
          /\ IF In(held[r]) = {q} THEN Done(r)
             ELSE Keep(r, [held[r] EXCEPT ![q] = NoItem], "restore")
    BY <1>5 DEF IncrementStock
  <2>2. /\ q \in Products /\ held[r][q].quantity \in Int
        /\ [held[r] EXCEPT ![q] = NoItem] \in Items(faults)
    BY <1>0, ItemParts DEF In
  <2>3. Moves(r) /\ pc'[r] \notin Locked
    BY <1>0, <2>1, <2>2, KeepShape, DoneShape
  <2>4. stock' \in [Products -> Int]
    BY <2>1, <2>2, StockShape
  <2> QED
    BY <1>5, <2>3, <2>4 DEF IncrementStock, SharedTyped
<1> QED
  BY <1>1, <1>2, <1>3, <1>4, <1>5

LEMMA ReadSteps ==
  ASSUME SlotsTyped, SharedTyped, NEW r \in Slots,
         GetCartItems(r) \/ Validate(r) \/ Total(r)
  PROVE  /\ Moves(r) /\ (pc'[r] \in Locked => pc[r] \in Locked)
         /\ SharedTyped' /\ UNCHANGED <<lock, orders, expiries>>
<1> USE ItemShape DEF Moves, Locked, Labels, ProductLabels
<1>0. pc[r] # "idle" /\ user[r] \in Customers /\ held[r] \in Items(faults)
      /\ cart[user[r]] \in Items(faults)
  BY DEF SlotsTyped, SharedTyped, GetCartItems, Validate, Total
<1>1. CASE GetCartItems(r)
  <2>1. Moves(r) /\ pc'[r] \notin Locked
    BY <1>0, <1>1, KeepShape, DoneShape DEF GetCartItems
  <2> QED
    BY <1>1, <2>1 DEF GetCartItems, shared, SharedTyped
<1>2. CASE Validate(r)
  <2>1. PICK p \in In(held[r]) :
          \/ Keep(r, [held[r] EXCEPT ![p] = NoItem],
                  IF In(held[r]) = {p} THEN "total" ELSE "validate")
          \/ Done(r)
    BY <1>2 DEF Validate
  <2>2. [held[r] EXCEPT ![p] = NoItem] \in Items(faults)
    BY <1>0 DEF In
  <2>3. Moves(r)
    BY <1>0, <1>2, <2>1, <2>2, KeepShape, DoneShape DEF Validate
  <2> QED
    BY <1>2, <2>3 DEF Validate, shared, SharedTyped
<1>3. CASE Total(r)
  <2> DEFINE items == cart[user[r]]
             Read(now) == [p \in Products |->
                             IF items[p] = NoItem \/ now[p] = None THEN items[p]
                             ELSE [items[p] EXCEPT !.price = now[p]]]
  <2>1. ASSUME NEW now, \A p \in Products : now[p] \in Answers(p)
        PROVE  Read(now) \in Items(faults)
    <3>1. \A p \in Products : items[p] \in Item(faults) /\ now[p] \in Nat \union {None}
      BY <1>0, <2>1 DEF Answers, SharedTyped
    <3>2. \A p \in Products : now[p] # None => [items[p] EXCEPT !.price = now[p]] \in Item(faults)
      BY <3>1, ItemParts
    <3> HIDE DEF items
    <3> QED
      BY <3>1, <3>2 DEF Items
  <2>2. Moves(r)
    <3>1. CASE Done(r)
      BY <1>0, <1>3, <3>1, DoneShape
    <3>2. CASE \E items_ \in Items(faults) : Keep(r, items_, "snapshot")
      BY <1>0, <1>3, <3>2, KeepShape DEF Total
    <3>3. CASE ~ Done(r)
      <4>1. PICK now : (\A p \in Products : now[p] \in Answers(p)) /\ Keep(r, Read(now), "snapshot")
        BY <1>3, <3>3 DEF Total
      <4> QED
        BY <2>1, <3>2, <4>1
    <3> QED
      BY <3>1, <3>3
  <2> QED
    BY <1>3, <2>2 DEF Total, shared, SharedTyped
<1> QED
  BY <1>1, <1>2, <1>3

LEMMA LockSteps ==
  ASSUME SlotsTyped, SharedTyped, NEW r \in Slots, AcquireCheckoutLock(r)
  PROVE  /\ Moves(r) /\ pc[r] = "lock"
         /\ SharedTyped' /\ UNCHANGED <<orders, expiries>>
         /\ \/ /\ user[r] \notin lock /\ lock' = lock \union {user[r]}
               /\ pc'[r] = "validate"
            \/ UNCHANGED lock /\ pc'[r] = "idle"
<1>0. pc[r] = "lock" /\ user[r] \in Customers
  BY DEF AcquireCheckoutLock, SlotsTyped
<1>1. /\ Moves(r)
      /\ \/ /\ user[r] \notin lock /\ lock' = lock \union {user[r]}
            /\ pc'[r] = "validate"
         \/ UNCHANGED lock /\ pc'[r] = "idle"
  BY <1>0, GoesShape, DoneShape
  DEF AcquireCheckoutLock, Moves, Locked, Labels, ProductLabels
<1>2. faults' = faults
  BY <1>1 DEF Moves
<1>3. SharedTyped' /\ UNCHANGED <<orders, expiries>>
  BY <1>0, <1>1, <1>2 DEF AcquireCheckoutLock, SharedTyped
<1> QED
  BY <1>0, <1>1, <1>3

LEMMA SnapshotSteps ==
  ASSUME SlotsTyped, SharedTyped, NEW r \in Slots, SnapshotCart(r)
  PROVE  /\ Moves(r) /\ pc[r] = "snapshot" /\ pc'[r] = "idle"
         /\ SharedTyped' /\ UNCHANGED <<lock, expiries>>
         /\ \A c \in Customers :
              IF c = user[r] THEN Len(orders'[c]) \in {Len(orders[c]), Len(orders[c]) + 1}
              ELSE orders'[c] = orders[c]
<1> DEFINE o == [items |-> held[r], scanned |-> cart[user[r]], moved |-> moved[r]]
<1>0. pc[r] = "snapshot" /\ user[r] \in Customers /\ o \in Order(faults)
  BY DEF SnapshotCart, SlotsTyped, SharedTyped, Order
<1>1. Moves(r) /\ pc'[r] = "idle"
  BY <1>0, DoneShape DEF SnapshotCart, Moves, Locked
<1>2. \A c \in Customers : orders[c] \in Seq(Order(faults))
  BY DEF SharedTyped
<1> HIDE DEF o
<1>3. Append(orders[user[r]], o) \in Seq(Order(faults))
      /\ Len(Append(orders[user[r]], o)) = Len(orders[user[r]]) + 1
  BY <1>0, <1>2
<1>4. faults' = faults
  BY <1>1 DEF Moves
<1>5. CASE orders' = [orders EXCEPT ![user[r]] = Append(@, o)]
  <2>1. orders' \in [Customers -> Seq(Order(faults))]
    BY <1>0, <1>3, <1>5 DEF SharedTyped
  <2>2. \A c \in Customers : IF c = user[r] THEN Len(orders'[c]) = Len(orders[c]) + 1
                              ELSE orders'[c] = orders[c]
    BY <1>0, <1>3, <1>5 DEF SharedTyped
  <2> QED
    <3>1. SharedTyped' /\ UNCHANGED <<lock, expiries>>
      BY <1>4, <2>1 DEF SnapshotCart, SharedTyped
    <3> QED
      BY <1>0, <1>1, <1>2, <2>2, <3>1
<1>6. CASE UNCHANGED orders
  BY <1>0, <1>1, <1>2, <1>4, <1>6 DEF SnapshotCart, SharedTyped
<1> QED
  BY <1>5, <1>6 DEF SnapshotCart, o

LEMMA CrashSteps ==
  ASSUME SlotsTyped, SharedTyped, NEW r \in Slots, Crash(r)
  PROVE  /\ Moves(r) /\ pc'[r] = "idle" /\ pc'[r] \notin Locked
         /\ SharedTyped' /\ UNCHANGED shared
  BY DoneShape DEF Crash, Moves, Locked, shared, SharedTyped

-----------------------------------------------------------------------------
(* What others than the requests do. *)
Outside ==
  \/ \E c \in Customers : SessionChanges(c) \/ LockExpires(c)
  \/ \E p \in Products : PriceChanges(p)

LEMMA OutsideTypes ==
  ASSUME SlotsTyped, SharedTyped, Outside
  PROVE  SlotsTyped' /\ SharedTyped' /\ UNCHANGED <<faults, pc, user, orders>>
<1>1. ASSUME NEW c \in Customers, SessionChanges(c)
      PROVE  SlotsTyped' /\ SharedTyped' /\ UNCHANGED <<faults, pc, user, orders>>
  BY <1>1 DEF SessionChanges, request, SlotsTyped, SharedTyped
<1>3. ASSUME NEW c \in Customers, LockExpires(c)
      PROVE  SlotsTyped' /\ SharedTyped' /\ UNCHANGED <<faults, pc, user, orders>>
  <2>1. expiries[c] + 1 \in Nat /\ expiries' = [expiries EXCEPT ![c] = expiries[c] + 1]
    BY <1>3 DEF LockExpires, SharedTyped
  <2>2. expiries' \in [Customers -> Nat]
    BY <2>1 DEF SharedTyped
  <2> QED
    BY <1>3, <2>2 DEF LockExpires, request, SlotsTyped, SharedTyped
<1>2. ASSUME NEW p \in Products, PriceChanges(p)
      PROVE  SlotsTyped' /\ SharedTyped' /\ UNCHANGED <<faults, pc, user, orders>>
  <2>1. \A i \in DOMAIN Prices : Prices[i] \in Nat
    BY CartAssumption
  <2>2. price' \in [Products -> Nat \union {None}]
    BY <1>2, <2>1 DEF PriceChanges, SharedTyped
  <2>3. moved' \in [Slots -> BOOLEAN]
    BY <1>2 DEF PriceChanges, SlotsTyped
  <2> QED
    BY <1>2, <2>2, <2>3 DEF PriceChanges, SlotsTyped, SharedTyped
<1> QED
  BY <1>1, <1>2, <1>3 DEF Outside

LEMMA ServeTypes ==
  ASSUME SlotsTyped, SharedTyped, NEW r \in Slots, Serve(r)
  PROVE  Moves(r) /\ SharedTyped'
  BY ScanSteps, GiveBackSteps, ReadSteps, LockSteps, SnapshotSteps, CrashSteps DEF Serve

(* Every variable keeps its shape (the handlers of the cart service).      *)
THEOREM TypeCorrect == Spec => []TypeOK
<1>1. Init => TypeOK
  <2> SUFFICES ASSUME Init PROVE SlotsTyped /\ SharedTyped
    BY TypeParts DEF Init
  <2>1. SlotsTyped
    BY ItemShape DEF Init, SlotsTyped, NoProduct, Labels
  <2>2. Prices[1] \in Nat
    BY CartAssumption
  <2>3. <<>> \in Seq(Order(faults))
    OBVIOUS
  <2>4. SharedTyped
    BY <2>2, <2>3, ItemShape, CartAssumption DEF Init, SharedTyped
  <2> QED
    BY <2>1, <2>4
<1>2. TypeOK /\ [Next]_vars => TypeOK'
  <2> SUFFICES ASSUME TypeOK, [Next]_vars PROVE TypeOK'
    OBVIOUS
  <2>1. ASSUME NEW r \in Slots, Route(r) PROVE TypeOK'
    BY <2>1, TypeParts, RouteShape DEF shared, TypeOK, SlotsTyped
  <2>2. ASSUME NEW r \in Slots, Serve(r) PROVE TypeOK'
    <3>1. Moves(r) /\ SharedTyped'
      BY <2>2, TypeParts, ServeTypes
    <3> QED
      BY <3>1 DEF Moves, TypeOK, SlotsTyped, SharedTyped
  <2>3. CASE Outside
    BY <2>3, TypeParts, OutsideTypes DEF TypeOK, SlotsTyped, SharedTyped
  <2>4. CASE UNCHANGED vars
    BY <2>4 DEF vars, shared, request, TypeOK
  <2> QED
    BY <2>1, <2>2, <2>3, <2>4 DEF Next, Outside
<1> QED
  BY <1>1, <1>2, PTL DEF Spec

-----------------------------------------------------------------------------
(* Each checkout, done or under way, has taken the lock, and a lock that   *)
(* was taken is held or has timed out.                                     *)
InCheckout(c) == {r \in Slots : user[r] = c /\ pc[r] \in Locked}
Taken(c) == expiries[c] + (IF c \in lock THEN 1 ELSE 0)
LocksCounted ==
  \A c \in Customers : Len(orders[c]) + Cardinality(InCheckout(c)) <= Taken(c)

LEMMA Numbers ==
  ASSUME SharedTyped, NEW c \in Customers
  PROVE  /\ Len(orders[c]) \in Nat /\ expiries[c] \in Nat
         /\ IsFiniteSet(InCheckout(c)) /\ Cardinality(InCheckout(c)) \in Nat
<1>1. IsFiniteSet(InCheckout(c))
  <2>1. InCheckout(c) \subseteq Slots
    BY DEF InCheckout
  <2> QED
    BY <2>1, CartAssumption, FS_Subset
<1>2. Len(orders[c]) \in Nat /\ expiries[c] \in Nat
  BY DEF SharedTyped
<1> QED
  BY <1>1, <1>2, FS_CardinalityType

(* A step that neither takes the lock nor ends with an order. *)
LEMMA OtherCheckout ==
  ASSUME SharedTyped, SharedTyped', LocksCounted, NEW r \in Slots, Moves(r),
         pc'[r] \in Locked => pc[r] \in Locked, UNCHANGED <<lock, orders, expiries>>
  PROVE  LocksCounted'
<1> SUFFICES ASSUME NEW c \in Customers
             PROVE  Len(orders'[c]) + Cardinality(InCheckout(c)') <= Taken(c)'
  BY DEF LocksCounted
<1>1. InCheckout(c)' \subseteq InCheckout(c)
  BY DEF InCheckout, Moves, OnlyAt, Locked
<1>2. Cardinality(InCheckout(c)') <= Cardinality(InCheckout(c))
  BY <1>1, Numbers, FS_Subset
<1>3. Cardinality(InCheckout(c)') \in Nat
  BY <1>1, Numbers, FS_Subset, FS_CardinalityType
<1> QED
  BY <1>2, <1>3, Numbers DEF LocksCounted, Taken

LEMMA LockCheckout ==
  ASSUME SlotsTyped, SharedTyped, LocksCounted, NEW r \in Slots, AcquireCheckoutLock(r)
  PROVE  LocksCounted'
<1>1. /\ Moves(r) /\ pc[r] = "lock" /\ SharedTyped' /\ UNCHANGED <<orders, expiries>>
  BY LockSteps
<1>2. CASE UNCHANGED lock /\ pc'[r] = "idle"
  BY <1>1, <1>2, OtherCheckout DEF Locked
<1>3. CASE user[r] \notin lock /\ lock' = lock \union {user[r]} /\ pc'[r] = "validate"
  <2> SUFFICES ASSUME NEW c \in Customers
               PROVE  Len(orders'[c]) + Cardinality(InCheckout(c)') <= Taken(c)'
    BY DEF LocksCounted
  <2>1. CASE c = user[r]
    <3>1. InCheckout(c)' = InCheckout(c) \union {r} /\ r \notin InCheckout(c)
      BY <1>1, <1>3, <2>1 DEF InCheckout, Moves, OnlyAt, Locked
    <3>2. Cardinality(InCheckout(c)') = Cardinality(InCheckout(c)) + 1
      BY <3>1, Numbers, FS_AddElement
    <3>3. Taken(c)' = Taken(c) + 1
      BY <1>1, <1>3, <2>1, Numbers DEF Taken
    <3> QED
      BY <1>1, <3>2, <3>3, Numbers DEF LocksCounted, Taken
  <2>2. CASE c # user[r]
    <3>1. InCheckout(c)' = InCheckout(c)
      BY <1>1, <1>3, <2>2 DEF InCheckout, Moves, OnlyAt, Locked
    <3>2. Taken(c)' = Taken(c)
      BY <1>1, <1>3, <2>2 DEF Taken
    <3> QED
      BY <1>1, <3>1, <3>2 DEF LocksCounted
  <2> QED
    BY <2>1, <2>2
<1> QED
  BY <1>2, <1>3, LockSteps

LEMMA SnapshotCheckout ==
  ASSUME SlotsTyped, SharedTyped, LocksCounted, NEW r \in Slots, SnapshotCart(r)
  PROVE  LocksCounted'
<1>1. /\ Moves(r) /\ pc[r] = "snapshot" /\ pc'[r] = "idle" /\ UNCHANGED <<lock, expiries>>
  BY SnapshotSteps
<1> SUFFICES ASSUME NEW c \in Customers
             PROVE  Len(orders'[c]) + Cardinality(InCheckout(c)') <= Taken(c)'
  BY DEF LocksCounted
<1>2. Taken(c)' = Taken(c)
  BY <1>1 DEF Taken
<1>3. CASE c = user[r]
  <2>1. InCheckout(c)' = InCheckout(c) \ {r} /\ r \in InCheckout(c)
    BY <1>1, <1>3 DEF InCheckout, Moves, OnlyAt, Locked
  <2>2. Cardinality(InCheckout(c)') = Cardinality(InCheckout(c)) - 1
    BY <2>1, Numbers, FS_RemoveElement
  <2>3. Len(orders'[c]) \in {Len(orders[c]), Len(orders[c]) + 1}
    BY <1>3, SnapshotSteps
  <2> QED
    BY <1>2, <2>2, <2>3, Numbers DEF LocksCounted, Taken
<1>4. CASE c # user[r]
  <2>1. InCheckout(c)' = InCheckout(c)
    BY <1>1, <1>4 DEF InCheckout, Moves, OnlyAt, Locked
  <2>2. orders'[c] = orders[c]
    BY <1>4, SnapshotSteps
  <2> QED
    BY <1>2, <2>1, <2>2 DEF LocksCounted
<1> QED
  BY <1>3, <1>4

LEMMA OutsideCheckout ==
  ASSUME SlotsTyped, SharedTyped, LocksCounted, Outside
  PROVE  LocksCounted'
<1> SUFFICES ASSUME NEW c \in Customers
             PROVE  Len(orders'[c]) + Cardinality(InCheckout(c)') <= Taken(c)'
  BY DEF LocksCounted
<1>1. InCheckout(c)' = InCheckout(c) /\ orders' = orders
  BY OutsideTypes DEF InCheckout
<1>2. Taken(c)' = Taken(c)
  <2>1. CASE UNCHANGED <<lock, expiries>>
    BY <2>1 DEF Taken
  <2>2. ASSUME NEW d \in Customers, LockExpires(d) PROVE Taken(c)' = Taken(c)
    <3>1. /\ d \in lock /\ lock' = lock \ {d}
          /\ expiries'[c] = IF c = d THEN expiries[c] + 1 ELSE expiries[c]
      BY <2>2 DEF LockExpires, SharedTyped
    <3> QED
      BY <3>1, Numbers DEF Taken
  <2> QED
    BY <2>1, <2>2 DEF Outside, SessionChanges, PriceChanges
<1> QED
  BY <1>1, <1>2 DEF LocksCounted

(* "Checkout lock (5 min)": a customer has one order, and one more for     *)
(* each time the lock has timed out (InitCheckout).                        *)
THEOREM CheckoutOnce == Spec => []OneCheckoutPerLock
<1>1. Init => LocksCounted
  <2> SUFFICES ASSUME Init, NEW c \in Customers
               PROVE  Len(orders[c]) + Cardinality(InCheckout(c)) <= Taken(c)
    BY DEF LocksCounted
  <2>1. InCheckout(c) = {} /\ orders[c] = <<>> /\ expiries[c] = 0 /\ c \notin lock
    BY DEF Init, InCheckout, Locked
  <2> QED
    BY <2>1, FS_EmptySet DEF Taken
<1>2. TypeOK /\ TypeOK' /\ LocksCounted /\ [Next]_vars => LocksCounted'
  <2> SUFFICES ASSUME TypeOK, TypeOK', LocksCounted, [Next]_vars PROVE LocksCounted'
    OBVIOUS
  <2>0. SlotsTyped /\ SharedTyped /\ SharedTyped'
    BY TypeParts DEF TypeOK, SharedTyped
  <2>1. ASSUME NEW r \in Slots, Route(r) PROVE LocksCounted'
    <3>1. /\ OnlyAt(r) /\ UNCHANGED shared /\ pc[r] = "idle"
          /\ pc'[r] \in {"read", "hget", "clear", "items"}
      BY <2>0, <2>1, RouteShape
    <3>2. \A c \in Customers : InCheckout(c)' = InCheckout(c)
      BY <3>1 DEF InCheckout, OnlyAt, Locked
    <3> QED
      BY <3>1, <3>2 DEF LocksCounted, Taken, shared
  <2>2. ASSUME NEW r \in Slots, Serve(r) PROVE LocksCounted'
    <3>1. CASE AcquireCheckoutLock(r)
      BY <2>0, <3>1, LockCheckout
    <3>2. CASE SnapshotCart(r)
      BY <2>0, <3>2, SnapshotCheckout
    <3>3. CASE ~ AcquireCheckoutLock(r) /\ ~ SnapshotCart(r)
      <4>1. /\ Moves(r) /\ (pc'[r] \in Locked => pc[r] \in Locked)
            /\ UNCHANGED <<lock, orders, expiries>>
        BY <2>0, <2>2, <3>3, ScanSteps, GiveBackSteps, ReadSteps, CrashSteps DEF Serve, shared
      <4> QED
        BY <2>0, <4>1, OtherCheckout
    <3> QED
      BY <3>1, <3>2, <3>3
  <2>3. CASE Outside
    BY <2>0, <2>3, OutsideCheckout
  <2>4. CASE UNCHANGED vars
    BY <2>4 DEF vars, shared, request, LocksCounted, Taken, InCheckout
  <2> QED
    BY <2>1, <2>2, <2>3, <2>4 DEF Next, Outside
<1>3. TypeOK /\ LocksCounted => OneCheckoutPerLock
  <2> SUFFICES ASSUME TypeOK, LocksCounted, NEW c \in Customers
               PROVE  Len(orders[c]) <= 1 + expiries[c]
    BY DEF OneCheckoutPerLock
  <2>1. SharedTyped
    BY TypeParts
  <2> QED
    BY <2>1, Numbers DEF LocksCounted, Taken
<1> QED
  BY <1>1, <1>2, <1>3, TypeCorrect, PTL DEF Spec

-----------------------------------------------------------------------------
(* Customers who act in turn: the request of one is the only one that      *)
(* writes the cart,                                                        *)
OneRequestEach ==
  \A q, r \in Slots : pc[q] # "idle" /\ pc[r] # "idle" /\ user[q] = user[r] => q = r

(* and unless a price changes under way, it has found the prices of the    *)
(* cart to be near those of now by the time it reads them again.           *)
PriceNow(p) == IF price[p] = None THEN 0 ELSE price[p]
Agrees(r, p) ==
  cart[user[r]][p] = NoItem \/ Unchanged(PriceNow(p), cart[user[r]][p])
Compared(r) ==
  /\ pc[r] = "lock" => held[r] = cart[user[r]]
  /\ ~ moved[r] =>
       /\ pc[r] = "validate" =>
            \A p \in Products : IF held[r][p] = NoItem THEN Agrees(r, p)
                                ELSE held[r][p] = cart[user[r]][p]
       /\ pc[r] = "total" => \A p \in Products : Agrees(r, p)
       /\ pc[r] = "snapshot" => \A p \in Products : AsScanned(held[r][p], cart[user[r]][p])

Charged ==
  \A c \in Customers : \A i \in DOMAIN orders[c] :
    \/ orders[c][i].moved
    \/ \A p \in Products : AsScanned(orders[c][i].items[p], orders[c][i].scanned[p])

InTurn == OneRequestEach /\ (\A r \in Slots : Compared(r)) /\ Charged

LEMMA CartWrite ==
  ASSUME SharedTyped, NEW u \in Customers, NEW p \in Products, NEW it,
         cart' = [cart EXCEPT ![u][p] = it]
  PROVE  /\ \A c \in Customers, q \in Products :
              cart'[c][q] = IF c = u /\ q = p THEN it ELSE cart[c][q]
         /\ \A c \in Customers : c # u => cart'[c] = cart[c]
<1>1. cart' = [cart EXCEPT ![u] = [cart[u] EXCEPT ![p] = it]]
  OBVIOUS
<1>2. cart[u] \in Items(faults) /\ DOMAIN cart[u] = Products
  <2>1. cart[u] \in Items(faults)
    BY DEF SharedTyped
  <2> QED
    BY <2>1 DEF Items
<1>3. cart'[u] = [cart[u] EXCEPT ![p] = it] /\ \A c \in Customers : c # u => cart'[c] = cart[c]
  BY <1>1 DEF SharedTyped
<1> QED
  BY <1>2, <1>3

(* Two prices that are near each other. *)
LEMMA NearPrices ==
  ASSUME NEW f, NEW it \in Item(f), NEW now \in Nat, it # NoItem, Unchanged(now, it)
  PROVE  AsScanned([it EXCEPT !.price = now], it)
<1> DEFINE then == it.price
           new == [it EXCEPT !.price = now]
<1>1. new.quantity = it.quantity /\ new.price = now
  BY DEF Item
<1>2. CASE now = then
  <2>1. new = it
    BY <1>2 DEF Item
  <2> QED
    BY <2>1 DEF AsScanned
<1>3. CASE {now, then} \in Close
  <2>1. PICK n \in {now, then} : n \in Nat /\ {now, then} = {n, n + 1}
    BY <1>3, CartAssumption
  <2>2. then \in {n, n + 1} /\ now \in {n, n + 1} /\ n \in {now, then} /\ n + 1 \in {now, then}
    BY <2>1
  <2>3. now - then \in {-1, 1}
    BY <2>1, <2>2
  <2> QED
    BY <1>1, <2>3 DEF AsScanned
<1> QED
  BY <1>2, <1>3 DEF Unchanged

(* A step of a request leaves prices alone and writes its own cart only.   *)
LEMMA OwnCart ==
  ASSUME SlotsTyped, SharedTyped, NEW r \in Slots, Serve(r)
  PROVE  /\ UNCHANGED price
         /\ \A c \in Customers : c # user[r] => cart'[c] = cart[c]
         /\ pc[r] \in Locked \union {"items", "lock"} => UNCHANGED cart
<1>1. user[r] \in Customers
  BY ServeTypes DEF Moves, SlotsTyped
<1>2. CASE AddToCart(r) \/ DelItem(r)
  <2>1. UNCHANGED price /\ pc[r] \in {"add", "hdel"} /\ item[r].product \in Products
    BY <1>2 DEF AddToCart, DelItem, SlotsTyped
  <2> PICK u \in Customers, q \in Products : u = user[r] /\ q = item[r].product
    BY <1>1, <2>1
  <2>2. CASE \E it : cart' = [cart EXCEPT ![u][q] = it]
    BY <2>1, <2>2, CartWrite DEF Locked
  <2>3. CASE UNCHANGED cart
    BY <2>1, <2>3
  <2> QED
    BY <1>2, <2>2, <2>3 DEF AddToCart, DelItem
<1>3. CASE DelCart(r)
  BY <1>1, <1>3 DEF DelCart, SharedTyped, Locked
<1> QED
  BY <1>2, <1>3
  DEF Serve, ReadStock, DecrementStock, Rollback, GetItem, GetAllItems, IncrementStock,
      GetCartItems, AcquireCheckoutLock, Validate, Total, SnapshotCart, Crash, shared

(* What a checkout has compared, step by step. *)
LEMMA CheckoutCompares ==
  ASSUME SlotsTyped, SharedTyped, "redis" \notin faults, NEW r \in Slots, Compared(r), Serve(r)
  PROVE  Compared(r)'
<1> PICK u \in Customers : u = user[r]
  BY ServeTypes DEF Moves, SlotsTyped
<1>0. held[r] \in Items(faults) /\ cart[u] \in Items(faults) /\ pc[r] # "idle"
  BY ServeTypes DEF Moves, SlotsTyped, SharedTyped
<1>1. CASE pc'[r] \notin Locked \union {"lock"}
  BY <1>1 DEF Compared, Locked
<1>2. CASE GetCartItems(r) /\ pc'[r] # "idle"
  <2>1. /\ UNCHANGED cart /\ pc'[r] = "lock" /\ held'[r] = cart[user[r]] /\ user'[r] = user[r]
    BY <1>2, DoneShape DEF GetCartItems, Keep, Goto, SlotsTyped, shared
  <2> QED
    BY <2>1 DEF Compared
<1>3. CASE AcquireCheckoutLock(r) /\ pc'[r] # "idle"
  <2>1. /\ UNCHANGED <<cart, price>> /\ pc[r] = "lock" /\ pc'[r] = "validate"
        /\ held'[r] = held[r] /\ user'[r] = user[r]
    BY <1>3, DoneShape DEF AcquireCheckoutLock, Goes, Goto, request, SlotsTyped
  <2>2. held[r] = cart[u]
    BY <2>1 DEF Compared
  <2> QED
    BY <2>1, <2>2 DEF Compared, Agrees
<1>4. CASE Validate(r) /\ pc'[r] # "idle"
  <2>1. PICK p \in In(held[r]) :
          /\ Unchanged(PriceNow(p), held[r][p])
          /\ Keep(r, [held[r] EXCEPT ![p] = NoItem],
                  IF In(held[r]) = {p} THEN "total" ELSE "validate")
    BY <1>4, DoneShape DEF Validate, Missed, RedisFails, PriceNow
  <2>2. p \in Products /\ held[r][p] # NoItem
    BY <2>1 DEF In
  <2>3. /\ UNCHANGED <<cart, price>> /\ pc[r] = "validate" /\ moved'[r] = moved[r]
        /\ held'[r] = [held[r] EXCEPT ![p] = NoItem] /\ user'[r] = user[r]
        /\ pc'[r] = IF In(held[r]) = {p} THEN "total" ELSE "validate"
    BY <1>4, <2>1 DEF Validate, Keep, Goto, SlotsTyped, shared
  <2> SUFFICES ASSUME ~ moved[r]
               PROVE  /\ pc'[r] = "validate" =>
                           \A q \in Products : IF held'[r][q] = NoItem THEN Agrees(r, q)'
                                               ELSE held'[r][q] = cart[user[r]][q]
                      /\ pc'[r] = "total" => \A q \in Products : Agrees(r, q)'
    BY <2>3 DEF Compared
  <2>4. \A q \in Products : Agrees(r, q)' <=> Agrees(r, q)
    BY <2>3 DEF Agrees, PriceNow
  <2>5. \A q \in Products : IF held[r][q] = NoItem THEN Agrees(r, q)
                            ELSE held[r][q] = cart[user[r]][q]
    BY <2>3 DEF Compared
  <2>6. Agrees(r, p)
    BY <2>1, <2>2, <2>5 DEF Agrees
  <2>7. \A q \in Products : held'[r][q] = IF q = p THEN NoItem ELSE held[r][q]
    BY <1>0, <2>3 DEF Items
  <2>8. CASE pc'[r] = "validate"
    BY <2>4, <2>5, <2>6, <2>7, <2>8
  <2>9. CASE In(held[r]) = {p}
    <3>1. \A q \in Products : q # p => held[r][q] = NoItem
      BY <2>9 DEF In
    <3> QED
      BY <2>4, <2>5, <2>6, <2>3, <2>9, <3>1
  <2> QED
    BY <2>3, <2>8, <2>9
<1>5. CASE Total(r) /\ pc'[r] # "idle"
  <2>1. PICK now :
          /\ \A p \in Products : now[p] \in Answers(p)
          /\ Keep(r, [p \in Products |->
                        IF cart[user[r]][p] = NoItem \/ now[p] = None THEN cart[user[r]][p]
                        ELSE [cart[user[r]][p] EXCEPT !.price = now[p]]], "snapshot")
    BY <1>5, DoneShape DEF Total
  <2>2. /\ UNCHANGED cart /\ pc[r] = "total" /\ pc'[r] = "snapshot" /\ moved'[r] = moved[r]
        /\ user'[r] = user[r]
        /\ held'[r] = [p \in Products |->
                         IF cart[u][p] = NoItem \/ now[p] = None THEN cart[u][p]
                         ELSE [cart[u][p] EXCEPT !.price = now[p]]]
    BY <1>5, <2>1 DEF Total, Keep, Goto, SlotsTyped, shared
  <2> SUFFICES ASSUME ~ moved[r], NEW p \in Products
               PROVE  AsScanned(held'[r][p], cart[u][p])
    BY <2>2 DEF Compared
  <2>3. Agrees(r, p)
    BY <2>2 DEF Compared
  <2>4. CASE cart[u][p] = NoItem \/ now[p] = None
    BY <2>2, <2>4 DEF AsScanned
  <2>5. CASE cart[u][p] # NoItem /\ now[p] # None
    <3>1. held'[r][p] = [cart[u][p] EXCEPT !.price = now[p]]
      BY <2>2, <2>5
    <3>2. now[p] = PriceNow(p) /\ now[p] \in Nat
      BY <2>1, <2>5 DEF Answers, Missed, RedisFails, PriceNow, SharedTyped
    <3>3. Unchanged(now[p], cart[u][p])
      BY <2>3, <2>5, <3>2 DEF Agrees
    <3>4. cart[u][p] \in Item(faults)
      BY <1>0, ItemShape
    <3> QED
      BY <2>5, <3>1, <3>2, <3>3, <3>4, NearPrices
  <2> QED
    BY <2>4, <2>5
<1> QED
  <2>1. pc'[r] \in Locked \union {"lock"} =>
          GetCartItems(r) \/ AcquireCheckoutLock(r) \/ Validate(r) \/ Total(r)
    <3>1. CASE ReadStock(r)
      BY <3>1, DoneShape DEF ReadStock, Keep, Goto, SlotsTyped, Locked
    <3>2. CASE GetItem(r) \/ GetAllItems(r)
      BY <3>2, DoneShape DEF GetItem, GetAllItems, Keep, Goto, SlotsTyped, Locked
    <3>3. CASE IncrementStock(r)
      BY <3>3, DoneShape DEF IncrementStock, Keep, Goto, SlotsTyped, Locked
    <3>4. CASE DecrementStock(r) \/ AddToCart(r) \/ Rollback(r) \/ DelItem(r) \/ DelCart(r)
               \/ SnapshotCart(r)
      BY <3>4, DoneShape DEF DecrementStock, AddToCart, Rollback, DelItem, DelCart,
                             SnapshotCart, Goes, Goto, SlotsTyped, Locked
    <3>5. CASE Crash(r)
      BY <3>5, CrashSteps DEF Locked
    <3> QED
      BY <3>1, <3>2, <3>3, <3>4, <3>5 DEF Serve
  <2> QED
    BY <1>1, <1>2, <1>3, <1>4, <1>5, <2>1 DEF Locked

LEMMA ServeInTurn ==
  ASSUME SlotsTyped, SharedTyped, "redis" \notin faults, InTurn, NEW r \in Slots, Serve(r)
  PROVE  InTurn'
<1>1. Moves(r) /\ OnlyAt(r) /\ user[r] \in Customers /\ SharedTyped'
  BY ServeTypes DEF Moves, SlotsTyped
<1>2. OneRequestEach'
  BY <1>1 DEF InTurn, OneRequestEach, Moves, OnlyAt
<1>3. ASSUME NEW q \in Slots PROVE Compared(q)'
  <2>1. CASE q = r
    BY <2>1, CheckoutCompares DEF InTurn
  <2>2. CASE q # r /\ pc[q] = "idle"
    BY <1>1, <2>2 DEF Compared, OnlyAt
  <2>3. CASE q # r /\ pc[q] # "idle"
    <3>1. user[q] # user[r] /\ user[q] \in Customers
      BY <1>1, <2>3 DEF InTurn, OneRequestEach, Moves, SlotsTyped
    <3>2. cart'[user[q]] = cart[user[q]] /\ price' = price
      BY <3>1, OwnCart
    <3> QED
      BY <1>1, <2>3, <3>2 DEF InTurn, Compared, Agrees, PriceNow, OnlyAt
  <2> QED
    BY <2>1, <2>2, <2>3
<1>4. Charged'
  <2>1. CASE SnapshotCart(r)
    <3> DEFINE o == [items |-> held[r], scanned |-> cart[user[r]], moved |-> moved[r]]
    <3>1. o.moved \/ \A p \in Products : AsScanned(o.items[p], o.scanned[p])
      BY <2>1, <1>1 DEF InTurn, Compared, SnapshotCart, SlotsTyped
    <3>2. o \in Order(faults)
      BY <1>1 DEF SlotsTyped, SharedTyped, Order
    <3>3. \A c \in Customers : orders[c] \in Seq(Order(faults))
      BY DEF SharedTyped
    <3> HIDE DEF o
    <3>4. CASE orders' = [orders EXCEPT ![user[r]] = Append(@, o)]
      <4> SUFFICES ASSUME NEW c \in Customers, NEW i \in DOMAIN orders'[c]
                   PROVE  \/ orders'[c][i].moved
                          \/ \A p \in Products :
                               AsScanned(orders'[c][i].items[p], orders'[c][i].scanned[p])
        BY DEF Charged
      <4>1. CASE c = user[r]
        <5>1. orders'[c] = Append(orders[c], o)
          BY <1>1, <3>4, <4>1 DEF SharedTyped
        <5>2. orders'[c][i] = o \/ (i \in DOMAIN orders[c] /\ orders'[c][i] = orders[c][i])
          BY <3>2, <3>3, <5>1
        <5> QED
          BY <3>1, <5>2 DEF InTurn, Charged
      <4>2. CASE c # user[r]
        <5>1. orders'[c] = orders[c]
          BY <3>4, <4>2 DEF SharedTyped
        <5> QED
          BY <5>1 DEF InTurn, Charged
      <4> QED
        BY <4>1, <4>2
    <3>5. CASE UNCHANGED orders
      BY <3>5 DEF InTurn, Charged
    <3> QED
      BY <2>1, <3>4, <3>5 DEF SnapshotCart, o
  <2>2. CASE ~ SnapshotCart(r)
    <3>1. UNCHANGED orders
      BY <2>2, ScanSteps, GiveBackSteps, ReadSteps, LockSteps, CrashSteps DEF Serve, shared
    <3> QED
      BY <3>1 DEF InTurn, Charged
  <2> QED
    BY <2>1, <2>2
<1> QED
  BY <1>2, <1>3, <1>4 DEF InTurn

LEMMA RouteInTurn ==
  ASSUME SlotsTyped, SharedTyped, InTurn, "overlap" \notin faults, NEW r \in Slots, Route(r)
  PROVE  InTurn'
<1>1. /\ OnlyAt(r) /\ UNCHANGED shared /\ pc[r] = "idle"
      /\ pc'[r] \in {"read", "hget", "clear", "items"}
  BY RouteShape
<1>2. \A q \in Slots : q # r /\ pc[q] # "idle" => user[q] # user'[r]
  <2>1. PICK c \in Customers : Expected(c) /\ user'[r] = c
    BY DEF Route, ScanItem, RemoveItem, ClearCart, InitCheckout, Begin, SlotsTyped
  <2>2. (\A q \in Slots : user[q] # c) \/ (\A q \in Slots : pc[q] = "idle")
    BY <2>1 DEF Expected
  <2> QED
    BY <2>1, <2>2
<1>3. OneRequestEach'
  BY <1>1, <1>2 DEF InTurn, OneRequestEach, OnlyAt
<1>4. \A q \in Slots : Compared(q)'
  <2> SUFFICES ASSUME NEW q \in Slots PROVE Compared(q)'
    OBVIOUS
  <2>1. CASE q = r
    BY <1>1, <2>1 DEF Compared
  <2>2. CASE q # r
    BY <1>1, <2>2 DEF InTurn, Compared, Agrees, PriceNow, OnlyAt, shared
  <2> QED
    BY <2>1, <2>2
<1>5. Charged'
  BY <1>1 DEF InTurn, Charged, shared
<1> QED
  BY <1>3, <1>4, <1>5 DEF InTurn

LEMMA OutsideInTurn ==
  ASSUME SlotsTyped, SharedTyped, InTurn, Outside
  PROVE  InTurn'
<1>1. UNCHANGED <<pc, user, held, orders, cart>>
  BY DEF Outside, SessionChanges, LockExpires, PriceChanges, request
<1>2. OneRequestEach' /\ Charged'
  BY <1>1 DEF InTurn, OneRequestEach, Charged
<1>3. ASSUME NEW q \in Slots PROVE Compared(q)'
  <2>1. CASE UNCHANGED <<price, moved>>
    BY <1>1, <2>1 DEF InTurn, Compared, Agrees, PriceNow
  <2>2. CASE pc[q] = "idle" \/ moved'[q]
    BY <1>1, <2>2 DEF InTurn, Compared
  <2> QED
    BY <2>1, <2>2 DEF Outside, SessionChanges, LockExpires, PriceChanges, request
<1> QED
  BY <1>2, <1>3 DEF InTurn

LEMMA TurnInit == ASSUME Init PROVE InTurn
  BY DEF Init, InTurn, OneRequestEach, Compared, Charged

(* While Redis works, customers who act in turn. *)
TurnInv == faults \intersect {"overlap", "redis"} = {} => InTurn

LEMMA NextInTurn ==
  ASSUME SlotsTyped, SharedTyped, TurnInv, [Next]_vars
  PROVE  TurnInv'
<1>1. ASSUME NEW r \in Slots, Route(r) PROVE TurnInv'
  <2>1. faults' = faults
    BY <1>1, RouteShape
  <2> QED
    BY <1>1, <2>1, RouteInTurn DEF TurnInv
<1>2. ASSUME NEW r \in Slots, Serve(r) PROVE TurnInv'
  <2>1. faults' = faults
    BY <1>2, ServeTypes DEF Moves
  <2> QED
    BY <1>2, <2>1, ServeInTurn DEF TurnInv
<1>3. CASE Outside
  <2>1. UNCHANGED faults
    BY <1>3, OutsideTypes
  <2> QED
    BY <1>3, <2>1, OutsideInTurn DEF TurnInv
<1>4. CASE UNCHANGED vars
  BY <1>4 DEF vars, shared, request, TurnInv, InTurn, OneRequestEach, Compared,
              Agrees, PriceNow, Charged
<1> QED
  BY <1>1, <1>2, <1>3, <1>4 DEF Next, Outside

(* A customer who acts in turn while Redis works pays the prices of the    *)
(* scan, up to a paisa per unit, unless a price changes during the         *)
(* checkout (InitCheckout with its comparison and GetCart).                *)
THEOREM PriceKept == Spec => []ScannedPriceIsCharged
<1>1. Init => TurnInv
  BY TurnInit DEF TurnInv
<1>2. TypeOK /\ TurnInv /\ [Next]_vars => TurnInv'
  BY TypeParts, NextInTurn
<1>3. TurnInv => ScannedPriceIsCharged
  BY DEF TurnInv, InTurn, Charged, ScannedPriceIsCharged
<1> QED
  BY <1>1, <1>2, <1>3, TypeCorrect, PTL DEF Spec

-----------------------------------------------------------------------------
(* Heaps of units: what changes when one heap does, and when none grows.   *)
Heap(f, x) == {x} \X (1..f[x])
HeapsOf(f, S) == UNION {Heap(f, x) : x \in S}

LEMMA UnitsAre ==
  ASSUME NEW S, NEW f \in [S -> Nat]
  PROVE  Units(f) = Cardinality(HeapsOf(f, S))
BY DEF Units, HeapsOf, Heap

LEMMA HeapSize ==
  ASSUME NEW S, NEW f \in [S -> Nat], NEW x \in S
  PROVE  IsFiniteSet(Heap(f, x)) /\ Cardinality(Heap(f, x)) = f[x]
<1>1. f[x] \in Nat /\ f[x] \in Int /\ 1 \in Int
  OBVIOUS
<1>2. IsFiniteSet(1..f[x]) /\ Cardinality(1..f[x]) = f[x]
  BY <1>1, FS_Interval
<1>3. IsFiniteSet({x}) /\ Cardinality({x}) = 1
  BY FS_Singleton
<1> QED
  BY <1>1, <1>2, <1>3, FS_Product DEF Heap

LEMMA HeapsFinite ==
  ASSUME NEW S, IsFiniteSet(S), NEW f, \A x \in S : IsFiniteSet(Heap(f, x))
  PROVE  IsFiniteSet(HeapsOf(f, S)) /\ Cardinality(HeapsOf(f, S)) \in Nat
<1> DEFINE heaps == {Heap(f, x) : x \in S}
           each == [x \in S |-> Heap(f, x)]
<1>1. each \in Surjection(S, heaps)
  BY DEF Surjection
<1>2. IsFiniteSet(heaps)
  BY <1>1, FS_Surjection
<1>3. \A T \in heaps : IsFiniteSet(T)
  OBVIOUS
<1> HIDE DEF heaps
<1>4. IsFiniteSet(UNION heaps)
  BY <1>2, <1>3, FS_UNION
<1> QED
  BY <1>4, FS_CardinalityType DEF HeapsOf, heaps

LEMMA UnitsCount ==
  ASSUME NEW S, IsFiniteSet(S), NEW f \in [S -> Nat]
  PROVE  Units(f) \in Nat
BY UnitsAre, HeapSize, HeapsFinite

(* One heap changes. *)
LEMMA OneHeap ==
  ASSUME NEW S, IsFiniteSet(S), NEW f \in [S -> Nat], NEW g \in [S -> Nat],
         NEW x \in S, \A y \in S \ {x} : g[y] = f[y]
  PROVE  Units(g) = Units(f) + g[x] - f[x]
<1> DEFINE rest == HeapsOf(f, S \ {x})
<1>1. IsFiniteSet(S \ {x})
  BY FS_RemoveElement
<1>2. \A y \in S \ {x} : IsFiniteSet(Heap(f, y)) /\ Heap(g, y) = Heap(f, y)
  BY HeapSize DEF Heap
<1>3. IsFiniteSet(rest) /\ Cardinality(rest) \in Nat
  BY <1>1, <1>2, HeapsFinite
<1>4. HeapsOf(f, S) = rest \union Heap(f, x) /\ rest \cap Heap(f, x) = {}
  BY DEF HeapsOf, Heap
<1>5. HeapsOf(g, S) = rest \union Heap(g, x) /\ rest \cap Heap(g, x) = {}
  BY <1>2 DEF HeapsOf, Heap
<1>6. Cardinality({}) = 0
  BY FS_EmptySet
<1>7. f[x] \in Nat /\ g[x] \in Nat
  OBVIOUS
<1>a. IsFiniteSet(Heap(f, x)) /\ Cardinality(Heap(f, x)) = f[x]
  BY HeapSize
<1>b. IsFiniteSet(Heap(g, x)) /\ Cardinality(Heap(g, x)) = g[x]
  BY HeapSize
<1> HIDE DEF rest
<1>8. Cardinality(HeapsOf(f, S)) = Cardinality(rest) + f[x]
  <2> DEFINE top == Heap(f, x)
  <2> HIDE DEF top
  <2>1. Cardinality(rest \union top) = Cardinality(rest) + Cardinality(top) - Cardinality(rest \cap top)
    BY <1>3, <1>a, FS_Union DEF top
  <2>2. Cardinality(rest \cap top) = 0
    BY <1>4, <1>6 DEF top
  <2>3. Cardinality(HeapsOf(f, S)) = Cardinality(rest \union top)
    BY <1>4 DEF top
  <2>4. Cardinality(top) = f[x]
    BY <1>a DEF top
  <2> QED
    BY <1>3, <1>7, <2>1, <2>2, <2>3, <2>4
<1>9. Cardinality(HeapsOf(g, S)) = Cardinality(rest) + g[x]
  <2> DEFINE top == Heap(g, x)
  <2> HIDE DEF top
  <2>1. Cardinality(rest \union top) = Cardinality(rest) + Cardinality(top) - Cardinality(rest \cap top)
    BY <1>3, <1>b, FS_Union DEF top
  <2>2. Cardinality(rest \cap top) = 0
    BY <1>5, <1>6 DEF top
  <2>3. Cardinality(HeapsOf(g, S)) = Cardinality(rest \union top)
    BY <1>5 DEF top
  <2>4. Cardinality(top) = g[x]
    BY <1>b DEF top
  <2> QED
    BY <1>3, <1>7, <2>1, <2>2, <2>3, <2>4
<1> QED
  BY <1>3, <1>7, <1>8, <1>9, UnitsAre

(* No heap grows. *)
LEMMA NoMoreUnits ==
  ASSUME NEW S, IsFiniteSet(S), NEW f \in [S -> Nat], NEW g \in [S -> Nat],
         \A x \in S : g[x] <= f[x]
  PROVE  Units(g) <= Units(f)
<1>1. \A x \in S : Heap(g, x) \subseteq Heap(f, x)
  BY DEF Heap
<1>2. HeapsOf(g, S) \subseteq HeapsOf(f, S)
  BY <1>1 DEF HeapsOf
<1>3. IsFiniteSet(HeapsOf(f, S))
  BY HeapSize, HeapsFinite
<1> QED
  BY <1>2, <1>3, UnitsAre, FS_Subset

-----------------------------------------------------------------------------
(* Redis works and nobody asks for less than nothing. *)
Working == "redis" \notin faults /\ "negative" \notin faults

(* What a request holds at each step, for customers who wait for their     *)
(* answers then.                                                           *)
InHand(r) ==
  /\ pc[r] # "rollback"
  /\ pc[r] \in {"idle", "read", "hget", "clear", "items"} => held[r] = NoItems
  /\ pc[r] \in {"decr", "add"} =>
       \A p \in Products :
         held[r][p].quantity = IF p = item[r].product THEN item[r].quantity ELSE 0
  /\ pc[r] \in {"read", "decr", "add"} /\ "rescan" \notin faults =>
       cart[user[r]][item[r].product].quantity = 0
  /\ pc[r] = "hdel" =>
       \A p \in Products :
         held[r][p].quantity = IF p = item[r].product THEN cart[user[r]][p].quantity ELSE 0
  /\ pc[r] \in {"del", "lock", "snapshot"} =>
       \A p \in Products : held[r][p].quantity = cart[user[r]][p].quantity
  /\ pc[r] \in {"hget", "hdel", "clear", "del"} /\ "giveback" \notin faults =>
       orders[user[r]] = <<>>

(* A step of a request moves units between the stock, the cart of its      *)
(* customer and its hands.                                                 *)
Mine(r, u, p) == stock[p] + cart[u][p].quantity + OnTheWay(r, p)

(* No step loses units. *)
Lossless == faults \intersect {"rescan", "crash"} = {}

LEMMA ItemsNat ==
  ASSUME NEW f, "negative" \notin f
  PROVE  /\ \A items \in Items(f), p \in Products : items[p].quantity \in Nat
         /\ \A it \in Item(f) : it.quantity \in Nat
         /\ \A scan \in Scan(f) : scan.quantity \in Nat
  BY DEF Items, Item, Amount, Scan

LEMMA Quantities0 ==
  ASSUME SlotsTyped, SharedTyped, Working
  PROVE  /\ \A c \in Customers, p \in Products : cart[c][p].quantity \in Nat
         /\ \A r \in Slots, p \in Products : held[r][p].quantity \in Nat /\ OnTheWay(r, p) \in Nat
         /\ \A p \in Products : stock[p] \in Int
         /\ \A r \in Slots : item[r].quantity \in Nat
         /\ \A p \in Products : NoItems[p].quantity = 0
BY ItemsNat DEF SlotsTyped, SharedTyped, Working, OnTheWay, NoItems, NoItem

(* The same after a step. *)
LEMMA Quantities1 ==
  ASSUME SlotsTyped', SharedTyped', Working, faults' = faults
  PROVE  /\ \A c \in Customers, p \in Products : cart'[c][p].quantity \in Nat
         /\ \A r \in Slots, p \in Products : OnTheWay(r, p)' \in Nat
         /\ \A p \in Products : stock'[p] \in Int
BY ItemsNat DEF SlotsTyped, SharedTyped, Working, OnTheWay

LEMMA ScanMine ==
  ASSUME SlotsTyped, SharedTyped, NEW r \in Slots, InHand(r), Working,
         ReadStock(r) \/ DecrementStock(r) \/ AddToCart(r) \/ Rollback(r),
         NEW u \in Customers, u = user[r], NEW p \in Products
  PROVE  Mine(r, u, p)' <= Mine(r, u, p) /\ (Lossless => Mine(r, u, p)' = Mine(r, u, p))
<1> DEFINE ip == item[r].product
           q == item[r].quantity
<1>0. /\ stock[p] \in Int /\ cart[u][p].quantity \in Nat /\ OnTheWay(r, p) \in Nat
      /\ held[r][p].quantity \in Nat /\ q \in Nat /\ pc \in [Slots -> Labels]
  BY Quantities0 DEF SlotsTyped
<1> USE DEF Working
<1>1. CASE ReadStock(r)
  <2>1. UNCHANGED <<stock, cart>> /\ pc[r] = "read" /\ pc'[r] \in {"decr", "idle"}
    BY <1>0, <1>1 DEF ReadStock, shared, Keep, Done, Goto
  <2> QED
    BY <1>0, <2>1 DEF Mine, OnTheWay
<1>2. CASE DecrementStock(r)
  <2>1. /\ UNCHANGED <<cart, held>> /\ pc[r] = "decr" /\ pc'[r] = "add" /\ ip \in Products
        /\ stock' = [stock EXCEPT ![ip] = @ - q]
    BY <1>0, <1>2 DEF DecrementStock, RedisFails, Goes, Goto, request, SlotsTyped
  <2>2. held[r][p].quantity = IF p = ip THEN q ELSE 0
    BY <2>1 DEF InHand
  <2>3. stock'[p] = IF p = ip THEN stock[p] - q ELSE stock[p]
    BY <2>1 DEF SharedTyped
  <2> QED
    BY <1>0, <2>1, <2>2, <2>3 DEF Mine, OnTheWay
<1>3. CASE AddToCart(r)
  <2>1. /\ UNCHANGED stock /\ pc[r] = "add" /\ pc'[r] = "idle" /\ ip \in Products
        /\ cart' = [cart EXCEPT ![u][ip] = held[r][ip]]
    BY <1>0, <1>3 DEF AddToCart, RedisFails, Done, Goto, SlotsTyped
  <2>2. held[r][p].quantity = IF p = ip THEN q ELSE 0
    BY <2>1 DEF InHand
  <2>3. cart'[u][p] = IF p = ip THEN held[r][p] ELSE cart[u][p]
    BY <2>1 DEF SharedTyped, Items
  <2>4. "rescan" \notin faults /\ p = ip => cart[u][p].quantity = 0
    BY <2>1 DEF InHand
  <2> QED
    BY <1>0, <2>1, <2>2, <2>3, <2>4 DEF Mine, OnTheWay, Lossless
<1>4. CASE Rollback(r)
  BY <1>4 DEF Rollback, InHand
<1> QED
  BY <1>1, <1>2, <1>3, <1>4

LEMMA GiveBackMine ==
  ASSUME SlotsTyped, SharedTyped, NEW r \in Slots, InHand(r), Working,
         GetItem(r) \/ DelItem(r) \/ GetAllItems(r) \/ DelCart(r) \/ IncrementStock(r),
         NEW u \in Customers, u = user[r], NEW p \in Products
  PROVE  Mine(r, u, p)' = Mine(r, u, p)
<1> DEFINE ip == item[r].product
<1>0. /\ stock[p] \in Int /\ cart[u][p].quantity \in Nat /\ OnTheWay(r, p) \in Nat
      /\ held[r][p].quantity \in Nat /\ pc \in [Slots -> Labels] /\ NoItems[p].quantity = 0
  BY Quantities0 DEF SlotsTyped
<1> USE DEF Working
<1>1. CASE GetItem(r) \/ GetAllItems(r)
  <2>1. /\ UNCHANGED <<stock, cart>> /\ pc[r] \in {"hget", "clear"}
        /\ pc'[r] \in {"hdel", "del", "idle"}
    BY <1>0, <1>1 DEF GetItem, GetAllItems, shared, Keep, Done, Goto
  <2> QED
    BY <1>0, <2>1 DEF Mine, OnTheWay
<1>2. CASE DelItem(r)
  <2>1. /\ UNCHANGED <<stock, held>> /\ pc[r] = "hdel" /\ pc'[r] = "restore" /\ ip \in Products
        /\ cart' = [cart EXCEPT ![u][ip] = NoItem]
    BY <1>0, <1>2 DEF DelItem, RedisFails, Goes, Goto, request, SlotsTyped
  <2>2. held[r][p].quantity = IF p = ip THEN cart[u][p].quantity ELSE 0
    BY <2>1 DEF InHand
  <2>3. cart'[u][p] = IF p = ip THEN NoItem ELSE cart[u][p]
    BY <2>1 DEF SharedTyped, Items
  <2> QED
    BY <1>0, <2>1, <2>2, <2>3 DEF Mine, OnTheWay, NoItem
<1>3. CASE DelCart(r)
  <2>1. /\ UNCHANGED stock /\ pc[r] = "del" /\ cart' = [cart EXCEPT ![u] = NoItems]
        /\ IF In(held[r]) = {} THEN Done(r) ELSE Goes(r, "restore")
    BY <1>3 DEF DelCart, RedisFails
  <2>2. held[r][p].quantity = cart[u][p].quantity
    BY <2>1 DEF InHand
  <2>3. cart'[u][p].quantity = 0
    BY <1>0, <2>1 DEF SharedTyped
  <2>4. CASE In(held[r]) = {}
    <3>1. held[r][p].quantity = 0
      BY <1>0, <2>4 DEF In, NoItem
    <3>2. pc'[r] = "idle"
      BY <1>0, <2>1, <2>4 DEF Done, Goto
    <3> QED
      BY <1>0, <2>1, <2>2, <2>3, <3>1, <3>2 DEF Mine, OnTheWay
  <2>5. CASE In(held[r]) # {}
    <3>1. pc'[r] = "restore" /\ UNCHANGED held
      BY <1>0, <2>1, <2>5 DEF Goes, Goto, request
    <3> QED
      BY <1>0, <2>1, <2>2, <2>3, <3>1 DEF Mine, OnTheWay
  <2> QED
    BY <2>4, <2>5
<1>4. CASE IncrementStock(r)
  <2>1. PICK x \in In(held[r]) :
          /\ stock' = [stock EXCEPT ![x] = @ + held[r][x].quantity]
          /\ IF In(held[r]) = {x} THEN Done(r)
             ELSE Keep(r, [held[r] EXCEPT ![x] = NoItem], "restore")
    BY <1>4 DEF IncrementStock, RedisFails
  <2>2. UNCHANGED cart /\ pc[r] = "restore" /\ x \in Products /\ held[r] \in Items(faults)
    BY <1>4, <2>1 DEF IncrementStock, In, SlotsTyped
  <2>3. stock'[p] = IF p = x THEN stock[p] + held[r][p].quantity ELSE stock[p]
    BY <2>1, <2>2 DEF SharedTyped
  <2>4. CASE In(held[r]) = {x}
    <3>1. p # x => held[r][p].quantity = 0
      BY <1>0, <2>4 DEF In, NoItem
    <3>2. pc'[r] = "idle"
      BY <1>0, <2>1, <2>4 DEF Done, Goto
    <3> QED
      BY <1>0, <2>2, <2>3, <3>1, <3>2 DEF Mine, OnTheWay
  <2>5. CASE In(held[r]) # {x}
    <3>1. pc'[r] = "restore" /\ held'[r] = [held[r] EXCEPT ![x] = NoItem]
      BY <1>0, <2>1, <2>5 DEF Keep, Goto, SlotsTyped
    <3>2. held'[r][p] = IF p = x THEN NoItem ELSE held[r][p]
      BY <2>2, <3>1 DEF Items
    <3> QED
      BY <1>0, <2>2, <2>3, <3>1, <3>2 DEF Mine, OnTheWay, NoItem
  <2> QED
    BY <2>4, <2>5
<1> QED
  BY <1>1, <1>2, <1>3, <1>4

LEMMA CheckoutMine ==
  ASSUME SlotsTyped, SharedTyped, NEW r \in Slots,
         \/ GetCartItems(r) \/ AcquireCheckoutLock(r) \/ Validate(r)
         \/ Total(r) \/ SnapshotCart(r),
         NEW u \in Customers, NEW p \in Products
  PROVE  Mine(r, u, p)' = Mine(r, u, p) /\ UNCHANGED <<stock, cart>>
<1>0. pc \in [Slots -> Labels]
  BY DEF SlotsTyped
<1>1. UNCHANGED <<stock, cart>> /\ pc[r] \in {"items", "lock", "validate", "total", "snapshot"}
  BY DEF GetCartItems, AcquireCheckoutLock, Validate, Total, SnapshotCart, shared
<1>2. pc'[r] \in {"idle", "lock", "validate", "total", "snapshot"}
  <2>1. CASE GetCartItems(r) \/ AcquireCheckoutLock(r)
    BY <1>0, <2>1 DEF GetCartItems, AcquireCheckoutLock, Keep, Goes, Done, Goto
  <2>2. CASE Validate(r)
    BY <1>0, <2>2 DEF Validate, Keep, Done, Goto
  <2>3. CASE Total(r) \/ SnapshotCart(r)
    BY <1>0, <2>3 DEF Total, SnapshotCart, Keep, Done, Goto
  <2> QED
    BY <2>1, <2>2, <2>3
<1> QED
  BY <1>1, <1>2 DEF Mine, OnTheWay

-----------------------------------------------------------------------------
LEMMA InHandInit == ASSUME Init PROVE \A r \in Slots : InHand(r)
BY DEF Init, InHand

LEMMA RouteInHand ==
  ASSUME SlotsTyped, SharedTyped, NEW r \in Slots, Route(r), \A q \in Slots : InHand(q)
  PROVE  \A q \in Slots : InHand(q)'
<1>1. /\ OnlyAt(r) /\ UNCHANGED <<faults, shared>> /\ pc[r] = "idle"
      /\ pc'[r] \in {"read", "hget", "clear", "items"}
  BY RouteShape
<1>2. held[r] = NoItems
  BY <1>1 DEF InHand
<1>3. held'[r] = NoItems
  BY <1>2 DEF Route, ScanItem, RemoveItem, ClearCart, InitCheckout, Begin
<1>4. pc'[r] = "read" /\ "rescan" \notin faults => cart[user'[r]][item'[r].product].quantity = 0
  <2>1. CASE ScanItem(r)
    <3>1. PICK c \in Customers, p \in Products, q \in Quantities :
            /\ "rescan" \in faults \/ cart[c][p] = NoItem
            /\ Begin(r, c, [product |-> p, quantity |-> q], "read")
      BY <2>1 DEF ScanItem
    <3>2. user'[r] = c /\ item'[r].product = p
      BY <3>1 DEF Begin, SlotsTyped
    <3> QED
      BY <3>1, <3>2 DEF NoItem
  <2>2. CASE RemoveItem(r) \/ ClearCart(r) \/ InitCheckout(r)
    BY <2>2 DEF RemoveItem, ClearCart, InitCheckout, Begin, Goto, SlotsTyped
  <2> QED
    BY <2>1, <2>2 DEF Route
<1>5. pc'[r] \in {"hget", "clear"} /\ "giveback" \notin faults => orders[user'[r]] = <<>>
  <2>1. CASE RemoveItem(r) \/ ClearCart(r)
    BY <2>1 DEF RemoveItem, ClearCart, Begin, Untouched, SlotsTyped
  <2>2. CASE ScanItem(r) \/ InitCheckout(r)
    BY <2>2 DEF ScanItem, InitCheckout, Begin, Goto, SlotsTyped
  <2> QED
    BY <2>1, <2>2 DEF Route
<1>6. InHand(r)'
  BY <1>1, <1>3, <1>4, <1>5 DEF InHand, shared
<1>7. \A q \in Slots \ {r} : InHand(q)'
  BY <1>1 DEF InHand, OnlyAt, shared
<1> QED
  BY <1>6, <1>7

(* The request that takes the step. *)
LEMMA ScanInHand ==
  ASSUME SlotsTyped, SharedTyped, NEW r \in Slots, InHand(r), Working,
         ReadStock(r) \/ DecrementStock(r) \/ AddToCart(r) \/ Rollback(r)
  PROVE  InHand(r)'
<1> DEFINE ip == item[r].product
           q == item[r].quantity
<1>0. /\ pc \in [Slots -> Labels] /\ held[r] \in Items(faults) /\ faults' = faults
  BY ScanSteps DEF SlotsTyped, Moves
<1> USE DEF Working
<1>1. CASE Done(r)
  <2>1. pc'[r] = "idle" /\ held'[r] = NoItems
    BY <1>0, <1>1 DEF Done, Goto, SlotsTyped
  <2> QED
    BY <2>1 DEF InHand
<1>2. CASE ReadStock(r) /\ ~ Done(r)
  <2>1. /\ pc[r] = "read" /\ UNCHANGED shared /\ ip \in Products
    BY <1>2 DEF ReadStock, SlotsTyped
  <2>0. PICK now : Keep(r, [held[r] EXCEPT ![ip] = [quantity |-> q, price |-> now]], "decr")
    BY <1>2 DEF ReadStock
  <2>2. /\ pc'[r] = "decr" /\ user'[r] = user[r] /\ item'[r] = item[r]
        /\ held'[r] = [held[r] EXCEPT ![ip] = [quantity |-> q, price |-> now]]
    BY <2>0 DEF Keep, Goto, SlotsTyped
  <2>3. held[r] = NoItems
    BY <2>1 DEF InHand
  <2>4. \A p \in Products : held'[r][p].quantity = IF p = ip THEN q ELSE 0
    BY <2>1, <2>2, <2>3 DEF NoItems, NoItem
  <2>5. "rescan" \notin faults => cart[user[r]][ip].quantity = 0
    BY <2>1 DEF InHand
  <2> QED
    BY <1>0, <2>1, <2>2, <2>4, <2>5 DEF InHand, shared
<1>3. CASE DecrementStock(r) /\ ~ Done(r)
  <2>1. /\ pc[r] = "decr" /\ pc'[r] = "add" /\ UNCHANGED <<user, item, held, cart, orders>>
    BY <1>0, <1>3 DEF DecrementStock, Goes, Goto, request
  <2> QED
    BY <1>0, <2>1 DEF InHand
<1>4. CASE AddToCart(r) /\ ~ Done(r)
  BY <1>4 DEF AddToCart, RedisFails
<1>5. CASE Rollback(r) /\ ~ Done(r)
  BY <1>5 DEF Rollback
<1> QED
  BY <1>1, <1>2, <1>3, <1>4, <1>5

LEMMA GiveBackInHand ==
  ASSUME SlotsTyped, SharedTyped, NEW r \in Slots, InHand(r), Working,
         GetItem(r) \/ DelItem(r) \/ GetAllItems(r) \/ DelCart(r) \/ IncrementStock(r)
  PROVE  InHand(r)'
<1> DEFINE ip == item[r].product
<1>0. /\ pc \in [Slots -> Labels] /\ held[r] \in Items(faults) /\ faults' = faults
  BY GiveBackSteps DEF SlotsTyped, Moves
<1> USE DEF Working
<1>1. CASE Done(r)
  <2>1. pc'[r] = "idle" /\ held'[r] = NoItems
    BY <1>0, <1>1 DEF Done, Goto, SlotsTyped
  <2> QED
    BY <2>1 DEF InHand
<1>2. CASE GetItem(r) /\ ~ Done(r)
  <2>1. /\ pc[r] = "hget" /\ UNCHANGED shared /\ ip \in Products
        /\ Keep(r, [held[r] EXCEPT ![ip] = cart[user[r]][ip]], "hdel")
    BY <1>2 DEF GetItem, SlotsTyped
  <2>2. /\ pc'[r] = "hdel" /\ user'[r] = user[r] /\ item'[r] = item[r]
        /\ held'[r] = [held[r] EXCEPT ![ip] = cart[user[r]][ip]]
    BY <2>1 DEF Keep, Goto, SlotsTyped
  <2>3. held[r] = NoItems /\ ("giveback" \notin faults => orders[user[r]] = <<>>)
    BY <2>1 DEF InHand
  <2>4. \A p \in Products :
          held'[r][p].quantity = IF p = ip THEN cart[user[r]][p].quantity ELSE 0
    BY <2>1, <2>2, <2>3 DEF NoItems, NoItem
  <2> QED
    BY <1>0, <2>1, <2>2, <2>3, <2>4 DEF InHand, shared
<1>3. CASE GetAllItems(r) /\ ~ Done(r)
  <2>1. /\ pc[r] = "clear" /\ UNCHANGED shared /\ Keep(r, cart[user[r]], "del")
    BY <1>3 DEF GetAllItems
  <2>2. pc'[r] = "del" /\ user'[r] = user[r] /\ held'[r] = cart[user[r]]
    BY <2>1 DEF Keep, Goto, SlotsTyped
  <2>3. "giveback" \notin faults => orders[user[r]] = <<>>
    BY <2>1 DEF InHand
  <2> QED
    BY <1>0, <2>1, <2>2, <2>3 DEF InHand, shared
<1>4. CASE (DelItem(r) \/ DelCart(r) \/ IncrementStock(r)) /\ ~ Done(r)
  <2>1. pc'[r] = "restore"
    <3>1. CASE DelItem(r) \/ DelCart(r)
      BY <1>0, <1>4, <3>1 DEF DelItem, DelCart, Goes, Goto
    <3>2. CASE IncrementStock(r)
      BY <1>0, <1>4, <3>2 DEF IncrementStock, Keep, Goto
    <3> QED
      BY <1>4, <3>1, <3>2
  <2> QED
    BY <2>1 DEF InHand
<1> QED
  BY <1>1, <1>2, <1>3, <1>4

LEMMA CheckoutInHand ==
  ASSUME SlotsTyped, SharedTyped, NEW r \in Slots, InHand(r),
         \/ GetCartItems(r) \/ AcquireCheckoutLock(r) \/ Validate(r)
         \/ Total(r) \/ SnapshotCart(r)
  PROVE  InHand(r)'
<1>0. /\ pc \in [Slots -> Labels] /\ faults' = faults /\ user[r] \in Customers
  BY ServeTypes DEF Serve, SlotsTyped, Moves
<1>1. CASE Done(r)
  <2>1. pc'[r] = "idle" /\ held'[r] = NoItems
    BY <1>0, <1>1 DEF Done, Goto, SlotsTyped
  <2> QED
    BY <2>1 DEF InHand
<1>2. CASE GetCartItems(r) /\ ~ Done(r)
  <2>1. /\ UNCHANGED shared /\ pc'[r] = "lock" /\ user'[r] = user[r] /\ held'[r] = cart[user[r]]
    BY <1>2 DEF GetCartItems, Keep, Goto, SlotsTyped
  <2> QED
    BY <1>0, <2>1 DEF InHand, shared
<1>3. CASE (AcquireCheckoutLock(r) \/ Validate(r)) /\ ~ Done(r)
  <2>1. pc'[r] \in {"validate", "total"}
    BY <1>0, <1>3 DEF AcquireCheckoutLock, Validate, Keep, Goes, Goto
  <2> QED
    BY <2>1 DEF InHand
<1>4. CASE Total(r) /\ ~ Done(r)
  <2> PICK u \in Customers : u = user[r]
    BY <1>0
  <2>1. PICK now :
          Keep(r, [p \in Products |->
                     IF cart[u][p] = NoItem \/ now[p] = None THEN cart[u][p]
                     ELSE [cart[u][p] EXCEPT !.price = now[p]]], "snapshot")
    BY <1>4 DEF Total
  <2>2. /\ UNCHANGED shared /\ pc'[r] = "snapshot" /\ user'[r] = user[r]
        /\ held'[r] = [p \in Products |->
                         IF cart[u][p] = NoItem \/ now[p] = None THEN cart[u][p]
                         ELSE [cart[u][p] EXCEPT !.price = now[p]]]
    BY <1>4, <2>1 DEF Total, Keep, Goto, SlotsTyped
  <2>3. \A p \in Products : held'[r][p].quantity = cart[u][p].quantity
    <3>1. \A p \in Products : cart[u][p] \in Item(faults)
      BY ItemShape DEF SharedTyped
    <3>2. \A p \in Products :
            [cart[u][p] EXCEPT !.price = now[p]].quantity = cart[u][p].quantity
      BY <3>1 DEF Item
    <3> QED
      BY <2>2, <3>2
  <2> QED
    BY <2>2, <2>3 DEF InHand, shared
<1>5. CASE SnapshotCart(r) /\ ~ Done(r)
  BY <1>5 DEF SnapshotCart
<1> QED
  BY <1>1, <1>2, <1>3, <1>4, <1>5

LEMMA CrashInHand ==
  ASSUME SlotsTyped, SharedTyped, NEW r \in Slots, Crash(r)
  PROVE  InHand(r)'
<1>1. pc'[r] = "idle" /\ held'[r] = NoItems
  BY DEF Crash, Done, Goto, SlotsTyped
<1> QED
  BY <1>1 DEF InHand

(* The others have carts and orders of their own. *)
LEMMA ServeInHand ==
  ASSUME SlotsTyped, SharedTyped, OneRequestEach, Working,
         NEW r \in Slots, Serve(r), \A q \in Slots : InHand(q)
  PROVE  \A q \in Slots : InHand(q)'
<1>1. Moves(r) /\ OnlyAt(r) /\ pc[r] # "idle" /\ user[r] \in Customers /\ faults' = faults
  BY ServeTypes DEF Moves, SlotsTyped
<1>2. InHand(r)'
  BY ScanInHand, GiveBackInHand, CheckoutInHand, CrashInHand DEF Serve
<1>3. \A c \in Customers : c # user[r] => cart'[c] = cart[c] /\ orders'[c] = orders[c]
  BY OwnCart, ScanSteps, GiveBackSteps, ReadSteps, LockSteps, SnapshotSteps, CrashSteps
  DEF Serve, shared
<1>4. ASSUME NEW q \in Slots, q # r PROVE InHand(q)'
  <2>1. /\ pc'[q] = pc[q] /\ user'[q] = user[q] /\ item'[q] = item[q] /\ held'[q] = held[q]
    BY <1>1, <1>4 DEF OnlyAt
  <2>2. CASE pc[q] = "idle"
    BY <2>1, <2>2 DEF InHand
  <2>3. CASE pc[q] # "idle"
    <3>1. user[q] \in Customers /\ user[q] # user[r]
      BY <1>1, <1>4, <2>3 DEF OneRequestEach, SlotsTyped
    <3>2. cart'[user[q]] = cart[user[q]] /\ orders'[user[q]] = orders[user[q]]
      BY <1>3, <3>1
    <3> QED
      BY <1>1, <2>1, <3>2 DEF InHand
  <2> QED
    BY <2>2, <2>3
<1> QED
  BY <1>2, <1>4

-----------------------------------------------------------------------------
(* The units of a product, in the stock, in carts and on the way. *)
Balance(p) ==
  LET units == stock[p] + Units(InCarts(p)) + Units(UnderWay(p))
  IN units <= Supply[p] /\ (Lossless => units = Supply[p])

LEMMA CartsCount ==
  ASSUME SlotsTyped, SharedTyped, Working, NEW p \in Products
  PROVE  /\ InCarts(p) \in [Customers -> Nat] /\ Units(InCarts(p)) \in Nat
         /\ UnderWay(p) \in [Slots -> Nat] /\ Units(UnderWay(p)) \in Nat
         /\ stock[p] \in Int /\ Supply[p] \in Nat
<1>1. /\ InCarts(p) \in [Customers -> Nat] /\ UnderWay(p) \in [Slots -> Nat]
      /\ stock[p] \in Int /\ Supply[p] \in Nat
  BY Quantities0, CartAssumption DEF InCarts, UnderWay
<1> QED
  BY <1>1, UnitsCount, CartAssumption

(* Nothing is in carts or on the way. *)
LEMMA NoUnits ==
  ASSUME NEW S, IsFiniteSet(S), NEW f \in [S -> Nat], \A x \in S : f[x] = 0
  PROVE  Units(f) = 0
<1>1. \A x \in S : Heap(f, x) = {}
  BY DEF Heap
<1>2. HeapsOf(f, S) = {}
  BY <1>1 DEF HeapsOf
<1> QED
  BY <1>2, UnitsAre, FS_EmptySet

(* A step of a request changes its own heap only. *)
LEMMA OneUnderWay ==
  ASSUME SlotsTyped, SharedTyped, SlotsTyped', SharedTyped', Working, faults' = faults,
         NEW r \in Slots, OnlyAt(r), NEW p \in Products
  PROVE  Units(UnderWay(p))' = Units(UnderWay(p)) + OnTheWay(r, p)' - OnTheWay(r, p)
<1>1. UnderWay(p) \in [Slots -> Nat] /\ UnderWay(p)' \in [Slots -> Nat]
  BY CartsCount, Quantities1 DEF UnderWay
<1>2. \A q \in Slots : UnderWay(p)[q] = OnTheWay(q, p) /\ UnderWay(p)'[q] = OnTheWay(q, p)'
  BY DEF UnderWay
<1>3. \A q \in Slots \ {r} : UnderWay(p)'[q] = UnderWay(p)[q]
  BY <1>2 DEF OnlyAt, OnTheWay
<1> DEFINE f == UnderWay(p)
           g == UnderWay(p)'
<1> HIDE DEF f, g
<1>4. Units(g) = Units(f) + g[r] - f[r]
  <2>1. f \in [Slots -> Nat] /\ g \in [Slots -> Nat] /\ \A y \in Slots \ {r} : g[y] = f[y]
    BY <1>1, <1>3 DEF f, g
  <2>2. IsFiniteSet(Slots)
    BY CartAssumption
  <2> QED
    BY <2>1, <2>2, OneHeap
<1>5. Units(UnderWay(p))' = Units(g)
  BY DEF g, Units
<1> QED
  BY <1>2, <1>4, <1>5 DEF f, g

LEMMA OneInCarts ==
  ASSUME SlotsTyped, SharedTyped, SlotsTyped', SharedTyped', Working, faults' = faults,
         NEW u \in Customers, \A c \in Customers : c # u => cart'[c] = cart[c], NEW p \in Products
  PROVE  Units(InCarts(p))' = Units(InCarts(p)) + cart'[u][p].quantity - cart[u][p].quantity
<1>1. InCarts(p) \in [Customers -> Nat] /\ InCarts(p)' \in [Customers -> Nat]
  <2>1. \A c \in Customers : cart'[c][p].quantity \in Nat
    BY Quantities1
  <2> QED
    BY <2>1, CartsCount DEF InCarts
<1>2. \A c \in Customers : InCarts(p)[c] = cart[c][p].quantity
                          /\ InCarts(p)'[c] = cart'[c][p].quantity
  BY DEF InCarts
<1>3. \A c \in Customers \ {u} : InCarts(p)'[c] = InCarts(p)[c]
  BY <1>2
<1> DEFINE f == InCarts(p)
           g == InCarts(p)'
<1> HIDE DEF f, g
<1>4. Units(g) = Units(f) + g[u] - f[u]
  <2>1. f \in [Customers -> Nat] /\ g \in [Customers -> Nat] /\ \A y \in Customers \ {u} : g[y] = f[y]
    BY <1>1, <1>3 DEF f, g
  <2>2. IsFiniteSet(Customers)
    BY CartAssumption
  <2> QED
    BY <2>1, <2>2, OneHeap
<1>5. Units(InCarts(p))' = Units(g)
  BY DEF g, Units
<1> QED
  BY <1>2, <1>4, <1>5 DEF f, g

LEMMA ServeMine ==
  ASSUME SlotsTyped, SharedTyped, NEW r \in Slots, InHand(r), Working, Serve(r),
         NEW u \in Customers, u = user[r], NEW p \in Products
  PROVE  Mine(r, u, p)' <= Mine(r, u, p) /\ (Lossless => Mine(r, u, p)' = Mine(r, u, p))
<1>1. Mine(r, u, p) \in Int
  BY Quantities0 DEF Mine
<1>2. Crash(r) => Mine(r, u, p)' <= Mine(r, u, p) /\ ~ Lossless
  <2> SUFFICES ASSUME Crash(r) PROVE Mine(r, u, p)' <= Mine(r, u, p) /\ ~ Lossless
    OBVIOUS
  <2>1. UNCHANGED <<stock, cart>> /\ pc'[r] = "idle" /\ ~ Lossless
    BY CrashSteps DEF Crash, shared, Lossless
  <2>2. stock[p] \in Int /\ cart[u][p].quantity \in Nat /\ OnTheWay(r, p) \in Nat
    BY Quantities0
  <2> QED
    BY <2>1, <2>2 DEF Mine, OnTheWay
<1> QED
  BY <1>1, <1>2, ScanMine, GiveBackMine, CheckoutMine DEF Serve

LEMMA ServeBalance ==
  ASSUME SlotsTyped, SharedTyped, NEW r \in Slots, InHand(r), Working, Serve(r),
         NEW p \in Products, Balance(p)
  PROVE  Balance(p)'
<1>1. SlotsTyped' /\ SharedTyped' /\ OnlyAt(r) /\ faults' = faults
  BY ServeTypes DEF Moves
<1> PICK u \in Customers : u = user[r]
  BY ServeTypes DEF Moves, SlotsTyped
<1>2. \A c \in Customers : c # u => cart'[c] = cart[c]
  BY OwnCart
<1> DEFINE s == stock[p]
           t == stock'[p]
           a == Units(InCarts(p))
           b == Units(InCarts(p))'
           v == Units(UnderWay(p))
           w == Units(UnderWay(p))'
<1>3. b = a + cart'[u][p].quantity - cart[u][p].quantity
  BY <1>1, <1>2, OneInCarts
<1>4. w = v + OnTheWay(r, p)' - OnTheWay(r, p)
  BY <1>1, OneUnderWay
<1>5. /\ t + cart'[u][p].quantity + OnTheWay(r, p)' <= s + cart[u][p].quantity + OnTheWay(r, p)
      /\ Lossless =>
           t + cart'[u][p].quantity + OnTheWay(r, p)' = s + cart[u][p].quantity + OnTheWay(r, p)
  BY ServeMine DEF Mine
<1>6. /\ s \in Int /\ a \in Nat /\ v \in Nat /\ Supply[p] \in Nat
      /\ cart[u][p].quantity \in Nat /\ OnTheWay(r, p) \in Nat
  BY CartsCount, Quantities0
<1>7. t \in Int /\ cart'[u][p].quantity \in Nat /\ OnTheWay(r, p)' \in Nat
  BY <1>1, Quantities1
<1>8. s + a + v <= Supply[p] /\ (Lossless => s + a + v = Supply[p])
  BY DEF Balance
<1> HIDE DEF s, t, a, b, v, w
<1> DEFINE k == cart[u][p].quantity
           l == cart'[u][p].quantity
           m == OnTheWay(r, p)
           n == OnTheWay(r, p)'
<1>c. /\ b = a + l - k /\ w = v + n - m
      /\ k \in Nat /\ m \in Nat /\ l \in Nat /\ n \in Nat
      /\ t + l + n <= s + k + m /\ (Lossless => t + l + n = s + k + m)
  BY <1>3, <1>4, <1>5, <1>6, <1>7
<1> HIDE DEF k, l, m, n
<1>9. t + b + w <= Supply[p] /\ (Lossless => t + b + w = Supply[p])
  BY <1>c, <1>6, <1>7, <1>8
<1> QED
  BY <1>1, <1>9 DEF Balance, Lossless, t, b, w

(* Steps that move no unit. *)
LEMMA IdleBalance ==
  ASSUME SlotsTyped, SharedTyped, NEW p \in Products, Balance(p), UNCHANGED <<faults, stock, cart>>,
         \A r \in Slots : OnTheWay(r, p)' = OnTheWay(r, p)
  PROVE  Balance(p)'
<1>1. InCarts(p)' = InCarts(p) /\ UnderWay(p)' = UnderWay(p)
  BY DEF InCarts, UnderWay
<1> QED
  BY <1>1 DEF Balance, Units, Lossless

-----------------------------------------------------------------------------
(* While a customer who has checked out leaves the cart alone, the units   *)
(* of the last order are counted with those of the cart: each unit that    *)
(* the customer has in either has been taken from the stock once.          *)
Larger(m, n) == IF m < n THEN n ELSE m
Claimed(p) == [c \in Customers |-> Larger(cart[c][p].quantity, Ordered(c, p))]
Claims(p) == stock[p] + Units(Claimed(p)) + Units(UnderWay(p)) <= Supply[p]
Theirs(r, u, p) == stock[p] + Claimed(p)[u] + OnTheWay(r, p)

LEMMA OrderedCount ==
  ASSUME SharedTyped, Working, NEW c \in Customers, NEW p \in Products
  PROVE  Ordered(c, p) \in Nat
<1>1. CASE orders[c] = <<>>
  BY <1>1 DEF Ordered
<1>2. CASE orders[c] # <<>>
  <2>1. orders[c] \in Seq(Order(faults))
    BY DEF SharedTyped
  <2>2. orders[c][Len(orders[c])] \in Order(faults)
    BY <1>2, <2>1
  <2>3. orders[c][Len(orders[c])].items \in Items(faults)
    BY <2>2 DEF Order
  <2> QED
    BY <1>2, <2>3, ItemsNat DEF Ordered, Working
<1> QED
  BY <1>1, <1>2

(* The last order is what the request of the checkout holds. *)
LEMMA SnapshotOrdered ==
  ASSUME SlotsTyped, SharedTyped, NEW r \in Slots, SnapshotCart(r), NEW u \in Customers, u = user[r],
         NEW p \in Products
  PROVE  Ordered(u, p)' \in {Ordered(u, p), held[r][p].quantity}
<1> DEFINE o == [items |-> held[r], scanned |-> cart[user[r]], moved |-> moved[r]]
<1>1. CASE UNCHANGED orders
  BY <1>1 DEF Ordered
<1>2. CASE orders' = [orders EXCEPT ![user[r]] = Append(@, o)]
  <2>1. o \in Order(faults) /\ o.items = held[r] /\ orders[u] \in Seq(Order(faults))
    BY DEF SlotsTyped, SharedTyped, Order
  <2>2. orders'[u] = Append(orders[u], o)
    BY <1>2 DEF SharedTyped
  <2> HIDE DEF o
  <2>3. orders'[u] # <<>> /\ orders'[u][Len(orders'[u])] = o
    BY <2>1, <2>2
  <2> QED
    BY <2>1, <2>3 DEF Ordered
<1> QED
  BY <1>1, <1>2 DEF SnapshotCart

LEMMA ClaimsCount ==
  ASSUME SlotsTyped, SharedTyped, Working, NEW p \in Products
  PROVE  Claimed(p) \in [Customers -> Nat] /\ Units(Claimed(p)) \in Nat
<1>1. Claimed(p) \in [Customers -> Nat]
  BY Quantities0, OrderedCount DEF Claimed, Larger
<1> QED
  BY <1>1, UnitsCount, CartAssumption

(* What others have ordered does not change. *)
LEMMA OwnOrders ==
  ASSUME SlotsTyped, SharedTyped, NEW r \in Slots, Serve(r)
  PROVE  /\ ~ SnapshotCart(r) => UNCHANGED orders
         /\ \A c \in Customers, p \in Products : c # user[r] => Ordered(c, p)' = Ordered(c, p)
<1>1. ~ SnapshotCart(r) => UNCHANGED orders
  BY ScanSteps, GiveBackSteps, ReadSteps, LockSteps, CrashSteps DEF Serve, shared
<1>2. \A c \in Customers : c # user[r] => orders'[c] = orders[c]
  BY <1>1, SnapshotSteps
<1> QED
  BY <1>1, <1>2 DEF Ordered

LEMMA ServeTheirs ==
  ASSUME SlotsTyped, SharedTyped, NEW r \in Slots, InHand(r), Working,
         "giveback" \notin faults, Serve(r), NEW u \in Customers, u = user[r], NEW p \in Products
  PROVE  Theirs(r, u, p)' <= Theirs(r, u, p)
<1> DEFINE ip == item[r].product
           q == item[r].quantity
<1>0. /\ stock[p] \in Int /\ cart[u][p].quantity \in Nat /\ OnTheWay(r, p) \in Nat
      /\ held[r][p].quantity \in Nat /\ q \in Nat /\ pc \in [Slots -> Labels]
      /\ Ordered(u, p) \in Nat /\ SharedTyped' /\ SlotsTyped' /\ faults' = faults
  BY Quantities0, OrderedCount, ServeTypes DEF SlotsTyped, Moves
<1>a. /\ stock'[p] \in Int /\ cart'[u][p].quantity \in Nat /\ OnTheWay(r, p)' \in Nat
  BY <1>0, Quantities1
<1>b. /\ Theirs(r, u, p) = stock[p] + Larger(cart[u][p].quantity, Ordered(u, p)) + OnTheWay(r, p)
      /\ Theirs(r, u, p)' = stock'[p] + Larger(cart'[u][p].quantity, Ordered(u, p)') + OnTheWay(r, p)'
  BY DEF Theirs, Claimed, Larger
<1>c. stock'[p] + cart'[u][p].quantity + OnTheWay(r, p)' <= stock[p] + cart[u][p].quantity + OnTheWay(r, p)
  BY ServeMine DEF Mine
<1>1. CASE AddToCart(r)
  <2>1. /\ UNCHANGED stock /\ pc[r] = "add" /\ pc'[r] = "idle" /\ ip \in Products
        /\ cart' = [cart EXCEPT ![u][ip] = held[r][ip]]
    BY <1>0, <1>1 DEF AddToCart, RedisFails, Working, Done, Goto, SlotsTyped
  <2>2. held[r][p].quantity = IF p = ip THEN q ELSE 0
    BY <2>1 DEF InHand
  <2>3. cart'[u][p] = IF p = ip THEN held[r][p] ELSE cart[u][p]
    BY <2>1 DEF SharedTyped, Items
  <2>4. Ordered(u, p)' = Ordered(u, p)
    BY <1>1 DEF AddToCart, Ordered
  <2>5. OnTheWay(r, p)' = 0 /\ OnTheWay(r, p) = held[r][p].quantity
    BY <2>1 DEF OnTheWay
  <2> QED
    BY <1>0, <1>b, <2>1, <2>2, <2>3, <2>4, <2>5 DEF Larger
<1>2. CASE DelItem(r) \/ DelCart(r)
  <2>1. orders[u] = <<>> /\ UNCHANGED orders
    BY <1>2 DEF DelItem, DelCart, InHand
  <2>2. Ordered(u, p) = 0 /\ Ordered(u, p)' = 0
    BY <2>1 DEF Ordered
  <2> QED
    BY <1>0, <1>a, <1>b, <1>c, <2>2 DEF Larger
<1>3. CASE SnapshotCart(r)
  <2>1. UNCHANGED <<stock, cart>> /\ pc[r] = "snapshot"
    BY <1>3 DEF SnapshotCart
  <2>2. Ordered(u, p)' \in {Ordered(u, p), cart[u][p].quantity}
    BY <1>3, <2>1, SnapshotOrdered DEF InHand
  <2> QED
    BY <1>0, <1>a, <1>b, <1>c, <2>1, <2>2 DEF Larger
<1>4. CASE ~ AddToCart(r) /\ ~ DelItem(r) /\ ~ DelCart(r) /\ ~ SnapshotCart(r)
  <2>1. UNCHANGED <<cart, orders>>
    BY <1>4
    DEF Serve, ReadStock, DecrementStock, Rollback, GetItem, GetAllItems, IncrementStock,
                GetCartItems, AcquireCheckoutLock, Validate, Total, Crash, shared
  <2>2. Ordered(u, p)' = Ordered(u, p)
    BY <2>1 DEF Ordered
  <2> QED
    BY <1>0, <1>a, <1>b, <1>c, <2>1, <2>2 DEF Larger
<1> QED
  BY <1>1, <1>2, <1>3, <1>4

LEMMA ServeClaims ==
  ASSUME SlotsTyped, SharedTyped, NEW r \in Slots, InHand(r), Working,
         "giveback" \notin faults, Serve(r), NEW p \in Products, Claims(p)
  PROVE  Claims(p)'
<1>1. SlotsTyped' /\ SharedTyped' /\ OnlyAt(r) /\ faults' = faults
  BY ServeTypes DEF Moves
<1> PICK u \in Customers : u = user[r]
  BY ServeTypes DEF Moves, SlotsTyped
<1> DEFINE f == Claimed(p)
           g == Claimed(p)'
<1>2. /\ f \in [Customers -> Nat] /\ g \in [Customers -> Nat]
      /\ \A c \in Customers \ {u} : g[c] = f[c]
  <2>1. \A c \in Customers : cart'[c][p].quantity \in Nat /\ Ordered(c, p)' \in Nat
    <3>1. \A c \in Customers : cart'[c][p].quantity \in Nat
      BY <1>1, Quantities1
    <3>2. \A c \in Customers : Ordered(c, p)' \in Nat
      <4>1. CASE SnapshotCart(r)
        BY <4>1, OrderedCount, OwnOrders, SnapshotOrdered, Quantities0
      <4>2. CASE UNCHANGED orders
        <5>1. \A c \in Customers : Ordered(c, p)' = Ordered(c, p)
          BY <4>2 DEF Ordered
        <5> QED
          BY <5>1, OrderedCount
      <4> QED
        BY <4>1, <4>2, OwnOrders
    <3> QED
      BY <3>1, <3>2
  <2>2. g \in [Customers -> Nat]
    BY <2>1 DEF Claimed, Larger
  <2>3. \A c \in Customers \ {u} : g[c] = f[c]
    BY OwnCart, OwnOrders DEF Claimed
  <2> QED
    BY <2>2, <2>3, ClaimsCount
<1>3. Units(Claimed(p))' = Units(g)
  BY DEF Units
<1> DEFINE k == f[u]
           l == g[u]
           m == OnTheWay(r, p)
           n == OnTheWay(r, p)'
           s == stock[p]
           t == stock'[p]
           a == Units(f)
           b == Units(g)
           v == Units(UnderWay(p))
           w == Units(UnderWay(p))'
<1>4. t + l + n <= s + k + m
  BY ServeTheirs DEF Theirs
<1>5. k \in Nat /\ l \in Nat /\ s \in Int /\ a \in Nat /\ v \in Nat /\ m \in Nat /\ Supply[p] \in Nat
  BY <1>2, CartsCount, ClaimsCount, Quantities0
<1>6. t \in Int /\ n \in Nat
  BY <1>1, Quantities1
<1>7. w = v + n - m
  BY <1>1, OneUnderWay
<1>8. s + a + v <= Supply[p]
  BY DEF Claims
<1> HIDE DEF f, g
<1>9. b = a + l - k
  <2>1. IsFiniteSet(Customers)
    BY CartAssumption
  <2> QED
    BY <1>2, <2>1, OneHeap
<1> HIDE DEF k, l, m, n, s, t, a, b, v, w
<1>c. t + b + w <= Supply[p]
  BY <1>4, <1>5, <1>6, <1>7, <1>8, <1>9
<1> QED
  BY <1>3, <1>c DEF Claims, t, b, w

-----------------------------------------------------------------------------
(* One customer at a time: what has been read of the stock is still there  *)
(* when it is taken.                                                       *)
InStock ==
  /\ \A q, r \in Slots : pc[q] # "idle" /\ pc[r] # "idle" => q = r
  /\ \A p \in Products : stock[p] >= 0
  /\ \A r \in Slots : pc[r] = "decr" => stock[item[r].product] >= item[r].quantity

LEMMA RouteInStock ==
  ASSUME SlotsTyped, SharedTyped, InStock, NEW r \in Slots, Route(r),
         "overlap" \notin faults, "crowd" \notin faults
  PROVE  InStock'
<1>1. /\ OnlyAt(r) /\ UNCHANGED stock /\ pc'[r] \in {"read", "hget", "clear", "items"}
  BY RouteShape DEF shared
<1>2. \A q \in Slots : pc[q] = "idle"
  BY DEF Route, ScanItem, RemoveItem, ClearCart, InitCheckout, Begin, Expected
<1> QED
  BY <1>1, <1>2 DEF InStock, OnlyAt

LEMMA ServeInStock ==
  ASSUME SlotsTyped, SharedTyped, InStock, NEW r \in Slots, Serve(r), InHand(r), Working
  PROVE  InStock'
<1>0. /\ OnlyAt(r) /\ pc[r] # "idle" /\ \A q \in Slots : q # r => pc[q] = "idle" /\ pc'[q] = "idle"
  BY ServeTypes DEF Moves, OnlyAt, InStock
<1>1. \A p \in Products : stock[p] \in Int /\ stock[p] >= 0
  BY DEF SharedTyped, InStock
<1> USE DEF Working
<1>2. CASE ReadStock(r)
  <2>1. UNCHANGED stock /\ item[r].product \in Products
    BY <1>2 DEF ReadStock, shared, SlotsTyped
  <2>2. pc'[r] = "decr" => stock[item'[r].product] >= item'[r].quantity
    <3>1. CASE Done(r)
      BY <3>1, DoneShape
    <3>2. CASE /\ stock[item[r].product] >= item[r].quantity
               /\ \E items : Keep(r, items, "decr")
      BY <3>2 DEF Keep
    <3>3. 0 >= item[r].quantity => stock[item[r].product] >= item[r].quantity
      BY <1>1, <2>1, Quantities0
    <3> QED
      BY <1>2, <3>1, <3>2, <3>3 DEF ReadStock
  <2> QED
    BY <1>0, <1>1, <2>1, <2>2 DEF InStock
<1>3. CASE DecrementStock(r)
  <2>1. /\ pc[r] = "decr" /\ pc'[r] = "add" /\ item[r].product \in Products
        /\ stock' = [stock EXCEPT ![item[r].product] = @ - item[r].quantity]
    BY <1>3 DEF DecrementStock, RedisFails, Goes, Goto, SlotsTyped
  <2>2. stock[item[r].product] >= item[r].quantity /\ item[r].quantity \in Nat
    BY <2>1, Quantities0 DEF InStock
  <2>3. \A p \in Products : stock'[p] >= 0
    BY <1>1, <2>1, <2>2 DEF SharedTyped
  <2> QED
    BY <1>0, <2>1, <2>3 DEF InStock
<1>4. CASE IncrementStock(r)
  <2>1. PICK x \in In(held[r]) : stock' = [stock EXCEPT ![x] = @ + held[r][x].quantity]
    BY <1>4 DEF IncrementStock, RedisFails
  <2>2. x \in Products /\ held[r][x].quantity \in Nat
    BY Quantities0 DEF In
  <2>3. \A p \in Products : stock'[p] >= 0
    BY <1>1, <2>1, <2>2 DEF SharedTyped
  <2>4. pc'[r] # "decr"
    BY <1>4, DoneShape DEF IncrementStock, Keep, Goto, SlotsTyped
  <2> QED
    BY <1>0, <2>3, <2>4 DEF InStock
<1>5. CASE ~ ReadStock(r) /\ ~ DecrementStock(r) /\ ~ IncrementStock(r)
  <2>1. UNCHANGED stock
    <3>1. ~ Rollback(r)
      BY DEF Rollback, InHand
    <3> QED
      BY <1>5, <3>1 DEF Serve, AddToCart, GetItem, DelItem, GetAllItems, DelCart,
                        GetCartItems, AcquireCheckoutLock, Validate, Total, SnapshotCart,
                        Crash, shared
  <2>2. pc'[r] # "decr"
    <3>1. CASE Rollback(r) \/ SnapshotCart(r) \/ AcquireCheckoutLock(r)
      BY <3>1, DoneShape
      DEF Rollback, SnapshotCart, AcquireCheckoutLock, Goes, Goto, SlotsTyped
    <3>2. CASE GetItem(r) \/ GetAllItems(r) \/ GetCartItems(r) \/ Total(r)
      BY <3>2, DoneShape DEF GetItem, GetAllItems, GetCartItems, Total, Keep, Goto, SlotsTyped
    <3>3. CASE Validate(r) \/ AddToCart(r)
      BY <3>3, DoneShape DEF Validate, AddToCart, Keep, Goes, Goto, SlotsTyped
    <3>4. CASE DelItem(r) \/ DelCart(r)
      BY <3>4, DoneShape DEF DelItem, DelCart, Goes, Goto, SlotsTyped
    <3>5. CASE Crash(r)
      BY <3>5, CrashSteps
    <3> QED
      BY <1>5, <3>1, <3>2, <3>3, <3>4, <3>5 DEF Serve
  <2> QED
    BY <1>0, <1>1, <2>1, <2>2 DEF InStock
<1> QED
  BY <1>2, <1>3, <1>4, <1>5

-----------------------------------------------------------------------------
(* The units that are checked out, and those of a cart whose stock the     *)
(* checkout has looked at and may still check out.                         *)
Passed(r, p) ==
  pc[r] \in {"total", "snapshot"} \/ (pc[r] = "validate" /\ held[r][p].quantity = 0)
Validated(c, p) ==
  IF \E r \in Slots : user[r] = c /\ Passed(r, p) THEN cart[c][p].quantity ELSE 0
Sold(p) == [c \in Customers |-> Larger(Ordered(c, p), Validated(c, p))]

LEMMA SoldCount ==
  ASSUME SlotsTyped, SharedTyped, Working, NEW p \in Products
  PROVE  /\ Sold(p) \in [Customers -> Nat] /\ Units(Sold(p)) \in Nat
         /\ \A c \in Customers : Sold(p)[c] <= Claimed(p)[c]
<1>1. /\ Sold(p) \in [Customers -> Nat]
      /\ \A c \in Customers : Sold(p)[c] <= Claimed(p)[c]
  BY Quantities0, OrderedCount DEF Sold, Claimed, Larger, Validated
<1> QED
  BY <1>1, UnitsCount, CartAssumption

(* A product passes when its cart holds none of it or its units are there. *)
LEMMA PassedStep ==
  ASSUME SlotsTyped, SharedTyped, Working, NEW r \in Slots, Serve(r), InHand(r),
         NEW u \in Customers, u = user[r],
         NEW p \in Products, price[p] = None => stock[p] >= 0, Passed(r, p)'
  PROVE  /\ UNCHANGED <<cart, orders>> /\ user'[r] = user[r]
         /\ Passed(r, p) \/ cart[u][p].quantity = 0 \/ stock[p] >= 0
<1>0. Moves(r) /\ pc'[r] \in Locked
  BY ServeTypes DEF Passed, Locked
<1>1. AcquireCheckoutLock(r) \/ Validate(r) \/ Total(r)
  <2>1. ~ (ReadStock(r) \/ DecrementStock(r) \/ AddToCart(r) \/ Rollback(r))
    BY <1>0, ScanSteps
  <2>2. ~ (GetItem(r) \/ DelItem(r) \/ GetAllItems(r) \/ DelCart(r) \/ IncrementStock(r))
    BY <1>0, GiveBackSteps
  <2>3. ~ GetCartItems(r)
    BY <1>0, ReadSteps DEF GetCartItems, Locked
  <2>4. ~ SnapshotCart(r)
    BY <1>0, SnapshotSteps DEF Locked
  <2>5. ~ Crash(r)
    BY <1>0, CrashSteps
  <2> QED
    BY <2>1, <2>2, <2>3, <2>4, <2>5 DEF Serve
<1>2. UNCHANGED <<cart, orders>> /\ user'[r] = user[r]
  BY <1>0, <1>1 DEF AcquireCheckoutLock, Validate, Total, shared, Moves, Locked
<1>3. CASE AcquireCheckoutLock(r)
  <2>1. pc[r] = "lock" /\ pc'[r] = "validate" /\ held' = held
    BY <1>0, <1>3, LockSteps
    DEF AcquireCheckoutLock, Goes, request, Locked, Done, Goto, SlotsTyped
  <2> QED
    BY <1>2, <2>1 DEF InHand, Passed
<1>4. CASE Validate(r)
  <2>1. PICK x \in In(held[r]) :
          /\ price[x] = None \/ Covered(x)
          /\ Keep(r, [held[r] EXCEPT ![x] = NoItem],
                  IF In(held[r]) = {x} THEN "total" ELSE "validate")
    BY <1>0, <1>4, DoneShape DEF Validate, Locked, Missed, RedisFails, Working
  <2>2. /\ pc[r] = "validate" /\ held'[r] = [held[r] EXCEPT ![x] = NoItem]
        /\ pc'[r] = IF In(held[r]) = {x} THEN "total" ELSE "validate"
    BY <1>4, <2>1 DEF Validate, Keep, Goto, SlotsTyped
  <2>3. CASE x = p
    BY <1>2, <2>1, <2>3 DEF Covered
  <2>4. CASE x # p
    <3>1. held'[r][p] = held[r][p]
      BY <2>2, <2>4 DEF SlotsTyped, Items
    <3>2. held[r][p].quantity = 0
      BY <2>2, <2>4, <3>1 DEF Passed, In, NoItem
    <3> QED
      BY <1>2, <2>2, <3>2 DEF Passed
  <2> QED
    BY <2>3, <2>4
<1>5. CASE Total(r)
  BY <1>2, <1>5 DEF Total, Passed
<1> QED
  BY <1>1, <1>3, <1>4, <1>5

LEMMA OwnSold ==
  ASSUME SlotsTyped, SharedTyped, OneRequestEach, NEW r \in Slots, Serve(r),
         NEW u \in Customers, u = user[r], NEW p \in Products
  PROVE  /\ \A c \in Customers : c # u => Sold(p)'[c] = Sold(p)[c]
         /\ Sold(p)[u] = Larger(Ordered(u, p), IF Passed(r, p) THEN cart[u][p].quantity ELSE 0)
         /\ Sold(p)'[u] = Larger(Ordered(u, p)', IF Passed(r, p)' THEN cart'[u][p].quantity ELSE 0)
<1>1. /\ OnlyAt(r) /\ pc[r] # "idle" /\ (pc'[r] # "idle" => user'[r] = user[r])
  BY ServeTypes DEF Moves
<1>2. \A q \in Slots : q # r => (Passed(q, p)' <=> Passed(q, p)) /\ user'[q] = user[q]
  BY <1>1 DEF Passed, OnlyAt
<1>3. Passed(r, p)' => user'[r] = u
  BY <1>1 DEF Passed
<1>4. \A q \in Slots : q # r /\ user[q] = u => ~ Passed(q, p)
  BY <1>1 DEF OneRequestEach, Passed
<1>5. ASSUME NEW c \in Customers, c # u PROVE Sold(p)'[c] = Sold(p)[c]
  <2>1. cart'[c] = cart[c] /\ Ordered(c, p)' = Ordered(c, p)
    BY <1>5, OwnCart, OwnOrders
  <2>2. (\E q \in Slots : user'[q] = c /\ Passed(q, p)') <=> (\E q \in Slots : user[q] = c /\ Passed(q, p))
    BY <1>2, <1>3, <1>5
  <2>3. Validated(c, p)' = Validated(c, p)
    BY <2>1, <2>2 DEF Validated
  <2> QED
    BY <2>1, <2>3 DEF Sold, Larger
<1>6. (\E q \in Slots : user[q] = u /\ Passed(q, p)) <=> Passed(r, p)
  BY <1>4
<1>7. (\E q \in Slots : user'[q] = u /\ Passed(q, p)') <=> Passed(r, p)'
  BY <1>2, <1>3, <1>4
<1>8. /\ Validated(u, p) = IF Passed(r, p) THEN cart[u][p].quantity ELSE 0
      /\ Validated(u, p)' = IF Passed(r, p)' THEN cart'[u][p].quantity ELSE 0
  BY <1>6, <1>7 DEF Validated
<1> QED
  BY <1>5, <1>8 DEF Sold, Larger

LEMMA ServeSold ==
  ASSUME SlotsTyped, SharedTyped, OneRequestEach, Working, NEW r \in Slots, Serve(r), InHand(r),
         NEW p \in Products, price[p] = None => stock[p] >= 0,
         Claims(p), Units(Sold(p)) <= Supply[p]
  PROVE  Units(Sold(p))' <= Supply[p]
<1>1. SlotsTyped' /\ SharedTyped' /\ faults' = faults
  BY ServeTypes DEF Moves
<1> PICK u \in Customers : u = user[r]
  BY ServeTypes DEF Moves, SlotsTyped
<1> DEFINE f == Sold(p)
           g == Sold(p)'
           h == Claimed(p)
<1>2. \A c \in Customers : cart'[c][p].quantity \in Nat /\ Ordered(c, p)' \in Nat
  <2>1. \A c \in Customers : cart'[c][p].quantity \in Nat
    BY <1>1, Quantities1
  <2>2. CASE SnapshotCart(r)
    BY <2>1, <2>2, OrderedCount, OwnOrders, SnapshotOrdered, Quantities0
  <2>3. CASE UNCHANGED orders
    <3>1. \A c \in Customers : Ordered(c, p)' = Ordered(c, p)
      BY <2>3 DEF Ordered
    <3> QED
      BY <2>1, <3>1, OrderedCount
  <2> QED
    BY <2>2, <2>3, OwnOrders
<1>3. g \in [Customers -> Nat]
  BY <1>2 DEF Sold, Larger, Validated
<1>4. Units(Sold(p))' = Units(g)
  BY DEF Units
<1>5. f \in [Customers -> Nat] /\ h \in [Customers -> Nat] /\ \A c \in Customers : f[c] <= h[c]
  BY SoldCount, ClaimsCount
<1>6. /\ \A c \in Customers : c # u => g[c] = f[c]
      /\ f[u] = Larger(Ordered(u, p), IF Passed(r, p) THEN cart[u][p].quantity ELSE 0)
      /\ g[u] = Larger(Ordered(u, p)', IF Passed(r, p)' THEN cart'[u][p].quantity ELSE 0)
      /\ h[u] = Larger(cart[u][p].quantity, Ordered(u, p))
  BY OwnSold DEF Claimed
<1>7. /\ Ordered(u, p) \in Nat /\ cart[u][p].quantity \in Nat
      /\ Units(f) \in Nat /\ Units(h) \in Nat
      /\ stock[p] \in Int /\ Units(UnderWay(p)) \in Nat /\ Supply[p] \in Nat
  BY OrderedCount, Quantities0, CartsCount, SoldCount, ClaimsCount
<1>8. g[u] <= f[u] \/ (stock[p] >= 0 /\ g[u] <= h[u])
  <2>1. CASE SnapshotCart(r)
    <3>1. pc[r] = "snapshot" /\ pc'[r] = "idle"
      BY <2>1, SnapshotSteps
    <3>2. Passed(r, p) /\ ~ Passed(r, p)' /\ held[r][p].quantity = cart[u][p].quantity
      BY <3>1 DEF Passed, InHand
    <3>3. Ordered(u, p)' \in {Ordered(u, p), cart[u][p].quantity}
      BY <2>1, <3>2, SnapshotOrdered
    <3> QED
      BY <1>6, <1>7, <3>2, <3>3 DEF Larger
  <2>2. CASE ~ SnapshotCart(r)
    <3>1. Ordered(u, p)' = Ordered(u, p)
      BY <2>2, OwnOrders DEF Ordered
    <3>2. CASE ~ Passed(r, p)'
      BY <1>6, <1>7, <3>1, <3>2 DEF Larger
    <3>3. CASE Passed(r, p)'
      <4>1. UNCHANGED cart /\ (Passed(r, p) \/ cart[u][p].quantity = 0 \/ stock[p] >= 0)
        BY <3>3, PassedStep
      <4> QED
        BY <1>6, <1>7, <3>1, <3>3, <4>1 DEF Larger
    <3> QED
      BY <3>2, <3>3
  <2> QED
    BY <2>1, <2>2
<1>9. Units(h) + stock[p] + Units(UnderWay(p)) <= Supply[p]
  BY <1>7 DEF Claims
<1>0. IsFiniteSet(Customers) /\ Units(f) <= Supply[p]
  BY CartAssumption
<1> HIDE DEF f, g, h
<1>a. CASE g[u] <= f[u]
  <2>1. \A c \in Customers : g[c] <= f[c]
    BY <1>5, <1>6, <1>a
  <2>2. Units(g) <= Units(f)
    BY <1>0, <1>3, <1>5, <2>1, NoMoreUnits
  <2>3. Units(g) \in Nat
    BY <1>0, <1>3, UnitsCount
  <2> QED
    BY <1>0, <1>4, <1>7, <2>2, <2>3
<1>b. CASE stock[p] >= 0 /\ g[u] <= h[u]
  <2>1. \A c \in Customers : g[c] <= h[c]
    BY <1>5, <1>6, <1>b
  <2>2. Units(g) <= Units(h)
    BY <1>0, <1>3, <1>5, <2>1, NoMoreUnits
  <2>3. Units(g) \in Nat
    BY <1>0, <1>3, UnitsCount
  <2> QED
    BY <1>4, <1>7, <1>9, <1>b, <2>2, <2>3
<1> QED
  BY <1>8, <1>a, <1>b

-----------------------------------------------------------------------------
(* The catalog writes the key of a product when the store opens. *)
Priced == "price" \notin faults => \A p \in Products : price[p] # None

(* The inductive invariant: what requests hold, where the units of each    *)
(* product are, and which of them are sold.                                *)
KeptInv ==
  "overlap" \notin faults /\ Working =>
    /\ \A r \in Slots : InHand(r)
    /\ \A p \in Products : Balance(p)
    /\ "crowd" \notin faults => InStock
    /\ "giveback" \notin faults =>
         /\ \A p \in Products : Claims(p)
         /\ ~ {"crowd", "price"} \subseteq faults =>
              \A p \in Products : Units(Sold(p)) <= Supply[p]

LEMMA KeptInit == ASSUME Init, SlotsTyped, SharedTyped PROVE Priced /\ (Working => KeptInv)
<1>1. Priced
  <2>1. Prices[1] \in Nat /\ None \notin Nat
    BY CartAssumption
  <2> QED
    BY <2>1 DEF Init, Priced
<1>2. \A r \in Slots : InHand(r) /\ pc[r] = "idle"
  BY InHandInit DEF Init
<1>3. ASSUME NEW p \in Products
      PROVE  Balance(p) /\ Claims(p) /\ Units(Sold(p)) <= Supply[p] /\ stock[p] >= 0
  <2>1. /\ InCarts(p) \in [Customers -> Nat] /\ \A c \in Customers : InCarts(p)[c] = 0
        /\ UnderWay(p) \in [Slots -> Nat] /\ \A r \in Slots : UnderWay(p)[r] = 0
    BY <1>2, CartsCount DEF Init, InCarts, UnderWay, OnTheWay, NoItems, NoItem
  <2>2. /\ Claimed(p) \in [Customers -> Nat] /\ \A c \in Customers : Claimed(p)[c] = 0
        /\ Sold(p) \in [Customers -> Nat] /\ \A c \in Customers : Sold(p)[c] = 0
    <3>1. \A c \in Customers : cart[c][p].quantity = 0 /\ Ordered(c, p) = 0
      BY DEF Init, NoItems, NoItem, Ordered
    <3>2. \A c \in Customers : Validated(c, p) = 0
      BY <3>1 DEF Validated
    <3> QED
      BY <3>1, <3>2 DEF Claimed, Sold, Larger
  <2>3. /\ Units(InCarts(p)) = 0 /\ Units(UnderWay(p)) = 0
        /\ Units(Claimed(p)) = 0 /\ Units(Sold(p)) = 0
    <3>1. IsFiniteSet(Customers) /\ IsFiniteSet(Slots)
      BY CartAssumption
    <3>2. Units(InCarts(p)) = 0
      BY <2>1, <3>1, NoUnits
    <3>3. Units(UnderWay(p)) = 0
      BY <2>1, <3>1, NoUnits
    <3>4. Units(Claimed(p)) = 0
      BY <2>2, <3>1, NoUnits
    <3>5. Units(Sold(p)) = 0
      BY <2>2, <3>1, NoUnits
    <3> QED
      BY <3>2, <3>3, <3>4, <3>5
  <2>4. stock[p] = Supply[p] /\ Supply[p] \in Nat
    BY CartAssumption DEF Init
  <2> QED
    BY <2>3, <2>4 DEF Balance, Claims
<1>4. InStock
  BY <1>2, <1>3 DEF InStock
<1> QED
  BY <1>1, <1>2, <1>3, <1>4 DEF KeptInv

(* A step that leaves stock, carts, orders and what requests hold alone. *)
LEMMA IdleKept ==
  ASSUME SlotsTyped, SharedTyped, NEW p \in Products,
         UNCHANGED <<faults, stock, cart, orders>>,
         \A r \in Slots : OnTheWay(r, p)' = OnTheWay(r, p),
         \A c \in Customers : (\E r \in Slots : user'[r] = c /\ Passed(r, p)')
                             <=> (\E r \in Slots : user[r] = c /\ Passed(r, p))
  PROVE  /\ Balance(p) => Balance(p)'
         /\ Claims(p) => Claims(p)'
         /\ Units(Sold(p))' = Units(Sold(p))
<1>1. InCarts(p)' = InCarts(p) /\ UnderWay(p)' = UnderWay(p)
  BY DEF InCarts, UnderWay
<1>2. \A c \in Customers : Ordered(c, p)' = Ordered(c, p) /\ Validated(c, p)' = Validated(c, p)
  BY DEF Ordered, Validated
<1>3. Claimed(p)' = Claimed(p) /\ Sold(p)' = Sold(p)
  BY <1>2 DEF Claimed, Sold, Larger
<1> QED
  BY <1>1, <1>3 DEF Balance, Claims, Units, Lossless

LEMMA RouteKept ==
  ASSUME SlotsTyped, SharedTyped, KeptInv, NEW r \in Slots, Route(r)
  PROVE  KeptInv'
<1>1. /\ OnlyAt(r) /\ UNCHANGED <<faults, shared>> /\ pc[r] = "idle"
      /\ pc'[r] \in {"read", "hget", "clear", "items"}
  BY RouteShape
<1> SUFFICES ASSUME "overlap" \notin faults, Working PROVE KeptInv'
  BY <1>1 DEF KeptInv, Working
<1>2. \A q \in Slots : InHand(q)'
  BY RouteInHand DEF KeptInv
<1>3. "crowd" \notin faults => InStock'
  BY RouteInStock DEF KeptInv
<1>4. ASSUME NEW p \in Products
      PROVE  /\ Balance(p) => Balance(p)' /\ (Claims(p) => Claims(p)')
             /\ Units(Sold(p))' = Units(Sold(p))
  <2>1. \A q \in Slots : OnTheWay(q, p)' = OnTheWay(q, p)
    BY <1>1 DEF OnTheWay, OnlyAt
  <2>2. \A q \in Slots : IF q = r THEN ~ Passed(q, p) /\ ~ Passed(q, p)'
                          ELSE (Passed(q, p)' <=> Passed(q, p)) /\ user'[q] = user[q]
    BY <1>1 DEF Passed, OnlyAt
  <2>3. \A c \in Customers : (\E q \in Slots : user'[q] = c /\ Passed(q, p)')
                            <=> (\E q \in Slots : user[q] = c /\ Passed(q, p))
    BY <2>2
  <2> QED
    BY <1>1, <2>1, <2>3, IdleKept DEF shared
<1>5. "overlap" \notin faults /\ Working /\ faults' = faults
  BY <1>1
<1> QED
  BY <1>2, <1>3, <1>4, <1>5 DEF KeptInv

LEMMA OutsideKept ==
  ASSUME SlotsTyped, SharedTyped, KeptInv, Outside
  PROVE  KeptInv'
<1>1. UNCHANGED <<faults, stock, cart, orders, pc, user, item, held>>
  BY DEF Outside, SessionChanges, LockExpires, PriceChanges, request
<1>2. /\ \A r \in Slots : InHand(r)' <=> InHand(r)
      /\ InStock' <=> InStock
  BY <1>1 DEF InHand, InStock
<1>3. ASSUME NEW p \in Products
      PROVE  /\ Balance(p) => Balance(p)' /\ (Claims(p) => Claims(p)')
             /\ Units(Sold(p))' = Units(Sold(p))
  <2>1. \A q \in Slots : OnTheWay(q, p)' = OnTheWay(q, p) /\ (Passed(q, p)' <=> Passed(q, p))
    BY <1>1 DEF OnTheWay, Passed
  <2> QED
    BY <1>1, <2>1, IdleKept
<1> QED
  BY <1>1, <1>2, <1>3 DEF KeptInv, Working

LEMMA ServeKept ==
  ASSUME SlotsTyped, SharedTyped, TurnInv, Priced, KeptInv, NEW r \in Slots, Serve(r)
  PROVE  KeptInv'
<1>1. faults' = faults
  BY ServeTypes DEF Moves
<1> SUFFICES ASSUME "overlap" \notin faults, Working PROVE KeptInv'
  BY <1>1 DEF KeptInv, Working
<1>0. OneRequestEach
  BY DEF TurnInv, InTurn, Working
<1>2. /\ \A q \in Slots : InHand(q)
      /\ \A p \in Products : Balance(p)
      /\ "crowd" \notin faults => InStock
      /\ "giveback" \notin faults => \A p \in Products : Claims(p)
      /\ "giveback" \notin faults /\ ~ {"crowd", "price"} \subseteq faults =>
           \A p \in Products : Units(Sold(p)) <= Supply[p]
  BY DEF KeptInv
<1>3. \A q \in Slots : InHand(q)'
  BY <1>0, <1>2, ServeInHand
<1>4. \A p \in Products : Balance(p)'
  BY <1>2, ServeBalance
<1>5. "crowd" \notin faults => InStock'
  BY <1>2, ServeInStock
<1>6. "giveback" \notin faults => \A p \in Products : Claims(p)'
  BY <1>2, ServeClaims
<1>7. ASSUME "giveback" \notin faults, ~ {"crowd", "price"} \subseteq faults, NEW p \in Products
      PROVE  Units(Sold(p))' <= Supply[p]
  <2>1. price[p] = None => stock[p] >= 0
    BY <1>2, <1>7 DEF Priced, InStock
  <2> QED
    BY <1>0, <1>2, <1>7, <2>1, ServeSold
<1> QED
  BY <1>1, <1>3, <1>4, <1>5, <1>6, <1>7 DEF KeptInv

LEMMA NextPriced ==
  ASSUME SlotsTyped, SharedTyped, Priced, [Next]_vars
  PROVE  Priced'
<1>1. ASSUME NEW r \in Slots, Route(r) PROVE Priced'
  BY <1>1, RouteShape DEF Priced, shared
<1>2. ASSUME NEW r \in Slots, Serve(r) PROVE Priced'
  BY <1>2, OwnCart, ServeTypes DEF Priced, Moves
<1>3. CASE Outside
  BY <1>3 DEF Outside, SessionChanges, LockExpires, PriceChanges, Priced
<1>4. CASE UNCHANGED vars
  BY <1>4 DEF vars, shared, Priced
<1> QED
  BY <1>1, <1>2, <1>3, <1>4 DEF Next, Outside

(* Scans, removals and checkouts of customers side by side neither make    *)
(* nor lose a unit, nor sell one twice, as long as Redis works and nobody  *)
(* asks for less than nothing; a crash between two steps and a scan of     *)
(* what is in the cart may lose units, no more than that (ScanItem,        *)
(* RemoveItem, ClearCart and InitCheckout with the stock operations of the *)
(* repository).                                                            *)
THEOREM KeptUnits == Spec => []UnitsAreKept
<1>1. Init /\ TypeOK => TurnInv /\ Priced /\ KeptInv
  BY TypeParts, TurnInit, KeptInit DEF TurnInv, KeptInv
<1>2. TypeOK /\ TurnInv /\ Priced /\ KeptInv /\ [Next]_vars => TurnInv' /\ Priced' /\ KeptInv'
  <2> SUFFICES ASSUME TypeOK, TurnInv, Priced, KeptInv, [Next]_vars
               PROVE  TurnInv' /\ Priced' /\ KeptInv'
    OBVIOUS
  <2>0. SlotsTyped /\ SharedTyped
    BY TypeParts
  <2>1. TurnInv'
    BY <2>0, NextInTurn
  <2>2. Priced'
    BY <2>0, NextPriced
  <2>3. KeptInv'
    <3>2. CASE UNCHANGED vars
      <4>1. UNCHANGED <<faults, stock, cart, orders, pc, user, item, held>>
        BY <3>2 DEF vars, shared, request
      <4>2. /\ \A r \in Slots : InHand(r)' <=> InHand(r)
            /\ InStock' <=> InStock
        BY <4>1 DEF InHand, InStock
      <4>3. \A p \in Products :
              /\ Balance(p) => Balance(p)' /\ (Claims(p) => Claims(p)')
              /\ Units(Sold(p))' = Units(Sold(p))
        BY <2>0, <4>1, IdleKept DEF OnTheWay, Passed
      <4> QED
        BY <4>1, <4>2, <4>3 DEF KeptInv, Working
    <3> QED
      BY <2>0, <3>2, RouteKept, ServeKept, OutsideKept DEF Next, Outside
  <2> QED
    BY <2>1, <2>2, <2>3
<1>3. TypeOK /\ KeptInv => UnitsAreKept
  <2> SUFFICES ASSUME TypeOK, KeptInv PROVE StockConserved /\ CheckedOutIsInStore
    BY DEF UnitsAreKept
  <2>0. SlotsTyped /\ SharedTyped
    BY TypeParts
  <2>1. StockConserved
    BY DEF KeptInv, StockConserved, Balance, Working, Lossless
  <2>2. ASSUME faults \intersect {"overlap", "redis", "negative", "giveback"} = {},
               ~ {"crowd", "price"} \subseteq faults, NEW p \in Products
        PROVE  Units([c \in Customers |-> Ordered(c, p)]) <= Supply[p]
    <3>0. Working
      BY <2>2 DEF Working
    <3> DEFINE f == [c \in Customers |-> Ordered(c, p)]
               g == Sold(p)
    <3>1. f \in [Customers -> Nat] /\ g \in [Customers -> Nat] /\ IsFiniteSet(Customers)
      BY <2>0, <3>0, OrderedCount, SoldCount, CartAssumption
    <3>2. \A c \in Customers : f[c] <= g[c]
      <4>1. \A c \in Customers : Ordered(c, p) \in Nat /\ Validated(c, p) \in Nat
        BY <2>0, <3>0, OrderedCount, Quantities0 DEF Validated
      <4> QED
        BY <4>1 DEF Sold, Larger
    <3>3. Units(g) <= Supply[p] /\ Units(g) \in Nat /\ Supply[p] \in Nat
      BY <2>0, <2>2, <3>0, SoldCount, CartsCount DEF KeptInv
    <3> HIDE DEF f, g
    <3>4. Units(f) <= Units(g) /\ Units(f) \in Nat
      BY <3>1, <3>2, NoMoreUnits, UnitsCount
    <3>5. Units(f) <= Supply[p]
      BY <3>3, <3>4
    <3> QED
      BY <3>5 DEF f
  <2> QED
    BY <2>1, <2>2 DEF CheckedOutIsInStore
<1> QED
  BY <1>1, <1>2, <1>3, TypeCorrect, PTL DEF Spec


-----------------------------------------------------------------------------
(* Induction up to n, over a set. *)
LEMMA Steps ==
  ASSUME NEW n \in Nat, NEW S, 0 \in S, \A i \in 1..n : i - 1 \in S => i \in S
  PROVE  0..n \subseteq S
<1> DEFINE Left == {i \in 0..n : i \notin S}
<1> SUFFICES ASSUME Left # {}
             PROVE  FALSE
  OBVIOUS
<1>1. PICK k \in Left : \A l \in Left : ~ (<<l, k>> \in OpToRel(<, Nat))
  <2>1. Left \subseteq Nat
    OBVIOUS
  <2> HIDE DEF Left
  <2> QED
    BY <2>1, NatLessThanWellFounded, WFMin
<1>2. k \in 1..n /\ k - 1 \in 0..n /\ k - 1 < k /\ k - 1 \in Nat /\ k \in Nat
  <2>1. k \in 0..n /\ k # 0
    BY <1>1
  <2> QED
    BY <2>1
<1>3. k - 1 \notin Left
  BY <1>1, <1>2 DEF OpToRel
<1> QED
  BY <1>1, <1>2, <1>3

(* The partial sums are what their definition says. *)
LEMMA Sums ==
  ASSUME NEW n \in Nat, NEW f \in [1..n -> Int]
  PROVE  /\ PartialSums(f, n) \in [0..n -> Int]
         /\ PartialSums(f, n)[0] = 0
         /\ \A i \in 1..n : PartialSums(f, n)[i] = PartialSums(f, n)[i - 1] + f[i]
<1> DEFINE Rec(g, k) == g = [i \in 0..k |-> IF i = 0 THEN 0 ELSE g[i - 1] + f[i]]
           S == {k \in 0..n : \E g : Rec(g, k)}
<1>1. 0 \in S
  <2> DEFINE g == [i \in 0..0 |-> 0]
  <2>1. Rec(g, 0)
    <3>1. \A i \in 0..0 : g[i] = IF i = 0 THEN 0 ELSE g[i - 1] + f[i]
      OBVIOUS
    <3>2. g = [i \in 0..0 |-> g[i]]
      OBVIOUS
    <3> HIDE DEF g
    <3> QED
      BY <3>1, <3>2
  <2> HIDE DEF Rec, g
  <2> QED
    BY <2>1
<1>2. ASSUME NEW k \in 1..n, k - 1 \in S
      PROVE  k \in S
  <2>1. PICK g : Rec(g, k - 1)
    BY <1>2
  <2> DEFINE h == [i \in 0..k |-> IF i = k THEN g[k - 1] + f[k] ELSE g[i]]
  <2>2. \A i \in 0..(k - 1) : h[i] = g[i]
    OBVIOUS
  <2>3. \A i \in 0..k : i # 0 => i - 1 \in 0..(k - 1)
    OBVIOUS
  <2>4. ASSUME NEW i \in 0..k
        PROVE  h[i] = IF i = 0 THEN 0 ELSE h[i - 1] + f[i]
    <3>1. CASE i = k
      <4>1. k # 0 /\ h[k] = g[k - 1] + f[k] /\ h[k - 1] = g[k - 1]
        BY <2>2, <2>3
      <4> QED
        BY <3>1, <4>1
    <3>2. CASE i # k
      <4>1. i \in 0..(k - 1)
        BY <3>2
      <4>2. h[i] = g[i] /\ g[i] = IF i = 0 THEN 0 ELSE g[i - 1] + f[i]
        BY <2>1, <2>2, <4>1
      <4>3. i # 0 => h[i - 1] = g[i - 1]
        BY <2>2, <2>3
      <4> QED
        BY <4>2, <4>3
    <3> QED
      BY <3>1, <3>2
  <2>5. h = [i \in 0..k |-> h[i]]
    OBVIOUS
  <2> HIDE DEF h
  <2>6. Rec(h, k)
    BY <2>4, <2>5
  <2> QED
    BY <2>6
<1>3. PICK g : Rec(g, n)
  <2>1. n \in 0..n
    OBVIOUS
  <2>2. 0..n \subseteq S
    <3> HIDE DEF S
    <3> QED
      BY <1>1, <1>2, Steps
  <2> QED
    BY <2>1, <2>2
<1> DEFINE sums == PartialSums(f, n)
<1>4. Rec(sums, n)
  BY <1>3 DEF PartialSums
<1> HIDE DEF sums
<1>5. /\ sums[0] = 0 /\ sums = [i \in 0..n |-> sums[i]]
      /\ \A i \in 1..n : sums[i] = sums[i - 1] + f[i]
  BY <1>4
<1>6. \A i \in 0..n : sums[i] \in Int
  <2> DEFINE T == {i \in 0..n : sums[i] \in Int}
  <2>1. 0 \in T
    BY <1>5
  <2>2. ASSUME NEW i \in 1..n, i - 1 \in T
        PROVE  i \in T
    <3>1. i \in 0..n /\ f[i] \in Int /\ sums[i - 1] \in Int
      BY <2>2
    <3>2. sums[i] = sums[i - 1] + f[i]
      BY <1>5
    <3> HIDE DEF Rec, S
    <3> QED
      BY <3>1, <3>2
  <2> HIDE DEF T
  <2>3. 0..n \subseteq T
    BY <2>1, <2>2, Steps
  <2> QED
    BY <2>3 DEF T
<1> QED
  BY <1>5, <1>6 DEF sums

LEMMA SumType ==
  ASSUME NEW n \in Nat, NEW f \in [1..n -> Int]
  PROVE  SumTo(f, n) \in Int
BY Sums DEF SumTo

(* A sum of sums. *)
LEMMA SumPlus ==
  ASSUME NEW n \in Nat, NEW f \in [1..n -> Int], NEW g \in [1..n -> Int],
         NEW h \in [1..n -> Int], \A i \in 1..n : h[i] = f[i] + g[i]
  PROVE  SumTo(h, n) = SumTo(f, n) + SumTo(g, n)
<1> DEFINE F == PartialSums(f, n)
           G == PartialSums(g, n)
           H == PartialSums(h, n)
           T == {i \in 0..n : H[i] = F[i] + G[i]}
<1>1. /\ F \in [0..n -> Int] /\ F[0] = 0 /\ \A i \in 1..n : F[i] = F[i - 1] + f[i]
      /\ G \in [0..n -> Int] /\ G[0] = 0 /\ \A i \in 1..n : G[i] = G[i - 1] + g[i]
      /\ H \in [0..n -> Int] /\ H[0] = 0 /\ \A i \in 1..n : H[i] = H[i - 1] + h[i]
  BY Sums
<1> HIDE DEF F, G, H
<1>2. 0 \in T
  BY <1>1
<1>3. ASSUME NEW i \in 1..n, i - 1 \in T
      PROVE  i \in T
  <2>1. i - 1 \in 0..n /\ i \in 0..n
    OBVIOUS
  <2>2. F[i - 1] \in Int /\ G[i - 1] \in Int /\ f[i] \in Int /\ g[i] \in Int
        /\ h[i] = f[i] + g[i] /\ H[i - 1] = F[i - 1] + G[i - 1]
    BY <1>1, <1>3, <2>1
  <2> QED
    BY <1>1, <2>1, <2>2
<1> HIDE DEF T
<1>4. 0..n \subseteq T
  BY <1>2, <1>3, Steps
<1> QED
  BY <1>4 DEF T, F, G, H, SumTo

(* A sum of what is no more is no more. *)
LEMMA SumNoMore ==
  ASSUME NEW n \in Nat, NEW f \in [1..n -> Int], NEW g \in [1..n -> Int],
         \A i \in 1..n : f[i] <= g[i]
  PROVE  SumTo(f, n) <= SumTo(g, n)
<1> DEFINE F == PartialSums(f, n)
           G == PartialSums(g, n)
           T == {i \in 0..n : F[i] <= G[i]}
<1>1. /\ F \in [0..n -> Int] /\ F[0] = 0 /\ \A i \in 1..n : F[i] = F[i - 1] + f[i]
      /\ G \in [0..n -> Int] /\ G[0] = 0 /\ \A i \in 1..n : G[i] = G[i - 1] + g[i]
  BY Sums
<1> HIDE DEF F, G
<1>2. 0 \in T
  BY <1>1
<1>3. ASSUME NEW i \in 1..n, i - 1 \in T
      PROVE  i \in T
  <2>1. i - 1 \in 0..n /\ i \in 0..n
    OBVIOUS
  <2>2. F[i - 1] \in Int /\ G[i - 1] \in Int /\ f[i] \in Int /\ g[i] \in Int
        /\ f[i] <= g[i] /\ F[i - 1] <= G[i - 1]
    BY <1>1, <1>3, <2>1
  <2> QED
    BY <1>1, <2>1, <2>2
<1> HIDE DEF T
<1>4. 0..n \subseteq T
  BY <1>2, <1>3, Steps
<1> QED
  BY <1>4 DEF T, F, G, SumTo

(* A sum with one place changed. *)
LEMMA SumChange ==
  ASSUME NEW n \in Nat, NEW f \in [1..n -> Int], NEW g \in [1..n -> Int], NEW at \in 1..n,
         \A i \in 1..n : i # at => g[i] = f[i]
  PROVE  SumTo(g, n) = SumTo(f, n) + (g[at] - f[at])
<1> DEFINE F == PartialSums(f, n)
           G == PartialSums(g, n)
           T == {i \in 0..n : G[i] = F[i] + (IF i < at THEN 0 ELSE g[at] - f[at])}
<1>1. /\ F \in [0..n -> Int] /\ F[0] = 0 /\ \A i \in 1..n : F[i] = F[i - 1] + f[i]
      /\ G \in [0..n -> Int] /\ G[0] = 0 /\ \A i \in 1..n : G[i] = G[i - 1] + g[i]
  BY Sums
<1>2. PICK a \in Int, b \in Int : a = f[at] /\ b = g[at]
  OBVIOUS
<1> HIDE DEF F, G
<1>3. 0 \in T
  BY <1>1
<1>4. ASSUME NEW i \in 1..n, i - 1 \in T
      PROVE  i \in T
  <2>1. i - 1 \in 0..n /\ i \in 0..n
    OBVIOUS
  <2>2. PICK p \in Int, q \in Int, r \in Int, t \in Int :
          p = F[i - 1] /\ q = G[i - 1] /\ r = f[i] /\ t = g[i]
    BY <1>1, <2>1
  <2>3. F[i] = p + r /\ G[i] = q + t /\ q = p + (IF i - 1 < at THEN 0 ELSE b - a)
    BY <1>1, <1>2, <1>4, <2>2
  <2>4. (i = at => r = a /\ t = b) /\ (i # at => t = r)
    BY <1>2, <2>2
  <2>5. q + t = (p + r) + (IF i < at THEN 0 ELSE b - a)
    BY <2>3, <2>4
  <2> QED
    BY <1>2, <2>1, <2>3, <2>5
<1> HIDE DEF T
<1>5. 0..n \subseteq T
  BY <1>3, <1>4, Steps
<1>6. G[n] = F[n] + (IF n < at THEN 0 ELSE g[at] - f[at])
  <2>1. n \in 0..n
    OBVIOUS
  <2> QED
    BY <1>5, <2>1 DEF T
<1> QED
  BY <1>6 DEF F, G, SumTo

(* The sums over the places of a barcode. *)
LEMMA SumOf12 ==
  ASSUME NEW f \in [1..12 -> Int]
  PROVE  SumTo(f, 12) = f[1] + f[2] + f[3] + f[4] + f[5] + f[6]
           + f[7] + f[8] + f[9] + f[10] + f[11] + f[12]
<1> DEFINE s == PartialSums(f, 12)
<1>1. /\ s \in [0..12 -> Int] /\ s[0] = 0
      /\ \A i \in 1..12 : s[i] = s[i - 1] + f[i]
  <2>1. 12 \in Nat
    OBVIOUS
  <2> QED
    BY <2>1, Sums
<1> HIDE DEF s
<1>2. \A i \in 1..12 : f[i] \in Int
  OBVIOUS
<1>3. /\ s[1] = s[0] + f[1] /\ s[1] \in Int /\ f[1] \in Int
      /\ s[2] = s[1] + f[2] /\ s[2] \in Int /\ f[2] \in Int
      /\ s[3] = s[2] + f[3] /\ s[3] \in Int /\ f[3] \in Int
      /\ s[4] = s[3] + f[4] /\ s[4] \in Int /\ f[4] \in Int
      /\ s[5] = s[4] + f[5] /\ s[5] \in Int /\ f[5] \in Int
      /\ s[6] = s[5] + f[6] /\ s[6] \in Int /\ f[6] \in Int
      /\ s[7] = s[6] + f[7] /\ s[7] \in Int /\ f[7] \in Int
      /\ s[8] = s[7] + f[8] /\ s[8] \in Int /\ f[8] \in Int
      /\ s[9] = s[8] + f[9] /\ s[9] \in Int /\ f[9] \in Int
      /\ s[10] = s[9] + f[10] /\ s[10] \in Int /\ f[10] \in Int
      /\ s[11] = s[10] + f[11] /\ s[11] \in Int /\ f[11] \in Int
      /\ s[12] = s[11] + f[12] /\ s[12] \in Int /\ f[12] \in Int
  BY <1>1, <1>2
<1> QED
  BY <1>1, <1>3 DEF s, SumTo

LEMMA SumOf7 ==
  ASSUME NEW f \in [1..7 -> Int]
  PROVE  SumTo(f, 7) = f[1] + f[2] + f[3] + f[4] + f[5] + f[6] + f[7]
<1> DEFINE s == PartialSums(f, 7)
<1>1. /\ s \in [0..7 -> Int] /\ s[0] = 0
      /\ \A i \in 1..7 : s[i] = s[i - 1] + f[i]
  <2>1. 7 \in Nat
    OBVIOUS
  <2> QED
    BY <2>1, Sums
<1> HIDE DEF s
<1>2. \A i \in 1..7 : f[i] \in Int
  OBVIOUS
<1>3. /\ s[1] = s[0] + f[1] /\ s[1] \in Int /\ f[1] \in Int
      /\ s[2] = s[1] + f[2] /\ s[2] \in Int /\ f[2] \in Int
      /\ s[3] = s[2] + f[3] /\ s[3] \in Int /\ f[3] \in Int
      /\ s[4] = s[3] + f[4] /\ s[4] \in Int /\ f[4] \in Int
      /\ s[5] = s[4] + f[5] /\ s[5] \in Int /\ f[5] \in Int
      /\ s[6] = s[5] + f[6] /\ s[6] \in Int /\ f[6] \in Int
      /\ s[7] = s[6] + f[7] /\ s[7] \in Int /\ f[7] \in Int
  BY <1>1, <1>2
<1> QED
  BY <1>1, <1>3 DEF s, SumTo

LEMMA SumOf6 ==
  ASSUME NEW f \in [1..6 -> Int]
  PROVE  SumTo(f, 6) = f[1] + f[2] + f[3] + f[4] + f[5] + f[6]
<1> DEFINE s == PartialSums(f, 6)
<1>1. /\ s \in [0..6 -> Int] /\ s[0] = 0
      /\ \A i \in 1..6 : s[i] = s[i - 1] + f[i]
  <2>1. 6 \in Nat
    OBVIOUS
  <2> QED
    BY <2>1, Sums
<1> HIDE DEF s
<1>2. \A i \in 1..6 : f[i] \in Int
  OBVIOUS
<1>3. /\ s[1] = s[0] + f[1] /\ s[1] \in Int /\ f[1] \in Int
      /\ s[2] = s[1] + f[2] /\ s[2] \in Int /\ f[2] \in Int
      /\ s[3] = s[2] + f[3] /\ s[3] \in Int /\ f[3] \in Int
      /\ s[4] = s[3] + f[4] /\ s[4] \in Int /\ f[4] \in Int
      /\ s[5] = s[4] + f[5] /\ s[5] \in Int /\ f[5] \in Int
      /\ s[6] = s[5] + f[6] /\ s[6] \in Int /\ f[6] \in Int
  BY <1>1, <1>2
<1> QED
  BY <1>1, <1>3 DEF s, SumTo

(* The check digit makes the check sum a multiple of ten. *)
LEMMA CheckDigit ==
  ASSUME NEW n \in Nat, NEW d \in 0..9
  PROVE  (10 - (n % 10)) % 10 = d <=> (n + d) % 10 = 0
<1>1. PICK q \in Nat, r \in 0..9 : n = 10 * q + r /\ n % 10 = r
  <2>1. n = 10 * (n \div 10) + (n % 10) /\ n % 10 \in 0..9 /\ n \div 10 \in Nat
    OBVIOUS
  <2> QED
    BY <2>1
<1>2. (10 - r) % 10 = (IF r = 0 THEN 0 ELSE 10 - r)
  OBVIOUS
<1>3. (n + d) % 10 = 0 <=> (r + d) % 10 = 0
  BY <1>1
<1>4. (r + d) % 10 = 0 <=> (r + d = 0 \/ r + d = 10)
  OBVIOUS
<1> QED
  BY <1>1, <1>2, <1>3, <1>4

(* A digit, or three times a digit, is a multiple of ten only if it is 0. *)
LEMMA TenDivides ==
  ASSUME NEW s \in Nat, NEW t \in Nat, NEW w \in {1, 3}, NEW d \in 0..9, NEW e \in 0..9,
         t = s + w * (d - e), s % 10 = 0, t % 10 = 0
  PROVE  d = e
<1>1. PICK a \in Nat, b \in Nat : s = 10 * a /\ t = 10 * b
  <2>1. \A n \in Nat : n % 10 = 0 => n = 10 * (n \div 10) /\ n \div 10 \in Nat
    OBVIOUS
  <2> QED
    BY <2>1
<1>2. CASE w = 1
  <2>1. 10 * b = 10 * a + (d - e)
    BY <1>1, <1>2
  <2> QED
    BY <2>1
<1>3. CASE w = 3
  <2>1. 10 * b = 10 * a + 3 * (d - e)
    BY <1>1, <1>3
  <2> QED
    BY <2>1
<1> QED
  BY <1>2, <1>3

(* The check sum of the standard. *)
CheckSum(c) ==
  c[1] + c[3] + c[5] + c[7] + c[9] + c[11] + c[13]
    + 3 * (c[2] + c[4] + c[6] + c[8] + c[10] + c[12])

(* The sums of ValidateEAN13 and of the standard are the same one. *)
LEMMA CheckSumIs ==
  ASSUME NEW c, \A i \in 1..13 : c[i] \in Nat, NEW n, NEW p, NEW q,
         n = c[1] + 3 * c[2] + c[3] + 3 * c[4] + c[5] + 3 * c[6]
               + c[7] + 3 * c[8] + c[9] + 3 * c[10] + c[11] + 3 * c[12],
         p = c[1] + c[3] + c[5] + c[7] + c[9] + c[11] + c[13],
         q = c[2] + c[4] + c[6] + c[8] + c[10] + c[12]
  PROVE  n \in Nat /\ n + c[13] = CheckSum(c) /\ CheckSum(c) \in Nat /\ p + 3 * q = CheckSum(c)
<1> DEFINE c1 == c[1] c2 == c[2] c3 == c[3] c4 == c[4] c5 == c[5]
           c6 == c[6] c7 == c[7] c8 == c[8] c9 == c[9] c10 == c[10]
           c11 == c[11] c12 == c[12] c13 == c[13]
<1>1. /\ c1 \in Nat /\ c2 \in Nat /\ c3 \in Nat /\ c4 \in Nat /\ c5 \in Nat
      /\ c6 \in Nat /\ c7 \in Nat /\ c8 \in Nat /\ c9 \in Nat /\ c10 \in Nat
      /\ c11 \in Nat /\ c12 \in Nat /\ c13 \in Nat
  OBVIOUS
<1>2. n = c1 + 3 * c2 + c3 + 3 * c4 + c5 + 3 * c6 + c7 + 3 * c8 + c9 + 3 * c10 + c11 + 3 * c12
  OBVIOUS
<1>3. CheckSum(c) = c1 + c3 + c5 + c7 + c9 + c11 + c13 + 3 * (c2 + c4 + c6 + c8 + c10 + c12)
  BY DEF CheckSum
<1>4. p = c1 + c3 + c5 + c7 + c9 + c11 + c13 /\ q = c2 + c4 + c6 + c8 + c10 + c12
  OBVIOUS
<1> HIDE DEF c1, c2, c3, c4, c5, c6, c7, c8, c9, c10, c11, c12, c13
<1>5. n \in Nat /\ n + c13 = CheckSum(c) /\ CheckSum(c) \in Nat
  <2>1. CheckSum(c) \in Nat
    BY <1>1, <1>3
  <2>2. /\ n \in Nat
        /\ n + c13 = c1 + c3 + c5 + c7 + c9 + c11 + c13 + 3 * (c2 + c4 + c6 + c8 + c10 + c12)
    BY <1>1, <1>2
  <2> QED
    BY <1>3, <2>1, <2>2
<1>6. p + 3 * q = CheckSum(c)
  BY <1>1, <1>3, <1>4
<1> QED
  BY <1>5, <1>6 DEF c13

(* A sequence as the function it is, and with one place changed. *)
LEMMA SequenceIs ==
  ASSUME NEW D, NEW c \in Seq(D), NEW n \in Nat, Len(c) = n, NEW at \in 1..n, NEW d \in D
  PROVE  /\ c \in [1..n -> D]
         /\ [c EXCEPT ![at] = d] \in Seq(D) /\ Len([c EXCEPT ![at] = d]) = n
OBVIOUS

(* ValidateEAN13 computes the check sum of the standard. *)
LEMMA ValidCode ==
  ASSUME NEW c \in Seq(0..10), Len(c) = 13
  PROVE  /\ (\A i \in 1..13 : c[i] < 10) => CheckSum(c) \in Nat
         /\ ValidateEAN13(c) <=> (\A i \in 1..13 : c[i] < 10) /\ CheckSum(c) % 10 = 0
         /\ SumTo([i \in 1..7 |-> c[2 * i - 1]], 7) + 3 * SumTo([i \in 1..6 |-> c[2 * i]], 6)
              = CheckSum(c)
<1>1. \A i \in 1..13 : c[i] \in 0..10
  <2>1. 1 \in 1..13 /\ 1 \in 0..10 /\ 13 \in Nat
    OBVIOUS
  <2>2. c \in [1..13 -> 0..10]
    BY <2>1, SequenceIs
  <2> QED
    BY <2>2
<1> DEFINE g == [i \in 1..12 |-> EAN13Weight(i) * c[i]]
           odd == [i \in 1..7 |-> c[2 * i - 1]]
           even == [i \in 1..6 |-> c[2 * i]]
<1>2. /\ g[1] = c[1] /\ g[2] = 3 * c[2] /\ g[3] = c[3] /\ g[4] = 3 * c[4]
      /\ g[5] = c[5] /\ g[6] = 3 * c[6] /\ g[7] = c[7] /\ g[8] = 3 * c[8]
      /\ g[9] = c[9] /\ g[10] = 3 * c[10] /\ g[11] = c[11] /\ g[12] = 3 * c[12]
  BY <1>1 DEF EAN13Weight
<1>3. g \in [1..12 -> Int]
  <2>1. ASSUME NEW i \in 1..12
        PROVE  EAN13Weight(i) * c[i] \in Int
    <3>1. PICK d \in 0..10 : d = c[i]
      BY <1>1
    <3>2. EAN13Weight(i) \in {1, 3}
      BY DEF EAN13Weight
    <3>3. EAN13Weight(i) * d \in Int
      BY <3>2
    <3> QED
      BY <3>1, <3>3
  <2> QED
    BY <2>1
<1>4. /\ odd[1] = c[1] /\ odd[2] = c[3] /\ odd[3] = c[5] /\ odd[4] = c[7]
      /\ odd[5] = c[9] /\ odd[6] = c[11] /\ odd[7] = c[13] /\ odd \in [1..7 -> Int]
  BY <1>1
<1>5. /\ even[1] = c[2] /\ even[2] = c[4] /\ even[3] = c[6] /\ even[4] = c[8]
      /\ even[5] = c[10] /\ even[6] = c[12] /\ even \in [1..6 -> Int]
  BY <1>1
<1> HIDE DEF g, odd, even
<1>6. c[13] \in 0..10 /\ \A i \in 1..13 : c[i] \in Nat
  <2>1. 0..10 \subseteq Nat /\ 13 \in 1..13
    OBVIOUS
  <2> QED
    BY <1>1, <2>1, Zenon
<1> DEFINE p == c[1] + c[3] + c[5] + c[7] + c[9] + c[11] + c[13]
           q == c[2] + c[4] + c[6] + c[8] + c[10] + c[12]
<1>7. SumTo(odd, 7) = p /\ SumTo(even, 6) = q
  <2>1. SumTo(odd, 7) = odd[1] + odd[2] + odd[3] + odd[4] + odd[5] + odd[6] + odd[7]
    BY <1>4, SumOf7
  <2>2. SumTo(even, 6) = even[1] + even[2] + even[3] + even[4] + even[5] + even[6]
    BY <1>5, SumOf6
  <2> QED
    BY <1>4, <1>5, <2>1, <2>2
<1>8. /\ SumTo(g, 12) \in Nat /\ SumTo(g, 12) + c[13] = CheckSum(c) /\ CheckSum(c) \in Nat
      /\ SumTo(odd, 7) + 3 * SumTo(even, 6) = CheckSum(c)
  <2>1. SumTo(g, 12) = g[1] + g[2] + g[3] + g[4] + g[5] + g[6]
                         + g[7] + g[8] + g[9] + g[10] + g[11] + g[12]
    BY <1>3, SumOf12
  <2>2. SumTo(g, 12) = c[1] + 3 * c[2] + c[3] + 3 * c[4] + c[5] + 3 * c[6]
                         + c[7] + 3 * c[8] + c[9] + 3 * c[10] + c[11] + 3 * c[12]
    BY <1>2, <2>1
  <2> QED
    BY <1>6, <1>7, <2>2, CheckSumIs
<1>9. (\A i \in 1..13 : c[i] < 10) =>
        ((10 - (SumTo(g, 12) % 10)) % 10 = c[13] <=> CheckSum(c) % 10 = 0)
  <2> SUFFICES ASSUME \A i \in 1..13 : c[i] < 10
               PROVE  (10 - (SumTo(g, 12) % 10)) % 10 = c[13] <=> CheckSum(c) % 10 = 0
    OBVIOUS
  <2>1. c[13] \in 0..9
    BY <1>6
  <2> QED
    BY <1>8, <2>1, CheckDigit
<1>10. ValidateEAN13(c) <=> (\A i \in 1..13 : c[i] < 10)
                             /\ (10 - (SumTo(g, 12) % 10)) % 10 = c[13]
  BY DEF ValidateEAN13, g
<1> QED
  BY <1>8, <1>9, <1>10 DEF odd, even

(* The weighted digits. *)
LEMMA Weighted ==
  ASSUME NEW c \in [1..13 -> 0..10]
  PROVE  /\ [i \in 1..12 |-> EAN13Weight(i) * c[i]] \in [1..12 -> Int]
         /\ SumTo([i \in 1..12 |-> EAN13Weight(i) * c[i]], 12) \in Nat
<1> DEFINE g == [i \in 1..12 |-> EAN13Weight(i) * c[i]]
           zero == [i \in 1..12 |-> 0]
<1>1. \A i \in 1..12 : g[i] \in Nat
  <2> SUFFICES ASSUME NEW i \in 1..12
               PROVE  EAN13Weight(i) * c[i] \in Nat
    OBVIOUS
  <2>1. PICK d \in 0..10 : d = c[i]
    OBVIOUS
  <2>2. EAN13Weight(i) \in {1, 3}
    BY DEF EAN13Weight
  <2>3. EAN13Weight(i) * d \in Nat
    BY <2>2
  <2> QED
    BY <2>1, <2>3
<1>2. g \in [1..12 -> Int] /\ zero \in [1..12 -> Int] /\ 12 \in Nat
  BY <1>1
<1>3. SumTo(zero, 12) = 0
  <2>1. /\ zero[1] = 0 /\ zero[2] = 0 /\ zero[3] = 0 /\ zero[4] = 0 /\ zero[5] = 0 /\ zero[6] = 0
        /\ zero[7] = 0 /\ zero[8] = 0 /\ zero[9] = 0 /\ zero[10] = 0 /\ zero[11] = 0
        /\ zero[12] = 0
    OBVIOUS
  <2> HIDE DEF zero
  <2> QED
    BY <1>2, <2>1, SumOf12
<1>4. \A i \in 1..12 : zero[i] <= g[i]
  BY <1>1
<1> HIDE DEF g, zero
<1>5. SumTo(zero, 12) <= SumTo(g, 12) /\ SumTo(g, 12) \in Int
  BY <1>2, <1>4, SumNoMore, SumType
<1> QED
  BY <1>2, <1>3, <1>5 DEF g

(* ValidateEAN13 accepts what the standard does and notices every slip in  *)
(* one digit, for every code.                                              *)
LEMMA Barcodes ==
  ASSUME NEW x, NEW c \in Seq(0..10), NEW at \in 1..13, NEW digit \in 0..9,
         x.code = c, x.at = at, x.digit = digit
  PROVE  BarcodesAreChecked(x)
<1> DEFINE slip == [c EXCEPT ![at] = digit]
<1>1. CASE Len(c) # 13
  BY <1>1 DEF BarcodesAreChecked, ValidateEAN13
<1>2. CASE Len(c) = 13
  <2>1. c \in [1..13 -> 0..10] /\ slip \in Seq(0..10) /\ Len(slip) = 13
    <3>1. digit \in 0..10 /\ 13 \in Nat
      OBVIOUS
    <3>2. c \in [1..13 -> 0..10]
      BY <1>2, <3>1, SequenceIs
    <3>3. slip \in Seq(0..10)
      BY <1>2, <3>1, SequenceIs
    <3>4. Len(slip) = 13
      BY <1>2
    <3> QED
      BY <3>2, <3>3, <3>4
  <2>2. slip \in [1..13 -> 0..10] /\ \A i \in 1..13 : c[i] \in 0..10
    BY <2>1
  <2>3. \A i \in 1..13 : slip[i] = IF i = at THEN digit ELSE c[i]
    BY <2>1
  <2>4. ValidateEAN13(c) <=> /\ Len(c) = 13 /\ \A i \in 1..13 : c[i] \in 0..9
                             /\ (SumTo([i \in 1..7 |-> c[2 * i - 1]], 7)
                                   + 3 * SumTo([i \in 1..6 |-> c[2 * i]], 6)) % 10 = 0
    <3>1. (\A i \in 1..13 : c[i] < 10) <=> (\A i \in 1..13 : c[i] \in 0..9)
      <4>1. \A i \in 1..13 : c[i] \in 0..10
        BY <2>2
      <4>2. \A d \in 0..10 : d < 10 <=> d \in 0..9
        OBVIOUS
      <4> HIDE DEF slip
      <4>3. \A i \in 1..13 : c[i] < 10 <=> c[i] \in 0..9
        BY <4>1, <4>2
      <4> QED
        BY <4>3
    <3> QED
      BY <1>2, <3>1, ValidCode
  <2>5. ASSUME ValidateEAN13(c), ValidateEAN13(slip)
        PROVE  slip = c
    <3> DEFINE f == [i \in 1..12 |-> EAN13Weight(i) * c[i]]
               g == [i \in 1..12 |-> EAN13Weight(i) * slip[i]]
    <3> HIDE DEF slip
    <3>1. f \in [1..12 -> Int] /\ g \in [1..12 -> Int] /\ SumTo(f, 12) \in Nat /\ SumTo(g, 12) \in Nat
      BY <1>2, <2>1, <2>2, Weighted
    <3>2. PICK old \in 0..9, p \in 0..9, q \in 0..9, m \in Nat, n \in Nat :
            /\ old = c[at] /\ p = c[13] /\ q = slip[13]
            /\ m = SumTo(f, 12) /\ n = SumTo(g, 12)
            /\ (10 - (m % 10)) % 10 = p /\ (10 - (n % 10)) % 10 = q
      <4>1. /\ c[at] < 10 /\ c[13] < 10 /\ slip[13] < 10
            /\ (10 - (SumTo(f, 12) % 10)) % 10 = c[13]
            /\ (10 - (SumTo(g, 12) % 10)) % 10 = slip[13]
        BY <2>5 DEF ValidateEAN13
      <4> HIDE DEF f, g
      <4>2. c[at] \in 0..10 /\ c[13] \in 0..10 /\ slip[13] \in 0..10
        BY <2>2
      <4>3. \A d \in 0..10 : d < 10 => d \in 0..9
        OBVIOUS
      <4>4. c[at] \in 0..9 /\ c[13] \in 0..9 /\ slip[13] \in 0..9
        BY <4>1, <4>2, <4>3
      <4> QED
        BY <3>1, <4>1, <4>4
    <3>3. PICK w \in {1, 3} : n + q = (m + p) + w * (digit - old)
      <4>1. CASE at = 13
        <5>1. \A i \in 1..12 : i \in 1..13 /\ i # at
          BY <4>1
        <5>2. g = f
          BY <2>3, <5>1
        <5>3. n = m /\ p = old /\ q = digit
          BY <2>3, <3>2, <4>1, <5>2
        <5>4. n + q = (m + p) + 1 * (digit - old)
          BY <5>3
        <5> QED
          BY <5>4
      <4>2. CASE at # 13
        <5>1. at \in 1..12
          BY <4>2
        <5>2. \A i \in 1..12 : i # at => g[i] = f[i]
          <6>1. ASSUME NEW i \in 1..12, i # at
                PROVE  slip[i] = c[i]
            <7>1. i \in 1..13
              OBVIOUS
            <7> QED
              BY <2>3, <6>1, <7>1, Zenon
          <6> QED
            BY <6>1
        <5>3. q = p /\ slip[at] = digit
          <6>1. 13 \in 1..13
            OBVIOUS
          <6>2. slip[13] = c[13] /\ slip[at] = digit
            BY <2>3, <4>2, <6>1
          <6> QED
            BY <3>2, <6>2
        <5>4. PICK v \in {1, 3} : v = EAN13Weight(at)
          BY DEF EAN13Weight
        <5>5. g[at] = v * digit /\ f[at] = v * old
          BY <3>2, <5>1, <5>3, <5>4
        <5> HIDE DEF f, g
        <5>6. SumTo(g, 12) = SumTo(f, 12) + (g[at] - f[at])
          <6>1. 12 \in Nat
            OBVIOUS
          <6> QED
            BY <3>1, <5>1, <5>2, <6>1, SumChange
        <5>7. n = m + (v * digit - v * old)
          BY <3>2, <5>5, <5>6
        <5>8. n + q = (m + p) + v * (digit - old)
          BY <5>3, <5>7
        <5> QED
          BY <5>8
      <4> QED
        BY <4>1, <4>2
    <3>4. (m + p) % 10 = 0 /\ (n + q) % 10 = 0
      BY <3>2, CheckDigit
    <3>5. digit = old
      BY <3>3, <3>4, TenDivides
    <3> QED
      BY <2>1, <3>2, <3>5 DEF slip
  <2> QED
    BY <2>4, <2>5 DEF BarcodesAreChecked
<1> QED
  BY <1>1, <1>2

-----------------------------------------------------------------------------
(* A product of naturals is one. *)
LEMMA NatTimes ==
  ASSUME NEW a \in Nat, NEW b \in Nat
  PROVE  a * b \in Nat
OBVIOUS

(* A line of the cart: its total, and the shares of its tax (CalculateGST). *)
LEMMA LineIs ==
  ASSUME NEW row \in ItemRow
  PROVE  /\ Line(row).quantity \in Int /\ Line(row).price \in Nat
         /\ Line(row).gst \in Int /\ Line(row).split \in Int
         /\ Line(row).total = Line(row).price * Line(row).quantity + Line(row).gst
         /\ row.gst >= 0 => Line(row).split <= Line(row).gst
         /\ GetProductByBarcode(row.cached, row.status).found => Line(row).split = Line(row).gst
<1> DEFINE product == GetProductByBarcode(row.cached, row.status)
           gst == CalculateGST(product.price, product.rate, 27, 0)
<1>1. product = Missing \/ product \in ProductEntry
  <2>1. row.cached \in ProductEntry \/ row.cached = Missing
    BY DEF ItemRow
  <2>2. [found |-> TRUE, price |-> 0, rate |-> 0] \in ProductEntry
    BY DEF ProductEntry
  <2> QED
    BY <2>1, <2>2 DEF GetProductByBarcode
<1>2. PICK quantity \in Int : quantity = row.quantity
  BY DEF ItemRow
<1>3. CASE product \in ProductEntry
  <2>1. PICK a \in Nat, b \in Nat : a = product.price /\ b = product.rate /\ product.found
    BY <1>3 DEF ProductEntry
  <2>2. PICK k \in Nat : k = a * b
    BY NatTimes
  <2>3. gst = [total |-> k * 2, cgst |-> (k * 2) \div 2, sgst |-> (k * 2) \div 2, igst |-> 0]
    BY <2>1, <2>2 DEF CalculateGST
  <2>4. (k * 2) \div 2 = k
    OBVIOUS
  <2>5. gst.total = k * 2 /\ gst.cgst + gst.sgst + gst.igst = k * 2
    BY <2>3, <2>4
  <2>6. Line(row) = [quantity |-> row.quantity, product |-> row.product,
                     price |-> product.price * Unit,
                     gst |-> gst.total * row.quantity,
                     total |-> product.price * Unit * row.quantity + gst.total * row.quantity,
                     split |-> (gst.cgst + gst.sgst + gst.igst) * row.quantity]
    BY <2>1 DEF Line
  <2> HIDE DEF product, gst
  <2>7. PICK p \in Nat, g \in Int : p = a * Unit /\ g = (k * 2) * quantity
    <3>1. a * Unit \in Nat /\ k * 2 \in Int
      BY DEF Unit
    <3>2. (k * 2) * quantity \in Int
      BY <3>1
    <3> QED
      BY <3>1, <3>2
  <2>8. Line(row) = [quantity |-> quantity, product |-> row.product, price |-> p, gst |-> g,
                     total |-> p * quantity + g, split |-> g]
    BY <1>2, <2>1, <2>5, <2>6, <2>7
  <2> QED
    BY <2>8
<1>4. CASE product = Missing
  <2>1. ~ product.found
    BY <1>4 DEF Missing
  <2>2. Line(row) = [quantity |-> row.quantity, product |-> row.product,
                     price |-> row.price * Unit,
                     gst |-> row.gst, total |-> row.price * Unit * row.quantity + row.gst,
                     split |-> 0]
    BY <2>1 DEF Line
  <2>3. PICK p \in Nat, g \in Int : p = row.price * Unit /\ g = row.gst
    BY DEF ItemRow, Unit
  <2>4. Line(row) = [quantity |-> quantity, product |-> row.product, price |-> p, gst |-> g,
                     total |-> p * quantity + g, split |-> 0]
    BY <1>2, <2>2, <2>3
  <2>5. row.gst >= 0 => Line(row).split <= Line(row).gst
    BY <2>3, <2>4
  <2> QED
    BY <2>1, <2>4, <2>5
<1> QED
  BY <1>1, <1>3, <1>4

(* The lines of a cart are as many as its items. *)
LEMMA LinesAre ==
  ASSUME NEW items \in Seq(ItemRow)
  PROVE  /\ Len(items) \in Nat /\ DOMAIN items = 1..Len(items)
         /\ DOMAIN Lines(items) = 1..Len(items) /\ Len(Lines(items)) = Len(items)
         /\ \A i \in 1..Len(items) : items[i] \in ItemRow /\ Lines(items)[i] = Line(items[i])
<1>1. Len(items) \in Nat /\ DOMAIN items = 1..Len(items)
      /\ \A i \in 1..Len(items) : items[i] \in ItemRow
  OBVIOUS
<1>2. Lines(items) = [i \in 1..Len(items) |-> Line(items[i])]
  BY <1>1 DEF Lines
<1> QED
  BY <1>1, <1>2

(* What a rule takes off is a number. *)
LEMMA DiscountType ==
  ASSUME NEW rule \in OfferRule, NEW items \in Seq(ItemRow), NEW subtotal \in Int
  PROVE  /\ Discount(rule, Lines(items), subtotal) \in Int
         /\ Capped(rule, Discount(rule, Lines(items), subtotal)) \in Int
<1> DEFINE lines == Lines(items)
           n == Len(items)
           set == rule.buy + rule.free
           Free(i) == IF rule.product \in {"", lines[i].product} /\ rule.buy + rule.free > 0
                        THEN Sets(lines[i].quantity, rule.buy + rule.free) * rule.free
                               * lines[i].price
                        ELSE 0
           free == [i \in DOMAIN lines |-> Free(i)]
<1>1. /\ n \in Nat /\ DOMAIN lines = 1..n /\ Len(lines) = n
      /\ \A i \in 1..n : lines[i].quantity \in Int /\ lines[i].price \in Nat
  BY LinesAre, LineIs
<1>2. rule.value \in Nat /\ rule.cap \in Nat /\ rule.buy \in Nat /\ rule.free \in Nat
  BY DEF OfferRule
<1>3. Discount(rule, lines, subtotal) \in Int
  <2>1. CASE rule.type = "PERCENTAGE"
    <3>1. subtotal * rule.value \in Int
      BY <1>2
    <3>2. \A m \in Int : m \div 100 \in Int
      OBVIOUS
    <3> QED
      BY <2>1, <3>1, <3>2 DEF Discount
  <2>2. CASE rule.type = "FLAT"
    BY <1>2, <2>2 DEF Discount, Unit
  <2>3. CASE rule.type = "MIN_QUANTITY"
    <3>1. rule.value * Unit \in Int /\ 0 \in Int
      BY <1>2 DEF Unit
    <3> HIDE DEF lines
    <3>2. Discount(rule, lines, subtotal) \in {rule.value * Unit, 0}
      BY <2>3 DEF Discount
    <3> QED
      BY <3>1, <3>2
  <2>4. CASE rule.type = "BOGO"
    <3>1. ASSUME NEW i \in 1..n
          PROVE  Free(i) \in Int
      <4>1. PICK q \in Int, p \in Nat, b \in Nat, g \in Nat :
              q = lines[i].quantity /\ p = lines[i].price /\ b = rule.buy /\ g = rule.free
        BY <1>1, <1>2
      <4>2. b + g > 0 => Sets(q, b + g) * g * p \in Int
        <5> SUFFICES ASSUME b + g > 0
                     PROVE  Sets(q, b + g) * g * p \in Int
          OBVIOUS
        <5>1. PICK m \in Int : m = Sets(q, b + g)
          BY DEF Sets
        <5>2. m * g \in Int
          OBVIOUS
        <5>3. (m * g) * p \in Int
          BY <5>2
        <5> QED
          BY <5>1, <5>3
      <4> HIDE DEF lines
      <4>3. (Free(i) = Sets(q, b + g) * g * p /\ b + g > 0) \/ Free(i) = 0
        <5>1. Free(i) = IF rule.product \in {"", lines[i].product} /\ b + g > 0
                          THEN Sets(q, b + g) * g * p ELSE 0
          BY <4>1
        <5> QED
          BY <5>1
      <4> HIDE DEF Free
      <4>4. CASE b + g > 0 /\ Free(i) = Sets(q, b + g) * g * p
        BY <4>2, <4>4
      <4> QED
        BY <4>3, <4>4
    <3>2. free \in [1..n -> Int]
      <4> HIDE DEF Free, lines
      <4> QED
        BY <1>1, <3>1
    <3>3. Discount(rule, lines, subtotal) = SumTo(free, Len(lines))
      BY <2>4 DEF Discount
    <3> HIDE DEF free, lines
    <3> QED
      BY <1>1, <3>2, <3>3, SumType
  <2>5. CASE rule.type \notin {"PERCENTAGE", "FLAT", "MIN_QUANTITY", "BOGO"}
    <3> HIDE DEF lines
    <3>1. /\ rule.type # "PERCENTAGE" /\ rule.type # "FLAT"
          /\ rule.type # "MIN_QUANTITY" /\ rule.type # "BOGO"
      BY <2>5
    <3>2. Discount(rule, lines, subtotal) = 0
      BY <3>1 DEF Discount
    <3> QED
      BY <3>2
  <2> QED
    BY <2>1, <2>2, <2>3, <2>4, <2>5
<1>4. rule.cap * Unit \in Int
  BY <1>2 DEF Unit
<1> HIDE DEF lines
<1> QED
  BY <1>3, <1>4 DEF Capped, lines

(* Some rule, or none, takes off most. *)
LEMMA MostExists ==
  ASSUME NEW n \in Nat, NEW f \in [1..n -> Int], NEW A \in SUBSET (1..n)
  PROVE  \E b \in {0} \union {f[i] : i \in A} : \A d \in {0} \union {f[i] : i \in A} : d <= b
<1> DEFINE W(k) == {0} \union {f[i] : i \in {j \in A : j <= k}}
           T == {k \in 0..n : \E b \in W(k) : \A d \in W(k) : d <= b}
<1>1. 0 \in T
  <2>1. W(0) = {0}
    OBVIOUS
  <2> HIDE DEF W
  <2> QED
    BY <2>1
<1>2. ASSUME NEW k \in 1..n, k - 1 \in T
      PROVE  k \in T
  <2>1. PICK b \in W(k - 1) : \A d \in W(k - 1) : d <= b
    BY <1>2
  <2>2. W(k) = IF k \in A THEN W(k - 1) \union {f[k]} ELSE W(k - 1)
    <3>1. \A j \in A : j <= k <=> (j <= k - 1 \/ j = k)
      OBVIOUS
    <3> QED
      BY <3>1
  <2>3. W(k - 1) \subseteq Int /\ f[k] \in Int
    OBVIOUS
  <2> HIDE DEF W
  <2>4. PICK a \in Int, c \in Int : a = b /\ c = f[k]
    BY <2>3
  <2>5. CASE k \in A /\ c > a
    <3>1. f[k] \in W(k) /\ \A d \in W(k) : d <= f[k]
      <4>1. \A d \in Int : d <= a => d <= c
        BY <2>5
      <4> QED
        BY <2>1, <2>2, <2>3, <2>4, <2>5, <4>1
    <3> QED
      BY <3>1
  <2>6. CASE k \in A /\ ~ (c > a)
    <3>1. b \in W(k) /\ \A d \in W(k) : d <= b
      <4>1. c <= a
        BY <2>6
      <4> QED
        BY <2>1, <2>2, <2>4, <2>6, <4>1
    <3> QED
      BY <3>1
  <2>7. CASE k \notin A
    BY <2>1, <2>2, <2>7
  <2> QED
    BY <2>5, <2>6, <2>7
<1>3. n \in T
  <2> HIDE DEF T
  <2>1. 0..n \subseteq T
    BY <1>1, <1>2, Steps
  <2>2. n \in 0..n
    OBVIOUS
  <2> QED
    BY <2>1, <2>2
<1>4. {j \in A : j <= n} = A
  <2>1. \A j \in 1..n : j <= n
    OBVIOUS
  <2> QED
    BY <2>1
<1> QED
  BY <1>3, <1>4

(* ApplyOffers takes off what the best active rule does. *)
LEMMA BestIs ==
  ASSUME NEW rules \in Seq(OfferRule), NEW items \in Seq(ItemRow), NEW subtotal \in Int,
         NEW best, best = ApplyOffers(rules, Lines(items), subtotal)
  PROVE  /\ best \in Int
         /\ \A i \in DOMAIN rules : rules[i].active =>
              Capped(rules[i], Discount(rules[i], Lines(items), subtotal)) <= best
         /\ best \in {0} \union {Capped(rules[i], Discount(rules[i], Lines(items), subtotal)) :
                                  i \in {j \in DOMAIN rules : rules[j].active}}
<1> DEFINE n == Len(rules)
           Worth(i) == Capped(rules[i], Discount(rules[i], Lines(items), subtotal))
           A == {i \in 1..n : rules[i].active}
           f == [i \in 1..n |-> Worth(i)]
           W == {0} \union {f[i] : i \in A}
<1>1. n \in Nat /\ DOMAIN rules = 1..n /\ \A i \in 1..n : rules[i] \in OfferRule
  OBVIOUS
<1>2. \A i \in 1..n : Worth(i) \in Int
  BY <1>1, DiscountType
<1> HIDE DEF Worth
<1>3. f \in [1..n -> Int] /\ A \in SUBSET (1..n) /\ W \subseteq Int
  BY <1>2
<1>4. best = CHOOSE b \in W : \A d \in W : d <= b
  <2>1. W = {0} \union {Worth(i) : i \in {j \in DOMAIN rules : rules[j].active}}
    BY <1>1
  <2> HIDE DEF W
  <2> QED
    BY <2>1 DEF ApplyOffers, Worth
<1>5. \E b \in W : \A d \in W : d <= b
  <2> HIDE DEF f, A, n
  <2> QED
    BY <1>1, <1>3, MostExists
<1>6. best \in W /\ \A d \in W : d <= best
  <2> HIDE DEF W
  <2> QED
    BY <1>4, <1>5
<1>7. \A i \in 1..n : rules[i].active => Worth(i) <= best
  BY <1>6
<1>8. best \in {0} \union {Worth(i) : i \in {j \in DOMAIN rules : rules[j].active}}
  BY <1>1, <1>6
<1> QED
  BY <1>1, <1>3, <1>6, <1>7, <1>8 DEF Worth

(* The totals of GetCart are the sums of its lines, and the shares of the  *)
(* tax those of the products that are found.                               *)
LEMMA CartIs ==
  ASSUME NEW items \in Seq(ItemRow), NEW rules \in Seq(OfferRule),
         NEW bill, bill = GetCart(items, rules)
  PROVE  /\ bill.lines = Lines(items) /\ bill.subtotal \in Int
         /\ bill.discount = ApplyOffers(rules, Lines(items), bill.subtotal)
         /\ bill.total + bill.discount =
              SumTo([i \in DOMAIN items |-> bill.lines[i].total], Len(items))
         /\ (\A i \in DOMAIN items :
                GetProductByBarcode(items[i].cached, items[i].status).found)
              => bill.split = bill.gst
         /\ (\A i \in DOMAIN items : items[i].gst >= 0) => bill.split <= bill.gst
<1> DEFINE n == Len(items)
           lines == Lines(items)
           amount == [i \in DOMAIN lines |-> lines[i].price * lines[i].quantity]
           gst == [i \in DOMAIN lines |-> lines[i].gst]
           split == [i \in DOMAIN lines |-> lines[i].split]
           total == [i \in DOMAIN items |-> lines[i].total]
           subtotal == SumTo(amount, Len(lines))
           discount == ApplyOffers(rules, lines, subtotal)
<1>1. /\ n \in Nat /\ DOMAIN items = 1..n /\ DOMAIN lines = 1..n /\ Len(lines) = n
      /\ \A i \in 1..n :
           /\ lines[i].quantity \in Int /\ lines[i].price \in Nat
           /\ lines[i].gst \in Int /\ lines[i].split \in Int
           /\ lines[i].total = lines[i].price * lines[i].quantity + lines[i].gst
           /\ items[i].gst >= 0 => lines[i].split <= lines[i].gst
           /\ GetProductByBarcode(items[i].cached, items[i].status).found
                => lines[i].split = lines[i].gst
  BY LinesAre, LineIs
<1>2. /\ bill.lines = lines /\ bill.subtotal = subtotal /\ bill.gst = SumTo(gst, Len(lines))
      /\ bill.split = SumTo(split, Len(lines)) /\ bill.discount = discount
      /\ bill.total = subtotal + SumTo(gst, Len(lines)) - discount
  BY DEF GetCart
<1> HIDE DEF lines
<1>3. \A i \in 1..n : lines[i].price * lines[i].quantity \in Int
  BY <1>1
<1>4. /\ amount \in [1..n -> Int] /\ gst \in [1..n -> Int] /\ split \in [1..n -> Int]
      /\ total \in [1..n -> Int]
  BY <1>1, <1>3
<1>5. /\ \A i \in 1..n : total[i] = amount[i] + gst[i]
      /\ (\A i \in DOMAIN items : items[i].gst >= 0) => \A i \in 1..n : split[i] <= gst[i]
      /\ (\A i \in DOMAIN items :
             GetProductByBarcode(items[i].cached, items[i].status).found) => split = gst
  BY <1>1
<1> HIDE DEF n, amount, gst, split, total
<1>6. /\ SumTo(amount, n) \in Int /\ SumTo(gst, n) \in Int
      /\ SumTo(total, n) = SumTo(amount, n) + SumTo(gst, n)
      /\ (\A i \in DOMAIN items : items[i].gst >= 0) => SumTo(split, n) <= SumTo(gst, n)
  BY <1>1, <1>4, <1>5, SumType, SumPlus, SumNoMore
<1>7. discount \in Int
  <2>1. subtotal \in Int
    BY <1>1, <1>6
  <2> HIDE DEF subtotal
  <2> QED
    BY <2>1, BestIs DEF lines
<1>8. bill.total + bill.discount = SumTo(total, n)
  <2>1. PICK a \in Int, b \in Int, d \in Int :
          a = SumTo(amount, n) /\ b = SumTo(gst, n) /\ d = discount
    BY <1>6, <1>7
  <2> HIDE DEF discount
  <2>2. bill.total = a + b - d /\ bill.discount = d /\ SumTo(total, n) = a + b
    BY <1>1, <1>2, <1>6, <2>1
  <2> QED
    BY <2>2
<1>9. total = [i \in DOMAIN items |-> bill.lines[i].total]
  BY <1>2 DEF total
<1>10. /\ bill.subtotal \in Int
       /\ (\A i \in DOMAIN items : items[i].gst >= 0) => bill.split <= bill.gst
  BY <1>1, <1>2, <1>6
<1>11. (\A i \in DOMAIN items : GetProductByBarcode(items[i].cached, items[i].status).found)
         => bill.split = bill.gst
  BY <1>2, <1>5
<1> QED
  BY <1>2, <1>8, <1>9, <1>10, <1>11 DEF lines, n

(* The rules of a cart: those of the cache, or none. *)
LEMMA RulesAre ==
  ASSUME NEW key \in [error : BOOLEAN, rules : Seq(OfferRule)]
  PROVE  GetOfferRules(key) \in Seq(OfferRule)
BY DEF GetOfferRules

(* A coupon that is accepted takes off no less than its own rule does,     *)
(* since GetCart applies the best rule of all.                             *)
LEMMA CouponIs ==
  ASSUME NEW items \in Seq(ItemRow), NEW rules \in Seq(OfferRule), NEW coupon,
         NEW answer, answer = ApplyCoupon(items, rules, coupon), ~ answer.error
  PROVE  /\ answer.cart = GetCart(items, rules)
         /\ answer.cart.discount >=
              Capped(answer.rule, Discount(answer.rule, answer.cart.lines, answer.cart.subtotal))
<1> DEFINE found == {i \in DOMAIN rules : rules[i].coupon = coupon /\ rules[i].active}
           first == CHOOSE i \in found : \A j \in found : i <= j
           bill == GetCart(items, rules)
<1>1. found # {} /\ answer.cart = bill /\ answer.rule = rules[first]
  BY DEF ApplyCoupon
<1>2. first \in found
  <2>1. found \subseteq Nat
    OBVIOUS
  <2> HIDE DEF found
  <2>2. PICK k \in found : \A l \in found : ~ (<<l, k>> \in OpToRel(<, Nat))
    BY <1>1, <2>1, NatLessThanWellFounded, WFMin
  <2>3. \A l \in found : k <= l
    <3>1. \A l \in found : l \in Nat /\ k \in Nat /\ ~ (l < k)
      BY <2>1, <2>2 DEF OpToRel
    <3> QED
      BY <3>1
  <2> QED
    BY <2>2, <2>3
<1>3. /\ bill.lines = Lines(items) /\ bill.subtotal \in Int
      /\ bill.discount = ApplyOffers(rules, Lines(items), bill.subtotal)
  BY CartIs
<1>4. first \in DOMAIN rules /\ rules[first].active /\ rules[first] \in OfferRule
  BY <1>2
<1> HIDE DEF bill, first, found
<1>5. PICK d \in Int, e \in Int :
        /\ d = bill.discount
        /\ e = Capped(rules[first], Discount(rules[first], Lines(items), bill.subtotal))
        /\ e <= d
  <2>1. Capped(rules[first], Discount(rules[first], Lines(items), bill.subtotal)) \in Int
    BY <1>3, <1>4, DiscountType
  <2>2. /\ bill.discount \in Int
        /\ \A i \in DOMAIN rules : rules[i].active =>
             Capped(rules[i], Discount(rules[i], Lines(items), bill.subtotal)) <= bill.discount
    BY <1>3, BestIs
  <2> QED
    BY <1>4, <2>1, <2>2
<1> QED
  BY <1>1, <1>3, <1>5 DEF bill

(* A cart is priced right, for any items and rules. *)
LEMMA CartRight ==
  ASSUME NEW x, NEW items \in Seq(ItemRow), x.items = items,
         NEW rules \in Seq(OfferRule), rules = GetOfferRules(x.key)
  PROVE  TotalsAddUp(x) /\ BestOfferIsApplied(x) /\ CouponIsHonoured(x)
<1> DEFINE bill == GetCart(items, rules)
           Worth(rule) ==
             LET d == Discount(rule, bill.lines, bill.subtotal)
             IN IF rule.cap = 0 \/ d <= rule.cap * Unit THEN d ELSE rule.cap * Unit
<1>1. /\ bill.lines = Lines(items) /\ bill.subtotal \in Int
      /\ bill.discount = ApplyOffers(rules, Lines(items), bill.subtotal)
      /\ bill.total + bill.discount =
           SumTo([i \in DOMAIN items |-> bill.lines[i].total], Len(items))
      /\ (\A i \in DOMAIN items :
             GetProductByBarcode(items[i].cached, items[i].status).found)
           => bill.split = bill.gst
      /\ (\A i \in DOMAIN items : items[i].gst >= 0) => bill.split <= bill.gst
  BY CartIs
<1> HIDE DEF bill
<1>2. TotalsAddUp(x)
  BY <1>1 DEF TotalsAddUp, bill
<1>3. ASSUME NEW i \in DOMAIN rules
      PROVE  Worth(rules[i]) = Capped(rules[i], Discount(rules[i], Lines(items), bill.subtotal))
  <2>1. rules[i] \in OfferRule
    OBVIOUS
  <2>2. PICK k \in Nat : k = rules[i].cap
    BY <2>1 DEF OfferRule
  <2>3. Discount(rules[i], Lines(items), bill.subtotal) \in Int
    BY <1>1, <2>1, DiscountType
  <2>4. PICK d \in Int : d = Discount(rules[i], Lines(items), bill.subtotal)
    BY <2>3
  <2>5. (IF k = 0 \/ d <= k * Unit THEN d ELSE k * Unit)
          = (IF k > 0 /\ d > k * Unit THEN k * Unit ELSE d)
    BY DEF Unit
  <2> QED
    BY <1>1, <2>2, <2>4, <2>5 DEF Capped
<1>4. /\ bill.discount \in Int
      /\ \A i \in DOMAIN rules : rules[i].active => bill.discount >= Worth(rules[i])
      /\ bill.discount # 0 =>
           \E i \in DOMAIN rules : rules[i].active /\ bill.discount = Worth(rules[i])
  <2> HIDE DEF Worth
  <2>1. \A i \in DOMAIN rules : rules[i] \in OfferRule
    OBVIOUS
  <2>2. \A i \in DOMAIN rules : Worth(rules[i]) \in Int
    BY <1>1, <1>3, <2>1, DiscountType
  <2>3. /\ bill.discount \in Int
        /\ \A i \in DOMAIN rules : rules[i].active => Worth(rules[i]) <= bill.discount
        /\ bill.discount # 0 =>
             \E i \in DOMAIN rules : rules[i].active /\ bill.discount = Worth(rules[i])
    <3>1. PICK s \in Int : s = bill.subtotal
      BY <1>1
    <3>2. bill.discount = ApplyOffers(rules, Lines(items), s)
      BY <1>1, <3>1
    <3>3. /\ bill.discount \in Int
          /\ \A i \in DOMAIN rules : rules[i].active =>
               Capped(rules[i], Discount(rules[i], Lines(items), s)) <= bill.discount
      BY <3>2, BestIs
    <3>4. ASSUME bill.discount # 0
          PROVE  \E i \in DOMAIN rules : rules[i].active /\ bill.discount = Worth(rules[i])
      <4>1. PICK best : best = ApplyOffers(rules, Lines(items), s) /\ best = bill.discount
        BY <3>2
      <4>2. best \in {0} \union {Capped(rules[i], Discount(rules[i], Lines(items), s)) :
                                 i \in {j \in DOMAIN rules : rules[j].active}}
        BY <4>1, BestIs
      <4>3. PICK i \in DOMAIN rules :
              /\ rules[i].active
              /\ best = Capped(rules[i], Discount(rules[i], Lines(items), s))
        BY <3>4, <4>1, <4>2
      <4> QED
        BY <1>3, <3>1, <4>1, <4>3
    <3> QED
      BY <1>3, <3>1, <3>3, <3>4
  <2> QED
    BY <2>2, <2>3
<1>5. BestOfferIsApplied(x)
  BY <1>4 DEF BestOfferIsApplied, bill
<1>6. CouponIsHonoured(x)
  BY CouponIs DEF CouponIsHonoured
<1> QED
  BY <1>2, <1>5, <1>6

(* What the cart service computes is right for every input it may compute  *)
(* with (ValidateEAN13, GetCart, ApplyOffers, ApplyCoupon): the invariant  *)
(* of the run, for every set of inputs.                                    *)
THEOREM PricedRight == PricedSpec => []CartPricedRight
<1>1. ASSUME NEW x \in PricedInputs
      PROVE  /\ BarcodesAreChecked(x) /\ TotalsAddUp(x)
             /\ BestOfferIsApplied(x) /\ CouponIsHonoured(x)
  <2>1. CASE x \in [kind : {"barcode"}, code : Seq(0..10), at : 1..13, digit : 0..9]
    <3>1. x.kind = "barcode" /\ x.code \in Seq(0..10) /\ x.at \in 1..13 /\ x.digit \in 0..9
      BY <2>1
    <3>2. BarcodesAreChecked(x)
      BY <3>1, Barcodes
    <3> QED
      BY <3>1, <3>2 DEF TotalsAddUp, BestOfferIsApplied, CouponIsHonoured
  <2>2. CASE x \in [kind : {"cart"}, coupon : STRING, items : Seq(ItemRow),
                    key : [error : BOOLEAN, rules : Seq(OfferRule)]]
    <3>1. /\ x.kind = "cart" /\ x.items \in Seq(ItemRow)
          /\ x.key \in [error : BOOLEAN, rules : Seq(OfferRule)]
      BY <2>2
    <3>2. TotalsAddUp(x) /\ BestOfferIsApplied(x) /\ CouponIsHonoured(x)
      BY <3>1, RulesAre, CartRight
    <3> QED
      BY <3>1, <3>2 DEF BarcodesAreChecked
  <2>3. CASE x \in [kind : {"none"}]
    BY <2>3 DEF BarcodesAreChecked, TotalsAddUp, BestOfferIsApplied, CouponIsHonoured
  <2> QED
    BY <2>1, <2>2, <2>3 DEF PricedInputs
<1>2. sample \in Samples => CartPricedRight
  BY <1>1, SamplesAssumption DEF CartPricedRight
<1>3. sample \in Samples /\ [UNCHANGED sample]_sample => (sample \in Samples)'
  OBVIOUS
<1> QED
  BY <1>2, <1>3, PTL DEF PricedSpec
============================================================================
