---------------------------- MODULE MCCartStock ----------------------------
(* Two customers, a product with one unit and one with two.  The variable  *)
(* sample is an input of CartViews in behaviours that do nothing else.     *)
EXTENDS CartStock, CartViews, TLC
CONSTANTS p1, p2

MCSupply == (p1 :> 1) @@ (p2 :> 2)
MCPrices == <<1000, 1001, 0>>
MCClose == {{1000, 1001}}
MCQuantities == {-1, 0, 1, 2}
MCScenarios ==
  {{}, {"crowd", "rescan"}, {"crowd", "redis"}, {"crowd", "crash"},
   {"negative", "empty"}, {"price", "empty", "alone"}, {"overlap", "alone"},
   {"redis", "db", "expiry", "alone"}, {"expiry", "giveback", "alone"}}
Symmetry == Permutations(Customers) \union Permutations(Slots)

Barcode(a, b, check) == <<4, 0, 0, 6, 3, 8, 1, a, 3, 3, 9, b, check>>
Found(amount, rate) == [found |-> TRUE, price |-> amount, rate |-> rate]
CartItem(product, quantity, cached, status) ==
  [product |-> product, quantity |-> quantity, price |-> 90, gst |-> 4000,
   cached |-> cached, status |-> status]
Rule(type, value, cap, coupon, active) ==
  [type |-> type, value |-> value, cap |-> cap, coupon |-> coupon, active |-> active,
   min |-> 3, buy |-> 1, free |-> 1, product |-> "", limit |-> 2, used |-> value % 3]
Rules ==
  {Rule(t, v, cap, c, a) :
     t \in {"PERCENTAGE", "FLAT", "BOGO", "MIN_QUANTITY"}, v \in {10, 50},
     cap \in {0, 20}, c \in {"", "C"}, a \in BOOLEAN}
MCSamples ==
  {[kind |-> "barcode", code |-> Barcode(a, b, c), at |-> at, digit |-> d] :
     a \in {1, 3, 10}, b \in {3, 8}, c \in 0..9, at \in {1, 8, 12, 13}, d \in 0..9}
  \union
  {[kind |-> "cart", coupon |-> "C", key |-> [error |-> e, rules |-> rules],
    items |-> <<CartItem("p", 2, k, s), CartItem("q", q, Found(100, 18), 200)>>] :
     k \in {Missing, Found(100, 5)}, s \in {200, 404}, q \in {1, -3}, e \in {FALSE},
     rules \in {<<r, t>> : r \in Rules, t \in {u \in Rules : u.cap = 0 /\ u.active}}}
  \union
  {[kind |-> "cart", coupon |-> "C", key |-> [error |-> TRUE, rules |-> <<>>],
    items |-> <<CartItem("p", 1, Missing, s)>>] : s \in {200, 404, 500}}
  \union
  {[kind |-> "none"]}

MCInit ==
  /\ Init
  /\ sample \in Samples
  /\ sample.kind = "none" \/ faults = {}
MCNext == sample.kind = "none" /\ Next /\ UNCHANGED sample
MCSpec == MCInit /\ [][MCNext]_<<vars, sample>>
============================================================================
