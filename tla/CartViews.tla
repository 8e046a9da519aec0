------------------------------ MODULE CartViews ------------------------------
(***************************************************************************)
(* What the cart service computes: whether a barcode is one, the tax on a  *)
(* price, the totals of a cart, the best offer, what a coupon is worth.    *)
(* Rates are whole percents; amounts are in 1/200 of a paisa, a unit in    *)
(* which the sums of the code are exact.                                   *)
(***************************************************************************)
EXTENDS Integers, Sequences

(* The inputs the properties are asked of, and the one asked about now.    *)
CONSTANT Samples
VARIABLE sample

(* f[1] + ... + f[n], by its partial sums *)
PartialSums(f, n) ==
  LET sum[i \in 0..n] == IF i = 0 THEN 0 ELSE sum[i - 1] + f[i]
  IN sum
SumTo(f, n) == PartialSums(f, n)[n]
Unit == 200

(* Mutant of EAN13Weight: the weights start with 3. *)
EAN13WeightSwapped(i) == IF i % 2 = 1 THEN 3 ELSE 1

(* The weight of the i-th digit, counted from 1. *)
EAN13Weight(i) == IF i % 2 = 1 THEN 1 ELSE 3

(* ValidateEAN13, for a sequence of digits with 10 for anything else. *)
ValidateEAN13(code) ==
  /\ Len(code) = 13
  /\ \A i \in 1..13 : code[i] < 10
  /\ (10 - (SumTo([i \in 1..12 |-> EAN13Weight(i) * code[i]], 12) % 10)) % 10 = code[13]

(* Mutant of CalculateGST: the two halves are whole. *)
CalculateGSTWhole(price, rate, store, customer) ==
  LET total == price * rate * 2
  IN [total |-> total, cgst |-> total, sgst |-> total, igst |-> 0]

(* CalculateGST: the tax goes to the state in halves, or to the union as a *)
(* whole when a customer with a GSTIN is of another state.  The GSTIN is   *)
(* its state, 0 when there is none.                                        *)
CalculateGST(price, rate, store, customer) ==
  LET total == price * rate * 2
  IN IF customer = 0 \/ customer = store
       THEN [total |-> total, cgst |-> total \div 2, sgst |-> total \div 2, igst |-> 0]
       ELSE [total |-> total, cgst |-> 0, sgst |-> 0, igst |-> total]

-----------------------------------------------------------------------------
Missing == [found |-> FALSE]

(* GetProductByBarcode: the entry of the SKU cache, else the answer of the *)
(* catalog service; an error and a product nobody knows are no product     *)
(* here.  The answer has the product in a field of its own, where the cart *)
(* does not look for it: price and rate stay 0.                            *)
GetProductByBarcode(cached, status) ==
  IF cached.found THEN cached
  ELSE IF status = 200 THEN [found |-> TRUE, price |-> 0, rate |-> 0] ELSE Missing

(* A line of the cart with the product's price of now; without a product   *)
(* it stays as it was scanned.                                             *)
Line(item) ==
  LET product == GetProductByBarcode(item.cached, item.status)
      gst == CalculateGST(product.price, product.rate, 27, 0)
  IN IF product.found
       THEN [quantity |-> item.quantity, product |-> item.product,
             price |-> product.price * Unit,
             gst |-> gst.total * item.quantity,
             total |-> product.price * Unit * item.quantity + gst.total * item.quantity,
             split |-> (gst.cgst + gst.sgst + gst.igst) * item.quantity]
       ELSE [quantity |-> item.quantity, product |-> item.product,
             price |-> item.price * Unit,
             gst |-> item.gst, total |-> item.price * Unit * item.quantity + item.gst,
             split |-> 0]

Lines(items) == [i \in DOMAIN items |-> Line(items[i])]

-----------------------------------------------------------------------------
(* How often n goes into a quantity; the division rounds towards 0, also   *)
(* for a quantity below 0, which nothing refuses.                          *)
Sets(quantity, n) ==
  IF quantity >= 0 THEN quantity \div n ELSE - ((- quantity) \div n)

(* What one rule takes off, before its cap. *)
Discount(rule, lines, subtotal) ==
  CASE rule.type = "PERCENTAGE" -> (subtotal * rule.value) \div 100
    [] rule.type = "FLAT" -> rule.value * Unit
    [] rule.type = "MIN_QUANTITY" ->
         IF SumTo([i \in DOMAIN lines |-> lines[i].quantity], Len(lines)) >= rule.min
           THEN rule.value * Unit ELSE 0
    [] rule.type = "BOGO" ->
         SumTo([i \in DOMAIN lines |->
                  IF rule.product \in {"", lines[i].product} /\ rule.buy + rule.free > 0
                    THEN Sets(lines[i].quantity, rule.buy + rule.free) * rule.free
                           * lines[i].price
                    ELSE 0], Len(lines))
    [] OTHER -> 0

(* Mutant of Capped: a cap of 0 is a cap. *)
CappedAtZero(rule, discount) ==
  IF discount > rule.cap * Unit THEN rule.cap * Unit ELSE discount

(* MaxDiscount, unless it is 0. *)
Capped(rule, discount) ==
  IF rule.cap > 0 /\ discount > rule.cap * Unit THEN rule.cap * Unit ELSE discount

(* Mutant of ApplyOffers: the first rule that applies. *)
ApplyOffersFirst(rules, lines, subtotal) ==
  LET worth == SelectSeq([i \in DOMAIN rules |->
                            IF rules[i].active
                              THEN Capped(rules[i], Discount(rules[i], lines, subtotal)) ELSE 0],
                         LAMBDA d : d > 0)
  IN IF worth = <<>> THEN 0 ELSE worth[1]

(* ApplyOffers: what the best active rule takes off, 0 when none does.     *)
ApplyOffers(rules, lines, subtotal) ==
  LET worth == {0} \union {Capped(rules[i], Discount(rules[i], lines, subtotal)) :
                              i \in {j \in DOMAIN rules : rules[j].active}}
  IN CHOOSE best \in worth : \A d \in worth : d <= best

(* GetCart *)
GetCart(items, rules) ==
  LET lines == Lines(items)
      subtotal == SumTo([i \in DOMAIN lines |-> lines[i].price * lines[i].quantity], Len(lines))
      gst == SumTo([i \in DOMAIN lines |-> lines[i].gst], Len(lines))
      discount == ApplyOffers(rules, lines, subtotal)
  IN [lines |-> lines, subtotal |-> subtotal, gst |-> gst,
      split |-> SumTo([i \in DOMAIN lines |-> lines[i].split], Len(lines)),
      discount |-> discount, total |-> subtotal + gst - discount]

(* GetOfferRules: no key, or an empty one, is no rules.  (An error is      *)
(* passed on, and the cart is shown without an offer.)                     *)
GetOfferRules(key) == IF key.error THEN <<>> ELSE key.rules

(* ApplyCoupon: the first active rule of that code, if its limit allows;   *)
(* the answer is then the cart.                                            *)
ApplyCoupon(items, rules, coupon) ==
  LET found == {i \in DOMAIN rules : rules[i].coupon = coupon /\ rules[i].active}
      rule == rules[CHOOSE i \in found : \A j \in found : i <= j]
  IN IF found = {} THEN [error |-> TRUE]
     ELSE IF rule.limit > 0 /\ rule.used >= rule.limit THEN [error |-> TRUE]
     ELSE [error |-> FALSE, cart |-> GetCart(items, rules), rule |-> rule]

-----------------------------------------------------------------------------
(* A barcode is accepted exactly when the standard's check sum over all    *)
(* thirteen places, all digits, is a multiple of ten; a slip in one digit  *)
(* of a barcode that is accepted is always noticed.                        *)
BarcodesAreChecked(x) ==
  x.kind = "barcode" =>
    LET standard == /\ Len(x.code) = 13 /\ \A i \in 1..13 : x.code[i] \in 0..9
                    /\ (SumTo([i \in 1..7 |-> x.code[2 * i - 1]], 7)
                          + 3 * SumTo([i \in 1..6 |-> x.code[2 * i]], 6)) % 10 = 0
        slip == [x.code EXCEPT ![x.at] = x.digit]
    IN /\ ValidateEAN13(x.code) <=> standard
       /\ (ValidateEAN13(x.code) /\ ValidateEAN13(slip)) => slip = x.code

(* The shares of the tax add up to the tax, and the tax and the lines to   *)
(* the total of a cart whose products are found; a product that is not     *)
(* found counts with the amounts of its scan, but not in the shares.       *)
TotalsAddUp(x) ==
  x.kind = "cart" =>
    LET cart == GetCart(x.items, GetOfferRules(x.key))
    IN /\ cart.total + cart.discount = SumTo([i \in DOMAIN x.items |-> cart.lines[i].total], Len(x.items))
       /\ (\A i \in DOMAIN x.items : GetProductByBarcode(x.items[i].cached, x.items[i].status).found)
            => cart.split = cart.gst
       /\ (\A i \in DOMAIN x.items : x.items[i].gst >= 0) => cart.split <= cart.gst

(* The offer is no smaller than what any active rule takes off, but never  *)
(* above the cap of the largest: each rule counts up to its own cap.       *)
BestOfferIsApplied(x) ==
  x.kind = "cart" =>
    LET rules == GetOfferRules(x.key)
        cart == GetCart(x.items, rules)
        Worth(rule) ==
          LET d == Discount(rule, cart.lines, cart.subtotal)
          IN IF rule.cap = 0 \/ d <= rule.cap * Unit THEN d ELSE rule.cap * Unit
    IN /\ \A i \in DOMAIN rules : rules[i].active => cart.discount >= Worth(rules[i])
       /\ cart.discount # 0 =>
            \E i \in DOMAIN rules : rules[i].active /\ cart.discount = Worth(rules[i])

(* A coupon that is accepted takes off at least what its own rule does,    *)
(* although the answer is the cart as it would be without the coupon.      *)
CouponIsHonoured(x) ==
  x.kind = "cart" =>
    LET rules == GetOfferRules(x.key)
        answer == ApplyCoupon(x.items, rules, x.coupon)
    IN ~ answer.error =>
         /\ answer.cart = GetCart(x.items, rules)
         /\ answer.cart.discount >=
              Capped(answer.rule,
                     Discount(answer.rule, answer.cart.lines, answer.cart.subtotal))

-----------------------------------------------------------------------------
(* Every input the service may compute with: any code, with any digit      *)
(* slipped, any items, also of quantities below 0, any cache entries and   *)
(* answers, any offer rules.                                               *)
ProductEntry == [found : {TRUE}, price : Nat, rate : Nat]
ItemRow == [product : STRING, quantity : Int, price : Nat, gst : Int,
            cached : ProductEntry \union {Missing}, status : Nat]
OfferRule == [type : STRING, value : Nat, cap : Nat, coupon : STRING, active : BOOLEAN,
              min : Nat, buy : Nat, free : Nat, product : STRING, limit : Nat, used : Nat]
PricedInputs ==
  [kind : {"barcode"}, code : Seq(0..10), at : 1..13, digit : 0..9]
  \union [kind : {"cart"}, coupon : STRING, items : Seq(ItemRow),
          key : [error : BOOLEAN, rules : Seq(OfferRule)]]
  \union [kind : {"none"}]
ASSUME SamplesAssumption == Samples \subseteq PricedInputs

(* One input after another is asked about on its own. *)
PricedSpec == sample \in Samples /\ [][UNCHANGED sample]_sample

(* ValidateEAN13 accepts what the standard does and notices a slip; the    *)
(* totals of GetCart are the sums of its lines; ApplyOffers takes off what *)
(* the best rule does, and ApplyCoupon never less than the coupon's rule.  *)
CartPricedRight ==
  /\ BarcodesAreChecked(sample)
  /\ TotalsAddUp(sample)
  /\ BestOfferIsApplied(sample)
  /\ CouponIsHonoured(sample)
=============================================================================
