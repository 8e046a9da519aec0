--------------------------- MODULE MCCatalogCache ---------------------------
(* Two products, two requests at a time.  The variable sample is an input  *)
(* of CatalogViews in behaviours that do nothing else.                     *)
EXTENDS CatalogCache, CatalogViews, TLC
CONSTANTS b1, b2

MCScenarios ==
  {{"outside", "overlap", "redis", "expiry"}, {"accepted", "expiry"}, {"accepted", "overlap"},
   {"accepted", "overlap", "redis", "search"}, {"accepted", "overlap", "crash", "expiry"},
   {"accepted", "redis", "db"}, {"accepted", "overlap", "outside"}}
Symmetry == Permutations(Slots) \union Permutations(Barcodes)

(* Five products of two stores, three of them in one category.  Products   *)
(* of one store differ in price and number.                                *)
Product5(hits, active, seqs) ==
  {[id |-> i, store |-> IF i = 5 THEN "t" ELSE "s",
    category |-> IF i % 2 = 1 THEN "c" ELSE "d", active |-> i \in active,
    price |-> (i * 3) % 7, seq |-> seqs[i], hit |-> i \in hits] : i \in 1..5}
Texts(chars, n) == UNION {[1..m -> chars] : m \in 0..n}
MCSamples ==
  {[kind |-> "pages", table |-> Product5(hits, active, <<4, 2, 1, 3, 5>>),
    category |-> c, limit |-> limit, client |-> client, store |-> "s"] :
     hits \in {1..5, 2..5, {1, 3, 4}, {}}, active \in {1..5, 2..5, {1, 2, 5}},
     c \in {"missing", "c", "d"}, limit \in {0, 1, 2, 3, 100, 101}, client \in {"up", "down", "none"}}
  \union
  {[kind |-> "sync", table |-> {p \in Product5({}, 1..3, seqs) : p.id # gone}, limit |-> limit,
    store |-> "s", from |-> from, blind |-> blind] :
     seqs \in {<<4, 2, 1, 3, 5>>, <<1, 9, 10, 3, 4>>, <<7, 2, 4, 0, 3>>}, gone \in 0..5,
     from \in {0, 2, 9, 11}, blind \in {{}, {0}, {1}, {2}, 0..5}, limit \in {1, 2, 3, 1000}}
  \union
  {[kind |-> "query", text |-> text, query |-> query] :
     text \in Texts({"a", "b", "%", "_"}, 3) \ {<<>>},
     query \in Texts({"a", "%", "_", " "}, 2) \union Texts({"nl", "'", ";", "\\"}, 1)}
  \union {[kind |-> "none"]}

MCInit ==
  /\ Init
  /\ sample \in Samples
  /\ sample.kind = "none" \/ faults = {"accepted", "expiry"}
MCNext == sample.kind = "none" /\ Next /\ UNCHANGED sample
MCSpec == MCInit /\ [][MCNext]_<<vars, sample>>
=============================================================================
