--------------------------- MODULE MCOrderReturns ---------------------------
(* An order of two items and one of an item that is not returnable. *)
EXTENDS OrderReturns, TLC
CONSTANTS a, b, c, o1, o2

MCOrderOf == (a :> o1) @@ (b :> o1) @@ (c :> o2)
MCQuantityOf == (a :> 2) @@ (b :> 1) @@ (c :> 1)
MCPriceOf == (a :> 29) @@ (b :> 20) @@ (c :> 10)
MCLists == {<<a>>, <<b>>, <<a, b>>, <<a, a>>, <<a, c>>}
MCConditions ==
  {{}, {"routed", "late"}, {"routed", "overlap"}, {"routed", "again"}, {"routed", "again", "repeat"},
   {"routed", "redis", "db"}, {"routed", "http", "kafka"}, {"routed", "redis", "crash"}}
MCNotRouted == {{}}
Symmetry == Permutations(Slots)
=============================================================================
