-------------------------------- MODULE Heaps --------------------------------
(***************************************************************************)
(* Sums without a fold: heap[x] is how many units lie at x, and a unit is  *)
(* the pair of its place and its number there.                             *)
(***************************************************************************)
EXTENDS Integers, FiniteSets

Units(heap) == Cardinality(UNION {{x} \X (1..heap[x]) : x \in DOMAIN heap})
=============================================================================
