-------------------------- MODULE MCStoreOccupancy --------------------------
(* Two stores of two chains, one with room for one customer and one for    *)
(* two; a staff member of the first chain and one without a chain.  The    *)
(* variable sample is an input of StoreViews in behaviours that do nothing *)
(* else, and none in those of the service.                                 *)
EXTENDS StoreOccupancy, StoreViews, TLC
CONSTANTS u1, u2, m1, m2, s1, s2, c1, c2

MCCapacity == (s1 :> 1) @@ (s2 :> 2)
MCChainOf == (s1 :> c1) @@ (s2 :> c2)
MCTokenChain == (m1 :> c1) @@ (m2 :> None)
Code(s, type, expired) ==
  [store |-> s, type |-> type, active |-> TRUE, expired |-> expired]
MCCodes == {Code(s1, "ENTRANCE", FALSE), Code(s1, "EXIT", FALSE),
            Code(s2, "ENTRANCE", FALSE), Code(s2, "ENTRANCE", TRUE)}
MCScenarios ==
  {{}, {"crowd"}, {"overlap", "rebind", "expiry"}, {"staff"},
   {"overlap", "crowd", "staff"}, {"rebind", "redis", "crowd"}}

Times == {Clock(h, m) : h \in {0, 9, 10, 22}, m \in {0, 9, 30, 59}}
Row(i, d, a) == [store |-> i, distance |-> d, active |-> a, occupancy |-> i, capacity |-> 2]
MCSamples ==
  {[kind |-> "occupancy", occupancy |-> c + d, capacity |-> c] :
     c \in 1..199, d \in {-2, -1, 0, 1}}
  \union {[kind |-> "hours", opens |-> o, closes |-> c, hour |-> h, minute |-> m] :
            o \in Times, c \in Times, h \in {0, 9, 22}, m \in {0, 9, 30}}
  \union {[kind |-> "nearby", query |-> q, limit |-> 2,
           rows |-> <<Row(1, d1, TRUE), Row(2, d2, a), Row(3, d3, TRUE)>>] :
            q \in {0, 2}, d1 \in {1, 3, 9}, d2 \in {1, 2, 5}, d3 \in {2, 3, 4},
            a \in BOOLEAN}
  \union {[kind |-> "devices",
           devices |-> <<[row |-> f, beat |-> b], [row |-> g, beat |-> d]>>] :
            f \in BOOLEAN, g \in BOOLEAN, b \in {-1, 0, 4, 5}, d \in {-1, 4, 5}}
  \union {[kind |-> "none"]}

MCInit ==
  /\ Init
  /\ sample \in Samples
  /\ sample.kind = "none" \/ faults = {}
MCNext == sample.kind = "none" /\ Next /\ UNCHANGED sample
MCSpec == MCInit /\ [][MCNext]_<<vars, sample>>
=============================================================================
