---------------------------- MODULE MCAuthLogin ----------------------------
(* One user with two devices, one address; the limit of one code per       *)
(* minute is the one that bites first.  Requests side by side, failures    *)
(* and expiries are met in the combinations MCScenarios lists.  The        *)
(* variable sample is an input of AuthViews in behaviours that do nothing  *)
(* else.                                                                   *)
EXTENDS AuthLogin, AuthViews, TLC

MCLimit == <<2, 1, 2, 2, 2>>
Symmetry == Permutations(Devices) \union Permutations(Slots)

MCScenarios ==
  {{}, {"overlap", "sessions"}, {"overlap", "windows", "guesses"},
   {"overlap", "expiry", "guesses"}, {"windows", "sessions"},
   {"redis", "guesses"}, {"redis", "sessions"}, {"db"}}

MCKid == {NoKid, Default, "k1", "k2"}
MCKey == {"A", "B", Bad}
Rings == {<<>>} \union {<<e>> : e \in Entry} \union (Entry \X Entry)
Versions == {<<a, b, <<0>>>> : a \in {<<1>>, <<2>>, <<1, 0>>}, b \in {<<0>>, <<9>>, <<1, 0>>}}
Row(platform, created, min) == [platform |-> platform, created |-> created, min |-> min]
Old == Row("ios", 1, <<<<9>>, <<9>>, <<9>>>>)
Other == Row("android", 3, <<<<0>>, <<0>>, <<0>>>>)
Session(device, user, out, seen) ==
  [device |-> device, user |-> user, out |-> out, seen |-> seen]
MCSamples ==
  {[kind |-> "rotation", ring |-> r, next |-> n, token |-> t] :
     r \in Rings, n \in Entry, t \in (Kid \ {NoKid}) \X {"A", "B"}}
  \union {[kind |-> "keys", key |-> k, kid |-> i, signer |-> s] :
            k \in {"A", "B"}, i \in Kid, s \in {"A", "B"}}
  \union {[kind |-> "version", v |-> v, w |-> w, platform |-> "ios",
           rows |-> <<Old, Row("ios", 2, m), Other>>] :
            v \in Versions, w \in Versions, m \in Versions \union {<<<<1>>, <<9>>>>}}
  \union {[kind |-> "sessions", user |-> 1, device |-> 1,
           rows |-> <<Session(1, u, o, s), Session(2, 1, p, 2), Session(3, 2, FALSE, 4)>>] :
            u \in {1, 2}, o \in BOOLEAN, p \in BOOLEAN, s \in 1..3}
  \union {[kind |-> "none"]}

MCInit ==
  /\ Init
  /\ sample \in Samples
  /\ sample.kind = "none" \/ faults = {}
MCNext == sample.kind = "none" /\ Next /\ UNCHANGED sample
MCSpec == MCInit /\ [][MCNext]_<<vars, sample>>
=============================================================================
