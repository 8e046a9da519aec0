---------------------------- MODULE OneTimeToken ----------------------------
(***************************************************************************)
(* What an exit token promises, with no Redis, no database and no handler: *)
(* a token is claimed at most once, by one request, and only the request   *)
(* that claimed it may open the gate.  ExitValidation implements it.       *)
(***************************************************************************)
CONSTANTS
  Tokens,      \* exit tokens handed to customers
  Requests,    \* validation requests, each served once
  NoRequest    \* "claimed by nobody yet"

VARIABLES
  claimedBy,   \* claimedBy[t]: the request that claimed token t
  opened       \* requests the gate was told to open for

vars == <<claimedBy, opened>>

Init ==
  /\ claimedBy = [t \in Tokens |-> NoRequest]
  /\ opened = {}

Claim(t, r) ==
  /\ claimedBy[t] = NoRequest
  /\ \A u \in Tokens : claimedBy[u] # r
  /\ claimedBy' = [claimedBy EXCEPT ![t] = r]
  /\ UNCHANGED opened

Open(t, r) ==
  /\ claimedBy[t] = r
  /\ opened' = opened \union {r}
  /\ UNCHANGED claimedBy

Next == \E t \in Tokens, r \in Requests : Claim(t, r) \/ Open(t, r)

Spec == Init /\ [][Next]_vars
=============================================================================
