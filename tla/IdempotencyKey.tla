--------------------------- MODULE IdempotencyKey ---------------------------
(***************************************************************************)
(* What an idempotency key promises a client that may send a request again *)
(* because it does not know what became of it: the first request to take   *)
(* effect binds the key for good, and whatever is answered afterwards to a *)
(* request with that key, error aside, is the result bound to it.          *)
(***************************************************************************)
CONSTANTS Requests, Keys, KeyOf, None

VARIABLES
  bound,   \* the request whose effect each key names
  answer   \* what each request has been answered: a result, "error" or nothing

Init ==
  /\ bound = [k \in Keys |-> None]
  /\ answer = [r \in Requests |-> None]

(* The request that binds its key may learn so at once, be told of an error *)
(* all the same, or be told nothing.                                        *)
Bind(r) ==
  /\ bound[KeyOf[r]] = None
  /\ bound' = [bound EXCEPT ![KeyOf[r]] = r]
  /\ \/ UNCHANGED answer
     \/ answer[r] = None /\ \E a \in {r, "error"} : answer' = [answer EXCEPT ![r] = a]

Answer(r) ==
  /\ answer[r] = None
  /\ answer' = [answer EXCEPT ![r] = bound[KeyOf[r]]]
  /\ UNCHANGED bound

Refuse(r) ==
  /\ answer[r] = None
  /\ answer' = [answer EXCEPT ![r] = "error"]
  /\ UNCHANGED bound

Next == \E r \in Requests : Bind(r) \/ Answer(r) \/ Refuse(r)

Spec == Init /\ [][Next]_<<bound, answer>>
=============================================================================
