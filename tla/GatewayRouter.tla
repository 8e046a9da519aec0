---------------------------- MODULE GatewayRouter ----------------------------
(***************************************************************************)
(* The circuit breaker of the payment service, and the calls that          *)
(* InitiatePayment makes to it: select a gateway for the payment's row,    *)
(* select one again to create the order, call it, and report the outcome   *)
(* under the name in the row.  Its fields are three atomics that are never *)
(* read or written together, so each load, store and add is a step.        *)
(* (A load of circuitOpenedAt and the comparison with the clock are one    *)
(* step: only the load touches shared memory.)                             *)
(***************************************************************************)
EXTENDS Naturals

CONSTANTS
  Calls,       \* concurrent calls of InitiatePayment
  Threshold,   \* failures before open
  ResetAfter   \* seconds before half-open

ASSUME BreakerAssumption == Threshold \in Nat \ {0} /\ ResetAfter \in Nat

VARIABLES
  circuitOpen,    \* 0 = closed, 1 = open
  razorpayFails,  \* counted up to Threshold, beyond which nothing depends on it
  sinceOpenedAt,  \* seconds since circuitOpenedAt, up to ResetAfter + 1
  razorpayUp,     \* whether Razorpay answers
  recorded,       \* p.Gateway of each call
  used,           \* the gateway on which each call creates the order
  at

breakerVars == <<circuitOpen, razorpayFails, sinceOpenedAt, razorpayUp, recorded,
          used, at>>

Gateways == {"RAZORPAY", "CASHFREE"}
Age == 0..(ResetAfter + 1)
Older(age) == IF age > ResetAfter THEN age ELSE age + 1

(* Type invariant: every variable keeps the shape of the state it models,  *)
(* and a call past its two selections has a gateway for its row and one    *)
(* for its order, of which Razorpay alone can fail.                        *)
BreakerTypeOK ==
  /\ circuitOpen \in {0, 1}
  /\ razorpayFails \in 0..Threshold
  /\ sinceOpenedAt \in Age
  /\ razorpayUp \in BOOLEAN
  /\ recorded \in [Calls -> Gateways \union {"none"}]
  /\ used \in [Calls -> Gateways \union {"none"}]
  /\ at \in [Calls -> {"idle", "load", "compare", "close", "zero", "call",
                       "success", "failure", "trip", "stamp"}]
  /\ \A c \in Calls :
       /\ at[c] \in {"call", "success", "failure", "trip", "stamp"} =>
            recorded[c] # "none" /\ used[c] # "none"
       /\ at[c] = "failure" => used[c] = "RAZORPAY"
       /\ at[c] \in {"trip", "stamp"} => recorded[c] = "RAZORPAY" /\ used[c] = "RAZORPAY"

(* circuitOpenedAt starts as 1 January 1970. *)
BreakerInit ==
  /\ circuitOpen = 0 /\ razorpayFails = 0
  /\ sinceOpenedAt = ResetAfter + 1
  /\ razorpayUp = TRUE
  /\ recorded = [c \in Calls |-> "none"]
  /\ used = [c \in Calls |-> "none"]
  /\ at = [c \in Calls |-> "idle"]

MoveTo(c, label) == at' = [at EXCEPT ![c] = label]
Circuit == <<circuitOpen, razorpayFails, sinceOpenedAt>>
Choice == <<recorded, used>>

Tick ==
  /\ sinceOpenedAt' = Older(sinceOpenedAt)
  /\ UNCHANGED <<circuitOpen, razorpayFails, razorpayUp, Choice, at>>

RazorpayChanges ==
  /\ razorpayUp' = ~ razorpayUp
  /\ UNCHANGED <<Circuit, Choice, at>>

-----------------------------------------------------------------------------
(* InitiatePayment, before its first SelectGateway. *)
Begin(c) ==
  /\ at[c] = "idle"
  /\ recorded' = [recorded EXCEPT ![c] = "none"]
  /\ used' = [used EXCEPT ![c] = "none"]
  /\ MoveTo(c, "load")
  /\ UNCHANGED <<Circuit, razorpayUp>>

(* What SelectGateway returns: the first time to the payment's row, the    *)
(* second time to CreateOrder.                                             *)
Selected(c, gateway) ==
  IF recorded[c] = "none"
    THEN recorded' = [recorded EXCEPT ![c] = gateway] /\ MoveTo(c, "load") /\ UNCHANGED used
    ELSE used' = [used EXCEPT ![c] = gateway] /\ MoveTo(c, "call") /\ UNCHANGED recorded

LoadOpen(c) ==
  /\ at[c] = "load"
  /\ IF circuitOpen = 0 THEN Selected(c, "RAZORPAY")
     ELSE MoveTo(c, "compare") /\ UNCHANGED Choice
  /\ UNCHANGED <<Circuit, razorpayUp>>

WindowPassed == sinceOpenedAt > ResetAfter

CompareOpenedAt(c) ==
  /\ at[c] = "compare"
  /\ IF WindowPassed THEN MoveTo(c, "close") /\ UNCHANGED Choice
     ELSE Selected(c, "CASHFREE")
  /\ UNCHANGED <<Circuit, razorpayUp>>

(* Mutant of StoreClosed: a call is let through, the flag stays. *)
StoreClosedNothing(c) ==
  /\ at[c] = "close"
  /\ MoveTo(c, "zero")
  /\ UNCHANGED <<Circuit, razorpayUp, Choice>>

(* Half-open: the next calls try Razorpay again. *)
StoreClosed(c) ==
  /\ at[c] = "close"
  /\ circuitOpen' = 0
  /\ MoveTo(c, "zero")
  /\ UNCHANGED <<razorpayFails, sinceOpenedAt, razorpayUp, Choice>>

StoreNoFails(c) ==
  /\ at[c] = "zero"
  /\ razorpayFails' = 0
  /\ Selected(c, "RAZORPAY")
  /\ UNCHANGED <<circuitOpen, sinceOpenedAt, razorpayUp>>

(* Cashfree's client creates its order without calling anyone. *)
CreateOrder(c) ==
  /\ at[c] = "call"
  /\ MoveTo(c, IF used[c] = "CASHFREE" \/ razorpayUp THEN "success" ELSE "failure")
  /\ UNCHANGED <<Circuit, razorpayUp, Choice>>

RecordSuccess(c) ==
  /\ at[c] = "success"
  /\ razorpayFails' = IF recorded[c] = "RAZORPAY" THEN 0 ELSE razorpayFails
  /\ MoveTo(c, "idle")
  /\ UNCHANGED <<circuitOpen, sinceOpenedAt, razorpayUp, Choice>>

(* Mutant of RecordFailure: the failures of the fallback are counted. *)
RecordFailureOfFallback(c) ==
  /\ at[c] = "failure"
  /\ IF recorded[c] = "CASHFREE"
       THEN /\ razorpayFails' = IF razorpayFails < Threshold THEN razorpayFails + 1
                                ELSE Threshold
            /\ MoveTo(c, IF razorpayFails' >= Threshold THEN "trip" ELSE "idle")
       ELSE MoveTo(c, "idle") /\ UNCHANGED razorpayFails
  /\ UNCHANGED <<circuitOpen, sinceOpenedAt, razorpayUp, Choice>>

RecordFailure(c) ==
  /\ at[c] = "failure"
  /\ IF recorded[c] = "RAZORPAY"
       THEN /\ razorpayFails' = IF razorpayFails < Threshold THEN razorpayFails + 1
                                ELSE Threshold
            /\ MoveTo(c, IF razorpayFails' >= Threshold THEN "trip" ELSE "idle")
       ELSE MoveTo(c, "idle") /\ UNCHANGED razorpayFails
  /\ UNCHANGED <<circuitOpen, sinceOpenedAt, razorpayUp, Choice>>

(* Mutant of StoreOpen: the flag is added to, not stored. *)
AddOpen(c) ==
  /\ at[c] = "trip"
  /\ circuitOpen' = circuitOpen + 1
  /\ MoveTo(c, "stamp")
  /\ UNCHANGED <<razorpayFails, sinceOpenedAt, razorpayUp, Choice>>

StoreOpen(c) ==
  /\ at[c] = "trip"
  /\ circuitOpen' = 1
  /\ MoveTo(c, "stamp")
  /\ UNCHANGED <<razorpayFails, sinceOpenedAt, razorpayUp, Choice>>

StoreOpenedAt(c) ==
  /\ at[c] = "stamp"
  /\ sinceOpenedAt' = 0
  /\ MoveTo(c, "idle")
  /\ UNCHANGED <<circuitOpen, razorpayFails, razorpayUp, Choice>>

Step(c) ==
  \/ LoadOpen(c) \/ CompareOpenedAt(c) \/ StoreClosed(c) \/ StoreNoFails(c)
  \/ CreateOrder(c) \/ RecordSuccess(c) \/ RecordFailure(c)
  \/ StoreOpen(c) \/ StoreOpenedAt(c)

BreakerNext == Tick \/ RazorpayChanges \/ \E c \in Calls : Begin(c) \/ Step(c)

BreakerSpec == BreakerInit /\ [][BreakerNext]_breakerVars

(* Time passes, customers keep paying, and a call that runs goes on; that  *)
(* Razorpay comes back, or goes away, is assumed only by the properties.   *)
FairSpec ==
  /\ BreakerSpec
  /\ WF_breakerVars(Tick)
  /\ \A c \in Calls : WF_breakerVars(Begin(c) \/ Step(c))

-----------------------------------------------------------------------------
(* Once Razorpay answers for good, the breaker closes for good: neither a  *)
(* late failure report nor a lost race over the three fields leaves the    *)
(* shop on Cashfree.                                                       *)
Recovers == <>[]razorpayUp => <>[](circuitOpen = 0)

(* While Razorpay is dead the breaker opens, and opens again after every   *)
(* half-open attempt, even though half of the failures may be reported     *)
(* under the other gateway's name.                                         *)
Trips == <>[](~ razorpayUp) => []<>(circuitOpen = 1)
=============================================================================
