-------------------------- MODULE MCOrderFulfilment --------------------------
(* Two messages for one payment, and one that names a product nobody sells. *)
(* With Kafka faults customers ask for tokens, which expire, and the third  *)
(* message stays away; otherwise nobody asks.  With these faults and with   *)
(* shutdowns, when the second message stays away, invoices stay in work.    *)
EXTENDS OrderFulfilment, TLC

CONSTANTS p1, p2, m1, m2, m3

MCPaymentOf == m1 :> p1 @@ m2 :> p1 @@ m3 :> p2
MCScenarios ==
  {{}, {"shutdown"}, {"db", "crash", "rebalance"}, {"db", "kafka", "crash"}}

InvoicesStay == \A p \in Payments : invoice'[p] \in {"none", "running"}
Focus ==
  /\ "kafka" \in faults => m3 \notin sent' /\ InvoicesStay
  /\ "shutdown" \in faults => m2 \notin sent' /\ InvoicesStay
  /\ "kafka" \notin faults => UNCHANGED <<stage, expired>>
MCNext == Next /\ Focus
MCSpec == Init /\ [][MCNext]_vars /\ Fairness
=============================================================================
