--------------------------- MODULE MCPaymentLedger ---------------------------
EXTENDS PaymentLedger, TLC

CONSTANTS p1, a1, a2, a3, auth, capt, fail, paid, drop, drop2, other, r1, r2,
          d1, d2

(* At Razorpay: a failed attempt, then one that is authorized and captured. *)
(* At Cashfree: two failed attempts, whose events share the id              *)
(* order_id_FAILED, then one that is charged.  At both: an event that the   *)
(* service does not handle, at Cashfree with the id of the charge, and two  *)
(* refunds.                                                                 *)
MCPaymentOf == [c \in Events \union Refunds |-> p1]
MCAttemptOf == auth :> a2 @@ capt :> a2 @@ fail :> a1
            @@ drop :> a1 @@ drop2 :> a3 @@ paid :> a2 @@ other :> a2
MCKindOf == auth :> "payment.authorized" @@ capt :> "payment.captured"
         @@ fail :> "payment.failed" @@ other :> "unhandled"
         @@ drop :> "PAYMENT_FAILED_WEBHOOK" @@ drop2 :> "PAYMENT_FAILED_WEBHOOK"
         @@ paid :> "PAYMENT_SUCCESS_WEBHOOK"
MCIdOf == auth :> 1 @@ capt :> 2 @@ fail :> 3 @@ other :> 6
       @@ drop :> 5 @@ drop2 :> 5 @@ paid :> 6

MCScenarios == {{}, {"overlap"}, {"overlap", "gateway"}, {"db", "gateway", "crash"},
                {"overlap", "db", "gateway", "crash"}}
Symmetry == Permutations({d1, d2}) \union Permutations({r1, r2})
=============================================================================
