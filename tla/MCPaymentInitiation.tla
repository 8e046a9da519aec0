------------------------ MODULE MCPaymentInitiation ------------------------
EXTENDS PaymentInitiation, TLC

CONSTANTS r1, r2, r3, r4, k1, k2

(* Three attempts under one key, and one payment under another. *)
MCKeyOf == r1 :> k1 @@ r2 :> k1 @@ r3 :> k1 @@ r4 :> k2
=============================================================================
