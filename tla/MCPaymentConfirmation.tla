------------------------- MODULE MCPaymentConfirmation -------------------------
(* Values for model checking PaymentConfirmation. *)
EXTENDS PaymentConfirmation, TLC

RequestSymmetry == Permutations(Requests)
=============================================================================
