--------------------------- MODULE MCPaymentQueue ---------------------------
(* Instances of PaymentQueue for TLC.                                      *)
EXTENDS PaymentQueue, TLC

CONSTANTS i1, i2, c1, c2, a1

\* Transfer ids and cycles are interchangeable: no action tells two apart.
QueueSymmetry == Permutations(Items) \cup Permutations(Cycles)
=============================================================================
