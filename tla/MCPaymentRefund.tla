--------------------------- MODULE MCPaymentRefund ---------------------------
(* Instances of PaymentRefund for TLC. *)
EXTENDS PaymentRefund, TLC

CONSTANTS o1, w1, w2

OneOrder   == {o1}
OneWorker  == {w1}
TwoWorkers == {w1, w2}

WorkerSymmetry == Permutations(Workers)
=============================================================================
