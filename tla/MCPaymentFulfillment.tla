------------------------ MODULE MCPaymentFulfillment ------------------------
(* Instances of PaymentFulfillment for TLC. *)
EXTENDS PaymentFulfillment, TLC

CONSTANTS o1, w1, w2

OneOrder   == {o1}
NoOrders   == {}
TwoWorkers == {w1, w2}

WorkerSymmetry == Permutations(Workers)
=============================================================================
