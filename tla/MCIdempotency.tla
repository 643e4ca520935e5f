---------------------------- MODULE MCIdempotency ----------------------------
(* Instances of Idempotency for TLC. *)
EXTENDS Idempotency, TLC

CONSTANTS k1, w1, w2, w3, p1, p2

OneKey       == {k1}
TwoWorkers   == {w1, w2}
ThreeWorkers == {w1, w2, w3}
TwoPayloads  == {p1, p2}

Symmetry == Permutations(Workers) \cup Permutations(Fingerprints)
=============================================================================
