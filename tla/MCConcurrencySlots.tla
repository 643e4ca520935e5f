------------------------- MODULE MCConcurrencySlots -------------------------
(* Instances of ConcurrencySlots for TLC. *)
EXTENDS ConcurrencySlots, TLC

CONSTANTS c1, c2, c3, a1, s1, s2, t1, t2, t3

OnePool      == {a1}
ThreeCallers == {c1, c2, c3}
TwoProcesses == {s1, s2}
ThreeTickets == {t1, t2, t3}
One          == [p \in Pools |-> 1]

Symmetry == Permutations(Callers) \cup Permutations(Processes) \cup Permutations(Tickets)
=============================================================================
