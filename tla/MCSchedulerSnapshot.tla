------------------------ MODULE MCSchedulerSnapshot ------------------------
(* Instances of SchedulerSnapshot for TLC: a statement and a transaction   *)
(* that change the account, and two goroutines of any kind.                *)
EXTENDS SchedulerSnapshot

CONSTANTS w1, w2, g1, g2, k1, k2

MCWriters == {w1, w2}
MCTransactions == {w2}
MCWorkers == {g1, g2}
MCPollers == {g1}
MCKeys == {k1, k2}
=============================================================================
