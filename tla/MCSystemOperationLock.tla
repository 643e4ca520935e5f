----------------------- MODULE MCSystemOperationLock -----------------------
(* Instances of SystemOperationLock for TLC. *)
EXTENDS SystemOperationLock, TLC

CONSTANTS o1, o2

TwoOperations == {o1, o2}
OneKey        == {LockKey}

Symmetry == Permutations(Operations)
=============================================================================
