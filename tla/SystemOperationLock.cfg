SPECIFICATION Spec
CONSTANTS
  o1 = o1
  o2 = o2
  NoJob = NoJob
  NoRow = NoRow
  NoLoop = NoLoop
  LockKey = LockKey
  Keys <- OneKey
  Fingerprints <- TwoOperations
  Lease = 6
  TTL = 7
  MaxTime = 9
  MaxFaults = 1
  MaxCrashes = 1
SYMMETRY Symmetry
INVARIANTS TypeOK OneOperation LockedUntilReused
CHECK_DEADLOCK FALSE
