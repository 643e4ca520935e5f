SPECIFICATION Spec
CONSTANTS
  k1 = k1
  w1 = w1
  w2 = w2
  w3 = w3
  p1 = p1
  p2 = p2
  NoJob = NoJob
  NoRow = NoRow
  Keys <- OneKey
  Workers <- TwoWorkers
  Fingerprints <- TwoPayloads
  Lease = 1
  Backoff = 1
  TTL = 3
  MaxTime = 4
  MaxFaults = 1
  MaxCrashes = 1
SYMMETRY Symmetry
INVARIANTS TypeOK SingleOwner SingleEffect OwnedWhileProcessing AnswersMatch
CHECK_DEADLOCK FALSE
