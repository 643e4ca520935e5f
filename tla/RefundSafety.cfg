SPECIFICATION Spec
CONSTANTS
  o1 = o1
  w1 = w1
  w2 = w2
  NoJob = NoJob
  Orders <- OneOrder
  Workers <- TwoWorkers
  MaxFaults = 2
  MaxCrashes = 1
  MaxRefunds = 2
  LostReplies = TRUE
SYMMETRY WorkerSymmetry
INVARIANTS TypeOK RefundedIsPaidBack SingleRefunder DeductionAccounted DeductedOnceByTurns
PROPERTY RefundedIsFinal
CHECK_DEADLOCK FALSE
