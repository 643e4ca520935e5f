SPECIFICATION Spec
CONSTANTS
  o1 = o1
  w1 = w1
  w2 = w2
  NoJob = NoJob
  Orders <- OneOrder
  Workers <- TwoWorkers
  MaxFaults = 0
  MaxCrashes = 0
  MaxRefunds = 2
  LostReplies = FALSE
PROPERTY OnlyPendingIsFinalized
CHECK_DEADLOCK FALSE
