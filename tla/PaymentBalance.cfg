SPECIFICATION Spec
CONSTANTS
  o1 = o1
  w1 = w1
  w2 = w2
  NoJob = NoJob
  Orders <- OneOrder
  Subscription <- NoOrders
  Workers <- TwoWorkers
  MaxFaults = 2
  MaxCrashes = 1
  HandRedeem = TRUE
  LostReplies = TRUE
SYMMETRY WorkerSymmetry
INVARIANTS TypeOK SingleFulfiller NoGrantWithoutPayment BalanceCreditedOnce CompletedIsGranted
PROPERTIES PaidIsNeverTakenBack PromiseKept
CHECK_DEADLOCK FALSE
