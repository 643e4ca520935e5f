SPECIFICATION FairSpec
CONSTANTS
  o1 = o1
  w1 = w1
  w2 = w2
  NoJob = NoJob
  Orders <- OneOrder
  Subscription <- OneOrder
  Workers <- TwoWorkers
  MaxFaults = 1
  MaxCrashes = 0
  HandRedeem = FALSE
  LostReplies = FALSE
PROPERTIES AssignmentIsNotRepeated PaymentIsHonoured
CHECK_DEADLOCK FALSE
