SPECIFICATION FairSpec
CONSTANTS
  r1 = r1
  r2 = r2
  r3 = r3
  k1 = k1
  k2 = k2
  p1 = p1
  p2 = p2
  s1 = s1
  s2 = s2
  None = None
  Requests <- MCRequests
  LaterTurns <- MCLaterTurns
  Keys <- MCKeys
  Fingerprints <- MCFingerprints
  Key <- MCKey
  Fingerprint <- MCFingerprint
  Cost <- MCCost
  Servers <- MCServers
  Host <- MCHost
  Deposit = 1
  Recharge = 1
  Reserve = 1
  QueueSize = 1
  MaxRecharges = 1
  MaxFaults = 1
INVARIANTS ChargedOnce BooksAgree ExhaustedIsKnown
PROPERTY RechargeIsSeen
CHECK_DEADLOCK FALSE
