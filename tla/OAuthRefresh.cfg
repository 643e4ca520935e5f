SPECIFICATION FairSpec
CONSTANTS
  c1 = c1
  c2 = c2
  r1 = r1
  s1 = s1
  s2 = s2
  NoWorker = NoWorker
  NoToken = NoToken
  Workers <- MCWorkers
  Cycles <- MCCycles
  Servers <- MCServers
  Host <- MCHost
  MaxRetries = 2
  MaxGen = 2
  MaxFaults = 2
INVARIANTS SingleRefresher TokenKept NoFalseAlarm
PROPERTY DueIsServed
CHECK_DEADLOCK FALSE
