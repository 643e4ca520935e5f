SPECIFICATION FairSpec
CONSTANTS
  w1 = w1
  w2 = w2
  g1 = g1
  g2 = g2
  k1 = k1
  k2 = k2
  Plain = k1
  NoOne = NoOne
  None = None
  Writers <- MCWriters
  Transactions <- MCTransactions
  Workers <- MCWorkers
  Pollers <- MCPollers
  Keys <- MCKeys
  MaxGen = 2
  MaxFaults = 1
INVARIANTS TypeOK QuietIsFresh
PROPERTIES ListNeverGoesBack FreshInTheEnd
CHECK_DEADLOCK FALSE
