SPECIFICATION Spec
CONSTANTS
  c1 = c1
  c2 = c2
  c3 = c3
  a1 = a1
  s1 = s1
  s2 = s2
  t1 = t1
  t2 = t2
  t3 = t3
  NoJob = NoJob
  NoSlot = NoSlot
  Pools <- OnePool
  Callers <- ThreeCallers
  Processes <- TwoProcesses
  Tickets <- ThreeTickets
  Limit <- One
  MaxWaiting <- One
  Timeout <- One
  TTL = 2
  WaitTTL = 2
  MaxTime = 3
  MaxFaults = 1
SYMMETRY Symmetry
INVARIANTS TypeOK LimitKept NoLeak QueueExact QueueBounded
CHECK_DEADLOCK FALSE
