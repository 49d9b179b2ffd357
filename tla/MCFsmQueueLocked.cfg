SPECIFICATION FairSpec
CONSTANTS
  NQueues = 2
  p1 = p1
  p2 = p2
  c1 = c1
  m = m
  Null = Null
  Threads <- MCLocked
  Queuers <- MCProducers
  Servers <- MCNone
  Counters <- MCCounter
  Chunks = {e1, e2, e3}
INVARIANTS
  CountExact
PROPERTIES
  ImplementsQueues
