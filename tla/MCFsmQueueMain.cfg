SPECIFICATION FairSpec
CONSTANTS
  NQueues = 3
  p1 = p1
  p2 = p2
  c1 = c1
  m = m
  Null = Null
  Threads <- MCMain
  Queuers <- MCMain
  Servers <- MCMain
  Counters <- MCMain
  Chunks = {e1, e2, e3}
INVARIANTS
  NoLostEvent
  NoDangling
PROPERTIES
  ImplementsQueues
  CallsReturn
