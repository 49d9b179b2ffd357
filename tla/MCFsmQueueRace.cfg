SPECIFICATION Spec
CONSTANTS
  NQueues = 2
  p1 = p1
  p2 = p2
  c1 = c1
  m = m
  Null = Null
  Threads <- MCRace
  Queuers = {p1}
  Servers = {c1}
  Counters <- MCNone
  Chunks = {e1, e2}
INVARIANTS
  NoLostEvent
