SPECIFICATION MCSpec
CONSTANTS
  States = {s1, s2, s3}
  StKeys = {0, 1, 3}
  Events = {1, 3}
  NBuckets = 2
  EvtBuckets = 2
  MaxEvts = 2
  Null = Null
  LifeStates = {t1, t2}
  LifeQueued = {q1}
  LifeEvents = {1}
  BufSize = 4
  MaxText = 6
SYMMETRY StatesAlike
INVARIANTS
  KeysSound
  NoUseAfterFree
  OnlyKnownLeaks
  CommentsRemoved
PROPERTIES
  MarksOneStep
CHECK_DEADLOCK FALSE
