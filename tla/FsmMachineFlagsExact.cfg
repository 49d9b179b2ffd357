SPECIFICATION Spec
CONSTANTS
  States = {s1, s2, s3}
  StKeys = {0, 1, 2}
  Events = {0}
  NBuckets = 4
  EvtBuckets = 2
  MaxEvts = 3
  Null = Null
PROPERTIES
  FlagsExact
CHECK_DEADLOCK FALSE
