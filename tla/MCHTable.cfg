SPECIFICATION FairSpec
CONSTANTS
  Keys <- MCKeys
  Data = {d1, d2}
  Hash <- MCHash
  InitSize = 1
  Factor = 1
  Absent = Absent
  MaxGrows = 3
INVARIANTS
  TableOK
PROPERTIES
  IterationInOrder
  IterationEnds
  ImplementsDictionary
