SPECIFICATION Spec
CONSTANTS
  Keys <- MCKeys
  Data = {d1, d2}
  Hash <- MCHash
  InitSize = 2
  Factor = 2
  Absent = Absent
  MaxGrows = 3
PROPERTIES
  IteratesOverAll
